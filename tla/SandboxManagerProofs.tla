----------------------- MODULE SandboxManagerProofs -----------------------
(***************************************************************************)
(* Proofs about SandboxManager, for every number of actors, every sequence *)
(* of test cases and every allocation that fails.                          *)
(***************************************************************************)
EXTENDS SandboxManager, TLAPS

AfterCacheSteps == {"guest", "map", "eptp", "load"}

-----------------------------------------------------------------------------
(* Types.                                                                  *)

\* What the helpers of the model return.
Sizes == [Arrays -> 0..MAX_ACTORS]
Values == [Pointers -> {"none", "current", "stale"}]

LEMMA FreedType ==
    ASSUME pointer \in Values, NEW area
    PROVE  Freed(area) \in Values
  BY DEF Freed, Values

LEMMA ResizedType ==
    ASSUME size \in Sizes, n_actors \in 1..MAX_ACTORS, NEW arrays, NEW got
    PROVE  Resized(arrays, got) \in Sizes
  BY ActorsAssumption DEF Resized, Sizes

LEMMA ExceptType ==
    ASSUME NEW s \in Sizes, NEW a \in Arrays, NEW k \in 0..MAX_ACTORS
    PROVE  [s EXCEPT ![a] = k] \in Sizes
  BY DEF Sizes

LEMMA WalkedType ==
    ASSUME pointer \in Values
    PROVE  Walked \in Values
  BY DEF Walked, Values, Pointers

LEMMA TypeStep == TypeOK /\ [Next]_vars => TypeOK'
<1> SUFFICES ASSUME TypeOK, [Next]_vars PROVE TypeOK'
    OBVIOUS
<1>0. /\ pc \in PCs /\ n_actors \in 1..MAX_ACTORS /\ vm \in BOOLEAN /\ size \in Sizes
      /\ counter \in [Counters -> 0..MAX_ACTORS] /\ pointer \in Values
      /\ tc_ready \in BOOLEAN /\ failed \in BOOLEAN /\ oops \in BOOLEAN
    BY DEF TypeOK, Sizes, Values
<1>t. ASSUME pc' \in PCs, n_actors' \in 1..MAX_ACTORS, vm' \in BOOLEAN, size' \in Sizes,
             counter' \in [Counters -> 0..MAX_ACTORS], pointer' \in Values,
             tc_ready' \in BOOLEAN, failed' \in BOOLEAN, oops' \in BOOLEAN
      PROVE  TypeOK'
    BY <1>t DEF TypeOK, Sizes, Values
<1> USE ActorsAssumption DEF PCs
<1>1. CASE Reload
    <2>1. size' \in Sizes
        BY <1>1 DEF Reload, Loaded, Sizes
    <2>2. counter' \in [Counters -> 0..MAX_ACTORS]
        BY <1>1 DEF Reload, Loaded
    <2>3. pointer' \in Values
        BY <1>1 DEF Reload, Loaded, Values
    <2> QED
        <3>1. pc' \in PCs /\ n_actors' \in 1..MAX_ACTORS
            BY <1>0, <1>1 DEF Reload
        <3>2. vm' \in BOOLEAN /\ tc_ready' \in BOOLEAN /\ failed' \in BOOLEAN /\ oops' \in BOOLEAN
            BY <1>0, <1>1 DEF Reload
        <3> QED
            BY <1>0, <2>1, <2>2, <2>3, <3>1, <3>2, <1>t
<1>2. ASSUME NEW n \in 1..MAX_ACTORS, NEW guests \in BOOLEAN, test_case_store(n, guests)
      PROVE  TypeOK'
    BY <1>2 DEF test_case_store, TypeOK
<1>3. CASE allocate_util_and_data
    <2>1. size' \in Sizes
        BY <1>0, <1>3, ResizedType DEF allocate_util_and_data
    <2>2. pointer' \in Values
        BY <1>0, <1>3, FreedType DEF allocate_util_and_data
    <2> QED
        BY <1>0, <1>3, <1>t, <2>1, <2>2 DEF allocate_util_and_data, Fail, Goto
<1>4. CASE allocate_code
    <2>1. size' \in Sizes
        BY <1>0, <1>4, ResizedType DEF allocate_code
    <2>2. pointer' \in Values
        BY <1>0, <1>4, FreedType DEF allocate_code
    <2> QED
        BY <1>0, <1>4, <1>t, <2>1, <2>2 DEF allocate_code, Fail, Goto
<1>5. CASE init_sandbox_pointers
    <2>1. pointer' \in Values
        BY <1>0, <1>5 DEF init_sandbox_pointers, Values
    <2> QED
        BY <1>0, <1>5, <1>t, <2>1 DEF init_sandbox_pointers, Goto, TypeOK
<1>6. CASE ClearSandbox
    BY <1>6 DEF ClearSandbox, Goto, Oops, TypeOK
<1>7. CASE cache_host_pteps
    <2>1. size' \in Sizes
        BY <1>0, <1>7, ResizedType DEF cache_host_pteps
    <2>2. counter' \in [Counters -> 0..MAX_ACTORS]
        BY <1>0, <1>7 DEF cache_host_pteps
    <2>3. pointer' \in Values
        BY <1>0, <1>7, WalkedType DEF cache_host_pteps, WalkPages
    <2>4. pc' \in PCs /\ UNCHANGED <<n_actors, vm, tc_ready>>
        BY <1>0, <1>7 DEF cache_host_pteps, WalkPages, AfterCache, Fail, Goto
    <2>5. failed' \in BOOLEAN /\ oops' \in BOOLEAN
        BY <1>0, <1>7 DEF cache_host_pteps, WalkPages, AfterCache, Fail, Goto
    <2> QED
        BY <1>0, <1>t, <2>1, <2>2, <2>3, <2>4, <2>5
<1>8. CASE allocate_guest_page_tables
    <2>1. size' \in Sizes
        <3> DEFINE tables == Resized({"guest_tables", "vmlaunch"}, {"guest_tables"})
                   page == [tables EXCEPT !["vmlaunch"] = MAX_ACTORS]
                   ptes == [page EXCEPT !["guest_ptes"] = 1]
        <3> HIDE DEF tables, page, ptes
        <3>0. /\ {"vmlaunch", "guest_ptes", "guest_eptes"} \subseteq Arrays
              /\ 1 \in 0..MAX_ACTORS /\ MAX_ACTORS \in 0..MAX_ACTORS
            BY DEF Arrays, GuestArrays
        <3>2. tables \in Sizes /\ Resized({"guest_tables", "vmlaunch"}, {}) \in Sizes
            BY <1>0, ResizedType DEF tables
        <3>3. page \in Sizes /\ ptes \in Sizes /\ [ptes EXCEPT !["guest_eptes"] = 1] \in Sizes
            <4>1. page \in Sizes
                BY <3>0, <3>2, ExceptType DEF page
            <4>2. ptes \in Sizes
                BY <3>0, <4>1, ExceptType DEF ptes
            <4> QED
                BY <3>0, <4>1, <4>2, ExceptType
        <3>4. \/ size' \in {size, Resized({"guest_tables", "vmlaunch"}, {}), tables, page, ptes}
              \/ size' = [ptes EXCEPT !["guest_eptes"] = 1]
            BY <1>8 DEF allocate_guest_page_tables, Oops, tables, page, ptes
        <3> QED
            BY <1>0, <3>2, <3>3, <3>4
    <2>2. counter' \in [Counters -> 0..MAX_ACTORS] /\ pointer' \in Values
        BY <1>0, <1>8 DEF allocate_guest_page_tables, Oops, TypeOK, Values
    <2>3. pc' \in PCs /\ UNCHANGED <<n_actors, vm, tc_ready>>
        BY <1>0, <1>8 DEF allocate_guest_page_tables, Fail, Goto, Oops
    <2>4. failed' \in BOOLEAN /\ oops' \in BOOLEAN
        BY <1>0, <1>8 DEF allocate_guest_page_tables, Fail, Goto, Oops
    <2> QED
        BY <1>0, <1>t, <2>1, <2>2, <2>3, <2>4
<1>9. CASE map_sandbox_to_guest_memory
    <2>1. size' \in Sizes
        BY <1>0, <1>9, ResizedType DEF map_sandbox_to_guest_memory
    <2>2. counter' \in [Counters -> 0..MAX_ACTORS]
        BY <1>0, <1>9 DEF map_sandbox_to_guest_memory
    <2>3. pointer' \in Values
        BY <1>0, <1>9 DEF map_sandbox_to_guest_memory, Values
    <2> QED
        BY <1>0, <1>9, <1>t, <2>1, <2>2, <2>3 DEF map_sandbox_to_guest_memory, Fail, Goto
<1>10. CASE update_eptp
    <2>1. size' \in Sizes
        BY <1>0, <1>10, ResizedType DEF update_eptp
    <2> QED
        BY <1>0, <1>10, <1>t, <2>1 DEF update_eptp, Fail, Goto
<1>11. CASE load_sandbox_code
    <2>1. CASE size["code"] < n_actors
        BY <1>11, <2>1 DEF load_sandbox_code, Oops, TypeOK
    <2>2. CASE ~(size["code"] < n_actors)
        <3>1. counter' \in [Counters -> 0..MAX_ACTORS]
            BY <1>0, <1>11, <2>2 DEF load_sandbox_code
        <3>2. pointer' \in Values
            BY <1>0, <1>11, <2>2 DEF load_sandbox_code, Values, Pointers
        <3>3. tc_ready' \in BOOLEAN
            BY <1>0, <1>11, <2>2 DEF load_sandbox_code
        <3> QED
            BY <1>0, <1>11, <1>t, <2>2, <3>1, <3>2, <3>3 DEF load_sandbox_code
    <2> QED
        BY <2>1, <2>2
<1>12. CASE Measure
    <2>1. size' \in Sizes
        <3>1. size' \in {size, Resized(OrigArrays, OrigArrays)}
            BY <1>12, Zenon DEF Measure
        <3> QED
            BY <1>0, <3>1, ResizedType
    <2>2. counter' \in [Counters -> 0..MAX_ACTORS]
        <3>1. counter' \in {counter, [counter EXCEPT !["store_orig"] = n_actors]}
            BY <1>12, Zenon DEF Measure
        <3> QED
            BY <1>0, <3>1
    <2>3. oops' \in BOOLEAN /\ failed' \in BOOLEAN
        BY <1>0, <1>12 DEF Measure
    <2> QED
        BY <1>0, <1>12, <1>t, <2>1, <2>2, <2>3 DEF Measure
<1>13. CASE UNCHANGED vars
    BY <1>13 DEF vars, TypeOK
<1> QED
    BY <1>1, <1>2, <1>3, <1>4, <1>5, <1>6, <1>7, <1>8, <1>9, <1>10, <1>11, <1>12, <1>13 DEF Next

LEMMA TypeInit == Init => TypeOK
<1> SUFFICES ASSUME Init PROVE TypeOK
    OBVIOUS
<1>1. size \in [Arrays -> 0..MAX_ACTORS]
    BY ActorsAssumption DEF Init, Loaded
<1>2. counter \in [Counters -> 0..MAX_ACTORS]
    BY ActorsAssumption DEF Init, Loaded
<1>3. pointer \in [Pointers -> {"none", "current", "stale"}]
    BY DEF Init, Loaded
<1>4. pc \in PCs /\ n_actors \in 1..MAX_ACTORS
    BY ActorsAssumption DEF Init, PCs
<1>5. vm \in BOOLEAN /\ tc_ready \in BOOLEAN /\ failed \in BOOLEAN /\ oops \in BOOLEAN
    BY DEF Init
<1> QED
    BY <1>1, <1>2, <1>3, <1>4, <1>5 DEF TypeOK

\* Every variable of the model keeps its type.
THEOREM TypeCorrect == Spec => []TypeOK
  BY TypeInit, TypeStep, PTL DEF Spec

-----------------------------------------------------------------------------
(* What is resized.                                                        *)

LEMMA ResizedAt ==
    ASSUME NEW arrays, NEW got, NEW a \in Arrays
    PROVE  Resized(arrays, got)[a] = IF a \in arrays THEN IF a \in got THEN n_actors ELSE 0
                                     ELSE size[a]
  BY DEF Resized

\* allocate_guest_page_tables touches the arrays for guests only, and when it
\* succeeds with a larger number of actors it leaves them in this state.
LEMMA GuestSizes ==
    ASSUME TypeOK, allocate_guest_page_tables
    PROVE  /\ \A a \in Arrays \ GuestArrays : size'[a] = size[a]
           /\ size'["ept_ptr"] = size["ept_ptr"]
           /\ pc' = "map" /\ n_actors > counter["allocate_guest"] =>
                 /\ size'["guest_tables"] = n_actors /\ size'["vmlaunch"] = MAX_ACTORS
                 /\ size'["guest_ptes"] = 1 /\ size'["guest_eptes"] = 1
<1> DEFINE none == Resized({"guest_tables", "vmlaunch"}, {})
           tables == Resized({"guest_tables", "vmlaunch"}, {"guest_tables"})
           page == [tables EXCEPT !["vmlaunch"] = MAX_ACTORS]
           ptes == [page EXCEPT !["guest_ptes"] = 1]
           eptes == [ptes EXCEPT !["guest_eptes"] = 1]
<1>1. none \in [Arrays -> Nat] /\ tables \in [Arrays -> Nat]
    BY ActorsAssumption DEF Resized, TypeOK
<1>2. GuestArrays \subseteq Arrays
    BY DEF Arrays
<1>3. \A a \in Arrays \ {"guest_tables", "vmlaunch"} : none[a] = size[a] /\ tables[a] = size[a]
    BY ResizedAt
<1>4. tables["guest_tables"] = n_actors
    BY <1>2, ResizedAt DEF GuestArrays
<1>5. CASE n_actors <= counter["allocate_guest"]
    BY <1>5 DEF allocate_guest_page_tables, Oops, TypeOK, Counters
<1>6. CASE ~(n_actors <= counter["allocate_guest"])
    <2> HIDE DEF none, tables
    <2>1. \/ size' \in {none, tables, page, ptes} /\ pc' = "idle"
          \/ size' = eptes
        BY <1>6 DEF allocate_guest_page_tables, Fail, none, tables
    <2>2. \A a \in Arrays \ {"guest_ptes", "guest_eptes", "vmlaunch"} :
              page[a] = tables[a] /\ ptes[a] = tables[a] /\ eptes[a] = tables[a]
        BY <1>1
    <2>3. /\ eptes["vmlaunch"] = MAX_ACTORS
          /\ eptes["guest_ptes"] = 1 /\ eptes["guest_eptes"] = 1
        BY <1>1, <1>2 DEF GuestArrays
    <2> HIDE DEF page, ptes, eptes
    <2> QED
        BY <1>2, <1>3, <1>4, <2>1, <2>2, <2>3 DEF GuestArrays
<1> QED
    BY <1>5, <1>6

-----------------------------------------------------------------------------
(* A ready test case has its memory.                                       *)

\* Only between the two allocations and init_sandbox_pointers is there an area
\* whose pointers are not current; when a failure leaves them so for longer, one
\* of the areas is NULL, and the test of its size ends the next test case.
Pointing ==
    /\ \A p \in {"data", "code"} : pointer[p] # "none"
    /\ pc \notin {"code", "pointers"} =>
          \/ pointer["data"] = "current" /\ pointer["code"] = "current"
          \/ size["util_data"] = 0 \/ size["code"] = 0

\* What the steps of test_case_store established so far.
Progress ==
    /\ pc = "cache" => size["util_data"] >= n_actors
    /\ pc \in AfterCacheSteps =>
          /\ \A a \in {"util_data"} \cup HostArrays : size[a] >= n_actors
          /\ pointer["data_ptes"] = pointer["data"] /\ pointer["code_ptes"] = pointer["code"]
    /\ pc = "eptp" \/ (pc = "load" /\ vm) =>
          \/ pointer["guest_map"] = "current"
          \/ "stale" \in {pointer["data"], pointer["code"]}

\* What a ready test case may rely on.
Ready ==
    tc_ready =>
        /\ pc = "idle"
        /\ \A a \in Areas \cup HostArrays : size[a] >= n_actors
        /\ \A p \in {"data", "code", "entry", "data_ptes", "code_ptes"} :
              pointer[p] = "current"
        /\ vm => pointer["guest_map"] = "current"

\* Inductive, and stronger than SandboxReady.
ReadyInv == Pointing /\ Progress /\ Ready

LEMMA ReadyInit == Init => ReadyInv
  BY DEF Init, Loaded, ReadyInv, Pointing, Progress, Ready, Pointers, AfterCacheSteps

LEMMA ReadyStep == TypeOK /\ ReadyInv /\ [Next]_vars => ReadyInv'
<1> SUFFICES ASSUME TypeOK, ReadyInv, [Next]_vars PROVE ReadyInv'
    OBVIOUS
<1>0. /\ Areas \cup HostArrays \subseteq Arrays /\ OrigArrays \subseteq Arrays
      /\ n_actors \in Nat /\ n_actors > 0
      /\ size \in [Arrays -> Nat]
    BY ActorsAssumption DEF TypeOK, Arrays
<1> USE DEF Areas, HostArrays, AfterCacheSteps
<1>1. CASE Reload
    BY <1>1 DEF Reload, Loaded, ReadyInv, Pointing, Progress, Ready, Pointers
<1>2. ASSUME NEW n \in 1..MAX_ACTORS, NEW guests \in BOOLEAN, test_case_store(n, guests)
      PROVE  ReadyInv'
    BY <1>2 DEF test_case_store, ReadyInv, Pointing, Progress, Ready
<1>3. CASE allocate_util_and_data
    <2>1. size'["util_data"] \in {0, n_actors} /\ size'["code"] = size["code"]
        BY <1>0, <1>3, ResizedAt DEF allocate_util_and_data
    <2>2. pointer'["code"] = pointer["code"] /\ pointer'["data"] # "none"
        BY <1>3 DEF allocate_util_and_data, Freed, Pointers, ReadyInv, Pointing, TypeOK
    <2>3. \/ pc' = "idle" /\ size'["util_data"] = 0
          \/ pc' = "code"
        BY <1>0, <1>3, ResizedAt DEF allocate_util_and_data, Fail, Goto
    <2>4. ~tc_ready /\ tc_ready' = tc_ready
        BY <1>3 DEF allocate_util_and_data, Fail, Goto, ReadyInv, Ready
    <2> QED
        BY <2>1, <2>2, <2>3, <2>4 DEF ReadyInv, Pointing, Progress, Ready
<1>4. CASE allocate_code
    <2>1. pointer'["data"] = pointer["data"] /\ pointer'["code"] # "none"
        BY <1>4 DEF allocate_code, Freed, Pointers, ReadyInv, Pointing, TypeOK
    <2>2. \/ pc' = "idle" /\ size'["code"] = 0
          \/ pc' = "pointers"
        BY <1>0, <1>4, ResizedAt DEF allocate_code, Fail, Goto
    <2>3. ~tc_ready /\ tc_ready' = tc_ready
        BY <1>4 DEF allocate_code, Fail, Goto, ReadyInv, Ready
    <2> QED
        BY <2>1, <2>2, <2>3 DEF ReadyInv, Pointing, Progress, Ready
<1>5. CASE init_sandbox_pointers
    BY <1>5 DEF init_sandbox_pointers, Goto, ReadyInv, Pointing, Progress, Ready, Pointers
<1>6. CASE ClearSandbox
    BY <1>0, <1>6 DEF ClearSandbox, Goto, Oops, ReadyInv, Pointing, Progress, Ready
<1>7. CASE cache_host_pteps
    <2>1. pc = "cache" /\ ~tc_ready /\ ~tc_ready' /\ n_actors' = n_actors
        BY <1>7 DEF cache_host_pteps, WalkPages, Fail, Goto, ReadyInv, Ready
    <2>2. size'["util_data"] = size["util_data"] /\ size'["code"] = size["code"]
        BY <1>0, <1>7, ResizedAt DEF cache_host_pteps
    <2>3. pointer' = pointer \/ pointer' = Walked
        BY <1>7 DEF cache_host_pteps, WalkPages
    <2>4. pointer'["data"] = pointer["data"] /\ pointer'["code"] = pointer["code"]
        BY <2>3 DEF Walked, Pointers
    <2>5. \/ pc' \in {"idle", "cache"}
          \/ /\ pc' \in {"guest", "load"} /\ pointer' = Walked
             /\ \A a \in HostArrays : size'[a] >= n_actors
        BY <1>7 DEF cache_host_pteps, WalkPages, Fail, Goto, AfterCache
    <2>6. pc' = "load" => ~vm'
        BY <1>7 DEF cache_host_pteps, WalkPages, Fail, Goto, AfterCache
    <2> QED
        BY <1>0, <2>1, <2>2, <2>4, <2>5, <2>6 DEF ReadyInv, Pointing, Progress, Ready, Walked, Pointers
<1>8. CASE allocate_guest_page_tables
    <2>1. pc = "guest" /\ pc' \in {"idle", "guest", "map"} /\ ~tc_ready /\ ~tc_ready' /\ n_actors' = n_actors
        BY <1>8 DEF allocate_guest_page_tables, Oops, Fail, Goto, ReadyInv, Ready
    <2>2. \A a \in Areas \cup HostArrays : size'[a] = size[a]
        BY <1>0, <1>8, GuestSizes DEF GuestArrays
    <2>3. \A p \in {"data", "code", "data_ptes", "code_ptes"} : pointer'[p] = pointer[p]
        BY <1>8 DEF allocate_guest_page_tables, Oops, TypeOK, Pointers
    <2> QED
        BY <2>1, <2>2, <2>3 DEF ReadyInv, Pointing, Progress, Ready
<1>9. CASE map_sandbox_to_guest_memory
    <2>1. pc = "map" /\ pc' \in {"idle", "eptp"} /\ ~tc_ready /\ ~tc_ready' /\ n_actors' = n_actors
        BY <1>9 DEF map_sandbox_to_guest_memory, Fail, Goto, ReadyInv, Ready
    <2>2. \A a \in Areas \cup HostArrays : size'[a] = size[a]
        BY <1>0, <1>9, ResizedAt DEF map_sandbox_to_guest_memory
    <2>3. \A p \in {"data", "code", "data_ptes", "code_ptes"} : pointer'[p] = pointer[p]
        BY <1>9 DEF map_sandbox_to_guest_memory, TypeOK, Pointers
    <2>4. pc' = "eptp" => \/ pointer'["guest_map"] = "current"
                          \/ "stale" \in {pointer["data"], pointer["code"]}
        BY <1>9 DEF map_sandbox_to_guest_memory, TypeOK, Pointers, Fail
    <2> QED
        BY <2>1, <2>2, <2>3, <2>4 DEF ReadyInv, Pointing, Progress, Ready
<1>10. CASE update_eptp
    <2>1. /\ pc = "eptp" /\ pc' \in {"idle", "load"} /\ ~tc_ready /\ ~tc_ready'
          /\ UNCHANGED <<n_actors, pointer>>
        BY <1>10 DEF update_eptp, Fail, Goto, ReadyInv, Ready
    <2>2. \A a \in Areas \cup HostArrays : size'[a] = size[a]
        BY <1>0, <1>10, ResizedAt DEF update_eptp
    <2> QED
        BY <2>1, <2>2 DEF ReadyInv, Pointing, Progress, Ready
<1>11. CASE load_sandbox_code
    <2>1. CASE size["code"] < n_actors
        BY <1>11, <2>1 DEF load_sandbox_code, Oops, ReadyInv, Pointing, Progress, Ready
    <2>2. CASE ~(size["code"] < n_actors)
        <3>1. /\ pc = "load" /\ pc' = "idle" /\ UNCHANGED <<n_actors, vm, size>>
              /\ \A p \in Pointers \ {"entry"} : pointer'[p] = pointer[p]
              /\ pointer'["entry"] \in {"none", pointer["code"]}
              /\ tc_ready' => pointer'["entry"] # "none"
            BY <1>11, <2>2 DEF load_sandbox_code, TypeOK, Pointers
        <3>2. size["code"] > 0 /\ size["util_data"] > 0 /\ size["code"] >= n_actors
            BY <1>0, <2>2, <3>1 DEF ReadyInv, Progress
        <3>3. pointer["data"] = "current" /\ pointer["code"] = "current"
            BY <3>1, <3>2 DEF ReadyInv, Pointing
        <3> QED
            BY <3>1, <3>2, <3>3 DEF ReadyInv, Pointing, Progress, Ready, Pointers
    <2> QED
        BY <2>1, <2>2
<1>12. CASE Measure
    <2>1. UNCHANGED <<pc, n_actors, vm, pointer, tc_ready>> /\ pc = "idle"
        BY <1>12 DEF Measure
    <2>2. size' \in {size, Resized(OrigArrays, OrigArrays)}
        BY <1>12, Zenon DEF Measure
    <2>3. \A a \in Areas \cup HostArrays : size'[a] = size[a]
        BY <1>0, <2>2, ResizedAt DEF OrigArrays
    <2> QED
        BY <2>1, <2>3 DEF ReadyInv, Pointing, Progress, Ready
<1>13. CASE UNCHANGED vars
    BY <1>13 DEF vars, ReadyInv, Pointing, Progress, Ready
<1> QED
    BY <1>1, <1>2, <1>3, <1>4, <1>5, <1>6, <1>7, <1>8, <1>9, <1>10, <1>11, <1>12, <1>13 DEF Next

\* A test case is never ready with an area that is too small, a pointer into
\* memory that was freed, or cached page table entries of an earlier area,
\* after any sequence of test cases and failed allocations.
THEOREM SandboxAlwaysReady == Spec => []SandboxReady
<1>1. TypeOK /\ ReadyInv => SandboxReady
    BY DEF ReadyInv, Ready, SandboxReady
<1> QED
    BY <1>1, TypeCorrect, ReadyInit, ReadyStep, PTL DEF Spec

-----------------------------------------------------------------------------
(* Nothing is accessed outside of its array.                               *)

\* While no allocation has failed, every array is at least as large as the
\* counter of the function that resizes it.  The arrays for faulty guest pages
\* are the exception: allocate_guest_page_tables cuts them to one element, but
\* only for more actors than ever, which is when the next step resizes them.
CountersHold ==
    /\ \A a \in Areas : counter["allocate_sandbox"] <= size[a]
    /\ \A a \in HostArrays : counter["cache_host_pteps"] <= size[a]
    /\ \A a \in OrigArrays : counter["store_orig"] <= size[a]
    /\ counter["allocate_guest"] <= size["guest_tables"]
    /\ counter["allocate_guest"] > 0 => size["vmlaunch"] = MAX_ACTORS
    /\ counter["set_guest"] <= counter["allocate_guest"]
    /\ \A a \in {"guest_ptes", "guest_eptes"} :
          counter["set_guest"] <= size[a] \/ (pc = "map" /\ n_actors > counter["set_guest"])

\* What each step of test_case_store leaves for the next one.
StepsHold ==
    /\ tc_ready => pc = "idle"
    /\ pc \in {"util_data", "code"} => counter["allocate_sandbox"] < n_actors
    /\ pc \notin {"idle", "util_data"} => size["util_data"] >= n_actors
    /\ pc \notin {"idle", "util_data", "code"} => size["code"] >= n_actors
    /\ pc \in {"guest", "map", "eptp"} => vm
    /\ pc \in {"map", "eptp"} => counter["allocate_guest"] >= n_actors
    /\ pc = "eptp" => counter["set_guest"] >= n_actors
    /\ pc \in AfterCacheSteps \/ tc_ready => \A a \in HostArrays : size[a] >= n_actors
    /\ vm /\ (pc = "load" \/ tc_ready) => \A a \in GuestArrays : size[a] >= n_actors

\* Inductive, and stronger than OopsOnlyAfterFailure.
NoOopsInv == (oops => failed) /\ (~failed => CountersHold /\ StepsHold)

LEMMA NoOopsInit == Init => NoOopsInv
<1> SUFFICES ASSUME Init PROVE NoOopsInv
    OBVIOUS
<1>1. /\ \A a \in Arrays : size[a] = IF a \in GuestArrays THEN 0 ELSE 1
      /\ \A k \in Counters : counter[k] = IF k \in {"allocate_guest", "set_guest"} THEN 0 ELSE 1
    BY DEF Init, Loaded
<1> QED
    BY <1>1 DEF Init, NoOopsInv, CountersHold, StepsHold, Arrays, Areas, HostArrays, OrigArrays,
                GuestArrays, Counters, AfterCacheSteps

LEMMA NoOopsStep == TypeOK /\ NoOopsInv /\ [Next]_vars => NoOopsInv'
<1> SUFFICES ASSUME TypeOK, NoOopsInv, [Next]_vars, ~failed', Next PROVE NoOopsInv'
    <2>1. CASE UNCHANGED vars
        BY <2>1 DEF vars, NoOopsInv, CountersHold, StepsHold
    <2> QED
        BY <2>1 DEF NoOopsInv
<1>0. /\ Areas \cup HostArrays \cup OrigArrays \cup GuestArrays = Arrays
      /\ n_actors \in Nat /\ n_actors > 0 /\ n_actors <= MAX_ACTORS
      /\ size \in [Arrays -> Nat] /\ counter \in [Counters -> Nat] /\ MAX_ACTORS \in Nat
    BY ActorsAssumption DEF TypeOK, Arrays
<1> USE <1>0 DEF Areas, HostArrays, OrigArrays, GuestArrays, AfterCacheSteps, Counters
<1>1. CASE Reload
    <2>1. /\ \A a \in Arrays : size'[a] = IF a \in GuestArrays THEN 0 ELSE 1
          /\ \A k \in Counters : counter'[k] = IF k \in {"allocate_guest", "set_guest"} THEN 0 ELSE 1
          /\ pc' = "idle" /\ ~vm' /\ ~tc_ready' /\ oops' = oops
        BY <1>1 DEF Reload, Loaded
    <2> QED
        BY <2>1 DEF Next, NoOopsInv, CountersHold, StepsHold
<1>2. ~Reload => ~failed /\ CountersHold /\ StepsHold /\ ~oops
    BY DEF Next, test_case_store, allocate_util_and_data, allocate_code, init_sandbox_pointers,
           ClearSandbox, cache_host_pteps, WalkPages, allocate_guest_page_tables,
           map_sandbox_to_guest_memory, update_eptp, load_sandbox_code, Measure, Goto, Fail, Oops,
           NoOopsInv
<1>3. ASSUME NEW n \in 1..MAX_ACTORS, NEW guests \in BOOLEAN, test_case_store(n, guests), ~Reload
      PROVE  NoOopsInv'
    BY <1>2, <1>3 DEF test_case_store, NoOopsInv, CountersHold, StepsHold
<1>4. CASE allocate_util_and_data /\ ~Reload
    <2>1. /\ pc = "util_data" /\ pc' = "code" /\ UNCHANGED <<n_actors, vm, counter, tc_ready, oops>>
          /\ \A a \in Arrays : size'[a] = IF a = "util_data" THEN n_actors ELSE size[a]
        BY <1>4, ResizedAt DEF allocate_util_and_data, Goto, Fail
    <2> QED
        BY <1>2, <1>4, <2>1 DEF NoOopsInv, CountersHold, StepsHold
<1>5. CASE allocate_code /\ ~Reload
    <2>1. /\ pc = "code" /\ pc' = "pointers" /\ UNCHANGED <<n_actors, vm, counter, tc_ready, oops>>
          /\ \A a \in Arrays : size'[a] = IF a = "code" THEN n_actors ELSE size[a]
        BY <1>5, ResizedAt DEF allocate_code, Goto, Fail
    <2> QED
        BY <1>2, <1>5, <2>1 DEF NoOopsInv, CountersHold, StepsHold
<1>6. CASE init_sandbox_pointers /\ ~Reload
    BY <1>2, <1>6 DEF init_sandbox_pointers, Goto, NoOopsInv, CountersHold, StepsHold
<1>7. CASE ClearSandbox /\ ~Reload
    BY <1>2, <1>7 DEF ClearSandbox, Goto, Oops, NoOopsInv, CountersHold, StepsHold
<1>8. CASE cache_host_pteps /\ ~Reload
    <2>1. /\ pc = "cache" /\ UNCHANGED <<n_actors, vm, tc_ready>>
          /\ \A a \in Arrays : size'[a] = IF a \in HostArrays /\ n_actors > counter["cache_host_pteps"]
                                          THEN n_actors ELSE size[a]
          /\ counter' = [counter EXCEPT !["cache_host_pteps"] = n_actors]
        BY <1>8, ResizedAt DEF cache_host_pteps, WalkPages, Goto, Fail
    <2>2. \A a \in HostArrays : size'[a] >= n_actors /\ ~(size'[a] < n_actors)
        BY <1>2, <1>8, <2>1 DEF CountersHold
    <2>3. pc' = AfterCache /\ oops' = oops
        <3>1. WalkPages(size')
            BY <1>8 DEF cache_host_pteps, Fail
        <3> QED
            BY <2>2, <3>1 DEF WalkPages, Goto, Fail
    <2> QED
        BY <1>2, <1>8, <2>1, <2>2, <2>3 DEF AfterCache, NoOopsInv, CountersHold, StepsHold
<1>9. CASE allocate_guest_page_tables /\ ~Reload
    <2>1. CASE n_actors <= counter["allocate_guest"]
        <3>1. size["guest_tables"] >= n_actors
            BY <1>2, <1>9, <2>1 DEF CountersHold
        <3>2. /\ pc = "guest" /\ pc' = "map"
              /\ UNCHANGED <<n_actors, vm, size, counter, tc_ready, oops>>
            BY <1>9, <2>1, <3>1 DEF allocate_guest_page_tables, Goto
        <3> QED
            BY <1>2, <1>9, <2>1, <3>2 DEF NoOopsInv, CountersHold, StepsHold
    <2>2. CASE ~(n_actors <= counter["allocate_guest"])
        <3>1. /\ pc = "guest" /\ pc' = "map" /\ UNCHANGED <<n_actors, vm, tc_ready, oops>>
              /\ counter' = [counter EXCEPT !["allocate_guest"] = n_actors]
            BY <1>9, <2>2 DEF allocate_guest_page_tables, Goto, Fail
        <3>2. /\ \A a \in Arrays \ GuestArrays : size'[a] = size[a]
              /\ size'["guest_tables"] = n_actors /\ size'["vmlaunch"] = MAX_ACTORS
            BY <1>9, <2>2, <3>1, GuestSizes
        <3>3. n_actors > counter["set_guest"]
            BY <1>2, <1>9, <2>2 DEF CountersHold
        <3> QED
            BY <1>2, <1>9, <3>1, <3>2, <3>3 DEF NoOopsInv, CountersHold, StepsHold
    <2> QED
        BY <2>1, <2>2
<1>10. CASE map_sandbox_to_guest_memory /\ ~Reload
    <2>1. /\ pc = "map" /\ pc' = "eptp" /\ UNCHANGED <<n_actors, vm, tc_ready, oops>>
          /\ \A a \in Arrays : size'[a] = IF a \in {"guest_ptes", "guest_eptes"} /\ n_actors > counter["set_guest"]
                                          THEN n_actors ELSE size[a]
          /\ counter' = [counter EXCEPT !["set_guest"] = n_actors]
        BY <1>10, ResizedAt DEF map_sandbox_to_guest_memory, Goto, Fail
    <2> QED
        BY <1>2, <1>10, <2>1 DEF NoOopsInv, CountersHold, StepsHold
<1>11. CASE update_eptp /\ ~Reload
    <2>1. /\ pc = "eptp" /\ pc' = "load" /\ UNCHANGED <<n_actors, vm, counter, tc_ready, oops>>
          /\ \A a \in Arrays : size'[a] = IF a = "ept_ptr" THEN n_actors ELSE size[a]
        BY <1>11, ResizedAt DEF update_eptp, Goto, Fail
    <2> QED
        BY <1>2, <1>11, <2>1 DEF NoOopsInv, CountersHold, StepsHold
<1>12. CASE load_sandbox_code /\ ~Reload
    <2>1. /\ pc = "load" /\ pc' = "idle" /\ UNCHANGED <<n_actors, vm, size, oops>>
          /\ counter' = [counter EXCEPT !["allocate_sandbox"] = n_actors]
        <3>1. pc = "load" /\ ~(size["code"] < n_actors)
            BY <1>2, <1>12 DEF load_sandbox_code, StepsHold
        <3> QED
            BY <1>12, <3>1 DEF load_sandbox_code
    <2> QED
        BY <1>2, <1>12, <2>1 DEF NoOopsInv, CountersHold, StepsHold
<1>13. CASE Measure /\ ~Reload
    <2> DEFINE sizes == IF n_actors > counter["store_orig"]
                        THEN Resized(OrigArrays, OrigArrays) ELSE size
               used == OrigArrays \cup HostArrays \cup (IF vm THEN GuestArrays ELSE {})
    <2>1. /\ pc = "idle" /\ tc_ready /\ UNCHANGED <<pc, n_actors, vm, tc_ready>>
          /\ size' = sizes /\ counter' = [counter EXCEPT !["store_orig"] = n_actors]
          /\ oops' = (\E a \in used : sizes[a] < n_actors)
        BY <1>13 DEF Measure
    <2>2. \A a \in Arrays : sizes[a] = IF a \in OrigArrays /\ n_actors > counter["store_orig"]
                                       THEN n_actors ELSE size[a]
        BY ResizedAt
    <2> HIDE DEF sizes
    <2>3. \A a \in used : sizes[a] >= n_actors
        BY <1>2, <1>13, <2>1, <2>2 DEF CountersHold, StepsHold
    <2> QED
        BY <1>2, <1>13, <2>1, <2>2, <2>3 DEF NoOopsInv, CountersHold, StepsHold
<1> QED
    BY <1>1, <1>3, <1>4, <1>5, <1>6, <1>7, <1>8, <1>9, <1>10, <1>11, <1>12, <1>13 DEF Next

\* Without a failed allocation the counters of the five functions, each of
\* which decides alone whether to resize, never leave an array too short.
THEOREM NoOopsWithoutFailure == Spec => []OopsOnlyAfterFailure
<1>1. NoOopsInv => OopsOnlyAfterFailure
    BY DEF NoOopsInv, OopsOnlyAfterFailure
<1> QED
    BY <1>1, TypeCorrect, NoOopsInit, NoOopsStep, PTL DEF Spec

=============================================================================
