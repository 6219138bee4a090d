--------------------------- MODULE SandboxManager ---------------------------
(***************************************************************************)
(* The memory of the sandbox: the util, data and code areas, the pointers  *)
(* into them (struct sandbox, loaded_test_case_entry), the cached pointers *)
(* to their page table entries, and the arrays that the page table code    *)
(* keeps per actor.  All of them are resized when a test case with more    *)
(* actors arrives, each under a static counter of its own, and every       *)
(* allocation can fail and leave a test case half prepared.                *)
(*                                                                         *)
(* The size of an array is counted in actors, 0 is a NULL pointer.  A      *)
(* pointer into an area is current until the area is freed.  An access     *)
(* outside of an array, or through NULL, ends the run in oops.             *)
(***************************************************************************)
EXTENDS Naturals

CONSTANTS
    MAX_ACTORS   \* the largest number of actors of a test case

ASSUME ActorsAssumption == MAX_ACTORS \in Nat \ {0}

VARIABLES
    pc,         \* where test_case_store is, "idle" outside of it
    n_actors,   \* set by the parser
    vm,         \* features.includes_vm_actors
    size,       \* actors that each array has room for
    counter,    \* the old_n_actors of every function that resizes
    pointer,    \* what the pointers into the areas are worth
    tc_ready,
    failed,     \* history: an allocation failed since the module was loaded
    oops

vars == <<pc, n_actors, vm, size, counter, pointer, tc_ready, failed, oops>>

\* vmlaunch stands for the one page of that name: room for every actor, or NULL.
Areas == {"util_data", "code"}
HostArrays == {"data_pteps", "code_pteps"}
OrigArrays == {"orig_data", "orig_code", "host_faulty"}
GuestArrays == {"guest_tables", "vmlaunch", "guest_ptes", "guest_eptes", "ept_ptr"}
Arrays == Areas \cup HostArrays \cup OrigArrays \cup GuestArrays

Counters == {"allocate_sandbox", "cache_host_pteps", "store_orig", "allocate_guest", "set_guest"}

\* sandbox->util and sandbox->data move together, and so do their cached entries.
Pointers == {"data", "code", "entry", "data_ptes", "code_ptes", "guest_map"}

PCs == {"idle", "util_data", "code", "pointers", "clear", "cache", "guest", "map", "eptp", "load"}

(* Every variable has its type. *)
TypeOK ==
    /\ pc \in PCs /\ n_actors \in 1..MAX_ACTORS /\ vm \in BOOLEAN
    /\ size \in [Arrays -> 0..MAX_ACTORS]
    /\ counter \in [Counters -> 0..MAX_ACTORS]
    /\ pointer \in [Pointers -> {"none", "current", "stale"}]
    /\ tc_ready \in BOOLEAN /\ failed \in BOOLEAN /\ oops \in BOOLEAN

-----------------------------------------------------------------------------
(* Pointers into an area do not survive its being freed. *)
Freed(area) ==
    LET into == IF area = "code" THEN {"code", "code_ptes"} ELSE {"data", "data_ptes"}
    IN [p \in Pointers |->
          CASE p = "entry" /\ area = "code" -> "none"
            [] p \in into \cup {"guest_map"} /\ pointer[p] = "current" -> "stale"
            [] OTHER -> pointer[p]]

(* Arrays that a function frees first and then allocates in this order; the *)
(* ones after a failed allocation stay NULL.                                *)
Resized(arrays, got) == [a \in Arrays |-> IF a \in arrays
                                          THEN IF a \in got THEN n_actors ELSE 0
                                          ELSE size[a]]

Fail ==
    /\ pc' = "idle"
    /\ failed' = TRUE
    /\ UNCHANGED <<n_actors, vm, tc_ready, oops>>

Oops ==
    /\ oops' = TRUE
    /\ UNCHANGED <<pc, n_actors, vm, size, counter, pointer, tc_ready, failed>>

Goto(next) ==
    /\ pc' = next
    /\ UNCHANGED <<n_actors, vm, tc_ready, failed, oops>>

-----------------------------------------------------------------------------
(* The state that executor_init leaves: everything for one actor. *)
Loaded(p, s, c) ==
    /\ s = [a \in Arrays |-> IF a \in GuestArrays THEN 0 ELSE 1]
    /\ c = [k \in Counters |-> IF k \in {"allocate_guest", "set_guest"} THEN 0 ELSE 1]
    /\ p = [q \in Pointers |-> IF q \in {"data", "code", "entry"} THEN "current" ELSE "none"]

Init ==
    /\ pc = "idle" /\ n_actors = 1 /\ vm = FALSE
    /\ Loaded(pointer, size, counter)
    /\ tc_ready = FALSE /\ failed = FALSE /\ oops = FALSE

(* rmmod and insmod: executor_exit frees every array, and the counters are *)
(* those of a fresh image of the module.                                   *)
Reload ==
    /\ pc = "idle"
    /\ Loaded(pointer', size', counter')
    /\ n_actors' = 1 /\ vm' = FALSE /\ tc_ready' = FALSE /\ failed' = FALSE
    /\ UNCHANGED <<pc, oops>>

(* Mutant of test_case_store: the comparison is off by one. *)
test_case_store_late(n, guests) ==
    /\ pc = "idle"
    /\ tc_ready' = FALSE
    /\ n_actors' = n /\ vm' = guests
    /\ pc' \in {"idle", IF counter["allocate_sandbox"] + 1 < n THEN "util_data" ELSE "clear"}
    /\ UNCHANGED <<size, counter, pointer, failed, oops>>

(* A complete test case has been written.  The parser has already replaced *)
(* n_actors and the features when check_test_case_compat refuses it.       *)
test_case_store(n, guests) ==
    /\ pc = "idle"
    /\ tc_ready' = FALSE
    /\ n_actors' = n /\ vm' = guests
    /\ pc' \in {"idle", IF counter["allocate_sandbox"] < n THEN "util_data" ELSE "clear"}
    /\ UNCHANGED <<size, counter, pointer, failed, oops>>

allocate_util_and_data ==
    /\ pc = "util_data"
    /\ pointer' = Freed("util_data")
    /\ UNCHANGED counter
    /\ \/ size' = Resized({"util_data"}, {}) /\ Fail
       \/ size' = Resized({"util_data"}, {"util_data"}) /\ Goto("code")

allocate_code ==
    /\ pc = "code"
    /\ pointer' = Freed("code")
    /\ UNCHANGED counter
    /\ \/ size' = Resized({"code"}, {}) /\ Fail
       \/ size' = Resized({"code"}, {"code"}) /\ Goto("pointers")

init_sandbox_pointers ==
    /\ pc = "pointers"
    /\ pointer' = [p \in Pointers |-> IF p \in {"data", "code", "entry"} THEN "current"
                                                                       ELSE pointer[p]]
    /\ UNCHANGED <<size, counter>>
    /\ Goto("clear")

(* The memset over the util and data areas of all actors. *)
ClearSandbox ==
    /\ pc = "clear"
    /\ IF size["util_data"] < n_actors
       THEN Oops
       ELSE UNCHANGED <<size, counter, pointer>> /\ Goto("cache")

-----------------------------------------------------------------------------
(* What a page walk over addresses in an area yields: the entries of the   *)
(* area, or whatever is at the place of one that was freed.                *)
Walked == [p \in Pointers |-> CASE p = "data_ptes" -> pointer["data"]
                                [] p = "code_ptes" -> pointer["code"]
                                [] OTHER -> pointer[p]]

AfterCache == IF vm THEN "guest" ELSE "load"

(* Over freed addresses the walk may also find no page table and fail an   *)
(* assertion, and an array that is too short is written past its end.      *)
WalkPages(sizes) ==
    \/ /\ \/ pointer["data"] = "stale"
          \/ pointer["code"] = "stale" /\ sizes["data_pteps"] >= n_actors
       /\ UNCHANGED pointer /\ Fail
    \/ /\ \E a \in HostArrays : sizes[a] < n_actors
       /\ oops' = TRUE
       /\ UNCHANGED <<pc, n_actors, vm, pointer, tc_ready, failed>>
    \/ /\ \A a \in HostArrays : sizes[a] >= n_actors
       /\ pointer' = Walked
       /\ Goto(AfterCache)

(* Mutant of cache_host_pteps: the walk is left out when the number of      *)
(* actors has not grown.                                                    *)
cache_host_pteps_once ==
    LET grow == n_actors > counter["cache_host_pteps"] IN
    /\ pc = "cache"
    /\ counter' = [counter EXCEPT !["cache_host_pteps"] = n_actors]
    /\ IF grow THEN size' = Resized(HostArrays, HostArrays) /\ WalkPages(size')
               ELSE UNCHANGED <<size, pointer>> /\ Goto(AfterCache)

cache_host_pteps ==
    LET grow == n_actors > counter["cache_host_pteps"] IN
    /\ pc = "cache"
    /\ \/ /\ grow
          /\ \E got \in {{}, {"data_pteps"}} : size' = Resized(HostArrays, got)
          /\ UNCHANGED <<counter, pointer>>
          /\ Fail
       \/ /\ size' = IF grow THEN Resized(HostArrays, HostArrays) ELSE size
          /\ counter' = [counter EXCEPT !["cache_host_pteps"] = n_actors]
          /\ WalkPages(size')

(* The guest structures: the counter is updated before the allocations, and *)
(* the arrays for faulty pages get one element, whatever they had before.   *)
allocate_guest_page_tables ==
    /\ pc = "guest"
    /\ IF n_actors <= counter["allocate_guest"]
       THEN IF size["guest_tables"] < n_actors
            THEN Oops
            ELSE UNCHANGED <<size, counter, pointer>> /\ Goto("map")
       ELSE /\ counter' = [counter EXCEPT !["allocate_guest"] = n_actors]
            /\ pointer' = [pointer EXCEPT !["guest_map"] = "none"]
            /\ LET tables == Resized({"guest_tables", "vmlaunch"}, {"guest_tables"})
                   page == [tables EXCEPT !["vmlaunch"] = MAX_ACTORS]
                   ptes == [page EXCEPT !["guest_ptes"] = 1]
               IN \/ /\ size' \in {Resized({"guest_tables", "vmlaunch"}, {}), tables, page, ptes}
                     /\ Fail
                  \/ size' = [ptes EXCEPT !["guest_eptes"] = 1] /\ Goto("map")

(* set_guest_page_tables and set_extended_page_tables, with a resizing of   *)
(* the arrays for faulty pages.  A page without an address, as vmlaunch_page *)
(* after a failed allocation or a page of a freed area, fails an assertion.  *)
map_sandbox_to_guest_memory ==
    LET faulty == {"guest_ptes", "guest_eptes"}
        grow == n_actors > counter["set_guest"]
        stale == "stale" \in {pointer["data"], pointer["code"]}
    IN
    /\ pc = "map"
    /\ \/ /\ grow
          /\ \E got \in {{}, {"guest_ptes"}} : size' = Resized(faulty, got)
          /\ UNCHANGED <<counter, pointer>>
          /\ Fail
       \/ /\ size' = IF grow THEN Resized(faulty, faulty) ELSE size
          /\ counter' = [counter EXCEPT !["set_guest"] = n_actors]
          /\ \/ (stale \/ size["vmlaunch"] = 0) /\ UNCHANGED pointer /\ Fail
             \/ /\ size["vmlaunch"] # 0
                /\ pointer' = [pointer EXCEPT !["guest_map"] = IF stale THEN "stale" ELSE "current"]
                /\ Goto("eptp")

update_eptp ==
    /\ pc = "eptp"
    /\ UNCHANGED <<counter, pointer>>
    /\ \/ size' = Resized({"ept_ptr"}, {}) /\ Fail
       \/ size' = Resized({"ept_ptr"}, {"ept_ptr"}) /\ Goto("load")

-----------------------------------------------------------------------------
(* The end of allocate_sandbox and load_sandbox_code, which fills the code  *)
(* area of all actors and fails if a macro cannot be expanded.              *)
load_sandbox_code ==
    /\ pc = "load"
    /\ IF size["code"] < n_actors
       THEN Oops
       ELSE /\ counter' = [counter EXCEPT !["allocate_sandbox"] = n_actors]
            /\ pc' = "idle"
            /\ UNCHANGED <<n_actors, vm, size, failed, oops>>
            /\ \E entry \in {"none", pointer["code"]} :
                 pointer' = [pointer EXCEPT !["entry"] = entry]
            /\ tc_ready' \in {FALSE, pointer'["entry"] # "none"}

(* A measurement saves the page table entries of all actors, for which it   *)
(* may need larger arrays, and uses the ones for faulty pages.  After a     *)
(* failed allocation the recovery reads the arrays that were just freed.    *)
Measure ==
    LET grow == n_actors > counter["store_orig"]
        sizes == IF grow THEN Resized(OrigArrays, OrigArrays) ELSE size
        used == OrigArrays \cup HostArrays
                  \cup (IF vm THEN GuestArrays ELSE {})
    IN
    /\ pc = "idle" /\ tc_ready
    /\ UNCHANGED <<pc, n_actors, vm, pointer, tc_ready>>
    /\ \/ /\ grow
          /\ failed' = TRUE /\ oops' = TRUE
          /\ UNCHANGED <<size, counter>>
       \/ /\ size' = sizes
          /\ counter' = [counter EXCEPT !["store_orig"] = n_actors]
          /\ oops' = (\E a \in used : sizes[a] < n_actors)
          /\ UNCHANGED failed

Next ==
    /\ ~oops
    /\ \/ Reload
       \/ \E n \in 1..MAX_ACTORS, guests \in BOOLEAN : test_case_store(n, guests)
       \/ allocate_util_and_data \/ allocate_code \/ init_sandbox_pointers
       \/ ClearSandbox \/ cache_host_pteps
       \/ allocate_guest_page_tables \/ map_sandbox_to_guest_memory \/ update_eptp
       \/ load_sandbox_code \/ Measure

Spec == Init /\ [][Next]_vars

-----------------------------------------------------------------------------
(* When a test case is ready its actors fit into the areas, the entry point *)
(* and the pointers of the sandbox lead into them, and the cached page      *)
(* table entries are theirs, also after failures of earlier test cases.     *)
SandboxReady ==
    /\ TypeOK
    /\ tc_ready => /\ \A a \in Areas \cup HostArrays : size[a] >= n_actors
                   /\ \A p \in {"data", "code", "entry", "data_ptes", "code_ptes"} :
                        pointer[p] = "current"
                   /\ vm => pointer["guest_map"] = "current"

(* As long as no allocation has failed, nothing reads or writes outside of  *)
(* an array, in whatever order test cases of different sizes arrive.        *)
OopsOnlyAfterFailure == oops => failed
=============================================================================
