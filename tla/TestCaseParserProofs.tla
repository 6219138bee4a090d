------------------------ MODULE TestCaseParserProofs ------------------------
(***************************************************************************)
(* Proofs about the upload of test cases (TestCaseParser): for every set   *)
(* of files, every limit and every way of cutting the files into writes, a *)
(* file that starts between two test cases puts each byte of its code into *)
(* its section, and an upload without errors leaves a test case that is    *)
(* complete, accepted and ready.                                           *)
(*                                                                         *)
(* The inductive invariant follows the parser through the file: in the     *)
(* tables no section has begun; in the code the cursor is inside the       *)
(* section that is counted, whose bounds are those of the metadata, all    *)
(* sections before it are full and within the limit, and it holds its own  *)
(* bytes up to the cursor.                                                 *)
(***************************************************************************)
EXTENDS TestCaseParser, TLAPS, WellFoundedInduction

\* Where the code of a section starts in the file.
SectionStart(s) == metadata_end + file.offsets[s + 1]

\* The first bytes of a section are the ones that the file has there.
Holds(s, count) == \A b \in 0..(count - 1) : sections[s][b] = SectionStart(s) + b + 1

\* The module knows the tables of the file and has room for its sections.
TablesOf ==
    /\ header = file /\ n_actors = Len(file.actors) /\ n_symbols = file.symbols
    /\ n_actors <= allocated

InCode ==
    /\ SectionStart(curr_section_id) <= cursor
    /\ cursor < SectionStart(curr_section_id) + Size(curr_section_id)
    /\ curr_section_id > 0 =>
          /\ curr_section_start = SectionStart(curr_section_id)
          /\ curr_section_end = curr_section_start + Size(curr_section_id)
    /\ \A s \in 0..(curr_section_id - 1) : Size(s) <= MAX_SECTION_SIZE /\ Holds(s, Size(s))
    /\ Holds(curr_section_id, cursor - SectionStart(curr_section_id))

Receiving ==
    /\ TablesOf
    /\ cursor = written /\ cursor >= TC_HEADER_SIZE
    /\ curr_section_id < n_actors
    /\ cursor < metadata_end => curr_section_id = 0
    /\ cursor >= metadata_end => InCode

Done ==
    /\ TablesOf /\ Complete
    /\ written = FileSize
    /\ ~is_receiving_test_case /\ tc_ready
    /\ accepted /\ MayAccept(file.checks)

Between == written = 0 /\ curr_section_id = 0

Follows ==
    /\ ~outside
    /\ upload = "open" /\ is_receiving_test_case => Receiving
    /\ upload = "open" /\ ~is_receiving_test_case => Between \/ Done
    /\ upload = "done" => Done

Room == allocated = 0 \/ allocated >= highest_n_actors

UploadInv == TypeOK /\ Room /\ (~stale => Follows)

-----------------------------------------------------------------------------
(* The files.                                                              *)

LEMMA Limits ==
    /\ MaxActors \in Nat \ {0} /\ MAX_SECTION_SIZE \in Nat \ {0} /\ MaxWrite \in Nat \ {0}
    /\ AllocFailures \in BOOLEAN
  BY FilesAssumption

\* The code of a section starts where that of the one before it ends.
LEMMA FileFacts ==
    ASSUME NEW f \in Files
    PROVE  /\ Len(f.actors) \in 1..MaxActors /\ f.symbols \in Nat
           /\ Len(f.sizes) = Len(f.actors) /\ DOMAIN f.sizes = 1..Len(f.actors)
           /\ \A s \in 1..Len(f.actors) : f.sizes[s] \in Nat /\ f.sizes[s] > 0
           /\ \A s \in 1..Len(f.actors) : f.offsets[s] \in Nat
           /\ f.offsets[1] = 0
           /\ \A s \in 1..(Len(f.actors) - 1) : f.offsets[s + 1] = f.offsets[s] + f.sizes[s]
<1>1. /\ f.sizes \in Seq(Nat \ {0}) /\ Len(f.sizes) = Len(f.actors)
      /\ f.offsets \in Seq(Nat) /\ Len(f.offsets) = Len(f.sizes)
      /\ f.offsets[1] = 0 /\ Len(f.actors) \in 1..MaxActors /\ f.symbols \in Nat
  BY FilesAssumption
<1>2. \A s \in 2..Len(f.sizes) : f.offsets[s] = f.offsets[s - 1] + f.sizes[s - 1]
  BY FilesAssumption
<1>3. \A s \in 1..(Len(f.actors) - 1) : f.offsets[s + 1] = f.offsets[s] + f.sizes[s]
  <2> TAKE s \in 1..(Len(f.actors) - 1)
  <2>1. s + 1 \in 2..Len(f.sizes) /\ (s + 1) - 1 = s
    BY <1>1, FilesAssumption
  <2> QED BY <1>2, <2>1
<1> QED BY <1>1, <1>3, SMTT(30)

LEMMA LeastNumber ==
    ASSUME NEW S \in SUBSET Nat, S # {}
    PROVE  \E k \in S : \A j \in S : k <= j
<1>1. PICK k \in S : \A j \in S : ~(<<j, k>> \in OpToRel(<, Nat))
  BY NatLessThanWellFounded, WFMin
<1>2. \A j \in S : <<j, k>> \in OpToRel(<, Nat) <=> j < k
  BY DEF OpToRel
<1>3. \A j \in S : ~(j < k)
  BY <1>1, <1>2, Zenon
<1> QED BY <1>3

\* Every section ends before or with the last one: of the sections that do not,
\* the last one would be followed by another.
LEMMA SectionsEnd ==
    ASSUME NEW f \in Files
    PROVE  \A s \in 1..Len(f.actors) :
              f.offsets[s] + f.sizes[s] <= f.offsets[Len(f.sizes)] + f.sizes[Len(f.sizes)]
<1> DEFINE L == Len(f.actors)
           End(s) == f.offsets[s] + f.sizes[s]
           Late == {k \in Nat : k < L /\ End(L - k) > End(L)}
<1>1. L \in Nat /\ L > 0 /\ Len(f.sizes) = L
  BY FileFacts, Limits
<1>2. \A s \in 1..L : f.offsets[s] \in Nat /\ f.sizes[s] \in Nat /\ f.sizes[s] > 0
  BY FileFacts
<1>3. \A s \in 1..(L - 1) : f.offsets[s + 1] = f.offsets[s] + f.sizes[s]
  BY FileFacts
<1>n. \A s \in 1..L : End(s) \in Nat
  BY <1>2
<1>4. ASSUME Late # {} PROVE FALSE
  <2>1. PICK k \in Late : \A j \in Late : k <= j
    BY <1>4, LeastNumber
  <2>2. k \in Nat /\ k < L /\ End(L - k) > End(L)
    BY <2>1
  <2>3. k # 0
    <3>1. L \in 1..L
      BY <1>1
    <3>2. End(L) \in Nat
      BY <1>2, <3>1
    <3>3. k = 0 => L - k = L
      BY <1>1
    <3> HIDE DEF End
    <3> QED BY <2>2, <3>2, <3>3
  <2>4. L - k \in 1..(L - 1) /\ (L - k) + 1 = L - (k - 1) /\ k - 1 \in Nat
        /\ L - k \in 1..L /\ L - (k - 1) \in 1..L /\ L \in 1..L
    BY <1>1, <2>2, <2>3
  <2>5. f.offsets[L - (k - 1)] = End(L - k) /\ f.sizes[L - (k - 1)] > 0
    BY <1>2, <1>3, <2>4
  <2>6. /\ f.offsets[L - (k - 1)] \in Nat /\ f.sizes[L - (k - 1)] \in Nat
        /\ f.offsets[L - k] \in Nat /\ f.sizes[L - k] \in Nat
        /\ f.offsets[L] \in Nat /\ f.sizes[L] \in Nat
        /\ End(L - k) \in Nat /\ End(L) \in Nat
    BY <1>2, <1>n, <2>4
  <2>7. End(L - (k - 1)) > End(L - k)
    BY <2>5, <2>6, SMTT(30)
  <2>8. End(L - (k - 1)) \in Nat
    BY <2>4, <1>n
  <2>9. End(L - (k - 1)) > End(L)
    <3> HIDE DEF End
    <3> QED BY <2>2, <2>6, <2>7, <2>8
  <2>10. k - 1 \in Late
    BY <2>2, <2>4, <2>9
  <2> QED BY <2>1, <2>2, <2>10
<1>5. ASSUME NEW s \in 1..L PROVE End(s) <= End(L)
  <2>1. L - s \in Nat /\ L - s < L /\ L - (L - s) = s /\ L \in 1..L
    BY <1>1
  <2>2. ~(End(L - (L - s)) > End(L))
    BY <1>4, <2>1
  <2>3. End(s) \in Nat /\ End(L) \in Nat
    BY <1>2, <2>1, SMTT(30)
  <2> HIDE DEF End
  <2>4. ~(End(s) > End(L))
    BY <2>1, <2>2
  <2> QED BY <2>3, <2>4
<1> QED BY <1>1, <1>5

LEMMA SizeFacts ==
    ASSUME TypeOK
    PROVE  /\ \A s \in Nat : Size(s) \in Nat
           /\ \A s \in 0..(Len(header.actors) - 1) : Size(s) > 0 /\ Size(s) = header.sizes[s + 1]
           /\ \A s \in 0..(Len(file.actors) - 1) : file.offsets[s + 1] \in Nat
           /\ FileSize \in Nat
           /\ metadata_end \in Nat
<1>1. header \in Files /\ file \in Files /\ n_actors \in Nat /\ n_symbols \in Nat
  BY Limits DEF TypeOK
<1>2. \A s \in Nat : Size(s) \in Nat
  BY <1>1, FileFacts DEF Size
<1>3. ASSUME NEW s \in 0..(Len(header.actors) - 1)
      PROVE  Size(s) > 0 /\ Size(s) = header.sizes[s + 1]
  <2>1. s + 1 \in 1..Len(header.actors)
    BY <1>1, FileFacts, Limits
  <2> QED BY <1>1, <2>1, FileFacts DEF Size
<1>4. \A s \in 0..(Len(file.actors) - 1) : file.offsets[s + 1] \in Nat
  BY <1>1, FileFacts, Limits
<1>5. FileSize \in Nat
  <2>1. Len(file.sizes) \in 1..Len(file.actors)
    BY <1>1, FileFacts, Limits
  <2>2. /\ file.offsets[Len(file.sizes)] \in Nat /\ file.sizes[Len(file.sizes)] \in Nat
        /\ Len(file.actors) \in Nat /\ file.symbols \in Nat
    BY <1>1, <2>1, FileFacts, Limits
  <2>3. \A a, b, c, d \in Nat : 1 + 2 * a + b + c + d \in Nat
    OBVIOUS
  <2>4. 1 + 2 * Len(file.actors) + file.symbols + file.offsets[Len(file.sizes)]
        + file.sizes[Len(file.sizes)] \in Nat
    BY <2>2, <2>3
  <2> QED BY <2>4 DEF FileSize, TC_HEADER_SIZE
<1>6. metadata_end \in Nat
  BY <1>1 DEF metadata_end, symbol_table_end, actor_table_end, TC_HEADER_SIZE
<1> QED BY <1>2, <1>3, <1>4, <1>5, <1>6

-----------------------------------------------------------------------------
(* The types.                                                              *)

LEMMA InitType == Init => TypeOK
<1> SUFFICES ASSUME Init PROVE TypeOK
  OBVIOUS
<1>1. sections \in [DOMAIN Empty -> [0..(MAX_SECTION_SIZE - 1) -> Nat]]
  BY DEF Init, Empty
<1>2. 0 \in 0..MaxActors /\ 1 \in 0..MaxActors /\ 1 \in 1..MaxActors
  BY Limits
<1> QED BY <1>1, <1>2 DEF Init, TypeOK

\* The header clears the sections and knows at least one actor.
LEMMA StartBatchType ==
    ASSUME TypeOK, StartBatch
    PROVE  /\ n_actors' \in 1..MaxActors /\ n_symbols' \in Nat /\ header' \in Files
           /\ highest_n_actors' \in 0..MaxActors /\ allocated' \in 0..MaxActors
           /\ sections' \in [DOMAIN Empty -> [0..(MAX_SECTION_SIZE - 1) -> Nat]]
           /\ features' = {} /\ outside' = FALSE /\ cursor' \in Nat
<1>1. Empty \in [DOMAIN Empty -> [0..(MAX_SECTION_SIZE - 1) -> Nat]]
  BY DEF Empty
<1>2. file \in Files /\ Len(file.actors) \in 1..MaxActors /\ file.symbols \in Nat
  BY FileFacts DEF TypeOK
<1> QED BY <1>1, <1>2, Limits DEF StartBatch, TypeOK, TC_HEADER_SIZE

LEMMA FeaturesType == \A actors : FeaturesOf(actors) \subseteq {"vm", "user"}
  BY DEF FeaturesOf

LEMMA StoreType ==
    ASSUME TypeOK, NEW ok, Store(ok)
    PROVE  tc_ready' \in BOOLEAN /\ upload' \in {"none", "open", "done", "failed"}
  BY DEF Store, TypeOK

\* The positions and the sections after some bytes of code.
LEMMA CopyCodeType ==
    ASSUME TypeOK, NEW count \in Nat, NEW start \in Nat, NEW end, NEW id \in Nat, NEW n \in 1..count,
           CopyCode(count, start, end, id, n)
    PROVE  /\ sections' \in [DOMAIN Empty -> [0..(MAX_SECTION_SIZE - 1) -> Nat]]
           /\ outside' \in BOOLEAN /\ cursor' \in Nat
<1>1. /\ sections' = [s \in DOMAIN sections |-> [b \in DOMAIN sections[s] |->
                        IF s = id /\ b \in (cursor - start)..(cursor - start + n - 1)
                        THEN written + 1 + (b - (cursor - start)) ELSE sections[s][b]]]
      /\ outside' = (outside \/ id >= allocated \/ cursor - start < 0
                             \/ cursor - start + n > MAX_SECTION_SIZE)
      /\ cursor' = cursor + n
  BY DEF CopyCode
<1>2. /\ DOMAIN sections = DOMAIN Empty
      /\ \A s \in DOMAIN Empty : DOMAIN sections[s] = 0..(MAX_SECTION_SIZE - 1)
      /\ \A s \in DOMAIN Empty : \A b \in 0..(MAX_SECTION_SIZE - 1) : sections[s][b] \in Nat
      /\ written \in Nat /\ cursor \in Nat
  BY DEF TypeOK
<1>3. \A b \in 0..(MAX_SECTION_SIZE - 1) :
         b \in (cursor - start)..(cursor - start + n - 1) => written + 1 + (b - (cursor - start)) \in Nat
  BY <1>2, Limits
<1>4. sections' \in [DOMAIN Empty -> [0..(MAX_SECTION_SIZE - 1) -> Nat]]
  BY <1>1, <1>2, <1>3
<1>5. outside' \in BOOLEAN
  BY <1>1
<1> QED BY <1>1, <1>2, <1>4, <1>5

LEMMA FinishType ==
    ASSUME TypeOK, NEW count \in Nat, NEW n \in 1..count, Finish(n, count)
    PROVE  /\ curr_section_id' \in 0..MaxActors
           /\ curr_section_start' \in Nat /\ curr_section_end' \in Nat
           /\ is_receiving_test_case' \in BOOLEAN /\ written' \in Nat
           /\ accepted' \in BOOLEAN /\ features' \subseteq {"vm", "user"}
           /\ tc_ready' \in BOOLEAN /\ upload' \in {"none", "open", "done", "failed"}
<1>1. /\ curr_section_id' = 0 /\ curr_section_start' = 0 /\ curr_section_end' = 0
      /\ is_receiving_test_case' = FALSE
      /\ written' = written + n
  BY DEF Finish
<1>2. accepted' \in BOOLEAN /\ features' \subseteq {"vm", "user"}
  BY FeaturesType DEF Finish, TypeOK
<1>3. tc_ready' \in BOOLEAN /\ upload' \in {"none", "open", "done", "failed"}
  BY StoreType DEF Finish
<1>4. 0 \in 0..MaxActors /\ written \in Nat /\ n \in Nat
  BY Limits DEF TypeOK
<1>5. written' \in Nat /\ curr_section_id' \in 0..MaxActors
      /\ curr_section_start' \in Nat /\ curr_section_end' \in Nat
  BY <1>1, <1>4
<1> QED BY <1>1, <1>2, <1>3, <1>5

\* One call that copies code, with the names that CopySection gives to its parts.
LEMMA CopySectionParts ==
    ASSUME TypeOK, NEW count \in Nat, ParseSection(count)
    PROVE  \E n \in 1..count, start \in Nat, end \in Nat :
              /\ start = IF curr_section_id = 0 THEN metadata_end ELSE curr_section_start
              /\ end = IF curr_section_id = 0 THEN metadata_end + Size(0) ELSE curr_section_end
              /\ CopyCode(count, start, end, curr_section_id, n)
              /\ \/ /\ curr_section_id + 1 >= n_actors /\ Finish(n, count)
                    /\ \/ cursor + n - start >= Size(curr_section_id)
                       \/ cursor + n - start < 0
                 \/ /\ ~(curr_section_id + 1 >= n_actors)
                    /\ \/ cursor + n - start >= Size(curr_section_id)
                       \/ cursor + n - start < 0
                    /\ curr_section_id' = curr_section_id + 1
                    /\ curr_section_start' = end
                    /\ curr_section_end' = end + Size(curr_section_id + 1)
                    /\ Consumed(n) /\ UNCHANGED <<is_receiving_test_case, features>>
                 \/ /\ cursor + n - start < Size(curr_section_id)
                    /\ ~(cursor + n - start < 0)
                    /\ curr_section_id' = curr_section_id
                    /\ curr_section_start' = start /\ curr_section_end' = end
                    /\ Consumed(n) /\ UNCHANGED <<is_receiving_test_case, features>>
<1> DEFINE start == IF curr_section_id = 0 THEN metadata_end ELSE curr_section_start
           end == IF curr_section_id = 0 THEN metadata_end + Size(0) ELSE curr_section_end
           over(n) == \/ cursor + n - start >= Size(curr_section_id)
                      \/ cursor + n - start < 0
<1>1. PICK n \in 1..count :
        /\ CopyCode(count, start, end, curr_section_id, n)
        /\ IF over(n) /\ curr_section_id + 1 >= n_actors THEN Finish(n, count)
           ELSE /\ curr_section_id' = IF over(n) THEN curr_section_id + 1 ELSE curr_section_id
                /\ curr_section_start' = IF over(n) THEN end ELSE start
                /\ curr_section_end' = IF over(n) THEN end + Size(curr_section_id + 1) ELSE end
                /\ Consumed(n)
                /\ UNCHANGED <<is_receiving_test_case, features>>
  BY DEF ParseSection, CopySection
<1>t. /\ cursor \in Nat /\ curr_section_id \in Nat /\ n \in Nat
      /\ curr_section_start \in Nat /\ curr_section_end \in Nat
  BY Limits DEF TypeOK
<1>s. Size(curr_section_id) \in Nat /\ Size(0) \in Nat /\ metadata_end \in Nat
  BY <1>t, SizeFacts
<1>2. start \in Nat /\ end \in Nat
  BY <1>t, <1>s
<1>3. Size(curr_section_id) \in Nat /\ cursor \in Nat /\ n \in Nat
  BY <1>t, <1>s
<1>4. ~(cursor + n - start >= Size(curr_section_id)) => cursor + n - start < Size(curr_section_id)
  BY <1>2, <1>3
<1>5. CASE over(n) /\ curr_section_id + 1 >= n_actors
  <2>1. Finish(n, count)
    BY <1>1, <1>5
  <2> QED BY <1>1, <1>2, <1>5, <2>1
<1>6. CASE over(n) /\ ~(curr_section_id + 1 >= n_actors)
  <2>1. /\ curr_section_id' = curr_section_id + 1
        /\ curr_section_start' = end
        /\ curr_section_end' = end + Size(curr_section_id + 1)
        /\ Consumed(n) /\ UNCHANGED <<is_receiving_test_case, features>>
    BY <1>1, <1>6
  <2> QED BY <1>1, <1>2, <1>6, <2>1
<1>7. CASE ~over(n)
  <2>1. /\ curr_section_id' = curr_section_id
        /\ curr_section_start' = start /\ curr_section_end' = end
        /\ Consumed(n) /\ UNCHANGED <<is_receiving_test_case, features>>
    BY <1>1, <1>7
  <2>2. cursor + n - start < Size(curr_section_id) /\ ~(cursor + n - start < 0)
    BY <1>4, <1>7
  <2> QED BY <1>1, <1>2, <2>1, <2>2
<1> QED BY <1>5, <1>6, <1>7

LEMMA TypeStep == TypeOK /\ [Next]_vars => TypeOK'
<1> SUFFICES ASSUME TypeOK, [Next]_vars PROVE TypeOK'
  OBVIOUS
<1>t. /\ cursor \in Nat /\ written \in Nat /\ curr_section_id \in Nat
      /\ n_actors \in Nat /\ n_symbols \in Nat
      /\ 0 \in 0..MaxActors
  BY Limits DEF TypeOK
<1>s. Size(curr_section_id) \in Nat /\ Size(0) \in Nat /\ metadata_end \in Nat
  BY <1>t, SizeFacts
<1>1. CASE Write
  <2>f. file' = file /\ stale' = stale
    BY <1>1 DEF Write
  <2>1. CASE ParseHeader
    <3>1. written' \in Nat
      BY <2>1, <1>t DEF ParseHeader, Consumed, TC_HEADER_SIZE
    <3> QED BY <2>1, <2>f, <3>1, StartBatchType DEF ParseHeader, Consumed, TypeOK
  <2>2. CASE MisreadHeader
    BY <2>2, <2>f DEF MisreadHeader, Rejected, TypeOK
  <2>3. CASE HeaderFails
    <3>1. allocated' \in 0..MaxActors
      BY <2>3, <1>t DEF HeaderFails, TypeOK
    <3> QED BY <2>3, <2>f, <3>1 DEF HeaderFails, Rejected, TypeOK
  <2>4. CASE FinishAtHeader
    <3>1. /\ tc_ready' \in BOOLEAN /\ upload' \in {"none", "open", "done", "failed"}
      BY <2>4, StoreType DEF FinishAtHeader
    <3>2. written' \in Nat /\ accepted' \in BOOLEAN
      BY <2>4 DEF FinishAtHeader, TC_HEADER_SIZE
    <3> QED BY <2>4, <2>f, <3>1, <3>2, <1>t, StartBatchType DEF FinishAtHeader, TypeOK
  <2>5. CASE RejectSection
    <3>1. curr_section_start' \in Nat /\ curr_section_end' \in Nat
      BY <2>5, <1>s DEF RejectSection, TypeOK
    <3> QED BY <2>5, <2>f, <3>1 DEF RejectSection, Rejected, TypeOK
  <2>6. ASSUME NEW count \in 1..MaxWrite, ParseTable(count)
        PROVE  TypeOK'
    <3>1. cursor' \in Nat /\ written' \in Nat
      BY <2>6, <1>t, <1>s, Limits DEF ParseTable, Consumed, actor_table_end, symbol_table_end,
         metadata_end, TC_HEADER_SIZE
    <3> QED BY <2>6, <2>f, <3>1 DEF ParseTable, Consumed, TypeOK
  <2>7. ASSUME NEW count \in 1..MaxWrite, ParseSection(count)
        PROVE  TypeOK'
    <3>0. count \in Nat
      BY Limits
    <3>1. PICK n \in 1..count, start \in Nat, end \in Nat :
              /\ CopyCode(count, start, end, curr_section_id, n)
              /\ \/ Finish(n, count)
                 \/ /\ ~(curr_section_id + 1 >= n_actors)
                    /\ curr_section_id' = curr_section_id + 1
                    /\ curr_section_start' = end
                    /\ curr_section_end' = end + Size(curr_section_id + 1)
                    /\ Consumed(n) /\ UNCHANGED <<is_receiving_test_case, features>>
                 \/ /\ curr_section_id' = curr_section_id
                    /\ curr_section_start' = start /\ curr_section_end' = end
                    /\ Consumed(n) /\ UNCHANGED <<is_receiving_test_case, features>>
      BY <2>7, <3>0, CopySectionParts
    <3>2. /\ sections' \in [DOMAIN Empty -> [0..(MAX_SECTION_SIZE - 1) -> Nat]]
          /\ outside' \in BOOLEAN /\ cursor' \in Nat
      BY <3>0, <3>1, <1>t, CopyCodeType
    <3>3. UNCHANGED <<n_actors, n_symbols, header, highest_n_actors, allocated>>
      BY <2>7 DEF ParseSection, CopySection
    <3>4. CASE Finish(n, count)
      BY <3>0, <3>2, <3>3, <3>4, <2>f, FinishType DEF TypeOK
    <3>5. CASE /\ curr_section_id' \in 0..MaxActors
               /\ curr_section_start' \in Nat /\ curr_section_end' \in Nat
               /\ Consumed(n) /\ UNCHANGED <<is_receiving_test_case, features>>
      <4>1. written' \in Nat
        BY <3>0, <3>5, <1>t DEF Consumed
      <4> QED BY <3>2, <3>3, <3>5, <4>1, <2>f DEF TypeOK, Consumed
    <3>6. curr_section_id \in 0..MaxActors /\ n_actors \in 1..MaxActors
      BY DEF TypeOK
    <3>7. ~(curr_section_id + 1 >= n_actors) => curr_section_id + 1 \in 0..MaxActors
      BY <3>6, Limits
    <3>8. Size(curr_section_id + 1) \in Nat
      BY <1>t, SizeFacts
    <3>9. end + Size(curr_section_id + 1) \in Nat
      BY <3>8
    <3> QED BY <3>1, <3>4, <3>5, <3>6, <3>7, <3>9
  <2> QED BY <1>1, <2>1, <2>2, <2>3, <2>4, <2>5, <2>6, <2>7 DEF Write
<1>2. CASE CloseFile
  BY <1>2 DEF CloseFile, state, TypeOK
<1>3. CASE OpenFile
  <2>1. stale' \in BOOLEAN /\ file' \in Files /\ written' \in Nat
    BY <1>3 DEF OpenFile
  <2> QED BY <1>3, <2>1 DEF OpenFile, state, TypeOK
<1>4. CASE UNCHANGED vars
  BY <1>4 DEF vars, state, TypeOK
<1> QED BY <1>1, <1>2, <1>3, <1>4 DEF Next

-----------------------------------------------------------------------------
(* The sections in the file.                                               *)

\* The sections follow each other from the end of the tables to the end of the file.
LEMMA SectionFacts ==
    ASSUME TypeOK, TablesOf
    PROVE  /\ metadata_end = TC_HEADER_SIZE + 2 * n_actors + n_symbols
           /\ n_actors \in Nat /\ n_actors > 0
           /\ \A s \in 0..(n_actors - 1) : Size(s) \in Nat /\ Size(s) > 0
           /\ \A s \in 0..(n_actors - 1) : SectionStart(s) \in Nat
           /\ SectionStart(0) = metadata_end
           /\ \A s \in 0..(n_actors - 1) :
                 s + 1 < n_actors => SectionStart(s + 1) = SectionStart(s) + Size(s)
           /\ SectionStart(n_actors - 1) + Size(n_actors - 1) = FileSize
           /\ \A s \in 0..(n_actors - 1) : SectionStart(s) + Size(s) <= FileSize
           /\ metadata_end < FileSize
<1>1. /\ n_actors = Len(file.actors) /\ header = file /\ file \in Files /\ n_symbols = file.symbols
      /\ n_symbols \in Nat /\ n_actors \in Nat /\ n_actors > 0
  BY Limits DEF TypeOK, TablesOf
<1>2. metadata_end = TC_HEADER_SIZE + 2 * n_actors + n_symbols /\ metadata_end \in Nat
  BY <1>1, SMTT(30) DEF metadata_end, symbol_table_end, actor_table_end, TC_HEADER_SIZE
<1>3. /\ Len(file.sizes) = n_actors
      /\ \A s \in 1..n_actors : file.sizes[s] \in Nat /\ file.sizes[s] > 0 /\ file.offsets[s] \in Nat
      /\ file.offsets[1] = 0
      /\ \A s \in 1..(n_actors - 1) : file.offsets[s + 1] = file.offsets[s] + file.sizes[s]
      /\ \A s \in 1..n_actors :
            file.offsets[s] + file.sizes[s] <= file.offsets[n_actors] + file.sizes[n_actors]
  BY <1>1, FileFacts, SectionsEnd
<1>4. \A s \in 0..(n_actors - 1) : s + 1 \in 1..n_actors /\ Size(s) = file.sizes[s + 1]
  <2>1. \A s \in 0..(Len(header.actors) - 1) : Size(s) = header.sizes[s + 1]
    BY SizeFacts
  <2>2. \A s \in 0..(n_actors - 1) : Size(s) = file.sizes[s + 1]
    BY <1>1, <2>1, Zenon
  <2>3. \A s \in 0..(n_actors - 1) : s + 1 \in 1..n_actors
    BY <1>1
  <2> QED BY <2>2, <2>3
<1>5. FileSize = metadata_end + file.offsets[n_actors] + file.sizes[n_actors]
  <2>1. FileSize = TC_HEADER_SIZE + 2 * n_actors + n_symbols
                   + file.offsets[n_actors] + file.sizes[n_actors]
    BY <1>1, <1>3 DEF FileSize
  <2> QED BY <2>1, <1>2
<1>6. \A s \in 0..(n_actors - 1) : SectionStart(s) \in Nat
  BY <1>2, <1>3, <1>4 DEF SectionStart
<1>7. SectionStart(0) = metadata_end
  BY <1>2, <1>3 DEF SectionStart
<1>8. ASSUME NEW s \in 0..(n_actors - 1), s + 1 < n_actors
      PROVE  SectionStart(s + 1) = SectionStart(s) + Size(s)
  <2>1. s + 1 \in 1..(n_actors - 1) /\ s + 1 \in 1..n_actors
    BY <1>1, <1>8
  <2>2. file.offsets[(s + 1) + 1] = file.offsets[s + 1] + file.sizes[s + 1]
    BY <1>3, <2>1
  <2>3. file.offsets[s + 1] \in Nat /\ file.sizes[s + 1] \in Nat /\ Size(s) = file.sizes[s + 1]
    BY <1>3, <1>4, <2>1
  <2> QED BY <1>2, <2>2, <2>3 DEF SectionStart
<1>9. n_actors - 1 \in 0..(n_actors - 1) /\ (n_actors - 1) + 1 = n_actors /\ n_actors \in 1..n_actors
      /\ 1 \in 1..n_actors
  BY <1>1
<1>10. SectionStart(n_actors - 1) + Size(n_actors - 1) = FileSize
  <2>1. Size(n_actors - 1) = file.sizes[n_actors]
    BY <1>4, <1>9
  <2> QED BY <1>2, <1>3, <1>5, <1>9, <2>1 DEF SectionStart
<1>11. ASSUME NEW s \in 0..(n_actors - 1)
       PROVE  SectionStart(s) + Size(s) <= FileSize
  <2>1. s + 1 \in 1..n_actors /\ Size(s) = file.sizes[s + 1]
    BY <1>4
  <2>2. /\ file.offsets[s + 1] + file.sizes[s + 1] <= file.offsets[n_actors] + file.sizes[n_actors]
        /\ file.offsets[s + 1] \in Nat /\ file.sizes[s + 1] \in Nat
        /\ file.offsets[n_actors] \in Nat /\ file.sizes[n_actors] \in Nat
    BY <1>3, <1>9, <2>1
  <2> QED BY <1>2, <1>5, <2>1, <2>2 DEF SectionStart
<1>12. metadata_end < FileSize
  BY <1>2, <1>3, <1>5, <1>9, SMTT(30)
<1>13. \A s \in 0..(n_actors - 1) : Size(s) \in Nat /\ Size(s) > 0
  BY <1>3, <1>4
<1> QED BY <1>1, <1>2, <1>6, <1>7, <1>8, <1>10, <1>11, <1>12, <1>13

\* A file that is still being received is not at its end.
LEMMA ReceivingNotAtEnd ==
    ASSUME TypeOK, Receiving
    PROVE  written < FileSize
<1>1. TablesOf /\ cursor = written /\ curr_section_id \in 0..(n_actors - 1)
  BY DEF Receiving, TypeOK
<1>2. FileSize \in Nat /\ metadata_end \in Nat /\ cursor \in Nat
  BY SizeFacts DEF TypeOK
<1>3. CASE cursor < metadata_end
  BY <1>1, <1>2, <1>3, SectionFacts
<1>4. CASE cursor >= metadata_end
  <2>1. cursor < SectionStart(curr_section_id) + Size(curr_section_id)
    BY <1>4 DEF Receiving, InCode
  <2>2. SectionStart(curr_section_id) + Size(curr_section_id) <= FileSize
    BY <1>1, SectionFacts
  <2>3. SectionStart(curr_section_id) \in Nat /\ Size(curr_section_id) \in Nat
    BY <1>1, SectionFacts
  <2> QED BY <1>1, <1>2, <2>1, <2>2, <2>3
<1> QED BY <1>2, <1>3, <1>4

-----------------------------------------------------------------------------
(* The steps of an upload.                                                 *)

\* The tables only grow: what was allocated for more actors is large enough.
LEMMA RoomStep == TypeOK /\ Room /\ [Next]_vars => Room'
<1> SUFFICES ASSUME TypeOK, Room, [Next]_vars PROVE Room'
  OBVIOUS
<1>1. ASSUME StartBatch PROVE Room'
  <2>1. Len(file.actors) \in Nat /\ highest_n_actors \in Nat /\ allocated \in Nat
    BY FileFacts, Limits DEF TypeOK
  <2> QED BY <1>1, <2>1 DEF StartBatch, Room
<1>2. CASE Write
  <2>1. ASSUME NEW count \in 1..MaxWrite, ParseTable(count) \/ ParseSection(count) PROVE Room'
    BY <2>1 DEF ParseTable, ParseSection, CopySection, Room
  <2>2. CASE ParseHeader \/ FinishAtHeader
    BY <1>1, <2>2 DEF ParseHeader, FinishAtHeader
  <2>3. CASE MisreadHeader \/ HeaderFails \/ RejectSection
    BY <2>3 DEF MisreadHeader, HeaderFails, RejectSection, Room
  <2> QED BY <1>2, <2>1, <2>2, <2>3 DEF Write
<1>3. CASE CloseFile \/ OpenFile \/ UNCHANGED vars
  BY <1>3 DEF CloseFile, OpenFile, vars, state, Room
<1> QED BY <1>2, <1>3 DEF Next

LEMMA HeaderStep ==
    ASSUME TypeOK, Room, Follows, Between, upload = "open", ParseHeader, file' = file
    PROVE  Follows'
<1>1. /\ header' = file' /\ n_actors' = Len(file.actors) /\ n_symbols' = file.symbols
      /\ outside' = FALSE /\ cursor' = 1 /\ written' = 1 /\ is_receiving_test_case' = TRUE
      /\ curr_section_id' = 0 /\ upload' = "open"
  BY DEF ParseHeader, StartBatch, Consumed, TC_HEADER_SIZE, Between
<1>2. Len(file.actors) \in Nat /\ Len(file.actors) > 0 /\ file.symbols \in Nat
      /\ highest_n_actors \in Nat /\ allocated \in Nat
  BY FileFacts, Limits DEF TypeOK
<1>3. n_actors' <= allocated'
  BY <1>2 DEF ParseHeader, StartBatch, Room
<1>4. TablesOf'
  BY <1>1, <1>3 DEF TablesOf
<1>5. cursor' < metadata_end'
  BY <1>1, <1>2 DEF metadata_end, symbol_table_end, actor_table_end, TC_HEADER_SIZE
<1>6. metadata_end' \in Nat
  BY <1>1, <1>2 DEF metadata_end, symbol_table_end, actor_table_end, TC_HEADER_SIZE
<1>7. Receiving'
  BY <1>1, <1>2, <1>4, <1>5, <1>6 DEF Receiving, TC_HEADER_SIZE
<1> QED BY <1>1, <1>7 DEF Follows

LEMMA TableStep ==
    ASSUME TypeOK, Receiving, ~outside, upload = "open", NEW count \in 1..MaxWrite,
           ParseTable(count), file' = file
    PROVE  Follows'
<1>1. /\ n_actors' = n_actors /\ n_symbols' = n_symbols /\ header' = header
      /\ allocated' = allocated /\ sections' = sections /\ outside' = outside
      /\ curr_section_id' = curr_section_id /\ is_receiving_test_case' = is_receiving_test_case
      /\ curr_section_start' = curr_section_start /\ curr_section_end' = curr_section_end
      /\ upload' = "open" /\ is_receiving_test_case = TRUE /\ cursor < metadata_end
  BY DEF ParseTable, Consumed, TypeOK
<1>2. TablesOf /\ TablesOf'
  BY <1>1 DEF Receiving, TablesOf
<1>3. /\ metadata_end' = metadata_end /\ metadata_end \in Nat
      /\ \A s : SectionStart(s)' = SectionStart(s) /\ Size(s)' = Size(s)
  BY <1>1, SizeFacts DEF SectionStart, Size, metadata_end, symbol_table_end, actor_table_end
<1>4. curr_section_id = 0 /\ cursor = written /\ cursor \in Nat /\ cursor >= 1
  BY <1>1 DEF Receiving, TypeOK, TC_HEADER_SIZE
<1>5. cursor' = written' /\ cursor' \in Nat /\ cursor' >= 1 /\ cursor' <= metadata_end
  BY <1>1, <1>3, <1>4, Limits DEF ParseTable, Consumed, actor_table_end, symbol_table_end,
     metadata_end, TC_HEADER_SIZE, TypeOK
<1>6. ASSUME cursor' >= metadata_end' PROVE InCode'
  <2>1. cursor' = metadata_end /\ SectionStart(0) = metadata_end /\ Size(0) \in Nat /\ Size(0) > 0
    BY <1>2, <1>3, <1>5, <1>6, SectionFacts
  <2>2. SectionStart(0)' = SectionStart(0) /\ Size(0)' = Size(0) /\ curr_section_id' = 0
    BY <1>1, <1>3, <1>4
  <2>3. cursor' - SectionStart(0)' = 0
    BY <2>1, <2>2, <1>3
  <2>4. Holds(0, 0)'
    BY DEF Holds
  <2>5. Holds(curr_section_id, cursor - SectionStart(curr_section_id))'
    BY <2>2, <2>3 DEF Holds
  <2>6. SectionStart(curr_section_id)' <= cursor'
        /\ cursor' < SectionStart(curr_section_id)' + Size(curr_section_id)'
    BY <2>1, <2>2, <1>3
  <2> QED BY <2>2, <2>5, <2>6 DEF InCode
<1>7. curr_section_id' < n_actors'
  BY <1>1 DEF Receiving
<1>8. Receiving'
  BY <1>1, <1>2, <1>4, <1>5, <1>6, <1>7 DEF Receiving, TC_HEADER_SIZE
<1> QED BY <1>1, <1>8 DEF Follows

\* The bytes of one call end up behind those of the section that are there, no
\* byte of another section changes, and none is written outside of the arrays.
LEMMA CodeStep ==
    ASSUME TypeOK, Receiving, ~outside, cursor >= metadata_end,
           Size(curr_section_id) <= MAX_SECTION_SIZE,
           NEW count \in Nat, NEW n \in 1..count, NEW start \in Nat, NEW end,
           start = SectionStart(curr_section_id),
           CopyCode(count, start, end, curr_section_id, n)
    PROVE  /\ cursor' = cursor + n
           /\ cursor + n - start <= Size(curr_section_id) /\ ~(cursor + n - start < 0)
           /\ n = count \/ cursor + n - start = Size(curr_section_id)
           /\ ~outside'
           /\ \A s \in 0..(n_actors - 1) : s # curr_section_id => sections'[s] = sections[s]
           /\ \A b \in 0..(cursor + n - start - 1) : sections'[curr_section_id][b] = start + b + 1
<1> DEFINE at == cursor - start
           size == Size(curr_section_id)
<1>1. /\ TablesOf /\ InCode /\ cursor = written
      /\ curr_section_id \in 0..(n_actors - 1) /\ curr_section_id < n_actors /\ n_actors <= allocated
  BY DEF Receiving, TypeOK, TablesOf
<1>2. /\ start <= cursor /\ cursor < start + size
      /\ \A b \in 0..(cursor - start - 1) : sections[curr_section_id][b] = start + b + 1
  BY <1>1 DEF InCode, Holds
<1>3. size \in Nat /\ cursor \in Nat /\ allocated \in Nat /\ n_actors \in Nat /\ curr_section_id \in Nat
  BY <1>1, SectionFacts, Limits DEF TypeOK
<1>4. at \in Nat /\ at < size
  BY <1>2, <1>3
<1>5. /\ n = IF at < -1 \/ size - at <= 1 THEN 1 ELSE IF count < size - at THEN count ELSE size - at
      /\ sections' = [s \in DOMAIN sections |-> [b \in DOMAIN sections[s] |->
                        IF s = curr_section_id /\ b \in at..(at + n - 1)
                        THEN written + 1 + (b - at) ELSE sections[s][b]]]
      /\ outside' = (outside \/ curr_section_id >= allocated \/ at < 0
                             \/ at + n > MAX_SECTION_SIZE)
      /\ cursor' = cursor + n
  BY DEF CopyCode
<1> HIDE DEF size
<1>6. n <= size - at /\ n \in Nat /\ n > 0 /\ (n = count \/ n = size - at)
  BY <1>3, <1>4, <1>5
<1>7. cursor + n - start = at + n
  BY <1>3, <1>6
<1>8. cursor + n - start <= size /\ ~(cursor + n - start < 0)
      /\ (n = count \/ cursor + n - start = size)
  BY <1>3, <1>4, <1>6, <1>7
<1>9. ~outside'
  <2>1. ~(curr_section_id >= allocated)
    BY <1>1, <1>3
  <2>2. ~(at < 0) /\ ~(at + n > MAX_SECTION_SIZE)
    BY <1>3, <1>4, <1>6, Limits DEF size
  <2> QED BY <1>5, <2>1, <2>2
<1>10. /\ DOMAIN sections = 0..(MaxActors - 1)
       /\ \A s \in 0..(MaxActors - 1) :
             /\ sections[s] \in [0..(MAX_SECTION_SIZE - 1) -> Nat]
             /\ DOMAIN sections[s] = 0..(MAX_SECTION_SIZE - 1)
       /\ n_actors <= MaxActors
  BY Limits DEF TypeOK, Empty
<1>11. \A s \in 0..(n_actors - 1) : s \in 0..(MaxActors - 1)
  BY <1>3, <1>10, Limits
<1>12. ASSUME NEW s \in 0..(n_actors - 1), s # curr_section_id
       PROVE  sections'[s] = sections[s]
  <2>1. sections'[s] = [b \in DOMAIN sections[s] |-> sections[s][b]]
    BY <1>5, <1>10, <1>11, <1>12
  <2> QED BY <2>1, <1>10, <1>11
<1>13. ASSUME NEW b \in 0..(cursor + n - start - 1)
       PROVE  sections'[curr_section_id][b] = start + b + 1
  <2>1. b \in 0..(at + n - 1) /\ b \in 0..(MAX_SECTION_SIZE - 1)
    BY <1>3, <1>4, <1>6, <1>7, Limits DEF size
  <2>2. sections'[curr_section_id][b] = IF b \in at..(at + n - 1) THEN written + 1 + (b - at)
                                        ELSE sections[curr_section_id][b]
    BY <1>1, <1>5, <1>10, <1>11, <2>1
  <2>3. CASE b \in at..(at + n - 1)
    <3>1. sections'[curr_section_id][b] = cursor + 1 + (b - at)
      BY <1>1, <2>2, <2>3
    <3> QED BY <3>1, <1>3, <2>3
  <2>4. CASE ~(b \in at..(at + n - 1))
    <3>1. b \in 0..(at - 1)
      BY <2>1, <2>4, <1>4, <1>6
    <3> QED BY <3>1, <1>2, <2>2, <2>4
  <2> QED BY <2>3, <2>4
<1> QED BY <1>5, <1>8, <1>9, <1>12, <1>13 DEF size

LEMMA SectionStep ==
    ASSUME TypeOK, TypeOK', Receiving, ~outside, upload = "open", NEW count \in 1..MaxWrite,
           count <= FileSize - written, ParseSection(count), file' = file
    PROVE  Follows'
<1>0. count \in Nat /\ cursor >= metadata_end /\ is_receiving_test_case = TRUE
      /\ Size(curr_section_id) <= MAX_SECTION_SIZE
  BY Limits DEF ParseSection, InSection, TypeOK
<1>1. /\ TablesOf /\ InCode /\ cursor = written
      /\ curr_section_id \in 0..(n_actors - 1) /\ curr_section_id < n_actors
  BY <1>0 DEF Receiving, TypeOK
<1>2. UNCHANGED <<n_actors, n_symbols, header, highest_n_actors, allocated>>
  BY DEF ParseSection, CopySection
<1>3. TablesOf'
  BY <1>1, <1>2 DEF TablesOf
<1>4. /\ metadata_end' = metadata_end /\ metadata_end \in Nat /\ FileSize' = FileSize
      /\ \A s : SectionStart(s)' = SectionStart(s) /\ Size(s)' = Size(s)
  BY <1>2, SizeFacts DEF SectionStart, Size, metadata_end, symbol_table_end, actor_table_end, FileSize
<1>5. PICK n \in 1..count, start \in Nat, end \in Nat :
              /\ start = IF curr_section_id = 0 THEN metadata_end ELSE curr_section_start
              /\ end = IF curr_section_id = 0 THEN metadata_end + Size(0) ELSE curr_section_end
              /\ CopyCode(count, start, end, curr_section_id, n)
              /\ \/ /\ curr_section_id + 1 >= n_actors /\ Finish(n, count)
                    /\ \/ cursor + n - start >= Size(curr_section_id)
                       \/ cursor + n - start < 0
                 \/ /\ ~(curr_section_id + 1 >= n_actors)
                    /\ \/ cursor + n - start >= Size(curr_section_id)
                       \/ cursor + n - start < 0
                    /\ curr_section_id' = curr_section_id + 1
                    /\ curr_section_start' = end
                    /\ curr_section_end' = end + Size(curr_section_id + 1)
                    /\ Consumed(n) /\ UNCHANGED <<is_receiving_test_case, features>>
                 \/ /\ cursor + n - start < Size(curr_section_id)
                    /\ ~(cursor + n - start < 0)
                    /\ curr_section_id' = curr_section_id
                    /\ curr_section_start' = start /\ curr_section_end' = end
                    /\ Consumed(n) /\ UNCHANGED <<is_receiving_test_case, features>>
  BY <1>0, CopySectionParts
<1>6. start = SectionStart(curr_section_id) /\ end = start + Size(curr_section_id)
  <2>1. CASE curr_section_id = 0
    BY <1>1, <1>5, <2>1, SectionFacts
  <2>2. CASE curr_section_id # 0
    <3>1. curr_section_id > 0
      BY <1>1, <2>2 DEF TypeOK
    <3> QED BY <1>1, <1>5, <2>2, <3>1 DEF InCode
  <2> QED BY <2>1, <2>2
<1>7. /\ cursor' = cursor + n
      /\ cursor + n - start <= Size(curr_section_id) /\ ~(cursor + n - start < 0)
      /\ n = count \/ cursor + n - start = Size(curr_section_id)
      /\ ~outside'
      /\ \A s \in 0..(n_actors - 1) : s # curr_section_id => sections'[s] = sections[s]
      /\ \A b \in 0..(cursor + n - start - 1) : sections'[curr_section_id][b] = start + b + 1
  BY <1>0, <1>5, <1>6, CodeStep
<1>8. /\ cursor \in Nat /\ n \in Nat /\ n > 0 /\ Size(curr_section_id) \in Nat
      /\ curr_section_id \in Nat /\ n_actors \in Nat /\ FileSize \in Nat
      /\ start <= cursor /\ metadata_end <= start
  <2>1. start <= cursor
    BY <1>1, <1>6 DEF InCode
  <2>2. cursor \in Nat /\ curr_section_id \in Nat /\ n_actors \in Nat
    BY Limits DEF TypeOK
  <2>3. FileSize \in Nat /\ Size(curr_section_id) \in Nat
    BY <2>2, SizeFacts
  <2>4. file.offsets[curr_section_id + 1] \in Nat
    BY <1>1, SizeFacts DEF TablesOf
  <2>5. metadata_end <= start
    BY <1>4, <1>6, <2>4 DEF SectionStart
  <2> QED BY <1>0, <2>1, <2>2, <2>3, <2>5
\* The sections before this one are as they were.
<1>9. ASSUME NEW s \in 0..(curr_section_id - 1)
      PROVE  Size(s)' <= MAX_SECTION_SIZE /\ Holds(s, Size(s))'
  <2>1. Size(s) <= MAX_SECTION_SIZE /\ Holds(s, Size(s))
    BY <1>1 DEF InCode
  <2>2. s \in 0..(n_actors - 1) /\ s # curr_section_id
    BY <1>1, <1>8
  <2>3. sections'[s] = sections[s] /\ SectionStart(s)' = SectionStart(s) /\ Size(s)' = Size(s)
    BY <1>4, <1>7, <2>2
  <2> QED BY <2>1, <2>3 DEF Holds
<1>10. CASE /\ cursor + n - start < Size(curr_section_id)
            /\ curr_section_id' = curr_section_id
            /\ curr_section_start' = start /\ curr_section_end' = end
            /\ Consumed(n) /\ UNCHANGED <<is_receiving_test_case, features>>
  <2>1. SectionStart(curr_section_id)' = start /\ Size(curr_section_id)' = Size(curr_section_id)
    BY <1>2, <1>6, <1>10
       DEF SectionStart, Size, metadata_end, symbol_table_end, actor_table_end
  <2>2. Holds(curr_section_id, cursor - SectionStart(curr_section_id))'
    <3>1. ASSUME NEW b \in 0..(cursor' - start - 1)
          PROVE  sections'[curr_section_id'][b] = start + b + 1
      <4>1. b \in 0..(cursor + n - start - 1)
        BY <1>7, <1>8, <3>1
      <4>2. sections'[curr_section_id][b] = start + b + 1
        BY <1>7, <4>1
      <4> QED BY <1>10, <4>2
    <3> QED BY <2>1, <3>1, Zenon DEF Holds
  <2>3. \A s \in 0..(curr_section_id' - 1) : Size(s)' <= MAX_SECTION_SIZE /\ Holds(s, Size(s))'
    BY <1>9, <1>10
  <2>4. /\ SectionStart(curr_section_id)' <= cursor'
        /\ cursor' < SectionStart(curr_section_id)' + Size(curr_section_id)'
    BY <1>7, <1>8, <1>10, <2>1
  <2>5. InCode'
    BY <1>6, <1>10, <2>1, <2>2, <2>3, <2>4 DEF InCode
  <2>6. cursor' = written' /\ cursor' >= metadata_end' /\ cursor' >= TC_HEADER_SIZE
    BY <1>1, <1>4, <1>7, <1>8, <1>10 DEF Consumed, TC_HEADER_SIZE
  <2>7. curr_section_id' < n_actors' /\ ~(cursor' < metadata_end')
    BY <1>1, <1>2, <1>4, <1>8, <1>10, <2>6, <1>7
  <2>8. Receiving'
    BY <1>3, <2>5, <2>6, <2>7 DEF Receiving
  <2> QED BY <1>0, <1>7, <1>10, <2>8 DEF Follows, Consumed
<1>11. CASE /\ ~(curr_section_id + 1 >= n_actors)
            /\ cursor + n - start >= Size(curr_section_id)
            /\ curr_section_id' = curr_section_id + 1
            /\ curr_section_start' = end
            /\ curr_section_end' = end + Size(curr_section_id + 1)
            /\ Consumed(n) /\ UNCHANGED <<is_receiving_test_case, features>>
  <2>1. cursor + n = end /\ cursor + n - start = Size(curr_section_id)
    BY <1>6, <1>7, <1>8, <1>11
  <2>2. curr_section_id + 1 < n_actors /\ curr_section_id + 1 \in 0..(n_actors - 1)
    BY <1>8, <1>11
  <2>3. SectionStart(curr_section_id + 1) = end
    BY <1>1, <1>6, <2>2, SectionFacts
  <2>4. /\ SectionStart(curr_section_id)' = end
        /\ Size(curr_section_id)' = Size(curr_section_id + 1)
    BY <1>2, <1>11, <2>3
       DEF SectionStart, Size, metadata_end, symbol_table_end, actor_table_end
  <2>5. Size(curr_section_id + 1) \in Nat /\ Size(curr_section_id + 1) > 0
    BY <1>1, <2>2, SectionFacts
  <2>6. ASSUME NEW s \in 0..(curr_section_id' - 1)
        PROVE  Size(s)' <= MAX_SECTION_SIZE /\ Holds(s, Size(s))'
    <3>1. s \in 0..(curr_section_id - 1) \/ s = curr_section_id
      BY <1>8, <1>11
    <3>2. CASE s = curr_section_id
      <4>1. SectionStart(s)' = start /\ Size(s)' = Size(curr_section_id)
        BY <1>4, <1>6, <3>2
      <4>2. ASSUME NEW b \in 0..(Size(curr_section_id) - 1)
            PROVE  sections'[s][b] = start + b + 1
        <5>1. b \in 0..(cursor + n - start - 1)
          BY <1>8, <2>1, <4>2
        <5>2. sections'[curr_section_id][b] = start + b + 1
          BY <1>7, <5>1
        <5> QED BY <3>2, <5>2
      <4> QED BY <1>0, <4>1, <4>2 DEF Holds
    <3> QED BY <1>9, <3>1, <3>2
  <2>7. Holds(curr_section_id, cursor - SectionStart(curr_section_id))'
    <3>1. cursor' - SectionStart(curr_section_id)' = 0
      BY <1>7, <2>1, <2>4
    <3> QED BY <3>1 DEF Holds
  <2>8. /\ SectionStart(curr_section_id)' <= cursor'
        /\ cursor' < SectionStart(curr_section_id)' + Size(curr_section_id)'
    BY <1>7, <2>1, <2>4, <2>5
  <2>9. InCode'
    BY <1>11, <2>4, <2>6, <2>7, <2>8 DEF InCode
  <2>10. cursor' = written' /\ cursor' >= metadata_end' /\ cursor' >= TC_HEADER_SIZE
    BY <1>1, <1>4, <1>7, <1>8, <1>11 DEF Consumed, TC_HEADER_SIZE
  <2>11. curr_section_id' < n_actors' /\ ~(cursor' < metadata_end')
    BY <1>2, <1>4, <1>7, <1>8, <1>11, <2>2, <2>10
  <2>12. Receiving'
    BY <1>3, <2>9, <2>10, <2>11 DEF Receiving
  <2> QED BY <1>0, <1>7, <1>11, <2>12 DEF Follows, Consumed
\* The last section ends with the file, and so does the write that fills it.
<1>12. CASE /\ curr_section_id + 1 >= n_actors /\ Finish(n, count)
            /\ cursor + n - start >= Size(curr_section_id)
  <2>1. cursor + n = start + Size(curr_section_id) /\ curr_section_id = n_actors - 1
    BY <1>1, <1>7, <1>8, <1>12
  <2>2. start + Size(curr_section_id) = FileSize
    BY <1>1, <1>6, <2>1, SectionFacts
  <2>3. n = count
    BY <1>0, <1>1, <1>8, <2>1, <2>2
  <2>4. is_receiving_test_case' = FALSE /\ written' = FileSize'
    BY <1>1, <1>4, <1>12, <2>1, <2>2 DEF Finish
  <2>5. ASSUME upload' # "failed"
        PROVE  accepted' /\ MayAccept(header.checks) /\ tc_ready' /\ upload' = "open"
    BY <1>12, <2>5 DEF Finish, Store
  <2>6. Complete'
    <3>1. ASSUME NEW s \in 0..(n_actors - 1), NEW b \in 0..(Size(s) - 1)
          PROVE  sections'[s][b] = SectionStart(s) + b + 1
      <4>1. CASE s = curr_section_id
        <5>1. b \in 0..(cursor + n - start - 1)
          BY <2>1, <1>8, <3>1, <4>1
        <5> QED BY <1>6, <1>7, <4>1, <5>1
      <4>2. CASE s # curr_section_id
        <5>1. s \in 0..(curr_section_id - 1)
          BY <1>8, <2>1, <3>1, <4>2
        <5>2. Holds(s, Size(s))
          BY <1>1, <5>1 DEF InCode
        <5> QED BY <1>7, <3>1, <4>2, <5>2 DEF Holds
      <4> QED BY <4>1, <4>2
    <3>2. ASSUME NEW s \in 0..(n_actors - 1), NEW b \in 0..(Size(s) - 1)
          PROVE  sections'[s][b] = TC_HEADER_SIZE + 2 * n_actors + n_symbols + file.offsets[s + 1] + b + 1
      <4>1. SectionStart(s) = TC_HEADER_SIZE + 2 * n_actors + n_symbols + file.offsets[s + 1]
        BY <1>1, SectionFacts DEF SectionStart
      <4> QED BY <3>1, <4>1
    <3>3. n_actors' = n_actors /\ n_symbols' = n_symbols /\ \A s : Size(s)' = Size(s)
      BY <1>2, <1>4
    <3> QED BY <3>2, <3>3 DEF Complete
  <2>7. ASSUME upload' # "failed" PROVE Done'
    <3>1. MayAccept(file.checks)'
      BY <1>1, <2>5, <2>7 DEF MayAccept, TablesOf
    <3> QED BY <1>3, <2>4, <2>5, <2>6, <2>7, <3>1 DEF Done
  <2> QED BY <1>7, <2>4, <2>7 DEF Follows
<1> QED BY <1>5, <1>7, <1>10, <1>11, <1>12

\* The rest of the file, and the file after it.
LEMMA FollowsStep == UploadInv /\ [Next]_vars => (~stale => Follows)'
<1> SUFFICES ASSUME UploadInv, [Next]_vars, ~stale' PROVE Follows'
  OBVIOUS
<1>t. TypeOK /\ TypeOK' /\ Room
  BY TypeStep DEF UploadInv
<1>1. CASE Write
  <2>1. /\ file' = file /\ stale' = stale /\ Follows
        /\ upload = "open" /\ written < FileSize
    BY <1>1 DEF Write, Uploading, UploadInv
  <2>2. ASSUME ~is_receiving_test_case PROVE Between
    <3>1. Between \/ Done
      BY <2>1, <2>2 DEF Follows
    <3>2. Done => written = FileSize
      BY DEF Done
    <3>3. FileSize \in Nat
      BY <1>t, SizeFacts
    <3> QED BY <2>1, <3>1, <3>2, <3>3
  <2>3. is_receiving_test_case => Receiving
    BY <2>1 DEF Follows
  <2>4. ~outside
    BY <2>1 DEF Follows
  <2>5. CASE ParseHeader
    BY <1>t, <2>1, <2>2, <2>5, HeaderStep DEF ParseHeader
  <2>6. CASE MisreadHeader
    BY <2>2, <2>6 DEF MisreadHeader, Between
  <2>7. CASE HeaderFails
    BY <2>4, <2>7 DEF HeaderFails, Rejected, Follows
  <2>8. CASE FinishAtHeader
    <3>1. curr_section_id = 0 /\ 0 >= Len(file.actors)
      BY <2>2, <2>8 DEF FinishAtHeader, Between
    <3>2. Len(file.actors) \in 1..MaxActors
      BY <1>t, FileFacts DEF TypeOK
    <3> QED BY <3>1, <3>2
  <2>9. CASE RejectSection
    BY <2>4, <2>9 DEF RejectSection, Rejected, Follows
  <2>10. ASSUME NEW count \in 1..MaxWrite, ParseTable(count)
         PROVE  Follows'
    <3>1. is_receiving_test_case
      BY <2>10 DEF ParseTable
    <3> QED BY <1>t, <2>1, <2>3, <2>4, <2>10, <3>1, TableStep
  <2>11. ASSUME NEW count \in 1..MaxWrite, count <= FileSize - written, ParseSection(count)
         PROVE  Follows'
    <3>1. is_receiving_test_case
      BY <2>11 DEF ParseSection, InSection
    <3> QED BY <1>t, <2>1, <2>3, <2>4, <2>11, <3>1, SectionStep
  <2> QED BY <1>1, <2>5, <2>6, <2>7, <2>8, <2>9, <2>10, <2>11 DEF Write
<1>2. CASE CloseFile
  <2>1. upload = "open" /\ written = FileSize /\ ~stale /\ Follows /\ upload' = "done"
    BY <1>2 DEF CloseFile, UploadInv
  <2>2. UNCHANGED <<state, outside, tc_ready, file, written, accepted>>
    BY <1>2 DEF CloseFile
  <2>3. FileSize \in Nat
    BY <1>t, SizeFacts
  <2>4. ~is_receiving_test_case
    BY <1>t, <2>1, <2>3, ReceivingNotAtEnd DEF Follows
  <2>5. written # 0
    <3>1. Len(file.sizes) \in 1..Len(file.actors) /\ file \in Files /\ file.symbols \in Nat
          /\ Len(file.actors) \in Nat /\ Len(file.actors) > 0
      BY <1>t, FileFacts, Limits, SMTT(30) DEF TypeOK
    <3>2. file.offsets[Len(file.sizes)] \in Nat /\ file.sizes[Len(file.sizes)] \in Nat
      BY <3>1, FileFacts
    <3>3. \A a, b, c, d \in Nat : 1 + 2 * a + b + c + d # 0
      OBVIOUS
    <3>4. 1 + 2 * Len(file.actors) + file.symbols + file.offsets[Len(file.sizes)]
          + file.sizes[Len(file.sizes)] # 0
      BY <3>1, <3>2, <3>3
    <3> QED BY <2>1, <3>4 DEF FileSize, TC_HEADER_SIZE
  <2>6. Done /\ ~outside
    BY <2>1, <2>4, <2>5 DEF Follows, Between
  <2>7. Done'
    BY <2>2, <2>6 DEF Done, TablesOf, Complete, FileSize, Size, MayAccept, state, TC_HEADER_SIZE
  <2> QED BY <2>1, <2>2, <2>6, <2>7 DEF Follows
<1>3. CASE OpenFile
  <2>1. /\ upload' = "open" /\ written' = 0 /\ ~outside'
        /\ curr_section_id = 0 /\ ~is_receiving_test_case
        /\ curr_section_id' = curr_section_id /\ is_receiving_test_case' = is_receiving_test_case
    BY <1>3 DEF OpenFile, state
  <2> QED BY <2>1 DEF Follows, Between
<1>4. CASE UNCHANGED vars
  <2>1. Follows
    BY <1>4 DEF vars, UploadInv
  <2> QED BY <1>4, <2>1 DEF vars, state, Follows, Receiving, InCode, Done, Between, TablesOf, Complete, Holds,
         SectionStart, FileSize, Size, MayAccept, metadata_end, symbol_table_end, actor_table_end
<1> QED BY <1>1, <1>2, <1>3, <1>4 DEF Next

\* What the parser keeps true however the file is cut into writes, and whatever
\* was uploaded before it.
LEMMA UploadInvariant == Spec => []UploadInv
<1>1. Init => UploadInv
  <2> SUFFICES ASSUME Init PROVE UploadInv
    OBVIOUS
  <2>1. Room /\ Follows
    BY DEF Init, Room, Follows
  <2> QED BY <2>1, InitType DEF UploadInv
<1>2. UploadInv /\ [Next]_vars => UploadInv'
  BY TypeStep, RoomStep, FollowsStep DEF UploadInv
<1> QED BY <1>1, <1>2, PTL DEF Spec

-----------------------------------------------------------------------------
(* The theorems.                                                           *)

\* For every set of files and every way of cutting them into writes
\* (parse_test_case_buffer): no byte of code is written outside of the section
\* arrays, and after an upload without errors each section holds the bytes that
\* the file has there, unless the file came after one that ended inside a section.
THEOREM CodeAlwaysComplete == Spec => []CodeComplete
<1>1. UploadInv => CodeComplete
  BY DEF UploadInv, CodeComplete, Follows, Done
<1> QED BY <1>1, UploadInvariant, PTL

\* After such an upload test_case_store has left the module ready, with the actors
\* of this file in tables that are large enough and the integrity check passed.
THEOREM UploadedAlwaysReady == Spec => []UploadedTestCaseReady
<1>1. UploadInv => UploadedTestCaseReady
  BY DEF UploadInv, UploadedTestCaseReady, Follows, Done, TablesOf, MayAccept
<1> QED BY <1>1, UploadInvariant, PTL

=============================================================================
