--------------------------- MODULE TestCaseParser ---------------------------
(***************************************************************************)
(* The upload of a test case to the kernel module: test_case_store         *)
(* (main.c) and test_case_parser.c, fed by save_rcbf.                      *)
(*                                                                         *)
(* An RCBF file is a header, the actor table, the symbol table, the        *)
(* metadata of the sections, and the code of one section per actor.  Like  *)
(* the inputs it arrives in pieces, and the parser's position, including   *)
(* the section it is in, survives between the calls and between the files. *)
(*                                                                         *)
(* Units: the header, the entries of the three tables, and the bytes of    *)
(* code have size 1.  Of the symbols only what the integrity check asks    *)
(* about is kept, of the actors only what the feature flags ask about.     *)
(***************************************************************************)
EXTENDS Integers, Sequences

CONSTANTS
    Files,             \* the files that are uploaded: records with the fields below
    MaxActors,         \* bound on their actors
    MAX_SECTION_SIZE,  \* the limit of the code, small here
    MaxWrite,          \* bound on the entries in one write
    AllocFailures      \* whether the kernel may run out of memory

\* actors: for each actor the set of its properties ("guest", "user");
\* symbols: how many; checks: the facts __batch_tc_parsing_end tests, as far
\* as they hold; sizes: of the sections; offsets: where the code of each section
\* starts in the code of the file
Facts == {"ordered", "start", "end", "main", "targets"}
ASSUME FilesAssumption ==
    /\ MaxActors \in Nat \ {0} /\ MAX_SECTION_SIZE \in Nat \ {0} /\ MaxWrite \in Nat \ {0}
    /\ AllocFailures \in BOOLEAN
    /\ \A f \in Files :
          /\ f.actors \in Seq(SUBSET {"guest", "user"}) /\ Len(f.actors) \in 1..MaxActors
          /\ f.symbols \in Nat /\ f.checks \subseteq Facts
          /\ f.sizes \in Seq(Nat \ {0}) /\ Len(f.sizes) = Len(f.actors)
          /\ f.offsets \in Seq(Nat) /\ Len(f.offsets) = Len(f.sizes) /\ f.offsets[1] = 0
          /\ \A s \in 2..Len(f.sizes) : f.offsets[s] = f.offsets[s - 1] + f.sizes[s - 1]

VARIABLES
    is_receiving_test_case, cursor,
    curr_section_id, curr_section_start, curr_section_end,
    n_actors, n_symbols,
    header,                          \* the file that the tables in memory are from
    highest_n_actors, allocated,     \* allocated: actors the buffers have room for; 0 is NULL
    sections,                        \* which entry of the file each byte of code holds
    outside,                         \* history: a byte of this file was written outside of them
    features,                        \* of the test case: "vm", "user"
    tc_ready,
    file, written,                   \* the file being uploaded, entries written so far
    upload,                          \* "none", "open", "done" or "failed"
    accepted,                        \* history: __batch_tc_parsing_end accepted the test case
    stale                            \* history: this file met the position in another one

state == <<is_receiving_test_case, cursor, curr_section_id, curr_section_start, curr_section_end,
           n_actors, n_symbols, header, highest_n_actors, allocated, sections, features>>
vars == <<state, outside, tc_ready, file, written, upload, accepted, stale>>

TC_HEADER_SIZE == 1
actor_table_end == TC_HEADER_SIZE + n_actors
symbol_table_end == actor_table_end + n_symbols
metadata_end == symbol_table_end + n_actors

FileSize ==
    LET last == Len(file.sizes)
    IN TC_HEADER_SIZE + 2 * Len(file.actors) + file.symbols
       + file.offsets[last] + file.sizes[last]
\* The size that the metadata give for a section, from 0 on; there is nothing
\* behind the last one.
Size(s) == IF s + 1 \in DOMAIN header.sizes THEN header.sizes[s + 1] ELSE 0

Empty == [s \in 0..(MaxActors - 1) |-> [b \in 0..(MAX_SECTION_SIZE - 1) |-> 0]]

TypeOK ==
    /\ is_receiving_test_case \in BOOLEAN /\ tc_ready \in BOOLEAN /\ outside \in BOOLEAN
    /\ cursor \in Nat /\ curr_section_id \in 0..MaxActors
    /\ curr_section_start \in Nat /\ curr_section_end \in Nat
    /\ n_actors \in 1..MaxActors /\ n_symbols \in Nat
    /\ highest_n_actors \in 0..MaxActors /\ allocated \in 0..MaxActors
    /\ sections \in [DOMAIN Empty -> [0..(MAX_SECTION_SIZE - 1) -> Nat]]
    /\ features \subseteq {"vm", "user"}
    /\ file \in Files /\ header \in Files /\ written \in Nat
    /\ upload \in {"none", "open", "done", "failed"} /\ accepted \in BOOLEAN
    /\ stale \in BOOLEAN

\* init_test_case_parser: a dummy test case with one actor
Init ==
    /\ is_receiving_test_case = FALSE /\ cursor = 0
    /\ curr_section_id = 0 /\ curr_section_start = 0 /\ curr_section_end = 0
    /\ n_actors = 1 /\ n_symbols = 0 /\ highest_n_actors = 0 /\ allocated = 1
    /\ sections = Empty /\ outside = FALSE /\ features = {}
    /\ tc_ready = FALSE
    /\ file \in Files /\ header = file /\ written = 0 /\ upload = "none" /\ accepted = FALSE
    /\ stale = FALSE

-----------------------------------------------------------------------------
(* __batch_tc_parsing_end: the integrity check and the feature flags.      *)

\* The variable has_start is set when the symbol is found and not initialised
\* otherwise, so a file without it may pass; the others are initialised.
MayAccept(checks) == (Facts \ {"start"}) \subseteq checks
MayReject(checks) == ~(Facts \subseteq checks)

\* The loop over the actors stops at the first one that is a guest or a user.
FeaturesOf(actors) ==
    LET special == {i \in DOMAIN actors : actors[i] # {}}
        first == CHOOSE i \in special : \A j \in special : i <= j
    IN IF special = {} THEN {} ELSE IF "guest" \in actors[first] THEN {"vm"} ELSE {"user"}

-----------------------------------------------------------------------------
(* parse_test_case_buffer                                                  *)

\* A write that consumed n entries and did not complete the test case.
Consumed(n) ==
    /\ written' = written + n
    /\ tc_ready' = FALSE /\ accepted' = FALSE
    /\ UNCHANGED upload

Rejected ==
    /\ upload' = "failed"
    /\ tc_ready' = FALSE /\ accepted' = FALSE
    /\ UNCHANGED written

\* __batch_tc_parsing_start: the tables, grown where needed, and the flags of
\* the new test_case are cleared.
StartBatch ==
    /\ LET new_n_actors == Len(file.actors)
           grow == new_n_actors > highest_n_actors \/ allocated = 0
       IN /\ n_actors' = new_n_actors /\ n_symbols' = file.symbols /\ header' = file
          /\ highest_n_actors' = IF grow THEN new_n_actors ELSE highest_n_actors
          /\ allocated' = IF grow THEN new_n_actors ELSE allocated
    /\ sections' = Empty /\ features' = {} /\ outside' = FALSE
    /\ cursor' = TC_HEADER_SIZE

ParseHeader ==
    /\ ~is_receiving_test_case /\ written = 0 /\ curr_section_id < Len(file.actors)
    /\ StartBatch
    /\ is_receiving_test_case' = TRUE
    /\ Consumed(TC_HEADER_SIZE)
    /\ UNCHANGED <<curr_section_id, curr_section_start, curr_section_end>>

\* The rest of a file is taken for a header.  Two 64-bit numbers made of
\* instructions are neither a count of symbols below the limit nor one of actors
\* that can be allocated: the file is rejected.
MisreadHeader ==
    /\ ~is_receiving_test_case /\ written > 0
    /\ cursor' = 0 /\ features' = {}
    /\ Rejected
    /\ UNCHANGED <<is_receiving_test_case, curr_section_id, curr_section_start, curr_section_end,
                   n_actors, n_symbols, header, highest_n_actors, allocated, sections, outside>>

\* An allocation fails: of the symbol table, or of the others, which are gone.
HeaderFails ==
    /\ ~is_receiving_test_case /\ written = 0 /\ AllocFailures
    /\ \/ UNCHANGED allocated
       \/ /\ Len(file.actors) > highest_n_actors \/ allocated = 0
          /\ allocated' = 0
    /\ cursor' = 0 /\ features' = {}
    /\ Rejected
    /\ UNCHANGED <<is_receiving_test_case, curr_section_id, curr_section_start, curr_section_end,
                   n_actors, n_symbols, header, highest_n_actors, sections, outside>>

\* Faulty variant: the last entry of a table is left for another call.
ParseTableStopsShort(count) ==
    /\ is_receiving_test_case /\ cursor < metadata_end
    /\ LET end == IF cursor < actor_table_end THEN actor_table_end
                  ELSE IF cursor < symbol_table_end THEN symbol_table_end ELSE metadata_end
           n == IF count < end - cursor THEN count ELSE end - cursor - 1
       IN cursor' = cursor + n /\ Consumed(n)
    /\ UNCHANGED <<is_receiving_test_case, curr_section_id, curr_section_start, curr_section_end,
                   n_actors, n_symbols, header, highest_n_actors, allocated, sections, outside,
                   features>>

\* One of the three tables; at most the rest of the table is consumed.
ParseTable(count) ==
    /\ is_receiving_test_case /\ cursor < metadata_end
    /\ LET end == IF cursor < actor_table_end THEN actor_table_end
                  ELSE IF cursor < symbol_table_end THEN symbol_table_end ELSE metadata_end
           n == IF count < end - cursor THEN count ELSE end - cursor
       IN cursor' = cursor + n /\ Consumed(n)
    /\ UNCHANGED <<is_receiving_test_case, curr_section_id, curr_section_start, curr_section_end,
                   n_actors, n_symbols, header, highest_n_actors, allocated, sections, outside,
                   features>>

InSection == is_receiving_test_case /\ cursor >= metadata_end

\* A section that is too large ends the upload, but not the section count.
RejectSection ==
    /\ InSection /\ Size(curr_section_id) > MAX_SECTION_SIZE
    /\ IF curr_section_id = 0
       THEN curr_section_start' = metadata_end /\ curr_section_end' = metadata_end + Size(0)
       ELSE UNCHANGED <<curr_section_start, curr_section_end>>
    /\ is_receiving_test_case' = FALSE
    /\ Rejected
    /\ UNCHANGED <<cursor, curr_section_id, n_actors, n_symbols, header, highest_n_actors,
                   allocated, sections, outside, features>>

\* Faulty variant: each write starts at the beginning of the section.
CopyCodeFromStart(count, start, end, id, n) ==
    LET func_cursor == cursor - start
        left == Size(id) - func_cursor
    IN /\ n = IF func_cursor < -1 \/ left <= 1 THEN 1 ELSE IF count < left THEN count ELSE left
       /\ sections' = [s \in DOMAIN sections |-> [b \in DOMAIN sections[s] |->
                         IF s = id /\ b < n THEN written + 1 + b ELSE sections[s][b]]]
       /\ outside' = (outside \/ id >= allocated \/ n > MAX_SECTION_SIZE)
       /\ cursor' = cursor + n

\* Bytes of code, at most the rest of the section.  func_cursor is unsigned: below
\* zero it is above every size, but one before the section it wraps to its start.
CopyCode(count, start, end, id, n) ==
    LET func_cursor == cursor - start
        left == Size(id) - func_cursor
    IN /\ n = IF func_cursor < -1 \/ left <= 1 THEN 1 ELSE IF count < left THEN count ELSE left
       /\ sections' = [s \in DOMAIN sections |-> [b \in DOMAIN sections[s] |->
                         IF s = id /\ b \in func_cursor..(func_cursor + n - 1)
                         THEN written + 1 + (b - func_cursor) ELSE sections[s][b]]]
       /\ outside' = (outside \/ id >= allocated \/ func_cursor < 0
                              \/ func_cursor + n > MAX_SECTION_SIZE)
       /\ cursor' = cursor + n

\* test_case_store after the last section: whatever the parser thinks of the
\* test case, it is loaded; then the write succeeds if everything went well.
Store(ok) ==
    \/ /\ tc_ready' = TRUE
       /\ upload' = IF ok THEN upload ELSE "failed"
    \/ /\ features' # {} \/ AllocFailures      \* check_test_case_compat, allocate_sandbox
       /\ tc_ready' = FALSE /\ upload' = "failed"

\* Faulty variant: the parser stays in the receiving state.
FinishStillReceiving(n, count) ==
    /\ curr_section_id' = 0 /\ curr_section_start' = 0 /\ curr_section_end' = 0
    /\ written' = written + n
    /\ accepted' = TRUE /\ features' = FeaturesOf(header.actors)
    /\ Store(n = count)
    /\ UNCHANGED is_receiving_test_case

\* The test case is accepted or not; a write with more than the rest of the
\* file in it is an error too.
Finish(n, count) ==
    /\ curr_section_id' = 0 /\ curr_section_start' = 0 /\ curr_section_end' = 0
    /\ is_receiving_test_case' = FALSE
    /\ written' = written + n
    /\ \/ /\ MayAccept(header.checks) /\ accepted' = TRUE
          /\ features' = FeaturesOf(header.actors)
          /\ Store(n = count)
       \/ /\ MayReject(header.checks) /\ accepted' = FALSE
          /\ UNCHANGED features
          /\ Store(FALSE)

\* The section that the parser is in takes its bytes; the last one completes the
\* test case.
CopySection(count) ==
    /\ \E n \in 1..count :
       LET first == curr_section_id = 0
           start == IF first THEN metadata_end ELSE curr_section_start
           end == IF first THEN metadata_end + Size(0) ELSE curr_section_end
           func_finished == \/ cursor + n - start >= Size(curr_section_id)
                            \/ cursor + n - start < 0
       IN /\ CopyCode(count, start, end, curr_section_id, n)
          /\ IF func_finished /\ curr_section_id + 1 >= n_actors THEN Finish(n, count)
             ELSE /\ curr_section_id' = IF func_finished THEN curr_section_id + 1
                                        ELSE curr_section_id
                  /\ curr_section_start' = IF func_finished THEN end ELSE start
                  /\ curr_section_end' = IF func_finished THEN end + Size(curr_section_id + 1)
                                         ELSE end
                  /\ Consumed(n)
                  /\ UNCHANGED <<is_receiving_test_case, features>>
    /\ UNCHANGED <<n_actors, n_symbols, header, highest_n_actors, allocated>>

ParseSection(count) ==
    /\ InSection /\ Size(curr_section_id) <= MAX_SECTION_SIZE
    /\ CopySection(count)

\* The section count of an earlier file is already the number of actors: the
\* file is complete after its header, with empty tables, which is rejected.
FinishAtHeader ==
    /\ ~is_receiving_test_case /\ written = 0 /\ curr_section_id >= Len(file.actors)
    /\ StartBatch
    /\ curr_section_id' = 0 /\ curr_section_start' = 0 /\ curr_section_end' = 0
    /\ written' = TC_HEADER_SIZE
    /\ accepted' = FALSE
    /\ Store(FALSE)
    /\ UNCHANGED is_receiving_test_case

-----------------------------------------------------------------------------
(* The user process.                                                       *)

Uploading == upload = "open" /\ written < FileSize

\* One call of test_case_store, which first clears tc_ready (Consumed, Rejected, Store).
Write ==
    /\ Uploading
    /\ \/ ParseHeader \/ MisreadHeader \/ HeaderFails \/ FinishAtHeader \/ RejectSection
       \/ \E count \in 1..MaxWrite :
             /\ count <= FileSize - written
             /\ ParseTable(count) \/ ParseSection(count)
    /\ UNCHANGED <<file, stale>>

CloseFile ==
    /\ upload = "open" /\ written = FileSize
    /\ upload' = "done"
    /\ UNCHANGED <<state, outside, tc_ready, file, written, accepted, stale>>

\* save_rcbf opens the file for the next test case, in the next round or in the
\* session that follows a failed upload.
OpenFile ==
    /\ upload # "open" /\ upload' = "open"
    /\ file' \in Files /\ written' = 0
    /\ stale' = (curr_section_id # 0 \/ is_receiving_test_case) /\ outside' = FALSE
    /\ UNCHANGED <<state, tc_ready, accepted>>

Next == Write \/ CloseFile \/ OpenFile

\* A process that writes a file goes on until it is done or an error stops it.
Spec == Init /\ [][Next]_vars /\ WF_vars(Write \/ CloseFile)

-----------------------------------------------------------------------------
(* Properties.                                                             *)

\* Each section holds its bytes of the file.
Complete ==
    \A s \in 0..(n_actors - 1) : \A b \in 0..(Size(s) - 1) :
        sections[s][b] = TC_HEADER_SIZE + 2 * n_actors + n_symbols
                         + file.offsets[s + 1] + b + 1

\* However the file was cut into writes and whatever was uploaded before: every
\* byte of code goes into its section array, below the limit, and what an upload
\* without errors left in the module is the code of the file.  The one exception
\* is the file after one with a section that was too large, whose section count
\* is still in force, and it ends there.
CodeComplete == TypeOK /\ (~stale => ~outside /\ (upload = "done" => Complete))

\* After an upload without errors the module is ready to measure, knows this
\* file's actors, and has found in it all that the integrity check asks for (but
\* for the start of the measurement, see MayAccept).  The exception is again the
\* file that met the section count of another: it may end inside a section, and
\* the module, still receiving, is not ready.
UploadedTestCaseReady ==
    upload = "done" /\ ~stale =>
        /\ tc_ready /\ ~is_receiving_test_case
        /\ accepted /\ Facts \ {"start"} \subseteq file.checks
        /\ n_actors = Len(file.actors) /\ n_actors <= allocated

\* An upload ends: no write consumes nothing.
TestCaseUploadEnds == Uploading ~> ~Uploading

=============================================================================
