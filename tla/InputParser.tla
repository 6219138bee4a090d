---------------------------- MODULE InputParser ----------------------------
(***************************************************************************)
(* The upload of a batch of inputs to the kernel module (input_parser.c,   *)
(* inputs_store of main.c) by save_input_sequence_as_rdbf.                 *)
(*                                                                         *)
(* The user process writes an RDBF file to sysfs: a header, one metadata   *)
(* entry per actor, and one fragment per input and actor, input by input.  *)
(* sysfs cuts it into writes; each is one call of parse_input_buffer, that *)
(* handles one phase of the format, and says how much it consumed, so that *)
(* the process writes the rest again.  The parser's position survives      *)
(* between calls, whoever makes them, and its buffers survive between      *)
(* batches and grow when a batch does not fit.                             *)
(*                                                                         *)
(* Units: the header, a metadata entry and a fragment have size 1, and a   *)
(* write takes any number of them; a write that ends inside an entry is    *)
(* covered by the fact that no decision depends on what is in an entry.    *)
(*                                                                         *)
(* Widths: a header has 64-bit counts, of which the code checks the low 32 *)
(* bits as a signed int, and the size of the data wraps around.  IntRange  *)
(* and SizeRange stand for 2^32 and for the number of fragments whose size *)
(* is 0 again (2^52 for fragments of three pages).                         *)
(***************************************************************************)
EXTENDS Integers, FiniteSets

CONSTANTS
    MaxActors,   \* bound on the actors of a test case
    MAX_INPUTS,  \* the limit of the code, small here
    MaxWrite,    \* bound on the entries in one write
    IntRange,    \* number of values of an int
    SizeRange,   \* number of fragments after which data_size wraps around
    AnyCounts,   \* input counts in an entry that is misread as a header
    Interrupts   \* whether the user process may be killed during an upload

ASSUME SizesAssumption ==
    /\ MaxActors \in Nat \ {0} /\ MAX_INPUTS \in Nat \ {0} /\ MaxWrite \in Nat \ {0}
    /\ Interrupts \in BOOLEAN
    /\ IntRange \in Nat /\ 2 * (MAX_INPUTS + 1) < IntRange
    /\ SizeRange \in Nat /\ MaxActors * MAX_INPUTS < SizeRange
    /\ AnyCounts \subseteq Nat

VARIABLES
    is_receiving_inputs,
    cursor,
    metadata_size, data_size,          \* fields of inputs
    inputs,                            \* "set", "garbage" (malloced only) or "null"
    allocated_metadata, allocated_data,   \* sizes of the buffers; 0 is NULL
    highest_n_actors, highest_n_inputs,
    n_inputs, n_actors,
    inputs_ready,
    data,        \* allocated_data: which entry of the current file each cell holds
    file,        \* the file being uploaded: its actors, inputs and entries written
    upload,      \* "open", or how the last upload ended; "none" after a new test case
    aborted      \* history: some upload was given up half-way

parser == <<is_receiving_inputs, cursor, metadata_size, data_size, inputs, allocated_metadata,
            allocated_data, highest_n_actors, highest_n_inputs, n_inputs, inputs_ready, data>>
vars == <<is_receiving_inputs, cursor, metadata_size, data_size, inputs, allocated_metadata,
          allocated_data, highest_n_actors, highest_n_inputs, n_inputs, n_actors, inputs_ready,
          data, file, upload, aborted>>

BATCH_HEADER_SIZE == 1
Actors == 1..MaxActors
\* Lengths of the list of inputs that save_input_sequence_as_rdbf writes: all
\* that are too long, but still an int, are like MAX_INPUTS + 1.
Counts == 0..(MAX_INPUTS + 1)
Cells == 0..(MaxActors * MAX_INPUTS - 1)
Stale == 0                               \* what is not from the current file
FileSize == BATCH_HEADER_SIZE + file.n_actors + file.n_actors * file.n_inputs

TypeOK ==
    /\ is_receiving_inputs \in BOOLEAN /\ inputs_ready \in BOOLEAN
    /\ cursor \in Nat /\ metadata_size \in Nat /\ data_size \in Nat
    /\ inputs \in {"set", "garbage", "null"}
    /\ allocated_metadata \in Nat /\ allocated_data \in Nat
    /\ highest_n_actors \in Nat /\ highest_n_inputs \in Nat
    /\ n_inputs \in Nat /\ n_actors \in Actors
    /\ data \in [Cells -> Nat]
    /\ file \in [n_actors : Actors, n_inputs : Counts, written : Nat]
    /\ upload \in {"none", "open", "done", "failed"} /\ aborted \in BOOLEAN

\* init_input_parser; n_actors starts at 1
Init ==
    /\ is_receiving_inputs = FALSE /\ cursor = 0
    /\ metadata_size = 0 /\ data_size = 0 /\ inputs = "set"
    /\ allocated_metadata = 1 /\ allocated_data = 1
    /\ highest_n_actors = 0 /\ highest_n_inputs = 0
    /\ n_inputs = 0 /\ n_actors = 1 /\ inputs_ready = FALSE
    /\ data = [c \in Cells |-> Stale]
    /\ file = [n_actors |-> 1, n_inputs |-> 0, written |-> 0]
    /\ upload = "none" /\ aborted = FALSE

-----------------------------------------------------------------------------
(* parse_input_buffer                                                      *)

\* A header that fails: the old structure is gone, the new one has only
\* garbage in it; consumed_bytes is an error code (cursor too, until the next
\* header resets it), and the write fails.
HeaderFails(why) ==
    /\ inputs' = why
    /\ is_receiving_inputs' = FALSE /\ inputs_ready' = FALSE /\ cursor' = 0
    /\ upload' = "failed"
    /\ UNCHANGED <<metadata_size, data_size, n_inputs, file>>

\* start_batch_input_parsing cannot allocate the structure ...
NoStructure ==
    /\ HeaderFails("null")
    /\ UNCHANGED <<allocated_metadata, allocated_data, highest_n_actors, highest_n_inputs, data>>

\* (int)n: the low half of a count, signed
AsInt(n) == LET low == n % IntRange IN IF 2 * low >= IntRange THEN low - IntRange ELSE low

\* The checks of the header: only the test for 0 looks at all bits of n.
Accepts(actors, n) == actors = n_actors /\ n # 0 /\ AsInt(n) <= MAX_INPUTS

\* The new data_size, in fragments
DataSize(actors, n) == (actors * n) % SizeRange

\* ... or does not accept the counts in the header.
HeaderRejected(actors, n) ==
    /\ ~Accepts(actors, n)
    /\ HeaderFails("garbage")
    /\ UNCHANGED <<allocated_metadata, allocated_data, highest_n_actors, highest_n_inputs, data>>

\* Faulty variant: buffers that are gone are not noticed.
MustGrowByCounts(actors, n) == actors > highest_n_actors \/ n > highest_n_inputs

MustGrow(actors, n) ==
    \/ actors > highest_n_actors \/ n > highest_n_inputs
    \/ allocated_metadata = 0 \/ allocated_data = 0

\* One of the larger buffers cannot be allocated; both old ones are freed.
BuffersFail(actors, n) ==
    /\ Accepts(actors, n) /\ MustGrow(actors, n)
    /\ allocated_metadata' \in {0, actors} /\ allocated_data' = 0
    /\ data' = [c \in Cells |-> Stale]
    /\ HeaderFails("garbage")
    /\ UNCHANGED <<highest_n_actors, highest_n_inputs>>

\* Faulty variants: the actors in the header are not compared with those of the
\* test case; the largest counts are remembered one by one.
HeaderOfOtherTestCase(actors, n) ==
    /\ actors \in Actors /\ n # 0 /\ AsInt(n) <= MAX_INPUTS /\ DataSize(actors, n) > 0
    /\ allocated_metadata' = actors /\ allocated_data' = DataSize(actors, n)
    /\ highest_n_actors' = actors /\ highest_n_inputs' = n
    /\ data' = [c \in Cells |-> Stale]
    /\ metadata_size' = actors /\ data_size' = DataSize(actors, n)
    /\ inputs' = "set" /\ n_inputs' = n
    /\ cursor' = BATCH_HEADER_SIZE
    /\ is_receiving_inputs' = TRUE /\ inputs_ready' = FALSE
    /\ file' = [file EXCEPT !.written = @ + BATCH_HEADER_SIZE]
    /\ UNCHANGED upload

HeaderRemembersMaxima(actors, n) ==
    /\ Accepts(actors, n) /\ MustGrow(actors, n) /\ DataSize(actors, n) > 0
    /\ allocated_metadata' = actors /\ allocated_data' = DataSize(actors, n)
    /\ highest_n_actors' = IF actors > highest_n_actors THEN actors ELSE highest_n_actors
    /\ highest_n_inputs' = IF n > highest_n_inputs THEN n ELSE highest_n_inputs
    /\ data' = [c \in Cells |-> Stale]
    /\ metadata_size' = actors /\ data_size' = DataSize(actors, n)
    /\ inputs' = "set" /\ n_inputs' = n
    /\ cursor' = BATCH_HEADER_SIZE
    /\ is_receiving_inputs' = TRUE /\ inputs_ready' = FALSE
    /\ file' = [file EXCEPT !.written = @ + BATCH_HEADER_SIZE]
    /\ UNCHANGED upload

\* vmalloc(0) is an error, a batch of size 0 for buffers that are large enough
\* is not.  The counts are remembered as they are, the size after wrapping.
HeaderAccepted(actors, n) ==
    /\ Accepts(actors, n)
    /\ IF MustGrow(actors, n)
       THEN /\ DataSize(actors, n) > 0
            /\ allocated_metadata' = actors /\ allocated_data' = DataSize(actors, n)
            /\ highest_n_actors' = actors /\ highest_n_inputs' = n
            /\ data' = [c \in Cells |-> Stale]
       ELSE UNCHANGED <<allocated_metadata, allocated_data, highest_n_actors, highest_n_inputs,
                        data>>
    /\ metadata_size' = actors /\ data_size' = DataSize(actors, n)
    /\ inputs' = "set" /\ n_inputs' = n
    /\ cursor' = BATCH_HEADER_SIZE
    /\ is_receiving_inputs' = TRUE /\ inputs_ready' = FALSE
    /\ file' = [file EXCEPT !.written = @ + BATCH_HEADER_SIZE]
    /\ UNCHANGED upload

\* The first write of a file holds its header.  When the parser takes another
\* entry for a header, it can find any counts in it.
ParseHeader ==
    /\ ~is_receiving_inputs
    /\ \/ NoStructure
       \/ \E actors \in 0..(MaxActors + 1), n \in Counts \union AnyCounts :
             /\ file.written = 0 => actors = file.n_actors /\ n = file.n_inputs
             /\ HeaderRejected(actors, n) \/ BuffersFail(actors, n) \/ HeaderAccepted(actors, n)

\* The end of parse_input_buffer: the batch may be complete.
Finish(position) ==
    LET finished == position >= BATCH_HEADER_SIZE + metadata_size + data_size
    IN /\ is_receiving_inputs' = ~finished
       /\ inputs_ready' = finished

Consume(n) ==
    /\ cursor' = cursor + n
    /\ file' = [file EXCEPT !.written = @ + n]
    /\ Finish(cursor + n)
    /\ UNCHANGED <<metadata_size, data_size, inputs, allocated_metadata, allocated_data,
                   highest_n_actors, highest_n_inputs, n_inputs, upload>>

MinOf(a, b) == IF a < b THEN a ELSE b

ParseMetadata(count) ==
    /\ is_receiving_inputs /\ cursor < BATCH_HEADER_SIZE + metadata_size
    /\ Consume(MinOf(count, BATCH_HEADER_SIZE + metadata_size - cursor))
    /\ UNCHANGED data

\* Faulty variant: the last entry of the data is left for another call.
ParseDataStopsShort(count) ==
    /\ is_receiving_inputs /\ cursor >= BATCH_HEADER_SIZE + metadata_size
    /\ LET data_cursor == cursor - metadata_size - BATCH_HEADER_SIZE
           n == MinOf(count, data_size - data_cursor - 1)
       IN /\ Consume(n)
          /\ data' = [c \in Cells |-> IF c \in data_cursor..(data_cursor + n - 1)
                                      THEN file.written + 1 + (c - data_cursor) ELSE data[c]]

ParseData(count) ==
    /\ is_receiving_inputs /\ cursor >= BATCH_HEADER_SIZE + metadata_size
    /\ LET data_cursor == cursor - metadata_size - BATCH_HEADER_SIZE
           n == MinOf(count, data_size - data_cursor)
       IN /\ Consume(n)
          /\ data' = [c \in Cells |-> IF c \in data_cursor..(data_cursor + n - 1)
                                      THEN file.written + 1 + (c - data_cursor) ELSE data[c]]

-----------------------------------------------------------------------------
(* The user process.                                                       *)

Uploading == upload = "open" /\ file.written < FileSize

\* One write call: whatever is left of the file, or as much as fits.
Write ==
    /\ Uploading
    /\ \/ ParseHeader
       \/ \E count \in 1..MinOf(MaxWrite, FileSize - file.written) :
             ParseMetadata(count) \/ ParseData(count)
    /\ UNCHANGED <<n_actors, aborted>>

\* close(): everything was written
CloseFile ==
    /\ upload = "open" /\ file.written = FileSize
    /\ upload' = "done"
    /\ UNCHANGED <<parser, n_actors, file, aborted>>

\* save_input_sequence_as_rdbf opens the file for the next batch.
OpenFile ==
    /\ upload # "open" /\ upload' = "open"
    /\ \E actors \in Actors, n \in Counts :
          file' = [n_actors |-> actors, n_inputs |-> n, written |-> 0]
    /\ data' = [c \in Cells |-> Stale]              \* nothing is from this file yet
    /\ UNCHANGED <<is_receiving_inputs, cursor, metadata_size, data_size, inputs,
                   allocated_metadata, allocated_data, highest_n_actors, highest_n_inputs,
                   n_inputs, n_actors, inputs_ready, aborted>>

\* The process is interrupted during the upload.
Abort ==
    /\ Interrupts /\ upload = "open"
    /\ upload' = "failed" /\ aborted' = TRUE
    /\ UNCHANGED <<parser, n_actors, file>>

\* The test case parser stores a new test case.
NewTestCase ==
    /\ upload # "open" /\ upload' = "none"
    /\ n_actors' \in Actors
    /\ UNCHANGED <<parser, file, aborted>>

Next == Write \/ CloseFile \/ OpenFile \/ Abort \/ NewTestCase

\* A process that writes a file goes on until it is done, fails or dies.
Spec == Init /\ [][Next]_vars /\ WF_vars(Write \/ CloseFile)

-----------------------------------------------------------------------------
(* Properties.                                                             *)

\* The buffers are as large as the counts they are remembered for, unless one
\* could not be allocated.  This is what makes the test "more actors or more
\* inputs than ever" enough, although only the product has to fit.  It is not
\* so once a misread header had a count beyond MAX_INPUTS that the (int) cast
\* let through: then the buffer has the wrapped size and the code remembers the
\* count.  Without interrupted uploads this cannot happen.
CapacityKnown ==
    /\ allocated_data > 0 /\ highest_n_actors > 0 /\ highest_n_inputs <= MAX_INPUTS =>
          allocated_data = highest_n_actors * highest_n_inputs
    /\ allocated_metadata > 0 /\ allocated_data > 0 /\ highest_n_actors > 0 =>
          allocated_metadata = highest_n_actors
    /\ ~aborted => highest_n_inputs <= MAX_INPUTS

\* Whatever was interrupted, misread or not allocated before: while a batch is
\* being received its parts fit into the buffers, and so does every write.  For
\* the data this needs counts that the code remembers rightly: after a misread
\* count beyond MAX_INPUTS, later batches are written past the end.
WritesInBounds ==
    is_receiving_inputs =>
        /\ inputs = "set"
        /\ metadata_size <= allocated_metadata
        /\ highest_n_inputs <= MAX_INPUTS => data_size <= allocated_data
        /\ cursor < BATCH_HEADER_SIZE + metadata_size + data_size

\* get_input_fragment_unsafe: the cell that load_sandbox_data reads
get_input_fragment_unsafe(input_id, actor_id) == input_id * n_actors + actor_id

\* After an upload without errors the module is ready (which is all that
\* trace_test_case of executor.py checks), and load_sandbox_data finds for each
\* input and each actor the fragment that the file has for them.
UploadedCorrectly ==
    /\ TypeOK
    /\ upload = "done" /\ ~aborted =>
        /\ inputs_ready /\ n_inputs = file.n_inputs
        /\ \A i \in 0..(n_inputs - 1), a \in 0..(n_actors - 1) :
              LET cell == get_input_fragment_unsafe(i, a)
              IN /\ cell < allocated_data
                 /\ data[cell] = BATCH_HEADER_SIZE + n_actors + i * n_actors + a + 1

\* An upload ends: no write call ever consumes nothing, which would make the
\* process repeat it forever.
UploadEnds == Uploading ~> ~Uploading

=============================================================================
