------------------------- MODULE InputParserProofs -------------------------
(***************************************************************************)
(* Proofs about InputParser, for every number of actors and inputs, every  *)
(* way to cut a file into writes, interrupted uploads and failed           *)
(* allocations included, and for every width of the counts and sizes in    *)
(* which a batch within the limits has room.                               *)
(***************************************************************************)
EXTENDS InputParser, TLAPS

-----------------------------------------------------------------------------
(* Every write is inside its buffer.                                       *)

SizesOK ==
    /\ cursor \in Nat /\ metadata_size \in Nat /\ data_size \in Nat
    /\ allocated_metadata \in Nat /\ allocated_data \in Nat
    /\ highest_n_actors \in Nat /\ highest_n_inputs \in Nat
    /\ n_actors \in Actors

\* A buffer that exists has the size it was computed for, wrapped or not.
BuffersKnown ==
    /\ highest_n_actors <= MaxActors
    /\ allocated_data > 0 /\ highest_n_actors > 0 =>
          /\ allocated_data = DataSize(highest_n_actors, highest_n_inputs)
          /\ allocated_metadata > 0 => allocated_metadata = highest_n_actors

\* Inductive: besides that, nothing is remembered before the first batch, so
\* that the first batch makes the buffers grow whatever it holds.
SizeInv ==
    /\ SizesOK
    /\ BuffersKnown
    /\ highest_n_actors = 0 => highest_n_inputs = 0
    /\ WritesInBounds

\* The product of two counts fits when each of them fits.
LEMMA ProductFits ==
    ASSUME NEW a \in Nat, NEW b \in Nat, NEW c \in Nat, NEW d \in Nat, a <= b, c <= d
    PROVE  a * c <= b * d
<1>1. a * c <= b * c
    BY SMT
<1>2. b * c <= b * d
    BY SMT
<1>3. a * c \in Nat /\ b * c \in Nat /\ b * d \in Nat
    BY SMT
<1> QED
    BY <1>1, <1>2, <1>3

\* Sizes wrap around to something that is not negative, and not at all when the
\* counts are within the limits.
LEMMA DataSizeBounds ==
    ASSUME NEW a \in Nat, NEW n \in Nat
    PROVE  /\ DataSize(a, n) \in Nat
           /\ a <= MaxActors /\ n <= MAX_INPUTS => DataSize(a, n) = a * n
<1>1. SizeRange \in Nat /\ SizeRange > 0
    <2>1. MaxActors * MAX_INPUTS \in Nat
        BY SizesAssumption, SMT
    <2> QED
        BY <2>1, SizesAssumption
<1>2. a * n \in Nat
    BY SMT
<1>3. ASSUME NEW m \in Nat PROVE m % SizeRange \in Nat /\ (m < SizeRange => m % SizeRange = m)
    BY <1>1, SMT
<1>4. ASSUME a <= MaxActors, n <= MAX_INPUTS PROVE a * n < SizeRange
    <2>1. a * n <= MaxActors * MAX_INPUTS
        BY <1>4, ProductFits, SizesAssumption
    <2>2. MaxActors * MAX_INPUTS \in Nat
        BY SizesAssumption, SMT
    <2> QED
        BY <1>2, <2>1, <2>2, SizesAssumption
<1> QED
    BY <1>2, <1>3, <1>4 DEF DataSize

\* A count that the process writes passes the check only within the limit.
LEMMA FileCountsChecked ==
    ASSUME NEW n \in Counts, AsInt(n) <= MAX_INPUTS
    PROVE  n <= MAX_INPUTS
<1>1. n \in Nat /\ n <= MAX_INPUTS + 1 /\ 2 * n < IntRange /\ n < IntRange /\ IntRange > 0
    BY SizesAssumption DEF Counts
<1>2. n % IntRange = n
    BY <1>1, SizesAssumption, SMT
<1> QED
    BY <1>1, <1>2, SizesAssumption DEF AsInt

LEMMA MinOfBounds ==
    ASSUME NEW a \in Nat, NEW b \in Nat
    PROVE  MinOf(a, b) \in Nat /\ MinOf(a, b) <= b /\ MinOf(a, b) <= a
  BY DEF MinOf

LEMMA SizeInit == Init => SizeInv
  BY SizesAssumption DEF Init, SizeInv, SizesOK, BuffersKnown, WritesInBounds, Actors

LEMMA AcceptedFits ==
    ASSUME SizeInv, NEW actors \in Nat, NEW n \in Nat, HeaderAccepted(actors, n),
           n_actors' = n_actors
    PROVE  SizeInv'
<1>1. /\ actors > 0 /\ actors <= MaxActors /\ n > 0
      /\ DataSize(actors, n) \in Nat
    BY SizesAssumption, DataSizeBounds DEF HeaderAccepted, Accepts, SizeInv, SizesOK, Actors
<1>2. CASE MustGrow(actors, n)
    BY <1>1, <1>2 DEF HeaderAccepted, SizeInv, SizesOK, BuffersKnown, WritesInBounds,
                      BATCH_HEADER_SIZE
<1>3. CASE ~MustGrow(actors, n)
    <2>1. /\ actors <= highest_n_actors /\ n <= highest_n_inputs /\ allocated_data > 0
          /\ allocated_data = DataSize(highest_n_actors, highest_n_inputs)
          /\ allocated_metadata = highest_n_actors
        BY <1>1, <1>3 DEF MustGrow, SizeInv, SizesOK, BuffersKnown
    <2>2. ASSUME highest_n_inputs <= MAX_INPUTS PROVE DataSize(actors, n) <= allocated_data
        <3>1. /\ allocated_data = highest_n_actors * highest_n_inputs
              /\ DataSize(actors, n) = actors * n
            BY <1>1, <2>1, <2>2, DataSizeBounds, SizesAssumption DEF SizeInv, SizesOK, BuffersKnown
        <3>2. actors * n <= highest_n_actors * highest_n_inputs
            BY <2>1, ProductFits DEF SizeInv, SizesOK
        <3> QED
            BY <3>1, <3>2
    <2>3. UNCHANGED <<allocated_metadata, allocated_data, highest_n_actors, highest_n_inputs>>
        BY <1>3 DEF HeaderAccepted
    <2>4. /\ metadata_size' = actors /\ data_size' = DataSize(actors, n)
          /\ cursor' = 1 /\ inputs' = "set"
        BY DEF HeaderAccepted, BATCH_HEADER_SIZE
    <2> QED
        BY <1>1, <2>1, <2>2, <2>3, <2>4
        DEF SizeInv, SizesOK, BuffersKnown, WritesInBounds, BATCH_HEADER_SIZE
<1> QED
    BY <1>2, <1>3

LEMMA SizeStep == SizeInv /\ [Next]_vars => SizeInv'
<1> SUFFICES ASSUME SizeInv, [Next]_vars PROVE SizeInv'
    OBVIOUS
<1>1. CASE Write
    <2>0. n_actors' = n_actors
        BY <1>1 DEF Write
    <2>1. CASE NoStructure
        BY <2>0, <2>1 DEF NoStructure, HeaderFails, SizeInv, SizesOK, BuffersKnown, WritesInBounds
    <2>2. ASSUME NEW actors \in 0..(MaxActors + 1), NEW n \in Counts \union AnyCounts,
                 HeaderRejected(actors, n) \/ BuffersFail(actors, n) \/ HeaderAccepted(actors, n)
          PROVE  SizeInv'
        <3>1. CASE HeaderRejected(actors, n)
            BY <2>0, <3>1
            DEF HeaderRejected, HeaderFails, SizeInv, SizesOK, BuffersKnown, WritesInBounds
        <3>2. CASE BuffersFail(actors, n)
            BY <2>0, <3>2
            DEF BuffersFail, HeaderFails, SizeInv, SizesOK, BuffersKnown, WritesInBounds, Actors
        <3>3. CASE HeaderAccepted(actors, n)
            BY <2>0, <2>2, <3>3, AcceptedFits, SizesAssumption DEF Counts
        <3> QED
            BY <2>2, <3>1, <3>2, <3>3
    <2>3. ASSUME NEW n \in Nat, Consume(n), is_receiving_inputs PROVE SizeInv'
        <3>1. is_receiving_inputs' => ~(cursor' >= BATCH_HEADER_SIZE + metadata_size + data_size)
            BY <2>3, Zenon DEF Consume, Finish
        <3>2. /\ cursor' \in Nat
              /\ UNCHANGED <<metadata_size, data_size, inputs, allocated_metadata, allocated_data,
                             highest_n_actors, highest_n_inputs>>
            BY <2>3 DEF Consume, SizeInv, SizesOK
        <3> QED
            BY <2>0, <2>3, <3>1, <3>2
            DEF SizeInv, SizesOK, BuffersKnown, WritesInBounds, BATCH_HEADER_SIZE
    <2>4. ASSUME NEW count \in 1..MinOf(MaxWrite, FileSize - file.written),
                 ParseMetadata(count) \/ ParseData(count)
          PROVE  SizeInv'
        <3>1. count \in Nat
            BY <2>4
        <3>2. CASE ParseMetadata(count)
            <4>1. MinOf(count, BATCH_HEADER_SIZE + metadata_size - cursor) \in Nat
                BY <3>1, <3>2, MinOfBounds DEF ParseMetadata, SizeInv, SizesOK, BATCH_HEADER_SIZE
            <4> QED
                BY <2>3, <3>2, <4>1 DEF ParseMetadata
        <3>3. CASE ParseData(count)
            <4>1. MinOf(count, data_size - (cursor - metadata_size - BATCH_HEADER_SIZE)) \in Nat
                BY <3>1, <3>3, MinOfBounds
                DEF ParseData, SizeInv, SizesOK, WritesInBounds, BATCH_HEADER_SIZE
            <4> QED
                BY <2>3, <3>3, <4>1 DEF ParseData
        <3> QED
            BY <2>4, <3>2, <3>3
    <2> QED
        BY <1>1, <2>1, <2>2, <2>4 DEF Write, ParseHeader
<1>2. CASE CloseFile \/ OpenFile \/ Abort
    BY <1>2 DEF CloseFile, OpenFile, Abort, parser, SizeInv, SizesOK, BuffersKnown, WritesInBounds
<1>3. CASE NewTestCase
    BY <1>3 DEF NewTestCase, parser, SizeInv, SizesOK, BuffersKnown, WritesInBounds
<1>4. CASE UNCHANGED vars
    BY <1>4 DEF vars, SizeInv, SizesOK, BuffersKnown, WritesInBounds
<1> QED
    BY <1>1, <1>2, <1>3, <1>4 DEF Next

LEMMA SizeInvAlways == Spec => []SizeInv
  BY SizeInit, SizeStep, PTL DEF Spec

-----------------------------------------------------------------------------
(* Types.                                                                  *)

LEMMA TypeInit == Init => TypeOK
<1> SUFFICES ASSUME Init PROVE TypeOK
    OBVIOUS
<1>1. file \in [n_actors : Actors, n_inputs : Counts, written : Nat]
    BY SizesAssumption DEF Init, Actors, Counts
<1>2. data \in [Cells -> Nat]
    BY DEF Init, Stale
<1>3. is_receiving_inputs \in BOOLEAN /\ inputs_ready \in BOOLEAN /\ aborted \in BOOLEAN
    BY DEF Init
<1> QED
    BY <1>1, <1>2, <1>3, SizesAssumption DEF Init, TypeOK, Actors

\* Consuming part of a write keeps the types.
LEMMA ConsumeType ==
    ASSUME TypeOK, NEW n \in Nat, Consume(n), n_actors' = n_actors, aborted' = aborted,
           data' \in [Cells -> Nat]
    PROVE  TypeOK'
<1>1. file' \in [n_actors : Actors, n_inputs : Counts, written : Nat]
    BY DEF Consume, TypeOK
<1>2. is_receiving_inputs' \in BOOLEAN /\ inputs_ready' \in BOOLEAN
    BY DEF Consume, Finish
<1>3. cursor' \in Nat
    BY DEF Consume, TypeOK
<1> QED
    BY <1>1, <1>2, <1>3 DEF Consume, TypeOK

\* The cells that a call fills get the entries at the reader's place in the file.
LEMMA DataCells ==
    ASSUME TypeOK, SizeInv, NEW count \in Nat, ParseData(count),
           NEW k, k = cursor - metadata_size - BATCH_HEADER_SIZE,
           NEW n, n = MinOf(count, data_size - k)
    PROVE  /\ k \in Nat /\ n \in Nat /\ k + n <= data_size /\ Consume(n) /\ n <= count
           /\ data' = [c \in Cells |-> IF c \in k..(k + n - 1) THEN file.written + 1 + (c - k)
                                                             ELSE data[c]]
           /\ data' \in [Cells -> Nat]
<1>1. k \in Nat /\ data_size - k \in Nat
    BY DEF ParseData, SizeInv, SizesOK, WritesInBounds, BATCH_HEADER_SIZE
<1>2. n \in Nat /\ n <= data_size - k /\ n <= count
    BY <1>1, MinOfBounds
<1>3. /\ Consume(n)
      /\ data' = [c \in Cells |-> IF c \in k..(k + n - 1) THEN file.written + 1 + (c - k)
                                                        ELSE data[c]]
    BY Zenon DEF ParseData
<1>4. Cells \subseteq Int
    BY DEF Cells
<1>5. file.written \in Nat /\ data \in [Cells -> Nat]
    BY DEF TypeOK
<1>6. data' \in [Cells -> Nat]
    BY <1>1, <1>2, <1>3, <1>4, <1>5
<1> QED
    BY <1>1, <1>2, <1>3, <1>6 DEF SizeInv, SizesOK

LEMMA TypeStep == TypeOK /\ SizeInv /\ [Next]_vars => TypeOK'
<1> SUFFICES ASSUME TypeOK, SizeInv, [Next]_vars PROVE TypeOK'
    OBVIOUS
<1>1. CASE Write
    <2>0. n_actors' = n_actors /\ aborted' = aborted
        BY <1>1 DEF Write
    <2>1. CASE NoStructure
        BY <2>0, <2>1 DEF NoStructure, HeaderFails, TypeOK
    <2>2. ASSUME NEW actors \in 0..(MaxActors + 1), NEW n \in Counts \union AnyCounts,
                 HeaderRejected(actors, n)
          PROVE  TypeOK'
        BY <2>0, <2>2 DEF HeaderRejected, HeaderFails, TypeOK
    <2>3. ASSUME NEW actors \in 0..(MaxActors + 1), NEW n \in Counts \union AnyCounts,
                 BuffersFail(actors, n)
          PROVE  TypeOK'
        <3>1. data' \in [Cells -> Nat]
            BY <2>3 DEF BuffersFail, Stale
        <3>2. allocated_metadata' \in Nat /\ allocated_data' \in Nat
            BY <2>3, SizesAssumption DEF BuffersFail
        <3>3. /\ inputs' = "garbage" /\ upload' = "failed" /\ cursor' = 0
              /\ is_receiving_inputs' \in BOOLEAN /\ inputs_ready' \in BOOLEAN
              /\ UNCHANGED <<metadata_size, data_size, n_inputs, file, highest_n_actors,
                             highest_n_inputs>>
            BY <2>3 DEF BuffersFail, HeaderFails
        <3> QED
            BY <2>0, <3>1, <3>2, <3>3 DEF TypeOK
    <2>4. ASSUME NEW actors \in 0..(MaxActors + 1), NEW n \in Counts \union AnyCounts,
                 HeaderAccepted(actors, n)
          PROVE  TypeOK'
        <3>1. data' \in [Cells -> Nat]
            BY <2>4 DEF HeaderAccepted, Stale, TypeOK
        <3>2. file' \in [n_actors : Actors, n_inputs : Counts, written : Nat]
            BY <2>4 DEF HeaderAccepted, BATCH_HEADER_SIZE, TypeOK
        <3>n. actors \in Nat /\ n \in Nat
            BY <2>4, SizesAssumption DEF Counts
        <3>3. actors \in Nat /\ n \in Nat /\ DataSize(actors, n) \in Nat
            BY <3>n, DataSizeBounds
        <3>4. /\ allocated_metadata' \in Nat /\ allocated_data' \in Nat
              /\ highest_n_actors' \in Nat /\ highest_n_inputs' \in Nat
            BY <2>4, <3>3 DEF HeaderAccepted, TypeOK
        <3>5. /\ metadata_size' \in Nat /\ data_size' \in Nat /\ n_inputs' \in Nat /\ cursor' \in Nat
              /\ inputs' = "set" /\ upload' = upload
            BY <2>4, <3>3 DEF HeaderAccepted, BATCH_HEADER_SIZE
        <3>6. is_receiving_inputs' \in BOOLEAN /\ inputs_ready' \in BOOLEAN
            BY <2>4 DEF HeaderAccepted
        <3> QED
            BY <2>0, <3>1, <3>2, <3>4, <3>5, <3>6 DEF TypeOK
    <2>5. ASSUME NEW count \in 1..MinOf(MaxWrite, FileSize - file.written), ParseMetadata(count)
          PROVE  TypeOK'
        <3>1. MinOf(count, BATCH_HEADER_SIZE + metadata_size - cursor) \in Nat
            BY <2>5, MinOfBounds DEF ParseMetadata, TypeOK, BATCH_HEADER_SIZE
        <3> QED
            BY <2>0, <2>5, <3>1, ConsumeType DEF ParseMetadata, TypeOK
    <2>6. ASSUME NEW count \in 1..MinOf(MaxWrite, FileSize - file.written), ParseData(count)
          PROVE  TypeOK'
        <3>1. count \in Nat
            BY <2>6
        <3> QED
            BY <2>0, <2>6, <3>1, DataCells, ConsumeType
    <2> QED
        BY <1>1, <2>1, <2>2, <2>3, <2>4, <2>5, <2>6 DEF Write, ParseHeader
<1>2. CASE OpenFile
    <2>1. data' \in [Cells -> Nat]
        BY <1>2 DEF OpenFile, Stale
    <2> QED
        BY <1>2, <2>1 DEF OpenFile, TypeOK
<1>3. CASE CloseFile \/ NewTestCase
    BY <1>3 DEF CloseFile, NewTestCase, parser, TypeOK
<1>4. CASE Abort
    BY <1>4 DEF Abort, parser, TypeOK
<1>5. CASE UNCHANGED vars
    BY <1>5 DEF vars, TypeOK
<1> QED
    BY <1>1, <1>2, <1>3, <1>4, <1>5 DEF Next

\* Every variable of the model keeps its type.
THEOREM TypeCorrect == Spec => []TypeOK
  BY TypeInit, TypeStep, SizeInvAlways, PTL DEF Spec

-----------------------------------------------------------------------------
(* The uploaded inputs.                                                    *)

\* Inductive: as long as no upload was given up half-way, the parser is in the
\* file where the writer is, has the counts of its header, and the cells up to
\* there hold the entries of the file.
UploadInv ==
    ~aborted =>
        /\ highest_n_inputs <= MAX_INPUTS
        /\ upload # "open" \/ file.written = 0 => ~is_receiving_inputs
        /\ upload \in {"open", "done"} /\ file.written > 0 =>
              /\ file.n_actors = n_actors /\ file.n_inputs = n_inputs
              /\ n_inputs \in 1..MAX_INPUTS
              /\ metadata_size = n_actors /\ data_size = n_actors * n_inputs
              /\ data_size <= allocated_data
              /\ cursor = file.written /\ cursor <= FileSize
              /\ is_receiving_inputs <=> cursor < FileSize
              /\ cursor = FileSize => inputs_ready
              /\ \A c \in Cells : c < cursor - BATCH_HEADER_SIZE - n_actors =>
                                   data[c] = BATCH_HEADER_SIZE + n_actors + c + 1
        /\ upload = "done" => file.written = FileSize

LEMMA UploadInit == Init => UploadInv
  BY SizesAssumption DEF Init, UploadInv

LEMMA UploadStep == TypeOK /\ SizeInv /\ SizeInv' /\ UploadInv /\ [Next]_vars => UploadInv'
<1> SUFFICES ASSUME TypeOK, SizeInv, SizeInv', UploadInv, [Next]_vars, ~aborted' PROVE UploadInv'
    BY DEF UploadInv
<1>0. ~aborted
    BY DEF Next, Write, CloseFile, OpenFile, Abort, NewTestCase, vars, TypeOK
<1> USE <1>0
<1>t. /\ file.written \in Nat /\ file.n_actors \in Nat \ {0} /\ file.n_inputs \in Nat
      /\ cursor \in Nat /\ n_actors \in Nat \ {0} /\ metadata_size \in Nat /\ data_size \in Nat
      /\ file.n_actors * file.n_inputs \in Nat /\ FileSize \in Nat /\ FileSize > 0
    <2>1. /\ file.written \in Nat /\ file.n_actors \in Nat \ {0} /\ file.n_inputs \in Nat
          /\ cursor \in Nat /\ n_actors \in Nat \ {0} /\ metadata_size \in Nat /\ data_size \in Nat
        BY SizesAssumption DEF TypeOK, Actors, Counts
    <2>2. file.n_actors * file.n_inputs \in Nat
        BY <2>1
    <2> QED
        BY <2>1, <2>2 DEF FileSize, BATCH_HEADER_SIZE
<1>1. CASE Write
    <2>0. n_actors' = n_actors /\ upload = "open" /\ file.written < FileSize
        BY <1>1 DEF Write, Uploading
    <2>1. CASE NoStructure
        BY <2>0, <2>1 DEF NoStructure, HeaderFails, UploadInv
    <2>2. ASSUME NEW actors \in 0..(MaxActors + 1), NEW n \in Counts \union AnyCounts,
                 HeaderRejected(actors, n) \/ BuffersFail(actors, n)
          PROVE  UploadInv'
        BY <2>0, <2>2 DEF HeaderRejected, BuffersFail, HeaderFails, UploadInv
    <2>3. ASSUME NEW actors \in 0..(MaxActors + 1), NEW n \in Counts \union AnyCounts,
                 HeaderAccepted(actors, n),
                 file.written = 0 => actors = file.n_actors /\ n = file.n_inputs,
                 ~is_receiving_inputs
          PROVE  UploadInv'
        <3>1. file.written = 0
            BY <1>t, <2>0, <2>3 DEF UploadInv
        <3>2. actors = file.n_actors /\ n = file.n_inputs /\ actors = n_actors /\ n \in 1..MAX_INPUTS
            BY <2>3, <3>1, FileCountsChecked, SizesAssumption
            DEF HeaderAccepted, Accepts, TypeOK, Counts
        <3>h. highest_n_inputs' <= MAX_INPUTS
            BY <2>3, <3>2 DEF HeaderAccepted, UploadInv
        <3>d. DataSize(actors, n) = n_actors * n
            BY <3>2, DataSizeBounds, SizesAssumption DEF TypeOK, Actors
        <3>3. /\ file'.n_actors = n_actors /\ file'.n_inputs = n /\ file'.written = 1
              /\ FileSize' = FileSize
            <4>1. file' = [file EXCEPT !.written = file.written + 1]
                BY <2>3 DEF HeaderAccepted, BATCH_HEADER_SIZE
            <4>2. /\ file'.n_actors = file.n_actors /\ file'.n_inputs = file.n_inputs
                  /\ file'.written = file.written + 1
                BY <4>1 DEF TypeOK
            <4>3. FileSize' = FileSize
                BY <4>2 DEF FileSize
            <4>4. file'.written = 1
                BY <3>1, <4>2
            <4>5. file'.n_actors = n_actors /\ file'.n_inputs = n
                BY <3>2, <4>2, Zenon
            <4> QED
                BY <4>3, <4>4, <4>5
        <3>4. /\ n_inputs' = n /\ metadata_size' = n_actors /\ data_size' = n_actors * n
              /\ cursor' = 1 /\ upload' = "open" /\ is_receiving_inputs'
            BY <2>0, <2>3, <3>2, <3>d DEF HeaderAccepted, BATCH_HEADER_SIZE
        <3>5. data_size' <= allocated_data'
            BY <3>4, <3>h DEF SizeInv, WritesInBounds
        <3>6. FileSize > 1
            BY <1>t, <3>2 DEF FileSize, BATCH_HEADER_SIZE
        <3>7. \A c \in Cells : ~(c < 1 - 1 - n_actors)
            BY <1>t, SizesAssumption DEF Cells
        <3> QED
            BY <1>t, <2>0, <3>2, <3>3, <3>4, <3>5, <3>6, <3>7, <3>h DEF UploadInv, BATCH_HEADER_SIZE
    <2>4. ASSUME NEW n \in Nat, Consume(n), is_receiving_inputs, cursor + n <= FileSize, n > 0,
                 \A c \in Cells : c < cursor + n - 1 - n_actors => data'[c] = 1 + n_actors + c + 1
          PROVE  UploadInv'
        <3>1. /\ file.written > 0 /\ file.n_actors = n_actors /\ file.n_inputs = n_inputs
              /\ metadata_size = n_actors /\ data_size = n_actors * n_inputs
              /\ cursor = file.written /\ FileSize = 1 + metadata_size + data_size
            <4>1. file.written # 0
                BY <2>4 DEF UploadInv
            <4>2. file.written > 0
                BY <1>t, <4>1
            <4> QED
                BY <1>t, <2>0, <2>4, <4>2 DEF UploadInv, FileSize, BATCH_HEADER_SIZE
        <3>2. /\ file'.n_actors = file.n_actors /\ file'.n_inputs = file.n_inputs
              /\ file'.written = file.written + n /\ FileSize' = FileSize
            <4>1. /\ file'.n_actors = file.n_actors /\ file'.n_inputs = file.n_inputs
                  /\ file'.written = file.written + n
                BY <2>4 DEF Consume, TypeOK
            <4> QED
                BY <4>1 DEF FileSize
        <3>3. UNCHANGED <<metadata_size, data_size, allocated_data, n_inputs, upload, highest_n_inputs>>
            BY <2>4 DEF Consume
        <3>4. cursor' = cursor + n
            BY <2>4 DEF Consume
        <3>5. (is_receiving_inputs' <=> cursor' < FileSize) /\ (cursor' = FileSize => inputs_ready')
            <4>1. cursor + n >= BATCH_HEADER_SIZE + metadata_size + data_size <=> cursor' = FileSize
                BY <1>t, <2>4, <3>1, <3>4 DEF BATCH_HEADER_SIZE
            <4>2. (is_receiving_inputs' <=> ~(cursor' = FileSize)) /\ (inputs_ready' <=> cursor' = FileSize)
                BY <2>4, <4>1, Zenon DEF Consume, Finish
            <4> QED
                BY <1>t, <2>4, <3>4, <4>2
        <3> QED
            BY <1>t, <2>0, <2>4, <3>1, <3>2, <3>3, <3>4, <3>5 DEF UploadInv, BATCH_HEADER_SIZE
    <2>5. ASSUME NEW count \in 1..MinOf(MaxWrite, FileSize - file.written),
                 ParseMetadata(count) \/ ParseData(count)
          PROVE  UploadInv'
        <3>0. count \in Nat /\ count > 0 /\ is_receiving_inputs
            BY <2>5 DEF ParseMetadata, ParseData
        <3>1. file.written > 0
            BY <1>t, <3>0 DEF UploadInv
        <3>2. /\ n_inputs \in Nat /\ file.n_actors = n_actors /\ file.n_inputs = n_inputs
              /\ metadata_size = n_actors /\ data_size = n_actors * n_inputs
              /\ cursor = file.written
            BY <1>t, <2>0, <3>1, SizesAssumption DEF UploadInv
        <3>3. FileSize = 1 + metadata_size + data_size
            BY <3>2 DEF FileSize, BATCH_HEADER_SIZE
        <3>4. CASE ParseMetadata(count)
            <4> DEFINE n == MinOf(count, BATCH_HEADER_SIZE + metadata_size - cursor)
            <4>1. n \in Nat /\ n > 0 /\ cursor + n <= 1 + metadata_size
                BY <1>t, <3>0, <3>4 DEF ParseMetadata, MinOf, BATCH_HEADER_SIZE
            <4>2. Consume(n)
                BY <3>4 DEF ParseMetadata
            <4> HIDE DEF n
            <4>3. \A c \in Cells : ~(c < cursor + n - 1 - n_actors)
                BY <1>t, <3>2, <4>1 DEF Cells
            <4>4. cursor + n <= FileSize
                BY <1>t, <3>3, <4>1
            <4> QED
                BY <2>4, <3>0, <4>1, <4>2, <4>3, <4>4
        <3>5. CASE ParseData(count)
            <4> DEFINE k == cursor - metadata_size - BATCH_HEADER_SIZE
            <4> DEFINE n == MinOf(count, data_size - k)
            <4>1. /\ k \in Nat /\ n \in Nat /\ k + n <= data_size /\ Consume(n)
                  /\ data' = [c \in Cells |-> IF c \in k..(k + n - 1)
                                              THEN file.written + 1 + (c - k) ELSE data[c]]
                BY <3>0, <3>5, DataCells
            <4>2. n > 0
                BY <1>t, <3>0 DEF MinOf, BATCH_HEADER_SIZE, SizeInv, WritesInBounds
            <4>3. k = cursor - metadata_size - 1
                BY DEF BATCH_HEADER_SIZE
            <4> HIDE DEF n, k
            <4>4. cursor + n <= FileSize
                BY <1>t, <3>3, <4>1, <4>3
            <4>5. ASSUME NEW c \in Cells, c < cursor + n - 1 - n_actors
                  PROVE  data'[c] = 1 + n_actors + c + 1
                <5>1. c \in Int /\ 0 <= c /\ c < k + n
                    BY <1>t, <3>2, <4>1, <4>3, <4>5, SMTT(30) DEF Cells
                <5>2. CASE c >= k
                    <6>1. c \in k..(k + n - 1)
                        BY <4>1, <5>1, <5>2
                    <6>2. data'[c] = file.written + 1 + (c - k)
                        BY <4>1, <6>1
                    <6> QED
                        BY <1>t, <3>2, <4>3, <5>1, <6>2
                <5>3. CASE c < k
                    <6>1. c \notin k..(k + n - 1)
                        BY <4>1, <5>1, <5>3
                    <6>2. data'[c] = data[c]
                        BY <4>1, <6>1
                    <6>3. c < cursor - BATCH_HEADER_SIZE - n_actors
                        BY <1>t, <3>2, <4>3, <5>1, <5>3 DEF BATCH_HEADER_SIZE
                    <6> QED
                        BY <1>t, <2>0, <3>1, <6>2, <6>3 DEF UploadInv, BATCH_HEADER_SIZE
                <5> QED
                    BY <4>1, <5>1, <5>2, <5>3
            <4> QED
                BY <2>4, <3>0, <4>1, <4>2, <4>4, <4>5
        <3> QED
            BY <2>5, <3>4, <3>5
    <2> QED
        BY <1>1, <2>1, <2>2, <2>3, <2>5 DEF Write, ParseHeader
<1>2. CASE CloseFile
    <2>1. UNCHANGED <<parser, n_actors, file>> /\ FileSize' = FileSize
        BY <1>2 DEF CloseFile, FileSize
    <2>2. ~is_receiving_inputs
        BY <1>t, <1>2 DEF CloseFile, UploadInv
    <2> QED
        BY <1>t, <1>2, <2>1, <2>2 DEF CloseFile, parser, UploadInv
<1>3. CASE OpenFile
    <2>1. /\ file'.written = 0 /\ upload' = "open"
          /\ UNCHANGED <<is_receiving_inputs, highest_n_inputs>>
        BY <1>3 DEF OpenFile
    <2>2. ~is_receiving_inputs
        BY <1>3 DEF OpenFile, UploadInv
    <2> QED
        BY <2>1, <2>2 DEF UploadInv
<1>4. CASE Abort
    BY <1>4 DEF Abort
<1>5. CASE NewTestCase
    BY <1>5 DEF NewTestCase, parser, UploadInv
<1>6. CASE UNCHANGED vars
    <2>1. FileSize' = FileSize
        BY <1>6 DEF vars, FileSize
    <2> QED
        BY <1>6, <2>1 DEF vars, UploadInv
<1> QED
    BY <1>1, <1>2, <1>3, <1>4, <1>5, <1>6 DEF Next

\* Fragments are numbered without gaps, input by input.
LEMMA FragmentInBatch ==
    ASSUME NEW actors \in Nat, NEW n \in Nat, NEW i \in 0..(n - 1), NEW a \in 0..(actors - 1)
    PROVE  i * actors + a \in Nat /\ i * actors + a < actors * n
<1>1. (i + 1) * actors <= n * actors
    <2>1. i + 1 \in Nat /\ i + 1 <= n
        OBVIOUS
    <2> QED
        BY <2>1, ProductFits
<1>2. (i + 1) * actors = i * actors + actors /\ n * actors = actors * n
    BY SMT
<1>3. i * actors \in Nat /\ actors * n \in Nat
    BY SMT
<1> QED
    BY <1>1, <1>2, <1>3

LEMMA UploadedWhenDone == TypeOK /\ UploadInv => UploadedCorrectly
<1> SUFFICES ASSUME TypeOK, UploadInv, upload = "done", ~aborted
             PROVE  /\ inputs_ready /\ n_inputs = file.n_inputs
                    /\ \A i \in 0..(n_inputs - 1), a \in 0..(n_actors - 1) :
                          LET cell == get_input_fragment_unsafe(i, a)
                          IN /\ cell < allocated_data
                             /\ data[cell] = BATCH_HEADER_SIZE + n_actors + i * n_actors + a + 1
    BY DEF UploadedCorrectly
<1>1. n_actors \in Nat \ {0} /\ n_actors <= MaxActors /\ file.n_actors \in Nat \ {0}
      /\ file.n_inputs \in Nat /\ file.n_actors * file.n_inputs \in Nat
    <2>1. n_actors \in Nat \ {0} /\ n_actors <= MaxActors /\ file.n_actors \in Nat \ {0}
          /\ file.n_inputs \in Nat
        BY SizesAssumption DEF TypeOK, Actors, Counts
    <2> QED
        BY <2>1
<1>2. file.written = FileSize /\ FileSize > 0
    BY <1>1 DEF UploadInv, FileSize, BATCH_HEADER_SIZE
<1>3. /\ file.n_actors = n_actors /\ file.n_inputs = n_inputs /\ n_inputs \in 1..MAX_INPUTS
      /\ data_size = n_actors * n_inputs /\ data_size <= allocated_data
      /\ cursor = FileSize /\ inputs_ready
      /\ \A c \in Cells : c < cursor - BATCH_HEADER_SIZE - n_actors =>
                             data[c] = BATCH_HEADER_SIZE + n_actors + c + 1
    BY <1>2 DEF UploadInv
<1>4. cursor - BATCH_HEADER_SIZE - n_actors = n_actors * n_inputs
    BY <1>1, <1>3 DEF FileSize, BATCH_HEADER_SIZE
<1>5. n_actors * n_inputs <= MaxActors * MAX_INPUTS
    BY <1>1, <1>3, SizesAssumption, ProductFits
<1>6. ASSUME NEW i \in 0..(n_inputs - 1), NEW a \in 0..(n_actors - 1),
             NEW cell, cell = i * n_actors + a
      PROVE  /\ cell < allocated_data
             /\ data[cell] = BATCH_HEADER_SIZE + n_actors + i * n_actors + a + 1
    <2>1. cell \in Nat /\ cell < n_actors * n_inputs
        BY <1>1, <1>3, <1>6, FragmentInBatch
    <2>2. MaxActors * MAX_INPUTS \in Nat /\ n_actors * n_inputs \in Nat
        BY <1>1, <1>3, SizesAssumption
    <2>3. cell \in Cells
        BY <1>5, <2>1, <2>2 DEF Cells
    <2>4. data[cell] = BATCH_HEADER_SIZE + n_actors + cell + 1
        BY <1>3, <1>4, <2>1, <2>3
    <2>5. i * n_actors \in Int
        BY <1>1
    <2>6. BATCH_HEADER_SIZE + n_actors + cell + 1 = BATCH_HEADER_SIZE + n_actors + i * n_actors + a + 1
        BY <1>1, <1>6, <2>5 DEF BATCH_HEADER_SIZE
    <2>7. cell < allocated_data
        BY <1>3, <2>1, <2>2 DEF TypeOK
    <2> QED
        BY <2>4, <2>6, <2>7
<1> QED
    BY <1>3, <1>6 DEF get_input_fragment_unsafe

LEMMA UploadInvAlways == Spec => []UploadInv
  BY UploadInit, UploadStep, TypeCorrect, SizeInvAlways, PTL DEF Spec

\* After any history of batches, interrupted uploads and failed allocations the
\* memory of the highest counts is right about the buffers, or holds a count that
\* only the (int) cast let through; and this takes an interrupted upload.
THEOREM CapacityAlwaysKnown == Spec => []CapacityKnown
<1>1. SizeInv /\ UploadInv => CapacityKnown
    <2> SUFFICES ASSUME SizeInv, UploadInv PROVE CapacityKnown
        OBVIOUS
    <2>1. ASSUME allocated_data > 0, highest_n_actors > 0, highest_n_inputs <= MAX_INPUTS
          PROVE  allocated_data = highest_n_actors * highest_n_inputs
        BY <2>1, DataSizeBounds DEF SizeInv, SizesOK, BuffersKnown
    <2> QED
        BY <2>1 DEF SizeInv, BuffersKnown, UploadInv, CapacityKnown
<1> QED
    BY <1>1, SizeInvAlways, UploadInvAlways, PTL

\* Whatever an interrupted upload left behind and however a later file is
\* misread, parse_input_buffer never writes outside its two buffers, except into
\* the data after a misread count beyond MAX_INPUTS.
THEOREM WritesAlwaysInBounds == Spec => []WritesInBounds
<1>1. SizeInv => WritesInBounds
    BY DEF SizeInv
<1> QED
    BY <1>1, SizeInvAlways, PTL

\* After an upload that no earlier interruption disturbed, inputs_ready is set
\* and get_input_fragment_unsafe finds, inside the buffer, the fragment that the
\* file has for every input and actor: for every size of the batch and every way
\* the writes are cut.
THEOREM UploadAlwaysCorrect == Spec => []UploadedCorrectly
  BY UploadInvAlways, UploadedWhenDone, TypeCorrect, PTL
====
