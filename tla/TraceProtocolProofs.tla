------------------------ MODULE TraceProtocolProofs ------------------------
(***************************************************************************)
(* Proofs about TraceProtocol, for every number of inputs and repetitions, *)
(* every size of the pages, corrupted and failed measurements and dying    *)
(* sessions included: the reader's count of lines is always right about    *)
(* where the module is, and every step is a step of TraceService.          *)
(***************************************************************************)
EXTENDS TraceProtocol, TLAPS, WellFoundedInduction

Slots == Readings(0..MaxSlots, Nat)
Reading == pc \in {"read", "parse"}
Rewinding == pc \in {"rewind", "rewind_check"}

\* Inductive, the kernel module: what is left to print is in the array, and
\* nothing is left outside of a call.
KmInv ==
    /\ n_inputs \in 0..MaxSlots /\ old_n_inputs \in Nat
    /\ measurements \in Seq(Slots)
    /\ measurements = << >> \/ Len(measurements) >= old_n_inputs
    /\ next_measurement_id \in Int /\ next_measurement_id >= -1
    /\ next_measurement_id < n_inputs /\ next_measurement_id < Len(measurements)
    /\ pc \in {"loaded", "upload"} => next_measurement_id = -1
    /\ Reading \/ Rewinding =>
          n_inputs = IF Batched(call) THEN call.n * BatchFactor ELSE call.n

\* Inductive, the reader: what it has read, what is printed and what the module
\* still has to print are together whole measurements, and they are all wanted.
LinesInv ==
    /\ pc \in {"parse", "rewind_check"} => /\ output \in Seq(Slots) /\ Len(output) > 0
                                           /\ done <=> next_measurement_id < 0
    /\ pc \in {"dead", "upload"} => yielded = 0
    /\ pc = "upload" => measured = 0
    /\ yielded <= call.n * call.reps
    /\ pc = "read" =>
          /\ yielded + next_measurement_id + 1 = n_inputs * measured
          /\ n_inputs * measured <= call.n * call.reps
          /\ next_measurement_id < 0 => yielded < call.n * call.reps
    /\ pc = "parse" =>
          /\ yielded + Len(output) + next_measurement_id + 1 = n_inputs * measured
          /\ n_inputs * measured <= call.n * call.reps

\* Result y of a call, as it is measured when nothing is corrupted.
IsResult(reading, y) ==
    /\ reading.slot = n_inputs - (y % n_inputs)
    /\ reading.meas = (y \div n_inputs) + 1
    /\ reading.valid

Filed == \A y \in 0..(yielded - 1) : IsResult(all_readings[Index(y)], y)

\* Inductive, the readings: each result goes the same way through the array, the
\* page and the list.
ReadingsInv ==
    /\ Busy => result = "none" /\ call.arch = dbg_gpr_mode
    /\ pc = "dead" => result = "none"
    /\ Busy \/ result = "ok" => DOMAIN all_readings = 1..(call.n * call.reps)
    /\ Reading /\ ~smi =>
          \A s \in 1..(next_measurement_id + 1) :
             /\ measurements[s].slot = s /\ measurements[s].meas = measured
             /\ measurements[s].valid /\ (measurements[s].zero => call.arch)
    /\ pc = "parse" /\ ~smi =>
          \A k \in 1..Len(output) :
             IsResult(output[k], yielded + k - 1) /\ (output[k].zero => call.arch)
    /\ (Reading \/ result = "ok") /\ ~smi => Filed
    /\ result = "ok" => /\ yielded = call.n * call.reps
                        /\ \E rounds \in Nat \ {0} : n_inputs = call.n * rounds

-----------------------------------------------------------------------------
(* The sizes of the batches.                                               *)

LEMMA ProductFits ==
    ASSUME NEW a \in Nat, NEW b \in Nat, NEW c \in Nat, a <= b
    PROVE  a * c \in Nat /\ b * c \in Nat /\ a * c <= b * c
  BY SMT

LEMMA BatchFits ==
    /\ MaxSlots \in Nat
    /\ \A n \in InputCounts : n \in Nat \ {0} /\ n * BatchFactor \in Nat
                              /\ n <= MaxSlots /\ n * BatchFactor <= MaxSlots
                              /\ n * BatchFactor > 0
<1> DEFINE Largest(x) == \A y \in InputCounts : y <= x
<1>1. \E x \in InputCounts : Largest(x)
    BY CountsAssumption
<1>2. MaxOf(InputCounts) = CHOOSE x \in InputCounts : Largest(x)
    BY DEF MaxOf
<1>3. MaxOf(InputCounts) \in InputCounts /\ Largest(MaxOf(InputCounts))
    BY <1>1, <1>2, Zenon
<1>4. MaxOf(InputCounts) \in Nat
    BY <1>3, CountsAssumption
<1>5. ASSUME NEW n \in InputCounts
      PROVE  n \in Nat \ {0} /\ n * BatchFactor \in Nat /\ n <= n * BatchFactor
             /\ n * BatchFactor <= MaxSlots /\ n * BatchFactor > 0
    <2>1. n \in Nat \ {0} /\ BatchFactor \in Nat \ {0} /\ n <= MaxOf(InputCounts)
        BY <1>3, CountsAssumption
    <2>2. n * BatchFactor <= MaxSlots
        BY <1>4, <2>1, ProductFits DEF MaxSlots
    <2>3. n * BatchFactor \in Nat /\ n <= n * BatchFactor
        BY <2>1, SMT
    <2> QED
        BY <2>1, <2>2, <2>3
<1>6. MaxSlots \in Nat
    BY <1>4, CountsAssumption, ProductFits DEF MaxSlots
<1> QED
    BY <1>5, <1>6

LEMMA CallType ==
    ASSUME TypeOK
    PROVE  /\ call.n \in InputCounts /\ call.n \in Nat \ {0} /\ call.reps \in Nat \ {0}
           /\ call.n * call.reps \in Nat /\ call.arch \in BOOLEAN
<1>1. call.n \in InputCounts /\ call.reps \in RepCounts /\ call.arch \in BOOLEAN
    BY DEF TypeOK
<1>2. call.n \in Nat \ {0} /\ call.reps \in Nat \ {0}
    BY <1>1, CountsAssumption
<1> QED
    BY <1>1, <1>2

LEMMA BatchSize ==
    ASSUME TypeOK, KmInv, Reading \/ Rewinding
    PROVE  n_inputs \in Nat \ {0}
<1>1. CASE Batched(call)
    BY <1>1, BatchFits, CallType DEF KmInv
<1>2. CASE ~Batched(call)
    BY <1>2, BatchFits, CallType DEF KmInv
<1> QED
    BY <1>1, <1>2

-----------------------------------------------------------------------------
(* The kernel module.                                                      *)

LEMMA NoneType == None \in Slots
  BY BatchFits DEF None, Slots, Readings

LEMMA AllocatedType ==
    ASSUME KmInv, measurements # << >>
    PROVE  /\ Allocated \in Seq(Slots) /\ Len(Allocated) >= n_inputs
           /\ Len(Allocated) >= IF Grow THEN n_inputs ELSE old_n_inputs
           /\ Len(Allocated) > 0
           /\ Grow => Len(Allocated) = n_inputs
<1>1. n_inputs \in Nat /\ old_n_inputs \in Nat /\ measurements \in Seq(Slots)
      /\ Len(measurements) >= old_n_inputs /\ Len(measurements) \in Nat
      /\ Len(measurements) > 0
    BY BatchFits DEF KmInv
<1>2. CASE Grow
    <2>1. Allocated = [i \in 1..n_inputs |-> None]
        BY <1>2 DEF Allocated
    <2>2. Allocated \in Seq(Slots) /\ Len(Allocated) = n_inputs
        BY <1>1, <2>1, NoneType
    <2> QED
        BY <1>1, <1>2, <2>2 DEF Grow
<1>3. CASE ~Grow
    BY <1>1, <1>3 DEF Allocated, Grow
<1> QED
    BY <1>2, <1>3

LEMMA MeasureType ==
    ASSUME TypeOK, KmInv, measurements # << >>, Measure
    PROVE  /\ measurements' \in Seq(Slots) /\ Len(measurements') = Len(Allocated)
           /\ old_n_inputs' \in Nat /\ Len(measurements') >= old_n_inputs'
           /\ Len(measurements') > 0
           /\ measured' \in Nat /\ smi' \in BOOLEAN
<1> DEFINE L == Len(Allocated)
<1>1. Allocated \in Seq(Slots) /\ L \in Nat /\ DOMAIN Allocated = 1..L
    BY AllocatedType
<1>2. n_inputs \in 0..MaxSlots /\ MaxSlots \in Nat /\ measured \in Nat /\ smi \in BOOLEAN
    BY BatchFits DEF KmInv, TypeOK
<1>3. ASSUME NEW i \in 1..L, i <= n_inputs, NEW zero \in BOOLEAN, NEW valid \in BOOLEAN
      PROVE  [slot |-> i, meas |-> measured + 1, zero |-> zero, valid |-> valid] \in Slots
    BY <1>1, <1>2, <1>3 DEF Slots, Readings
<1>4. \A i \in 1..L : Allocated[i] \in Slots
    BY <1>1
<1>5. ASSUME MeasureAll(measurements')
      PROVE  measurements' \in Seq(Slots) /\ Len(measurements') = L
    <2>1. PICK zero \in {FALSE, dbg_gpr_mode} :
              measurements' = [i \in 1..L |->
                  IF i <= n_inputs
                  THEN [slot |-> i, meas |-> measured + 1, zero |-> zero, valid |-> TRUE]
                  ELSE Allocated[i]]
        BY <1>1, <1>5 DEF MeasureAll
    <2>2. zero \in BOOLEAN
        BY DEF TypeOK
    <2>3. \A i \in 1..L : measurements'[i] \in Slots
        BY <1>3, <1>4, <2>1, <2>2
    <2> HIDE DEF L
    <2> QED
        BY <1>1, <2>1, <2>3
<1>6. ASSUME MeasureCorrupted(measurements')
      PROVE  measurements' \in Seq(Slots) /\ Len(measurements') = L
    <2> DEFINE Got(i, bad, zero) ==
          CASE i < bad -> [slot |-> i, meas |-> measured + 1, zero |-> FALSE, valid |-> TRUE]
            [] i = bad -> [slot |-> i, meas |-> measured + 1, zero |-> zero, valid |-> FALSE]
            [] OTHER -> Allocated[i]
    <2>1. PICK bad \in 1..n_inputs, zero \in BOOLEAN :
              measurements' = [i \in 1..L |-> Got(i, bad, zero)]
        BY <1>1, <1>6 DEF MeasureCorrupted
    <2>2. ASSUME NEW i \in 1..L PROVE Got(i, bad, zero) \in Slots
        <3>1. CASE i < bad
            <4>1. i <= n_inputs
                BY <1>1, <1>2, <3>1
            <4> QED
                BY <1>3, <3>1, <4>1
        <3>2. CASE i = bad
            <4>1. i <= n_inputs
                BY <1>1, <1>2, <3>2
            <4>2. ~(i < bad)
                BY <1>2, <3>2
            <4> QED
                BY <1>3, <3>2, <4>1, <4>2
        <3>3. CASE ~(i < bad) /\ i # bad
            BY <1>4, <3>3
        <3> QED
            BY <3>1, <3>2, <3>3
    <2> HIDE DEF L, Got
    <2> QED
        BY <1>1, <2>1, <2>2
<1>7. measurements' \in Seq(Slots) /\ Len(measurements') = L
    BY <1>5, <1>6 DEF Measure
<1>8. old_n_inputs' = IF Grow THEN n_inputs ELSE old_n_inputs
    BY DEF Measure
<1>9. measured' \in Nat /\ smi' \in BOOLEAN
    <2>1. measured' \in Nat
        BY <1>2 DEF Measure
    <2>2. smi' \in BOOLEAN
        BY <1>2, Zenon DEF Measure
    <2> QED
        BY <2>1, <2>2
<1> QED
    BY <1>1, <1>2, <1>7, <1>8, <1>9, AllocatedType DEF KmInv

\* The printing loop prints a part of the array, backwards.
LEMMA Printed ==
    ASSUME NEW array \in Seq(Slots), NEW first \in Nat, first < Len(array),
           PrintFrom(first, array)
    PROVE  /\ output' \in Seq(Slots) /\ Len(output') \in 1..(first + 1)
           /\ next_measurement_id' = first - Len(output')
           /\ done' \in BOOLEAN /\ (done' <=> next_measurement_id' < 0)
           /\ \A k \in 1..Len(output') : /\ output'[k] = array[first - k + 2]
                                         /\ first - k + 2 \in 1..(first + 1)
<1>1. PICK count \in 1..(first + 1) :
          /\ output' = [k \in 1..count |-> array[first - k + 2]]
          /\ next_measurement_id' = first - count
          /\ done' = (first - count < 0)
    BY DEF PrintFrom
<1>2. \A k \in 1..count : first - k + 2 \in 1..(first + 1)
    OBVIOUS
<1>3. \A k \in 1..count : array[first - k + 2] \in Slots
    BY <1>2
<1>4. output' \in Seq(Slots) /\ Len(output') = count
    BY <1>1, <1>3
<1>5. done' \in BOOLEAN /\ (done' <=> first - count < 0)
    <2>1. (first - count < 0) \in BOOLEAN
        OBVIOUS
    <2> QED
        BY <1>1, <2>1, Zenon
<1> QED
    BY <1>1, <1>2, <1>4, <1>5

\* The first result that a read prints.
First == IF next_measurement_id < 0 THEN n_inputs - 1 ELSE next_measurement_id

LEMMA ShowType ==
    ASSUME TypeOK, KmInv, Reading \/ Rewinding, trace_show
    PROVE  /\ measurements' \in Seq(Slots) /\ Len(measurements') > 0
           /\ old_n_inputs' \in Nat /\ Len(measurements') >= old_n_inputs'
           /\ output' \in Seq(Slots) /\ Len(output') > 0
           /\ next_measurement_id' \in Int /\ next_measurement_id' >= -1
           /\ next_measurement_id' < n_inputs /\ next_measurement_id' < Len(measurements')
           /\ done' \in BOOLEAN /\ (done' <=> next_measurement_id' < 0)
           /\ measured' \in Nat /\ smi' \in BOOLEAN
           /\ First \in Nat /\ next_measurement_id' = First - Len(output')
           /\ \A k \in 1..Len(output') : /\ output'[k] = measurements'[First - k + 2]
                                         /\ First - k + 2 \in 1..(First + 1)
<1>0. n_inputs \in Nat \ {0} /\ measurements # << >>
    BY BatchSize DEF trace_show
<1>1. CASE next_measurement_id < 0
    <2>1. Measure /\ PrintFrom(n_inputs - 1, measurements')
        BY <1>1 DEF trace_show, KmInv
    <2>2. Len(Allocated) >= n_inputs
        BY <1>0, AllocatedType
    <2>3. /\ measurements' \in Seq(Slots) /\ Len(measurements') >= n_inputs
          /\ Len(measurements') > 0 /\ Len(measurements') \in Nat
          /\ old_n_inputs' \in Nat /\ Len(measurements') >= old_n_inputs'
          /\ measured' \in Nat /\ smi' \in BOOLEAN
        BY <1>0, <2>1, <2>2, MeasureType
    <2>4. n_inputs - 1 \in Nat /\ n_inputs - 1 < Len(measurements')
        BY <1>0, <2>3
    <2>5. /\ output' \in Seq(Slots) /\ Len(output') \in 1..n_inputs
          /\ next_measurement_id' = n_inputs - 1 - Len(output')
          /\ done' \in BOOLEAN /\ (done' <=> next_measurement_id' < 0)
          /\ \A k \in 1..Len(output') : /\ output'[k] = measurements'[n_inputs - 1 - k + 2]
                                        /\ n_inputs - 1 - k + 2 \in 1..(n_inputs - 1 + 1)
        BY <1>0, <2>1, <2>3, <2>4, Printed
    <2>6. First = n_inputs - 1
        BY <1>1 DEF First
    <2>7. /\ First \in Nat /\ next_measurement_id' = First - Len(output')
          /\ \A k \in 1..Len(output') : /\ output'[k] = measurements'[First - k + 2]
                                        /\ First - k + 2 \in 1..(First + 1)
        BY <1>0, <2>5, <2>6
    <2> HIDE DEF First
    <2>8. Len(output') \in 1..n_inputs /\ next_measurement_id' = n_inputs - 1 - Len(output')
        BY <2>5
    <2>9. /\ next_measurement_id' \in Int /\ next_measurement_id' >= -1
          /\ next_measurement_id' < n_inputs /\ Len(output') > 0
        BY <1>0, <2>8
    <2>10. next_measurement_id' < Len(measurements')
        BY <1>0, <2>3, <2>9
    <2> QED
        BY <2>3, <2>5, <2>7, <2>9, <2>10
<1>2. CASE next_measurement_id >= 0
    <2>1. /\ PrintFrom(next_measurement_id, measurements)
          /\ UNCHANGED <<measurements, old_n_inputs, measured, smi>>
        BY <1>2 DEF trace_show, KmInv
    <2>2. /\ measurements \in Seq(Slots) /\ next_measurement_id \in Nat
          /\ next_measurement_id < n_inputs
          /\ next_measurement_id < Len(measurements) /\ Len(measurements) \in Nat
          /\ old_n_inputs \in Nat /\ Len(measurements) >= old_n_inputs
        BY <1>0, <1>2 DEF KmInv
    <2>3. /\ output' \in Seq(Slots) /\ Len(output') \in 1..(next_measurement_id + 1)
          /\ next_measurement_id' = next_measurement_id - Len(output')
          /\ done' \in BOOLEAN /\ (done' <=> next_measurement_id' < 0)
          /\ \A k \in 1..Len(output') :
                /\ output'[k] = measurements[next_measurement_id - k + 2]
                /\ next_measurement_id - k + 2 \in 1..(next_measurement_id + 1)
        BY <2>1, <2>2, Printed
    <2>4. measured \in Nat /\ smi \in BOOLEAN
        BY DEF TypeOK
    <2>5. First = next_measurement_id
        BY <1>2, <2>2 DEF First
    <2> QED
        BY <1>0, <2>1, <2>2, <2>3, <2>4, <2>5
<1> QED
    BY <1>1, <1>2 DEF KmInv

LEMMA FailType ==
    ASSUME TypeOK, KmInv, trace_show_fails
    PROVE  /\ measurements' \in Seq(Slots)
           /\ old_n_inputs' \in Nat /\ unfinished_call' \in BOOLEAN
           /\ measurements' = << >> \/ Len(measurements') >= old_n_inputs'
           /\ next_measurement_id < Len(measurements')
           /\ UNCHANGED <<n_inputs, next_measurement_id, dbg_gpr_mode, measured, smi>>
<1>1. CASE measurements = << >>
    BY <1>1 DEF trace_show_fails, KmInv, TypeOK
<1>2. CASE measurements # << >>
    <2>1. next_measurement_id = -1 /\ n_inputs \in Nat /\ unfinished_call' = TRUE
        BY <1>2, BatchFits DEF trace_show_fails, KmInv
    <2>2. CASE measurements' = << >> /\ old_n_inputs' = n_inputs
        BY <1>2, <2>1, <2>2 DEF trace_show_fails
    <2>3. CASE /\ measurements' = [Allocated EXCEPT ![1] = None]
               /\ old_n_inputs' = IF Grow THEN n_inputs ELSE old_n_inputs
        <3>1. /\ Allocated \in Seq(Slots) /\ Len(Allocated) > 0
              /\ Len(Allocated) >= IF Grow THEN n_inputs ELSE old_n_inputs
            BY <1>2, AllocatedType
        <3>2. measurements' \in Seq(Slots) /\ Len(measurements') = Len(Allocated)
            BY <2>3, <3>1, NoneType
        <3>3. old_n_inputs' \in Nat
            BY <2>1, <2>3 DEF KmInv
        <3> QED
            BY <1>2, <2>1, <2>3, <3>1, <3>2, <3>3 DEF trace_show_fails
    <2> QED
        BY <1>2, <2>2, <2>3 DEF trace_show_fails
<1> QED
    BY <1>1, <1>2

LEMMA KmInit == Init => KmInv
<1> SUFFICES ASSUME Init PROVE KmInv
    OBVIOUS
<1>1. PICK r \in Readings({0}, {0}) : measurements = <<r>>
    BY DEF Init
<1>2. r \in Slots
    BY BatchFits DEF Readings, Slots
<1>3. measurements \in Seq(Slots) /\ Len(measurements) = 1
    BY <1>1, <1>2
<1>4. n_inputs = 0 /\ old_n_inputs = 0 /\ next_measurement_id = -1 /\ pc = "dead"
    BY DEF Init
<1> QED
    BY <1>3, <1>4, BatchFits DEF KmInv, Reading, Rewinding

LEMMA KmStep == TypeOK /\ KmInv /\ LinesInv /\ [Next]_vars => KmInv'
<1> SUFFICES ASSUME TypeOK, KmInv, LinesInv, [Next]_vars PROVE KmInv'
    OBVIOUS
<1> USE DEF Reading, Rewinding, Batched
<1>1. CASE LoadTestCase
    BY <1>1 DEF LoadTestCase, KmInv
<1>2. CASE TraceTestCase
    <2>1. measurements \in Seq(Slots) /\ DOMAIN measurements = 1..Len(measurements)
        BY DEF KmInv
    <2>2. ASSUME NEW reading \in Slots PROVE [reading EXCEPT !.meas = 0] \in Slots
        BY DEF Slots, Readings
    <2>3. \A i \in 1..Len(measurements) : [measurements[i] EXCEPT !.meas = 0] \in Slots
        BY <2>1, <2>2
    <2>4. measurements' = [i \in 1..Len(measurements) |-> [measurements[i] EXCEPT !.meas = 0]]
        BY <1>2, <2>1 DEF TraceTestCase
    <2>5. measurements' \in Seq(Slots) /\ Len(measurements') = Len(measurements)
        BY <2>1, <2>3, <2>4
    <2> QED
        BY <1>2, <2>5 DEF TraceTestCase, KmInv
<1>3. CASE UploadInputs
    <2>1. n_inputs' \in 0..MaxSlots /\ n_inputs' > 0
        <3>1. CASE Batched(call)
            BY <1>3, <3>1, BatchFits, CallType DEF UploadInputs
        <3>2. CASE ~Batched(call)
            BY <1>3, <3>2, BatchFits, CallType DEF UploadInputs
        <3> QED
            BY <3>1, <3>2
    <2> QED
        BY <1>3, <2>1, BatchFits DEF UploadInputs, reader, KmInv
<1>4. CASE UploadFails \/ Die
    BY <1>4 DEF UploadFails, Die, km, KmInv
<1>5. CASE ParseOutput \/ CheckRewound
    <2>1. /\ pc' \in {"loaded", "read", "rewind"} /\ call' = call /\ km' = km
          /\ pc' = "loaded" => next_measurement_id = -1
        BY <1>5 DEF ParseOutput, CheckRewound, KmInv, LinesInv
    <2> QED
        BY <1>5, <2>1 DEF ParseOutput, CheckRewound, km, KmInv
<1>6. CASE ReadOutput
    BY <1>6, ShowType DEF ReadOutput, trace_show, KmInv
<1>7. CASE ReadFails
    BY <1>7, FailType DEF ReadFails, KmInv
<1>8. CASE UNCHANGED vars
    BY <1>8 DEF vars, km, reader, KmInv
<1> QED
    BY <1>1, <1>2, <1>3, <1>4, <1>5, <1>6, <1>7, <1>8 DEF Next, InCall

-----------------------------------------------------------------------------
(* The reader.                                                             *)

LEMMA LeastNumber ==
    ASSUME NEW S \in SUBSET Nat, S # {}
    PROVE  \E k \in S : \A j \in S : k <= j
<1>1. PICK k \in S : \A j \in S : ~(<<j, k>> \in OpToRel(<, Nat))
    BY NatLessThanWellFounded, WFMin
<1>2. \A j \in S : <<j, k>> \in OpToRel(<, Nat) <=> j < k
    BY DEF OpToRel
<1>3. \A j \in S : ~(j < k)
    BY <1>1, <1>2, Zenon
<1> QED
    BY <1>3

LEMMA AcceptedLines ==
    ASSUME output \in Seq(Slots)
    PROVE  /\ Accepted \in 0..Len(output)
           /\ (\A k \in 1..Len(output) : output[k].zero => call.arch) => Accepted = Len(output)
<1> DEFINE bad == {k \in DOMAIN output : output[k].zero /\ ~call.arch}
           IsLeast(k) == \A j \in bad : k <= j
<1>1. Len(output) \in Nat /\ DOMAIN output = 1..Len(output)
    OBVIOUS
<1>2. bad \in SUBSET Nat /\ bad \subseteq 1..Len(output)
    BY <1>1
<1>3. Accepted = IF bad = {} THEN Len(output) ELSE (CHOOSE k \in bad : IsLeast(k)) - 1
    BY DEF Accepted
<1>4. CASE bad = {}
    BY <1>1, <1>3, <1>4
<1>5. CASE bad # {}
    <2>1. \E k \in bad : IsLeast(k)
        BY <1>2, <1>5, LeastNumber
    <2>2. (CHOOSE k \in bad : IsLeast(k)) \in bad
        BY <2>1, Zenon
    <2>3. Accepted \in 0..Len(output)
        <3> DEFINE least == CHOOSE k \in bad : IsLeast(k)
        <3>1. least \in 1..Len(output)
            BY <1>2, <2>2
        <3> HIDE DEF least
        <3>2. least - 1 \in 0..Len(output)
            BY <1>1, <3>1
        <3> QED
            BY <1>3, <1>5, <3>2 DEF least
    <2>4. ~(\A k \in 1..Len(output) : output[k].zero => call.arch)
        BY <1>1, <1>5
    <2> QED
        BY <2>3, <2>4
<1> QED
    BY <1>4, <1>5

LEMMA TypeInit == Init => TypeOK
<1> SUFFICES ASSUME Init PROVE TypeOK
    OBVIOUS
<1>1. \A i \in DOMAIN measurements : measurements[i] \in Slots
    BY KmInit DEF KmInv
<1>2. -1 \in -1..(MaxSlots - 1)
    BY BatchFits
<1>3. call \in [n : InputCounts, reps : RepCounts, arch : BOOLEAN]
    BY DEF Init
<1>4. unfinished_call \in BOOLEAN /\ dbg_gpr_mode \in BOOLEAN /\ smi \in BOOLEAN /\ done \in BOOLEAN
    BY DEF Init
<1> QED
    BY <1>1, <1>2, <1>3, <1>4 DEF Init, TypeOK, Slots

LEMMA TypeStep == TypeOK /\ KmInv /\ KmInv' /\ LinesInv /\ [Next]_vars => TypeOK'
<1> SUFFICES ASSUME TypeOK, KmInv, KmInv', LinesInv, [Next]_vars PROVE TypeOK'
    OBVIOUS
<1>0. /\ n_inputs' \in Nat /\ old_n_inputs' \in Nat
      /\ next_measurement_id' \in -1..(MaxSlots - 1)
      /\ \A i \in DOMAIN measurements' : measurements'[i] \in Readings(0..MaxSlots, Nat)
    BY BatchFits DEF KmInv, Slots
<1>1. CASE LoadTestCase \/ Die
    <2>1. dbg_gpr_mode' \in BOOLEAN /\ done' \in BOOLEAN /\ unfinished_call' = unfinished_call
        BY <1>1 DEF LoadTestCase, Die, ForgetCall, km, TypeOK
    <2> QED
        BY <1>0, <1>1, <2>1 DEF LoadTestCase, Die, ForgetCall, TypeOK
<1>2. CASE TraceTestCase
    <2>1. call' \in [n : InputCounts, reps : RepCounts, arch : BOOLEAN]
        BY <1>2 DEF TraceTestCase, TypeOK
    <2>2. smi' \in BOOLEAN /\ done' \in BOOLEAN
        BY <1>2 DEF TraceTestCase
    <2> QED
        BY <1>0, <1>2, <2>1, <2>2 DEF TraceTestCase, TypeOK
<1>3. CASE UploadInputs \/ UploadFails
    BY <1>0, <1>3 DEF UploadInputs, UploadFails, km, reader, TypeOK
<1>4. CASE ReadOutput
    <2>1. measured' \in Nat /\ smi' \in BOOLEAN /\ done' \in BOOLEAN
        BY <1>4, ShowType DEF ReadOutput, Reading, Rewinding
    <2>2. unfinished_call' \in BOOLEAN /\ dbg_gpr_mode' = dbg_gpr_mode
        BY <1>4 DEF ReadOutput, trace_show
    <2> QED
        BY <1>0, <1>4, <2>1, <2>2 DEF ReadOutput, TypeOK
<1>5. CASE ReadFails
    <2>1. done' \in BOOLEAN /\ yielded' = 0
        BY <1>5 DEF ReadFails, ForgetCall
    <2> QED
        BY <1>0, <1>5, <2>1, FailType DEF ReadFails, TypeOK
<1>6. CASE ParseOutput
    <2>1. Accepted \in Nat
        BY <1>6, AcceptedLines DEF ParseOutput, LinesInv
    <2>2. yielded' \in Nat
        BY <1>6, <2>1 DEF ParseOutput, TypeOK
    <2>3. pc' \in {"rewind", "loaded", "read"} /\ result' \in {"ok", result}
        BY <1>6 DEF ParseOutput
    <2>4. done' \in BOOLEAN
        BY <1>6 DEF ParseOutput
    <2> QED
        BY <1>0, <1>6, <2>2, <2>3, <2>4 DEF ParseOutput, km, TypeOK
<1>7. CASE CheckRewound
    <2>1. pc' \in {"rewind", "loaded"} /\ result' \in {"ioerror", result}
        BY <1>7 DEF CheckRewound
    <2>2. done' \in BOOLEAN
        BY <1>7 DEF CheckRewound
    <2> QED
        BY <1>0, <1>7, <2>1, <2>2 DEF CheckRewound, km, TypeOK
<1>8. CASE UNCHANGED vars
    BY <1>8 DEF vars, km, reader, TypeOK
<1> QED
    BY <1>1, <1>2, <1>3, <1>4, <1>5, <1>6, <1>7, <1>8 DEF Next, InCall

\* The readings that a call wants are whole batches.
LEMMA WholeBatches ==
    ASSUME TypeOK, KmInv, Reading
    PROVE  \E batches \in Nat : call.n * call.reps = n_inputs * batches
<1>1. CASE Batched(call)
    <2>1. call.reps % BatchFactor = 0 /\ n_inputs = call.n * BatchFactor
        BY <1>1 DEF Batched, KmInv
    <2>2. call.reps \div BatchFactor \in Nat
          /\ call.reps = BatchFactor * (call.reps \div BatchFactor)
        BY <2>1, CallType, CountsAssumption, SMT
    <2>3. call.n * (BatchFactor * (call.reps \div BatchFactor))
             = (call.n * BatchFactor) * (call.reps \div BatchFactor)
        BY <2>2, CallType, CountsAssumption, SMT
    <2> QED
        BY <2>1, <2>2, <2>3
<1>2. CASE ~Batched(call)
    BY <1>2, CallType DEF KmInv
<1> QED
    BY <1>1, <1>2

LEMMA OneMoreBatch ==
    ASSUME NEW size \in Nat \ {0}, NEW made \in Nat, NEW wanted \in Nat,
           size * made < size * wanted
    PROVE  /\ size * (made + 1) = size * made + size
           /\ size * (made + 1) <= size * wanted
  BY SMT

LEMMA LinesInit == Init => LinesInv
<1> SUFFICES ASSUME Init PROVE LinesInv
    OBVIOUS
<1>1. call.n * call.reps \in Nat
    BY TypeInit, CallType
<1> QED
    BY <1>1 DEF Init, LinesInv

LEMMA ReadLines ==
    ASSUME TypeOK, KmInv, LinesInv, ReadOutput, pc = "read"
    PROVE  /\ yielded + Len(output') + next_measurement_id' + 1 = n_inputs * measured'
           /\ n_inputs * measured' <= call.n * call.reps
           /\ next_measurement_id < 0 => /\ Measure /\ yielded = n_inputs * measured
                                         /\ measured' = measured + 1
           /\ next_measurement_id >= 0 => UNCHANGED <<measurements, measured, smi>>
<1>0. /\ n_inputs \in Nat \ {0} /\ yielded \in Nat /\ measured \in Nat
      /\ next_measurement_id \in Int /\ next_measurement_id >= -1 /\ Reading
    BY BatchSize DEF TypeOK, KmInv, Reading
<1>1. /\ output' \in Seq(Slots) /\ Len(output') \in Nat /\ First \in Nat
      /\ next_measurement_id' = First - Len(output')
    BY <1>0, ShowType DEF ReadOutput
<1>2. /\ yielded + next_measurement_id + 1 = n_inputs * measured
      /\ n_inputs * measured <= call.n * call.reps
      /\ next_measurement_id < 0 => yielded < call.n * call.reps
    BY DEF LinesInv
<1>3. CASE next_measurement_id < 0
    <2>1. PICK batches \in Nat : call.n * call.reps = n_inputs * batches
        BY <1>0, WholeBatches
    <2>2. yielded = n_inputs * measured
        BY <1>0, <1>2, <1>3
    <2>3. /\ n_inputs * (measured + 1) = n_inputs * measured + n_inputs
          /\ n_inputs * (measured + 1) <= n_inputs * batches
        BY <1>0, <1>2, <1>3, <2>1, <2>2, OneMoreBatch
    <2>4. Measure /\ measured' = measured + 1
        BY <1>0, <1>3 DEF ReadOutput, trace_show, Measure
    <2>5. First = n_inputs - 1
        BY <1>3 DEF First
    <2>6. n_inputs * measured \in Nat
        BY <1>0
    <2> QED
        BY <1>0, <1>1, <1>3, <2>1, <2>2, <2>3, <2>4, <2>5, <2>6
<1>4. CASE next_measurement_id >= 0
    <2>1. UNCHANGED <<measurements, measured, smi>>
        BY <1>0, <1>4 DEF ReadOutput, trace_show
    <2>2. First = next_measurement_id
        BY <1>0, <1>4 DEF First
    <2> QED
        BY <1>0, <1>1, <1>2, <1>4, <2>1, <2>2
<1> QED
    BY <1>0, <1>3, <1>4

LEMMA LinesStep ==
    TypeOK /\ TypeOK' /\ KmInv /\ KmInv' /\ LinesInv /\ [Next]_vars => LinesInv'
<1> SUFFICES ASSUME TypeOK, TypeOK', KmInv, KmInv', LinesInv, [Next]_vars PROVE LinesInv'
    OBVIOUS
<1>0. /\ call.n * call.reps \in Nat /\ (call.n * call.reps)' \in Nat
      /\ call.n \in Nat \ {0} /\ call.reps \in Nat \ {0} /\ yielded \in Nat
    <2>1. call'.n \in InputCounts /\ call'.reps \in RepCounts
        BY DEF TypeOK
    <2>2. call'.n \in Nat /\ call'.reps \in Nat
        BY <2>1, CountsAssumption
    <2>3. (call.n * call.reps)' \in Nat
        BY <2>2
    <2> QED
        BY <2>3, CallType DEF TypeOK
<1>1. CASE LoadTestCase \/ Die \/ ReadFails
    BY <1>0, <1>1 DEF LoadTestCase, Die, ReadFails, ForgetCall, LinesInv
<1>2. CASE TraceTestCase
    BY <1>0, <1>2 DEF TraceTestCase, LinesInv
<1>3. CASE UploadInputs
    <2>1. /\ pc = "upload" /\ pc' = "read" /\ next_measurement_id' = -1
          /\ UNCHANGED <<call, yielded, measured>>
        BY <1>3 DEF UploadInputs, reader, KmInv
    <2>2. yielded = 0 /\ measured = 0 /\ n_inputs' \in Nat
        BY <2>1, BatchFits DEF LinesInv, KmInv
    <2>3. 0 < call.n * call.reps
        BY <1>0, SMT
    <2>4. yielded' = 0 /\ measured' = 0 /\ call' = call
        BY <2>1, <2>2
    <2>5. \A size \in Nat : size * 0 = 0
        OBVIOUS
    <2>6. n_inputs' * measured' = 0
        BY <2>2, <2>4, <2>5
    <2> QED
        BY <1>0, <2>1, <2>3, <2>4, <2>6 DEF LinesInv
<1>4. CASE UploadFails
    BY <1>4 DEF UploadFails, LinesInv
<1>5. CASE ReadOutput
    <2>1. /\ output' \in Seq(Slots) /\ Len(output') > 0 /\ (done' <=> next_measurement_id' < 0)
        BY <1>5, ShowType DEF ReadOutput, Reading, Rewinding
    <2>2. UNCHANGED <<call, yielded, n_inputs>>
        BY <1>5 DEF ReadOutput, trace_show
    <2>3. CASE pc = "read"
        BY <1>5, <2>1, <2>2, <2>3, ReadLines DEF ReadOutput, LinesInv
    <2>4. CASE pc = "rewind"
        BY <1>5, <2>1, <2>2, <2>4 DEF ReadOutput, LinesInv
    <2> QED
        BY <1>5, <2>3, <2>4 DEF ReadOutput
<1>6. CASE ParseOutput
    <2>1. /\ yielded + Len(output) + next_measurement_id + 1 = n_inputs * measured
          /\ n_inputs * measured <= call.n * call.reps
          /\ output \in Seq(Slots) /\ Len(output) \in Nat /\ (done <=> next_measurement_id < 0)
        BY <1>6 DEF ParseOutput, LinesInv
    <2>2. Accepted \in 0..Len(output) /\ yielded' = yielded + Accepted
        BY <1>6, <2>1, AcceptedLines DEF ParseOutput
    <2>3. n_inputs \in Nat /\ measured \in Nat /\ next_measurement_id \in Int
          /\ next_measurement_id >= -1 /\ n_inputs * measured \in Nat
        BY BatchFits DEF KmInv, TypeOK
    <2>4. yielded' <= call.n * call.reps
        BY <1>0, <2>1, <2>2, <2>3
    <2>5. UNCHANGED <<call, n_inputs, measured, next_measurement_id>>
        BY <1>6 DEF ParseOutput, km
    <2>6. pc' \in {"rewind", "loaded", "read"}
        BY <1>6 DEF ParseOutput
    <2>7. CASE pc' = "read"
        <3>1. ~(Accepted < Len(output)) /\ ~(done /\ rep_id(yielded') >= call.reps)
            BY <1>6, <2>7 DEF ParseOutput
        <3>2. Accepted = Len(output)
            BY <2>1, <2>2, <3>1
        <3>3. ASSUME next_measurement_id < 0 PROVE yielded' < call.n * call.reps
            <4>1. ~(yielded' \div call.n >= call.reps)
                BY <2>1, <3>1, <3>3 DEF rep_id
            <4>2. yielded' \in Nat
                BY DEF TypeOK
            <4> QED
                BY <1>0, <4>1, <4>2, SMT
        <3> QED
            BY <2>1, <2>2, <2>4, <2>5, <2>7, <3>2, <3>3 DEF LinesInv
    <2> QED
        BY <2>4, <2>5, <2>6, <2>7 DEF LinesInv
<1>7. CASE CheckRewound
    BY <1>7 DEF CheckRewound, km, LinesInv
<1>8. CASE UNCHANGED vars
    BY <1>8 DEF vars, km, reader, LinesInv
<1> QED
    BY <1>1, <1>2, <1>3, <1>4, <1>5, <1>6, <1>7, <1>8 DEF Next, InCall

LEMMA InvAlways == Spec => [](TypeOK /\ KmInv /\ LinesInv)
<1>1. Init => TypeOK /\ KmInv /\ LinesInv
    BY TypeInit, KmInit, LinesInit
<1>2. TypeOK /\ KmInv /\ LinesInv /\ [Next]_vars => (TypeOK /\ KmInv /\ LinesInv)'
    BY TypeStep, KmStep, LinesStep
<1> QED
    BY <1>1, <1>2, PTL DEF Spec

\* Between two calls of trace_test_case the module has nothing left to print,
\* for every size of batches and pages, rejected batches, failed measurements
\* and dead sessions included.
THEOREM AlwaysAtBoundary == Spec => []AtBoundary
<1>1. TypeOK /\ KmInv => AtBoundary
    BY DEF KmInv, AtBoundary
<1> QED
    BY <1>1, InvAlways, PTL

LEMMA BatchRounds ==
    ASSUME TypeOK, KmInv, Reading
    PROVE  \E rounds \in Nat \ {0} : n_inputs = call.n * rounds
<1>1. CASE Batched(call)
    BY <1>1, CountsAssumption DEF KmInv
<1>2. CASE ~Batched(call)
    <2>1. n_inputs = call.n * 1
        BY <1>2, CallType DEF KmInv
    <2> QED
        BY <2>1
<1> QED
    BY <1>1, <1>2

LEMMA MultipleMod ==
    ASSUME NEW n \in Nat \ {0}, NEW a \in Nat, NEW b \in Nat
    PROVE  ((n * a) * b) % n = 0
<1>1. (n * a) * b = n * (a * b) /\ a * b \in Nat
    BY SMT
<1>2. \A q \in Nat : (n * q) % n = 0
    BY SMT
<1> QED
    BY <1>1, <1>2

LEMMA CountsFollow ==
    ASSUME TypeOK, KmInv, LinesInv
    PROVE  CountsAgree
<1>1. ASSUME pc = "read", next_measurement_id < 0 PROVE yielded % call.n = 0
    <2>1. PICK rounds \in Nat \ {0} : n_inputs = call.n * rounds
        BY <1>1, BatchRounds DEF Reading
    <2>2. yielded + next_measurement_id + 1 = n_inputs * measured
        BY <1>1 DEF LinesInv
    <2>3. yielded \in Nat /\ measured \in Nat /\ next_measurement_id = -1
        BY <1>1 DEF TypeOK, KmInv
    <2>4. n_inputs \in Nat /\ n_inputs * measured \in Nat
        BY <2>3, BatchFits DEF KmInv
    <2>5. yielded = (call.n * rounds) * measured
        BY <2>1, <2>2, <2>3, <2>4
    <2> QED
        BY <2>3, <2>5, CallType, MultipleMod
<1> QED
    BY <1>1 DEF LinesInv, CountsAgree

\* _read_trace never counts more lines than it has room for, and when the module
\* is through with a batch the reader is at the end of a repetition.
THEOREM CountsAlwaysAgree == Spec => []CountsAgree
<1>1. TypeOK /\ KmInv /\ LinesInv => CountsAgree
    BY CountsFollow
<1> QED
    BY <1>1, InvAlways, PTL

-----------------------------------------------------------------------------
(* Where a result is filed.                                                *)

\* Every result of a call has a place of its own in the list of readings.
LEMMA OwnPlace ==
    ASSUME TypeOK, NEW y \in 0..(call.n * call.reps - 1)
    PROVE  /\ input_id(y) \in 0..(call.n - 1) /\ rep_id(y) \in 0..(call.reps - 1)
           /\ Index(y) \in 1..(call.n * call.reps)
           /\ y = call.n * rep_id(y) + (call.n - 1 - input_id(y))
<1> DEFINE n == call.n
           reps == call.reps
<1>1. n \in Nat \ {0} /\ reps \in Nat \ {0} /\ n * reps \in Nat
    BY CallType
<1> HIDE DEF n, reps
<1>2. y \in Nat /\ y < n * reps
    BY <1>1 DEF n, reps
<1>3. /\ y \div n \in Nat /\ y % n \in 0..(n - 1) /\ y = n * (y \div n) + (y % n)
    BY <1>1, <1>2, SMT
<1>4. y \div n < reps
    BY <1>1, <1>2, SMT
<1>5. \A i \in 0..(n - 1), r \in 0..(reps - 1) : i * reps + r + 1 \in 1..(n * reps)
    <2> SUFFICES ASSUME NEW i \in 0..(n - 1), NEW r \in 0..(reps - 1)
                 PROVE  i * reps + r + 1 \in 1..(n * reps)
        OBVIOUS
    <2>1. i * reps \in Nat /\ i * reps + reps <= n * reps
        BY <1>1, SMT
    <2> QED
        BY <1>1, <2>1
<1>6. rep_id(y) = y \div n /\ input_id(y) = (n - 1) - (y % n)
    BY DEF n, rep_id, input_id
<1>7. rep_id(y) \in 0..(reps - 1) /\ input_id(y) \in 0..(n - 1)
    BY <1>1, <1>3, <1>4, <1>6
<1>8. Index(y) = input_id(y) * reps + rep_id(y) + 1
    BY DEF Index, reps
<1>9. Index(y) \in 1..(n * reps)
    BY <1>5, <1>7, <1>8
<1>10. y = n * rep_id(y) + (n - 1 - input_id(y))
    BY <1>1, <1>3, <1>6
<1> QED
    BY <1>7, <1>9, <1>10 DEF n, reps

LEMMA SameParts ==
    ASSUME NEW n \in Nat \ {0}, NEW a \in Nat, NEW b \in Nat,
           NEW r \in 0..(n - 1), NEW s \in 0..(n - 1), a * n + r = b * n + s
    PROVE  a = b /\ r = s
  BY SMT

LEMMA Parts ==
    ASSUME NEW n \in Nat \ {0}, NEW q \in Nat, NEW r \in 0..(n - 1)
    PROVE  (n * q + r) \div n = q /\ (n * q + r) % n = r
  BY SMT

LEMMA OneResultPerPlace ==
    ASSUME TypeOK, NEW x \in 0..(call.n * call.reps - 1), NEW y \in 0..(call.n * call.reps - 1),
           Index(x) = Index(y)
    PROVE  x = y
<1>1. /\ input_id(x) \in 0..(call.n - 1) /\ rep_id(x) \in 0..(call.reps - 1)
      /\ x = call.n * rep_id(x) + (call.n - 1 - input_id(x))
    BY OwnPlace
<1>2. /\ input_id(y) \in 0..(call.n - 1) /\ rep_id(y) \in 0..(call.reps - 1)
      /\ y = call.n * rep_id(y) + (call.n - 1 - input_id(y))
    BY OwnPlace
<1>3. call.n \in Nat \ {0} /\ call.reps \in Nat \ {0}
    BY CallType
<1>4. /\ input_id(x) * call.reps \in Nat /\ input_id(y) * call.reps \in Nat
    BY <1>1, <1>2, <1>3
<1>5. input_id(x) * call.reps + rep_id(x) = input_id(y) * call.reps + rep_id(y)
    <2>1. input_id(x) * call.reps + rep_id(x) + 1 = input_id(y) * call.reps + rep_id(y) + 1
        BY DEF Index
    <2> QED
        BY <1>1, <1>2, <1>3, <1>4, <2>1
<1>6. input_id(x) = input_id(y) /\ rep_id(x) = rep_id(y)
    <2>1. input_id(x) \in Nat /\ input_id(y) \in Nat
        BY <1>1, <1>2, <1>3
    <2> DEFINE a == input_id(x)
               b == input_id(y)
               r == rep_id(x)
               s == rep_id(y)
               n == call.reps
    <2>2. /\ n \in Nat \ {0} /\ a \in Nat /\ b \in Nat
          /\ r \in 0..(n - 1) /\ s \in 0..(n - 1) /\ a * n + r = b * n + s
        BY <1>1, <1>2, <1>3, <1>5, <2>1
    <2> HIDE DEF a, b, r, s, n
    <2>3. a = b /\ r = s
        BY <2>2, SameParts
    <2> QED
        BY <2>3 DEF a, b, r, s
<1> QED
    BY <1>1, <1>2, <1>6

LEMMA PlaceOf ==
    ASSUME TypeOK, NEW i \in 0..(call.n - 1), NEW r \in 0..(call.reps - 1),
           NEW y, y = call.n * r + (call.n - 1 - i)
    PROVE  /\ y \in 0..(call.n * call.reps - 1)
           /\ Index(y) = i * call.reps + r + 1
<1>1. call.n \in Nat \ {0} /\ call.reps \in Nat \ {0}
    BY CallType
<1>2. y \in Nat /\ y < call.n * call.reps /\ call.n * call.reps \in Nat
    BY <1>1, SMT
<1>3. y \div call.n = r /\ y % call.n = call.n - 1 - i
    <2>1. call.n - 1 - i \in 0..(call.n - 1) /\ r \in Nat
        BY <1>1
    <2> QED
        BY <1>1, <2>1, Parts
<1>4. rep_id(y) = r /\ input_id(y) = i
    BY <1>1, <1>3 DEF rep_id, input_id
<1> QED
    BY <1>2, <1>4 DEF Index

-----------------------------------------------------------------------------
(* The way of the readings.                                                *)

LEMMA ReadingsInit == Init => ReadingsInv
  BY DEF Init, ReadingsInv, Busy, Reading

\* A measurement that nothing corrupts fills the array.
LEMMA MeasuredAll ==
    ASSUME TypeOK, KmInv, measurements # << >>, Measure, ~smi', NEW s \in 1..n_inputs
    PROVE  /\ ~smi /\ measurements'[s].slot = s /\ measurements'[s].meas = measured'
           /\ measurements'[s].valid /\ (measurements'[s].zero => dbg_gpr_mode)
<1>1. MeasureAll(measurements') /\ ~smi /\ measured' = measured + 1
    BY DEF Measure
<1>2. s \in DOMAIN Allocated /\ s <= n_inputs
    <2>1. Allocated \in Seq(Slots) /\ Len(Allocated) >= n_inputs /\ n_inputs \in Nat
        BY AllocatedType, BatchFits DEF KmInv
    <2> QED
        BY <2>1
<1>3. PICK zero \in {FALSE, dbg_gpr_mode} :
          measurements' = [i \in DOMAIN Allocated |->
              IF i <= n_inputs
              THEN [slot |-> i, meas |-> measured + 1, zero |-> zero, valid |-> TRUE]
              ELSE Allocated[i]]
    BY <1>1 DEF MeasureAll
<1>4. measurements'[s] = [slot |-> s, meas |-> measured + 1, zero |-> zero, valid |-> TRUE]
    BY <1>2, <1>3
<1>5. zero => dbg_gpr_mode
    BY <1>3
<1> QED
    BY <1>1, <1>4, <1>5

LEMMA ResultParts ==
    ASSUME NEW size \in Nat \ {0}, NEW m \in Nat, NEW y \in Nat, NEW s \in 1..size,
           y + s = size * m
    PROVE  s = size - (y % size) /\ m = (y \div size) + 1
<1>1. m # 0
    BY SMT
<1>2. m - 1 \in Nat /\ size - s \in 0..(size - 1)
    BY <1>1
<1>3. y = size * (m - 1) + (size - s)
    BY <1>2, SMT
<1>4. y \div size = m - 1 /\ y % size = size - s
    BY <1>2, <1>3, Parts
<1> QED
    BY <1>4

LEMMA ReadStep ==
    ASSUME TypeOK, KmInv, LinesInv, ReadingsInv, ReadOutput, pc = "read", ~smi'
    PROVE  /\ ~smi
           /\ \A s \in 1..(next_measurement_id' + 1) :
                 /\ measurements'[s].slot = s /\ measurements'[s].meas = measured'
                 /\ measurements'[s].valid /\ (measurements'[s].zero => call.arch)
           /\ \A k \in 1..Len(output') :
                 IsResult(output'[k], yielded + k - 1) /\ (output'[k].zero => call.arch)
<1>0. /\ Reading /\ Busy /\ trace_show /\ measurements # << >> /\ n_inputs \in Nat \ {0}
      /\ call.arch = dbg_gpr_mode /\ yielded \in Nat
    BY BatchSize DEF Reading, Busy, ReadOutput, trace_show, ReadingsInv, TypeOK
<1>1. /\ output' \in Seq(Slots) /\ Len(output') \in Nat /\ Len(output') > 0
      /\ First \in Nat /\ next_measurement_id' = First - Len(output')
      /\ next_measurement_id' >= -1
      /\ \A k \in 1..Len(output') : /\ output'[k] = measurements'[First - k + 2]
                                    /\ First - k + 2 \in 1..(First + 1)
    BY <1>0, ShowType
<1>2. /\ yielded + Len(output') + next_measurement_id' + 1 = n_inputs * measured'
      /\ next_measurement_id < 0 => Measure
      /\ next_measurement_id >= 0 => UNCHANGED <<measurements, measured, smi>>
    BY ReadLines
<1>3. next_measurement_id \in Int /\ next_measurement_id < n_inputs /\ First + 1 <= n_inputs
    BY <1>0 DEF KmInv, First
<1>4. ~smi /\ \A s \in 1..(First + 1) :
                 /\ measurements'[s].slot = s /\ measurements'[s].meas = measured'
                 /\ measurements'[s].valid /\ (measurements'[s].zero => call.arch)
    <2>1. CASE next_measurement_id < 0
        <3>1. First + 1 = n_inputs
            BY <1>0, <2>1 DEF First
        <3>2. ~smi
            BY <1>2, <2>1 DEF Measure
        <3> QED
            BY <1>0, <1>2, <2>1, <3>1, <3>2, MeasuredAll
    <2>2. CASE next_measurement_id >= 0
        <3>1. First = next_measurement_id
            BY <1>3, <2>2 DEF First
        <3> QED
            BY <1>0, <1>2, <2>2, <3>1 DEF ReadingsInv
    <2> QED
        BY <1>3, <2>1, <2>2
<1>5. ASSUME NEW k \in 1..Len(output')
      PROVE  IsResult(output'[k], yielded + k - 1) /\ (output'[k].zero => call.arch)
    <2> DEFINE s == First - k + 2
               y == yielded + k - 1
    <2>1. s \in 1..(First + 1) /\ output'[k] = measurements'[s]
        BY <1>1
    <2>2. /\ output'[k].slot = s /\ output'[k].meas = measured'
          /\ output'[k].valid /\ (output'[k].zero => call.arch)
        BY <1>4, <2>1
    <2>3. y \in Nat /\ s \in 1..n_inputs /\ measured' \in Nat
        <3>1. measured' \in Nat
            BY <1>0, ShowType
        <3> QED
            BY <1>0, <1>1, <1>3, <2>1, <3>1
    <2>4. n_inputs * measured' \in Nat
        <3>1. \A a, b \in Nat : a * b \in Nat
            OBVIOUS
        <3>2. n_inputs \in Nat /\ measured' \in Nat
            BY <1>0, <2>3
        <3> QED
            BY <3>1, <3>2, Zenon
    <2>5. y + s = n_inputs * measured'
        BY <1>0, <1>1, <1>2, <2>4
    <2> HIDE DEF s, y
    <2>6. s = n_inputs - (y % n_inputs) /\ measured' = (y \div n_inputs) + 1
        BY <1>0, <2>3, <2>5, ResultParts
    <2>7. IsResult(output'[k], y)
        BY <2>2, <2>6 DEF IsResult
    <2> QED
        BY <2>2, <2>7 DEF y
<1>6. \A s \in 1..(next_measurement_id' + 1) : s \in 1..(First + 1)
    BY <1>1
<1> QED
    BY <1>4, <1>5, <1>6

LEMMA ParseStep ==
    ASSUME TypeOK, KmInv, LinesInv, ReadingsInv, ParseOutput, ~smi
    PROVE  /\ Accepted = Len(output) /\ yielded' = yielded + Len(output)
           /\ yielded' <= call.n * call.reps
           /\ \A y \in 0..(yielded' - 1) : IsResult(all_readings'[Index(y)], y)
<1>0. /\ Reading /\ Busy /\ pc = "parse" /\ yielded \in Nat /\ n_inputs \in Nat /\ measured \in Nat
      /\ call.n * call.reps \in Nat
    BY CallType, BatchFits DEF Reading, Busy, ParseOutput, TypeOK, KmInv
<1>1. /\ output \in Seq(Slots) /\ Len(output) \in Nat
      /\ yielded + Len(output) + next_measurement_id + 1 = n_inputs * measured
      /\ n_inputs * measured <= call.n * call.reps
      /\ next_measurement_id \in Int /\ next_measurement_id >= -1
    BY <1>0 DEF LinesInv, KmInv
<1>2. /\ \A k \in 1..Len(output) :
            IsResult(output[k], yielded + k - 1) /\ (output[k].zero => call.arch)
      /\ Filed /\ DOMAIN all_readings = 1..(call.n * call.reps)
    BY <1>0 DEF ReadingsInv
<1>3. Accepted = Len(output)
    BY <1>1, <1>2, AcceptedLines
<1>4. yielded' = yielded + Len(output)
    BY <1>3 DEF ParseOutput
<1>5. yielded' <= call.n * call.reps
    <2>1. n_inputs * measured \in Nat
        BY <1>0
    <2> QED
        BY <1>0, <1>1, <1>4, <2>1
<1> DEFINE At(k, x) == Index(yielded + k - 1) = x
<1>6. ASSUME NEW y \in 0..(yielded' - 1)
      PROVE  IsResult(all_readings'[Index(y)], y)
    <2>0. y \in 0..(call.n * call.reps - 1)
        BY <1>0, <1>1, <1>4, <1>5
    <2>1. Index(y) \in DOMAIN all_readings
        BY <1>2, <2>0, OwnPlace
    <2>2. all_readings'[Index(y)] =
             IF \E k \in 1..Len(output) : At(k, Index(y))
             THEN output[CHOOSE k \in 1..Len(output) : At(k, Index(y))]
             ELSE all_readings[Index(y)]
        BY <1>3, <2>1 DEF ParseOutput
    <2>3. ASSUME NEW k \in 1..Len(output), At(k, Index(y)) PROVE y = yielded + k - 1
        <3>1. yielded + k - 1 \in 0..(call.n * call.reps - 1)
            BY <1>0, <1>1, <1>4, <1>5
        <3> QED
            BY <2>0, <2>3, <3>1, OneResultPerPlace
    <2>4. CASE y < yielded
        <3>1. ~\E k \in 1..Len(output) : At(k, Index(y))
            <4>1. \A k \in 1..Len(output) : y # yielded + k - 1
                BY <1>0, <1>1, <2>4
            <4> QED
                BY <2>3, <4>1
        <3>2. all_readings'[Index(y)] = all_readings[Index(y)]
            BY <2>2, <3>1, Zenon
        <3>3. y \in 0..(yielded - 1)
            BY <1>0, <2>0, <2>4
        <3> QED
            BY <1>2, <3>2, <3>3 DEF Filed
    <2>5. CASE y >= yielded
        <3> DEFINE chosen == CHOOSE k \in 1..Len(output) : At(k, Index(y))
        <3>1. \E k \in 1..Len(output) : At(k, Index(y))
            <4>1. y - yielded + 1 \in 1..Len(output) /\ yielded + (y - yielded + 1) - 1 = y
                BY <1>0, <1>1, <1>4, <2>0, <2>5
            <4> QED
                BY <4>1
        <3>2. chosen \in 1..Len(output) /\ At(chosen, Index(y))
            BY <3>1, Zenon
        <3>3. all_readings'[Index(y)] = output[chosen]
            BY <2>2, <3>1, Zenon
        <3> HIDE DEF chosen
        <3>4. y = yielded + chosen - 1
            BY <2>3, <3>2
        <3>5. IsResult(output[chosen], yielded + chosen - 1)
            BY <1>2, <3>2
        <3> QED
            BY <3>3, <3>4, <3>5
    <2> QED
        BY <1>0, <2>0, <2>4, <2>5
<1> QED
    BY <1>3, <1>4, <1>5, <1>6

LEMMA ReadingsStep ==
    TypeOK /\ KmInv /\ LinesInv /\ ReadingsInv /\ [Next]_vars => ReadingsInv'
<1> SUFFICES ASSUME TypeOK, KmInv, LinesInv, ReadingsInv, [Next]_vars PROVE ReadingsInv'
    OBVIOUS
<1> USE DEF Busy, Reading
<1>1. CASE LoadTestCase \/ Die \/ ReadFails
    BY <1>1 DEF LoadTestCase, Die, ReadFails, ReadingsInv
<1>2. CASE TraceTestCase
    <2>1. /\ pc' = "upload" /\ result' = "none" /\ call'.arch = dbg_gpr_mode'
          /\ DOMAIN all_readings' = 1..(call'.n * call'.reps)
        BY <1>2 DEF TraceTestCase
    <2> QED
        BY <2>1 DEF ReadingsInv
<1>3. CASE UploadInputs
    <2>1. /\ pc' = "read" /\ UNCHANGED <<call, yielded, all_readings, result, dbg_gpr_mode>>
          /\ next_measurement_id' = -1 /\ yielded = 0 /\ result = "none"
        BY <1>3 DEF UploadInputs, reader, KmInv, LinesInv, ReadingsInv
    <2>2. Filed'
        BY <2>1 DEF Filed
    <2> QED
        BY <1>3, <2>1, <2>2 DEF UploadInputs, ReadingsInv
<1>4. CASE UploadFails
    BY <1>4 DEF UploadFails, ReadingsInv
<1>5. CASE CheckRewound
    BY <1>5 DEF CheckRewound, km, ReadingsInv
<1>6. CASE ReadOutput
    <2>1. UNCHANGED <<call, yielded, all_readings, result, dbg_gpr_mode, n_inputs>>
        BY <1>6 DEF ReadOutput, trace_show
    <2>2. CASE pc = "rewind"
        BY <1>6, <2>1, <2>2 DEF ReadOutput, ReadingsInv
    <2>3. CASE pc = "read"
        <3>1. pc' = "parse" /\ result' = "none"
            BY <1>6, <2>1, <2>3 DEF ReadOutput, ReadingsInv
        <3>2. CASE smi'
            BY <2>1, <2>3, <3>1, <3>2 DEF ReadingsInv
        <3>3. CASE ~smi'
            <4>1. /\ ~smi
                  /\ \A s \in 1..(next_measurement_id' + 1) :
                        /\ measurements'[s].slot = s /\ measurements'[s].meas = measured'
                        /\ measurements'[s].valid /\ (measurements'[s].zero => call.arch)
                  /\ \A k \in 1..Len(output') :
                        IsResult(output'[k], yielded + k - 1) /\ (output'[k].zero => call.arch)
                BY <1>6, <2>3, <3>3, ReadStep
            <4>2. Filed
                BY <2>3, <4>1 DEF ReadingsInv
            <4>3. Filed'
                BY <2>1, <4>2 DEF Filed, IsResult, Index, input_id, rep_id
            <4>4. \A k \in 1..Len(output') :
                     IsResult(output[k], yielded + k - 1)' /\ (output'[k].zero => call'.arch)
                BY <2>1, <4>1 DEF IsResult
            <4> QED
                BY <2>1, <2>3, <3>1, <4>1, <4>3, <4>4 DEF ReadingsInv, IsResult
        <3> QED
            BY <3>2, <3>3
    <2> QED
        BY <1>6, <2>2, <2>3 DEF ReadOutput
<1>7. CASE ParseOutput
    <2>1. /\ pc = "parse" /\ UNCHANGED <<call, n_inputs, measurements, next_measurement_id,
                                         dbg_gpr_mode, measured, smi>>
          /\ DOMAIN all_readings' = DOMAIN all_readings
        BY <1>7 DEF ParseOutput, km
    <2>2. /\ DOMAIN all_readings = 1..(call.n * call.reps) /\ result = "none"
          /\ call.arch = dbg_gpr_mode
        BY <2>1 DEF ReadingsInv
    <2>3. \/ pc' \in {"rewind", "read"} /\ result' = "none"
          \/ pc' = "loaded" /\ result' = "ok"
        BY <1>7, <2>2 DEF ParseOutput
    <2>4. ASSUME ~smi PROVE Filed'
        BY <1>7, <2>1, <2>4, ParseStep DEF Filed, IsResult, Index, input_id, rep_id
    <2>5. ASSUME result' = "ok"
          PROVE  /\ yielded' = call.n * call.reps
                 /\ \E rounds \in Nat \ {0} : n_inputs = call.n * rounds
        <3>1. Accepted = Len(output) /\ rep_id(yielded') >= call.reps
            <4>1. ~(Accepted < Len(output)) /\ done /\ rep_id(yielded') >= call.reps
                BY <1>7, <2>2, <2>5 DEF ParseOutput
            <4>2. Accepted \in 0..Len(output) /\ Len(output) \in Nat
                BY <2>1, AcceptedLines DEF LinesInv
            <4> QED
                BY <4>1, <4>2
        <3>2. yielded' = yielded + Len(output) /\ yielded' <= call.n * call.reps /\ yielded' \in Nat
            <4>1. /\ Len(output) \in Nat /\ yielded \in Nat /\ n_inputs * measured \in Nat
                  /\ yielded + Len(output) + next_measurement_id + 1 = n_inputs * measured
                  /\ n_inputs * measured <= call.n * call.reps
                  /\ next_measurement_id \in Int /\ next_measurement_id >= -1
                  /\ call.n * call.reps \in Nat
                <5>1. n_inputs \in Nat /\ measured \in Nat
                    BY BatchFits DEF KmInv, TypeOK
                <5> QED
                    BY <2>1, <5>1, CallType DEF LinesInv, KmInv, TypeOK
            <4>2. yielded' = yielded + Len(output)
                BY <1>7, <3>1 DEF ParseOutput
            <4> QED
                BY <4>1, <4>2
        <3>3. yielded' >= call.n * call.reps
            <4>1. yielded' \div call.n >= call.reps
                BY <3>1 DEF rep_id
            <4> QED
                BY <3>2, <4>1, CallType, SMT
        <3>4. yielded' = call.n * call.reps
            BY <3>2, <3>3, CallType
        <3>5. \E rounds \in Nat \ {0} : n_inputs = call.n * rounds
            BY <2>1, BatchRounds
        <3> QED
            BY <3>4, <3>5
    <2> QED
        BY <2>1, <2>2, <2>3, <2>4, <2>5 DEF ReadingsInv
<1>8. CASE UNCHANGED vars
    <2>1. Filed' <=> Filed
        BY <1>8 DEF vars, km, reader, Filed, IsResult, Index, input_id, rep_id
    <2> QED
        BY <1>8, <2>1 DEF vars, km, reader, ReadingsInv, IsResult
<1> QED
    BY <1>1, <1>2, <1>3, <1>4, <1>5, <1>6, <1>7, <1>8 DEF Next, InCall

LEMMA Division ==
    ASSUME NEW y \in Nat, NEW n \in Nat \ {0}
    PROVE  y \div n \in Nat /\ y % n \in 0..(n - 1) /\ y = n * (y \div n) + (y % n)
  BY SMT

\* A result is measured for the input it is filed under.
LEMMA SlotOfInput ==
    ASSUME NEW n \in Nat \ {0}, NEW rounds \in Nat \ {0}, NEW r \in Nat, NEW i \in 0..(n - 1)
    PROVE  (n * rounds - ((n * r + (n - 1 - i)) % (n * rounds)) - 1) % n = i
<1> SUFFICES ASSUME NEW size, size = n * rounds, NEW y, y = n * r + (n - 1 - i)
             PROVE  (size - (y % size) - 1) % n = i
    OBVIOUS
<1>1. size \in Nat \ {0} /\ y \in Nat
    BY SMT
<1> DEFINE q == y \div size
           t == y % size
           u == r - rounds * q
<1>2. q \in Nat /\ t \in 0..(size - 1) /\ y = size * q + t
    BY <1>1, Division, Zenon
<1> HIDE DEF q, t
<1>3. u \in Int /\ rounds * q \in Nat
    BY <1>2
<1>4. n * u = n * r - size * q
    <2>1. n * u = n * r - n * (rounds * q)
        BY <1>2, <1>3, SMT
    <2>2. n * (rounds * q) = size * q
        BY <1>2, SMT
    <2> QED
        BY <2>1, <2>2
<1> HIDE DEF u
<1>5. t = n * u + (n - 1 - i)
    <2> DEFINE nr == n * r
               sq == size * q
               nu == n * u
    <2>1. nr \in Int /\ sq \in Int /\ nu \in Int
        BY <1>1, <1>2, <1>3
    <2>2. nu = nr - sq /\ y = sq + t /\ y = nr + (n - 1 - i) /\ t \in Int
        BY <1>1, <1>2, <1>4
    <2> HIDE DEF nr, sq, nu
    <2>3. t = nu + (n - 1 - i)
        BY <2>1, <2>2
    <2> QED
        BY <2>3 DEF nu
<1>6. u \in Nat /\ u < rounds
    <2>1. u >= 0
        BY <1>2, <1>3, <1>5, SMT
    <2>2. n * u < n * rounds
        <3>1. n * u \in Int /\ n * rounds \in Int
            BY <1>3
        <3> QED
            BY <1>1, <1>2, <1>5, <3>1
    <2>3. u < rounds
        BY <1>3, <2>2, SMT
    <2> QED
        BY <1>3, <2>1, <2>3
<1>7. size - t - 1 = n * (rounds - 1 - u) + i
    <2>1. n * (rounds - 1 - u) = n * rounds - n - n * u
        BY <1>6, SMT
    <2>2. n * rounds \in Int /\ n * u \in Int
        BY <1>6
    <2> QED
        BY <1>1, <1>2, <1>5, <2>1, <2>2
<1>8. rounds - 1 - u \in Nat
    BY <1>6
<1>9. (n * (rounds - 1 - u) + i) % n = i
    BY <1>8, Parts
<1> QED
    BY <1>7, <1>9 DEF t

LEMMA EveryPlace ==
    ASSUME TypeOK, NEW x \in 1..(call.n * call.reps)
    PROVE  \E y \in 0..(call.n * call.reps - 1) : Index(y) = x
<1> DEFINE n == call.n
           reps == call.reps
           i == (x - 1) \div reps
           r == (x - 1) % reps
<1>1. n \in Nat \ {0} /\ reps \in Nat \ {0} /\ n * reps \in Nat
    BY CallType
<1>2. x - 1 \in Nat /\ x - 1 < n * reps
    BY <1>1
<1> HIDE DEF n, reps
<1>3. /\ i \in Nat /\ r \in 0..(reps - 1) /\ x - 1 = reps * i + r
    BY <1>1, <1>2, SMT
<1>4. i < n
    BY <1>1, <1>2, SMT
<1> HIDE DEF i, r
<1>5. i \in 0..(n - 1) /\ i * reps + r + 1 = x
    <2>1. reps * i = i * reps /\ i * reps \in Nat
        BY <1>1, <1>3
    <2> QED
        BY <1>1, <1>2, <1>3, <1>4, <2>1
<1>6. /\ n * r + (n - 1 - i) \in 0..(n * reps - 1)
      /\ Index(n * r + (n - 1 - i)) = i * reps + r + 1
    BY <1>3, <1>5, PlaceOf DEF n, reps
<1> QED
    BY <1>5, <1>6 DEF n, reps

LEMMA FiledCorrectly ==
    ASSUME TypeOK, ReadingsInv, result = "ok", ~smi
    PROVE  CorrectReadings
<1>0. call.n \in Nat \ {0} /\ call.reps \in Nat \ {0} /\ call.n * call.reps \in Nat
    BY CallType
<1>1. PICK rounds \in Nat \ {0} : n_inputs = call.n * rounds
    BY DEF ReadingsInv
<1>2. /\ \A y \in 0..(call.n * call.reps - 1) : IsResult(all_readings[Index(y)], y)
      /\ DOMAIN all_readings = 1..(call.n * call.reps)
    BY DEF ReadingsInv, Filed
<1>3. n_inputs \in Nat \ {0}
    BY <1>0, <1>1, SMT
<1>4. ASSUME NEW i \in 0..(call.n - 1), NEW r \in 0..(call.reps - 1),
             NEW reading, reading = all_readings[i * call.reps + r + 1]
      PROVE  reading.meas > 0 /\ reading.valid /\ (reading.slot - 1) % call.n = i
    <2> DEFINE y == call.n * r + (call.n - 1 - i)
    <2>1. y \in 0..(call.n * call.reps - 1) /\ Index(y) = i * call.reps + r + 1
        BY PlaceOf
    <2>2. IsResult(reading, y)
        BY <1>2, <1>4, <2>1
    <2>3. r \in Nat
        BY <1>0
    <2>4. y \in Nat
        BY <1>0, <2>1
    <2>5. (n_inputs - (y % n_inputs) - 1) % call.n = i
        <3> DEFINE n == call.n
                   size == n_inputs
        <3>1. y = n * r + (n - 1 - i) /\ size = n * rounds /\ n \in Nat \ {0} /\ i \in 0..(n - 1)
              /\ y \in Nat /\ size \in Nat
            BY <1>0, <1>1, <1>3, <2>4
        <3> HIDE DEF y, n, size
        <3>2. (size - (y % size) - 1) % n = i
            BY <2>3, <3>1, SlotOfInput
        <3> QED
            BY <3>2 DEF n, size
    <2> HIDE DEF y
    <2>6. y \div n_inputs \in Nat
        BY <1>3, <2>4, SMT
    <2>7. /\ reading.valid /\ reading.meas = (y \div n_inputs) + 1
          /\ reading.slot = n_inputs - (y % n_inputs)
        BY <2>2 DEF IsResult
    <2>8. reading.meas > 0
        BY <2>6, <2>7
    <2> QED
        BY <2>5, <2>7, <2>8
<1>5. ASSUME NEW x \in DOMAIN all_readings, NEW z \in DOMAIN all_readings, x # z,
             all_readings[x].meas = all_readings[z].meas,
             all_readings[x].slot = all_readings[z].slot
      PROVE  FALSE
    <2>1. PICK y \in 0..(call.n * call.reps - 1) : Index(y) = x
        BY <1>2, EveryPlace
    <2>2. PICK w \in 0..(call.n * call.reps - 1) : Index(w) = z
        BY <1>2, EveryPlace
    <2>3. IsResult(all_readings[x], y) /\ IsResult(all_readings[z], w)
        BY <1>2, <2>1, <2>2
    <2>4. /\ (y \div n_inputs) + 1 = (w \div n_inputs) + 1
          /\ n_inputs - (y % n_inputs) = n_inputs - (w % n_inputs)
        BY <1>5, <2>3 DEF IsResult
    <2>5. y \in Nat /\ w \in Nat
        BY <1>0
    <2>6. y = w
        BY <1>3, <2>4, <2>5, SMT
    <2> QED
        BY <1>5, <2>1, <2>2, <2>6
<1> QED
    BY <1>4, <1>5 DEF CorrectReadings

-----------------------------------------------------------------------------
(* Every step is a step of the service.                                    *)

\* What the refinement mapping needs of the last result.
AnswerInv ==
    /\ Busy => result = "none"
    /\ pc = "dead" => result = "none"
    /\ result = "ok" => CorrectReadings \/ smi

LEMMA AnswerAlways == Spec => []AnswerInv
<1>1. Spec => []ReadingsInv
    BY InvAlways, ReadingsInit, ReadingsStep, PTL DEF Spec
<1>2. TypeOK /\ ReadingsInv => AnswerInv
    BY FiledCorrectly DEF ReadingsInv, AnswerInv
<1> QED
    BY <1>1, <1>2, InvAlways, PTL

LEMMA ServiceInit == Init => Service!Init
  BY DEF Init, Service!Init, Busy

LEMMA ServiceStep ==
    TypeOK /\ AnswerInv /\ AnswerInv' /\ [Next]_vars => [Service!Next]_(Service!vars)
<1> SUFFICES ASSUME TypeOK, AnswerInv, AnswerInv', [Next]_vars
             PROVE  [Service!Next]_(Service!vars)
    OBVIOUS
<1> DEFINE session == IF Busy THEN "busy" ELSE pc
           answer == IF result = "ok"
                     THEN IF CorrectReadings \/ smi THEN "traces" ELSE "wrong"
                     ELSE result
<1>0. /\ answer = IF result = "ok" THEN "traces" ELSE result
      /\ answer' = IF result' = "ok" THEN "traces" ELSE result'
    BY DEF AnswerInv
<1>a. SUFFICES \/ Service!Next
               \/ session' = session /\ answer' = answer
    BY DEF Service!vars
<1> USE DEF Service!Next, Service!LoadTestCase, Service!Call, Service!Return, Service!Die
<1> HIDE DEF answer
<1>1. CASE LoadTestCase
    BY <1>0, <1>1 DEF LoadTestCase, Busy, answer
<1>2. CASE TraceTestCase
    BY <1>0, <1>2 DEF TraceTestCase, Busy, answer
<1>3. CASE UploadInputs
    BY <1>0, <1>3 DEF UploadInputs, reader, Busy, answer
<1>4. CASE UploadFails
    BY <1>0, <1>4 DEF UploadFails, Busy, answer
<1>5. CASE ReadOutput
    BY <1>0, <1>5 DEF ReadOutput, Busy, answer
<1>6. CASE ReadFails \/ Die
    BY <1>0, <1>6 DEF ReadFails, Die, Busy, answer
<1>7. CASE ParseOutput \/ CheckRewound
    BY <1>0, <1>7 DEF ParseOutput, CheckRewound, AnswerInv, Busy, answer
<1>8. CASE UNCHANGED vars
    BY <1>0, <1>8 DEF vars, km, reader, Busy, answer
<1> QED
    BY <1>1, <1>2, <1>3, <1>4, <1>5, <1>6, <1>7, <1>8 DEF Next, InCall

\* Every call of trace_test_case behaves like one call of TraceService: it
\* returns traces of its own inputs only, or fails, and nothing else happens
\* between the calls.  This is ImplementsService without its fairness.
THEOREM TracesLikeService == Spec => Service!Init /\ [][Service!Next]_(Service!vars)
  BY ServiceInit, ServiceStep, InvAlways, AnswerAlways, PTL DEF Spec
====
