--------------------------- MODULE TraceProtocol ---------------------------
(***************************************************************************)
(* How measurements get from the kernel module to the fuzzer: trace_show   *)
(* (main.c) with trace_test_case and run_experiment (measurement.c) on one *)
(* side, _read_trace and Executor.trace_test_case (executor.py) on the     *)
(* other.                                                                  *)
(*                                                                         *)
(* A read of the sysfs file starts a measurement of all inputs, unless the *)
(* results of the last one were not all printed yet, and prints as many    *)
(* results as fit into a page, in descending order of the inputs; "done"   *)
(* follows the last one.  The reader has no other way to know where the    *)
(* module is: it counts lines.  To save measurements it uploads the inputs *)
(* BatchFactor times in a row and counts them as repetitions.              *)
(*                                                                         *)
(* A reading is the position of its input in the uploaded sequence and the *)
(* measurement it comes from, counted from 1 in each call; 0 is stale.     *)
(***************************************************************************)
EXTENDS Integers, Sequences

CONSTANTS
    InputCounts, RepCounts,   \* the calls the fuzzer makes
    BatchFactor,              \* 5 in executor.py
    BatchLimit,               \* 1000 in executor.py
    MinLines,                 \* results that always fit into a page
    Failures                  \* whether measurements fail, and processes die

ASSUME CountsAssumption ==
    /\ InputCounts \subseteq Nat \ {0} /\ RepCounts \subseteq Nat \ {0}
    /\ \E largest \in InputCounts : \A n \in InputCounts : n <= largest
    /\ BatchFactor \in Nat \ {0} /\ BatchLimit \in Nat /\ MinLines \in Nat \ {0}
    /\ Failures \in BOOLEAN

VARIABLES
    \* the kernel module
    n_inputs,             \* length of the uploaded sequence
    measurements,         \* sequence, indexed from 0 in the code; << >> is NULL
    old_n_inputs,
    next_measurement_id,
    unfinished_call,
    dbg_gpr_mode,
    \* the reader
    pc, call, yielded, all_readings, output, done, result,
    measured,             \* history: measurements since the call started
    smi                   \* history: one of them was corrupted

km == <<n_inputs, measurements, old_n_inputs, next_measurement_id, unfinished_call, dbg_gpr_mode>>
reader == <<call, yielded, all_readings, output, done, result>>
vars == <<km, pc, reader, measured, smi>>

None == [slot |-> 0, meas |-> 0, zero |-> TRUE, valid |-> FALSE]
\* A reading as the reader sees it.  zero: the htrace is 0.  valid: bit 63 is
\* set (or the bit is not used, in dbg_gpr_mode).
Readings(slots, meas) ==
    [slot : slots, meas : meas, zero : BOOLEAN, valid : BOOLEAN]

MaxOf(S) == CHOOSE x \in S : \A y \in S : y <= x
MaxSlots == MaxOf(InputCounts) * BatchFactor

TypeOK ==
    /\ n_inputs \in Nat /\ old_n_inputs \in Nat
    /\ next_measurement_id \in -1..(MaxSlots - 1)
    /\ \A i \in DOMAIN measurements : measurements[i] \in Readings(0..MaxSlots, Nat)
    /\ unfinished_call \in BOOLEAN /\ dbg_gpr_mode \in BOOLEAN
    /\ pc \in {"dead", "loaded", "upload", "read", "parse", "rewind", "rewind_check"}
    /\ call \in [n : InputCounts, reps : RepCounts, arch : BOOLEAN]
    /\ yielded \in Nat /\ measured \in Nat /\ smi \in BOOLEAN
    /\ done \in BOOLEAN /\ result \in {"none", "ok", "ioerror"}

Init ==
    /\ n_inputs = 0 /\ old_n_inputs = 0
    /\ measurements \in {<<r>> : r \in Readings({0}, {0})}      \* not initialised
    /\ next_measurement_id = -1
    /\ unfinished_call = FALSE /\ dbg_gpr_mode = FALSE
    /\ pc = "dead" /\ result = "none"
    /\ call \in [n : InputCounts, reps : RepCounts, arch : {FALSE}]
    /\ yielded = 0 /\ all_readings = << >> /\ output = << >> /\ done = FALSE
    /\ measured = 0 /\ smi = FALSE

-----------------------------------------------------------------------------
(* The kernel module.                                                      *)

\* alloc_measurements: the array only grows, and is zeroed when it does.
Grow == n_inputs > old_n_inputs
Allocated == IF Grow THEN [i \in 1..n_inputs |-> None] ELSE measurements

\* All inputs are measured.  The mark of a valid measurement keeps its trace
\* from being 0; in dbg_gpr_mode there is no mark, and any trace may be 0.
MeasureAll(m) ==
    \E zero \in {FALSE, dbg_gpr_mode} :
        m = [i \in DOMAIN Allocated |->
               IF i <= n_inputs
               THEN [slot |-> i, meas |-> measured + 1, zero |-> zero, valid |-> TRUE]
               ELSE Allocated[i]]

\* check_measurement_status rejects measurement bad: it stays in the array
\* without the mark, the ones after it are not made, and no error is returned.
MeasureCorrupted(m) ==
    \E bad \in 1..n_inputs, zero \in BOOLEAN :
        m = [i \in DOMAIN Allocated |->
               CASE i < bad -> [slot |-> i, meas |-> measured + 1, zero |-> FALSE, valid |-> TRUE]
                 [] i = bad -> [slot |-> i, meas |-> measured + 1, zero |-> zero, valid |-> FALSE]
                 [] OTHER -> Allocated[i]]

\* trace_test_case without an error; then trace_show prints the first page.
Measure ==
    /\ \/ MeasureAll(measurements') /\ UNCHANGED smi
       \/ ~dbg_gpr_mode /\ MeasureCorrupted(measurements') /\ smi' = TRUE
    /\ old_n_inputs' = IF Grow THEN n_inputs ELSE old_n_inputs
    /\ measured' = measured + 1

\* Faulty variant: a page that is too small for a result is printed all the same.
PrintFromPrintsNothing(first, array) ==
    \E count \in 0..(first + 1) :
        /\ output' = [k \in 1..count |-> array[first - k + 2]]
        /\ next_measurement_id' = first - count
        /\ done' = (first - count < 0)

\* The printing loop, from result first on; at least MinLines fit.
PrintFrom(first, array) ==
    \E count \in 1..(first + 1) :
        /\ count >= MinLines \/ count = first + 1
        /\ output' = [k \in 1..count |-> array[first - k + 2]]
        /\ next_measurement_id' = first - count
        /\ done' = (first - count < 0)

trace_show ==
    /\ measurements # << >>
    /\ \/ /\ next_measurement_id < 0 /\ Measure
          /\ PrintFrom(n_inputs - 1, measurements')
       \/ /\ next_measurement_id >= 0
          /\ PrintFrom(next_measurement_id, measurements)
          /\ UNCHANGED <<measurements, old_n_inputs, measured, smi>>
    /\ unfinished_call' = FALSE
    /\ UNCHANGED <<n_inputs, dbg_gpr_mode>>

\* trace_show returns -EIO: without an array, when the array cannot grow, or
\* when the measurement fails, maybe after some of the inputs.
trace_show_fails ==
    /\ \/ /\ measurements = << >>
          /\ UNCHANGED <<measurements, old_n_inputs, unfinished_call>>
       \/ /\ measurements # << >> /\ next_measurement_id < 0 /\ Failures
          /\ unfinished_call' = TRUE
          /\ \/ /\ Grow /\ measurements' = << >> /\ old_n_inputs' = n_inputs
             \/ /\ measurements' = [Allocated EXCEPT ![1] = None]
                /\ old_n_inputs' = IF Grow THEN n_inputs ELSE old_n_inputs
    /\ UNCHANGED <<n_inputs, next_measurement_id, dbg_gpr_mode, measured, smi>>

-----------------------------------------------------------------------------
(* The fuzzer's side.                                                      *)

\* The locals of a call, when it is over for good.
ForgetCall ==
    yielded' = 0 /\ all_readings' = << >> /\ output' = << >> /\ done' = FALSE

\* Executor.load_test_case, by the executor or the arch executor; in a new
\* session after the old one died.  test_case_store forgets unread results.
LoadTestCase ==
    /\ pc \in {"dead", "loaded"} /\ pc' = "loaded"
    /\ dbg_gpr_mode' \in BOOLEAN
    /\ next_measurement_id' = -1
    /\ result' = "none" /\ ForgetCall
    /\ UNCHANGED <<n_inputs, measurements, old_n_inputs, unfinished_call, call, measured, smi>>

\* trace_test_case is called; from here on, what is in the array is stale.
TraceTestCase ==
    /\ pc = "loaded" /\ pc' = "upload"
    /\ \E n \in InputCounts, reps \in RepCounts :
          call' = [n |-> n, reps |-> reps, arch |-> dbg_gpr_mode]
    /\ yielded' = 0 /\ result' = "none" /\ measured' = 0 /\ smi' = FALSE
    /\ all_readings' = [i \in 1..(call'.n * call'.reps) |-> None]
    /\ measurements' = [i \in DOMAIN measurements |-> [measurements[i] EXCEPT !.meas = 0]]
    /\ output' = << >> /\ done' = FALSE
    /\ UNCHANGED <<n_inputs, old_n_inputs, next_measurement_id, unfinished_call, dbg_gpr_mode>>

\* Faulty variant: the repetitions are not checked.
BatchedAnyReps(c) == c.n < BatchLimit

Batched(c) == c.reps % BatchFactor = 0 /\ c.n < BatchLimit

UploadInputs ==
    /\ pc = "upload" /\ pc' = "read"
    /\ n_inputs' = IF Batched(call) THEN call.n * BatchFactor ELSE call.n
    /\ UNCHANGED <<measurements, old_n_inputs, next_measurement_id, unfinished_call, dbg_gpr_mode,
                   reader, measured, smi>>

\* The upload fails, or the inputs file does not read '1'.
UploadFails ==
    /\ pc = "upload" /\ Failures
    /\ pc' = "loaded" /\ result' = "ioerror"
    /\ UNCHANGED <<km, call, yielded, all_readings, output, done, measured, smi>>

\* cat /sys/rvzr_executor/trace, in _read_trace or in _rewind_km_output_to_end
ReadOutput ==
    /\ pc \in {"read", "rewind"}
    /\ trace_show
    /\ pc' = IF pc = "read" THEN "parse" ELSE "rewind_check"
    /\ UNCHANGED <<call, yielded, all_readings, result>>

\* cat fails: CalledProcessError, which nobody handles
ReadFails ==
    /\ pc \in {"read", "rewind"}
    /\ trace_show_fails
    /\ pc' = "dead" /\ result' = "none" /\ ForgetCall
    /\ UNCHANGED call

rep_id(y) == y \div call.n
\* Faulty variant: the results are expected in ascending order.
input_id_ascending(y) == y % call.n

input_id(y) == (call.n - 1) - (y % call.n)

\* all_readings is flat here: repetition r of input i is at i * reps + r + 1.
Index(y) == input_id(y) * call.reps + rep_id(y) + 1

\* The lines before the first one with a zero trace.
Accepted ==
    LET bad == {k \in DOMAIN output : output[k].zero /\ ~call.arch}
    IN IF bad = {} THEN Len(output) ELSE (CHOOSE k \in bad : \A j \in bad : k <= j) - 1

\* One page of output in the loop of _read_trace.
ParseOutput ==
    /\ pc = "parse"
    /\ all_readings' =
          [x \in DOMAIN all_readings |->
             IF \E k \in 1..Accepted : Index(yielded + k - 1) = x
             THEN output[CHOOSE k \in 1..Accepted : Index(yielded + k - 1) = x]
             ELSE all_readings[x]]
    /\ yielded' = yielded + Accepted
    /\ IF Accepted < Len(output) THEN pc' = "rewind" /\ UNCHANGED result
       ELSE IF done /\ rep_id(yielded') >= call.reps THEN pc' = "loaded" /\ result' = "ok"
       ELSE pc' = "read" /\ UNCHANGED result
    /\ output' = << >> /\ done' = FALSE
    /\ UNCHANGED <<km, call, measured, smi>>

\* Faulty variant: one page is skipped, whether it is the last one or not.
CheckRewoundOnce ==
    /\ pc = "rewind_check"
    /\ pc' = "loaded" /\ result' = "ioerror"
    /\ output' = << >> /\ done' = FALSE
    /\ UNCHANGED <<km, call, yielded, all_readings, measured, smi>>

\* _rewind_km_output_to_end, then IOError
CheckRewound ==
    /\ pc = "rewind_check"
    /\ IF done THEN pc' = "loaded" /\ result' = "ioerror"
       ELSE pc' = "rewind" /\ UNCHANGED result
    /\ output' = << >> /\ done' = FALSE
    /\ UNCHANGED <<km, call, yielded, all_readings, measured, smi>>

\* The fuzzer is interrupted, or dies of something else.
Die ==
    /\ Failures /\ pc # "dead"
    /\ pc' = "dead" /\ result' = "none" /\ ForgetCall
    /\ UNCHANGED <<km, call, measured, smi>>

InCall == UploadInputs \/ UploadFails \/ ReadOutput \/ ReadFails \/ ParseOutput \/ CheckRewound
Next == LoadTestCase \/ TraceTestCase \/ InCall \/ Die

\* A process that is running goes on, and so does the kernel on its behalf.
Spec == Init /\ [][Next]_vars /\ WF_vars(InCall)

-----------------------------------------------------------------------------
(* Properties.                                                             *)

Busy == pc \notin {"dead", "loaded"}

\* Between two calls the module has nothing left to print, also after an error
\* in the middle of a batch and after a session that died in the middle of a
\* call; else the next call would take old results for its own.
AtBoundary == TypeOK /\ (pc = "loaded" => next_measurement_id = -1)

\* The reader's count of lines stays inside the array of readings, and a page
\* with "done" ends a repetition (the assertion at the end of _read_trace).
CountsAgree ==
    /\ yielded <= call.n * call.reps
    /\ pc = "read" /\ next_measurement_id < 0 => yielded % call.n = 0

\* Every reading was made in this call, for the input it is filed under, is
\* not marked as corrupted, and none of them is used twice.
CorrectReadings ==
    /\ \A i \in 0..(call.n - 1), r \in 0..(call.reps - 1) :
          LET reading == all_readings[i * call.reps + r + 1]
          IN reading.meas > 0 /\ reading.valid /\ (reading.slot - 1) % call.n = i
    /\ \A x, y \in DOMAIN all_readings :
          x # y => all_readings[x].meas # all_readings[y].meas
                   \/ all_readings[x].slot # all_readings[y].slot

\* A call ends, however often the batch it reads is cut into pages and
\* whatever a corrupted measurement makes it reject: the rewinding that follows
\* finds the end of a batch, even if that takes one more measurement.
CallEnds == Busy ~> ~Busy

\* Each call of trace_test_case is one call of the service the fuzzer expects,
\* as long as no SMI hits it: after a failed call, a rejected batch or the death
\* of a session no reading is lost, repeated or filed under another input.
Service == INSTANCE TraceService WITH
    session <- IF Busy THEN "busy" ELSE pc,
    answer <- IF result = "ok"
              THEN IF CorrectReadings \/ smi THEN "traces" ELSE "wrong"
              ELSE result
ImplementsService == Service!Spec

=============================================================================
