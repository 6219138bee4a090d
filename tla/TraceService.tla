--------------------------- MODULE TraceService ---------------------------
(***************************************************************************)
(* What the fuzzer relies on when it calls Executor.trace_test_case        *)
(* (executor.py): the call ends, and when it returns, it returns one       *)
(* reading per input and repetition, each measured for that input during   *)
(* this very call.  Otherwise it raises IOError, which the fuzzer handles  *)
(* by dropping the round, or the whole fuzzing session dies and a later    *)
(* one starts over with loading a test case.                               *)
(***************************************************************************)

VARIABLES
    session,     \* "dead", "loaded" (a test case is loaded) or "busy" (in a call)
    answer       \* of the last call: "none", "traces" or "ioerror"

vars == <<session, answer>>

Init == session = "dead" /\ answer = "none"

LoadTestCase ==
    /\ session \in {"dead", "loaded"}
    /\ session' = "loaded" /\ answer' = "none"

Call ==
    /\ session = "loaded"
    /\ session' = "busy" /\ answer' = "none"

Return ==
    /\ session = "busy"
    /\ session' = "loaded" /\ answer' \in {"traces", "ioerror"}

Die ==
    /\ session # "dead"
    /\ session' = "dead" /\ answer' = "none"

Next == LoadTestCase \/ Call \/ Return \/ Die

Spec == Init /\ [][Next]_vars /\ WF_vars(Return)
=============================================================================
