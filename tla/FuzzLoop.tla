------------------------------ MODULE FuzzLoop ------------------------------
(***************************************************************************)
(* The fuzzing loop and the state of the kernel module it shares between   *)
(* its parts: Fuzzer.start (fuzzer.py), _filter (arch/x86/fuzzer.py), the  *)
(* two executors of a session (executor.py), and the mode switches of      *)
(* main.c.                                                                 *)
(*                                                                         *)
(* The module links the code of a test case with the measurement routine   *)
(* of the mode that is set when it is loaded (load_sandbox_code), so it    *)
(* matters who loaded last, and in which mode: the filters use a fast mode *)
(* and also load a variant with fences, the check for an architectural     *)
(* mismatch records registers, and the round wants neither.  The module    *)
(* outlives the fuzzer, which can be killed anywhere.                      *)
(***************************************************************************)
EXTENDS Naturals

CONSTANTS
    Modes,          \* the values of executor_mode to consider
    NumTestCases,   \* num_test_cases
    MaxSessions,    \* bound: sessions
    Nonstop         \* option --nonstop

AllModes == {"P+P", "PP+P", "F+R", "E+R", "TSC"}
ASSUME LoopAssumption ==
    /\ Modes \subseteq AllModes /\ NumTestCases \in Nat /\ MaxSessions \in Nat
    /\ Nonstop \in BOOLEAN

VARIABLES
    \* the kernel module
    measurement_mode, quick_and_dirty_mode, dbg_gpr_mode,
    linked,        \* the test case that is loaded, and the modes it was linked with
    \* the session
    pc,
    conf,          \* executor_mode, fuzzer, and which filters are enabled
    test_case,     \* the number of the test case
    keep,          \* the result of the filter
    found,         \* STAT.violations > 0
    expired,       \* the timeout has expired
    sessions       \* history: how many there were

km == <<measurement_mode, quick_and_dirty_mode, dbg_gpr_mode, linked>>
loop_vars == <<km, pc, conf, test_case, keep, found, expired, sessions>>

FAST(mode) == CASE mode = "P+P" -> "FAST P+P" [] mode = "PP+P" -> "FAST PP+P" [] OTHER -> mode
KmModes == AllModes \cup {FAST(m) : m \in AllModes}
Nothing == [tc |-> 0, fenced |-> FALSE, mode |-> "none", gpr |-> FALSE]

FilterSteps == {"filter_load", "filter_trace", "fenced_load", "fenced_trace", "filter_off"}
DiffSteps == {"diff_load", "diff_trace", "diff_fenced_load", "diff_fenced_trace"}
PCs == {"down", "next", "filter", "round_load", "round", "arch_load", "arch", "end"}
           \cup FilterSteps \cup DiffSteps

\* Fuzzer, ArchitecturalFuzzer or ArchDiffFuzzer; only the first has filters.
Configurations ==
    [executor_mode : Modes, fuzzer : {"basic", "architectural", "archdiff"},
     speculation_filter : BOOLEAN, observation_filter : BOOLEAN]

LoopTypeOK ==
    /\ measurement_mode \in KmModes
    /\ quick_and_dirty_mode \in BOOLEAN /\ dbg_gpr_mode \in BOOLEAN
    /\ linked \in [tc : 0..NumTestCases, fenced : BOOLEAN, mode : KmModes, gpr : BOOLEAN]
                  \cup {Nothing}
    /\ pc \in PCs
    /\ conf \in Configurations
    /\ test_case \in 0..NumTestCases /\ keep \in BOOLEAN /\ found \in BOOLEAN
    /\ expired \in BOOLEAN /\ sessions \in 0..MaxSessions

\* The module was just loaded; measurement_mode is that of main.c.
LoopInit ==
    /\ measurement_mode = "P+P" /\ quick_and_dirty_mode = FALSE /\ dbg_gpr_mode = FALSE
    /\ linked = Nothing
    /\ pc = "down"
    /\ conf \in Configurations
    /\ test_case = 0 /\ keep = FALSE /\ found = FALSE
    /\ expired = FALSE /\ sessions = 0

-----------------------------------------------------------------------------
(* The sysfs files of the module.                                          *)

measurement_mode_store(mode) == measurement_mode' = mode /\ quick_and_dirty_mode' = FALSE

Slow(mode) == IF \E m \in AllModes : mode = FAST(m) THEN CHOOSE m \in AllModes : mode = FAST(m)
              ELSE mode

\* Mutant: the fast modes are left as they are when the fast mode is turned off.
enable_quick_and_dirty_mode_sticks(on) ==
    /\ quick_and_dirty_mode' = on
    /\ measurement_mode' = IF on THEN FAST(measurement_mode) ELSE measurement_mode

\* Turning on what is on, or off what is off, does nothing.
enable_quick_and_dirty_mode(on) ==
    /\ quick_and_dirty_mode' = on
    /\ measurement_mode' = IF on = quick_and_dirty_mode THEN measurement_mode
                           ELSE IF on THEN FAST(measurement_mode) ELSE Slow(measurement_mode)

\* Executor.load_test_case, of the executor or the arch executor
load_test_case(tc, fenced, arch) ==
    /\ dbg_gpr_mode' = arch
    /\ linked' = [tc |-> tc, fenced |-> fenced, mode |-> measurement_mode, gpr |-> arch]

-----------------------------------------------------------------------------
(* The session.                                                            *)

\* Fuzzer.__init__: each of the two executors configures the module.
StartSession ==
    /\ pc = "down" /\ sessions < MaxSessions
    /\ pc' = "next" /\ sessions' = sessions + 1
    /\ conf' \in Configurations
    /\ measurement_mode_store(conf'.executor_mode)
    /\ test_case' = 0 /\ found' = FALSE /\ expired' = FALSE /\ keep' = FALSE
    /\ UNCHANGED <<dbg_gpr_mode, linked>>

\* The loop of start: a test case and its inputs are generated.
NextTestCase ==
    /\ pc = "next"
    /\ IF test_case = NumTestCases THEN pc' = "down" /\ UNCHANGED test_case
       ELSE /\ test_case' = test_case + 1
            /\ pc' = CASE conf.fuzzer = "archdiff" -> "diff_load"
                       [] /\ conf.fuzzer = "basic"
                          /\ conf.speculation_filter \/ conf.observation_filter -> "filter"
                       [] OTHER -> "round_load"
    /\ UNCHANGED <<km, conf, keep, found, expired, sessions>>

\* _filter: with _quick_and_dirty_mode(self.executor)
FilterBegins ==
    /\ pc = "filter" /\ pc' = "filter_load"
    /\ enable_quick_and_dirty_mode(TRUE)
    /\ UNCHANGED <<dbg_gpr_mode, linked, conf, test_case, keep, found, expired, sessions>>

\* The test case is loaded and traced; an IOError filters it out.
FilterLoad ==
    /\ pc = "filter_load"
    /\ \/ load_test_case(test_case, FALSE, FALSE) /\ pc' = "filter_trace" /\ UNCHANGED keep
       \/ dbg_gpr_mode' = FALSE /\ linked' = Nothing /\ keep' = FALSE /\ pc' = "filter_off"
    /\ UNCHANGED <<measurement_mode, quick_and_dirty_mode, conf, test_case, found, expired,
                   sessions>>

FilterTrace ==
    /\ pc = "filter_trace"
    /\ \/ keep' = FALSE /\ pc' = "filter_off"    \* an error, or no sign of speculation
       \/ conf.observation_filter /\ pc' = "fenced_load" /\ UNCHANGED keep
       \/ ~conf.observation_filter /\ keep' = TRUE /\ pc' = "filter_off"
    /\ UNCHANGED <<km, conf, test_case, found, expired, sessions>>

\* _observation_filter
FencedLoad ==
    /\ pc = "fenced_load"
    /\ \/ load_test_case(test_case, TRUE, FALSE) /\ pc' = "fenced_trace" /\ UNCHANGED keep
       \/ dbg_gpr_mode' = FALSE /\ linked' = Nothing /\ keep' = FALSE /\ pc' = "filter_off"
    /\ UNCHANGED <<measurement_mode, quick_and_dirty_mode, conf, test_case, found, expired,
                   sessions>>

FencedTrace ==
    /\ pc = "fenced_trace" /\ pc' = "filter_off"
    /\ keep' \in BOOLEAN
    /\ UNCHANGED <<km, conf, test_case, found, expired, sessions>>

\* The end of the with statement; a test case that is filtered out ends the
\* iteration by a continue, without a look at the clock.
FilterEnds ==
    /\ pc = "filter_off"
    /\ enable_quick_and_dirty_mode(FALSE)
    /\ pc' = IF keep THEN "round_load" ELSE "next"
    /\ UNCHANGED <<dbg_gpr_mode, linked, conf, test_case, keep, found, expired, sessions>>

\* An error that is not an IOError: the with statement still turns the fast
\* mode off, and the session dies.
FilterDies ==
    /\ pc \in FilterSteps \ {"filter_off"}
    /\ enable_quick_and_dirty_mode(FALSE)
    /\ pc' = "down"
    /\ UNCHANGED <<dbg_gpr_mode, linked, conf, test_case, keep, found, expired, sessions>>

\* fuzzing_round: _RoundManager.__init__, any number of measurements, and, for
\* a violation that survives the other stages, the arch executor.  A round of
\* the ArchitecturalFuzzer has that stage only.
RoundLoad ==
    /\ pc = "round_load"
    /\ pc' = IF conf.fuzzer = "architectural" THEN "arch_load" ELSE "round"
    /\ load_test_case(test_case, FALSE, FALSE)
    /\ UNCHANGED <<measurement_mode, quick_and_dirty_mode, conf, test_case, keep, found, expired,
                   sessions>>

Round ==
    /\ pc = "round" /\ pc' \in {"end", "arch_load"}
    /\ UNCHANGED <<km, conf, test_case, keep, found, expired, sessions>>

ArchLoad ==
    /\ pc = "arch_load" /\ pc' = "arch"
    /\ load_test_case(test_case, FALSE, TRUE)
    /\ UNCHANGED <<measurement_mode, quick_and_dirty_mode, conf, test_case, keep, found, expired,
                   sessions>>

\* The violation is reported or not; the loop ends with the first one.
ArchMismatchTrace ==
    /\ pc = "arch"
    /\ \E violation \in BOOLEAN :
          /\ found' = (found \/ violation)
          /\ pc' = IF violation /\ ~Nonstop THEN "down" ELSE "end"
    /\ UNCHANGED <<km, conf, test_case, keep, expired, sessions>>

\* fuzzing_round of ArchDiffFuzzer: the registers of the test case, and those
\* of its variant with fences; an IOError ends the round.
DiffLoad ==
    /\ pc = "diff_load" /\ pc' = "diff_trace"
    /\ load_test_case(test_case, FALSE, TRUE)
    /\ UNCHANGED <<measurement_mode, quick_and_dirty_mode, conf, test_case, keep, found, expired,
                   sessions>>

DiffTrace ==
    /\ pc = "diff_trace" /\ pc' \in {"end", "diff_fenced_load"}
    /\ UNCHANGED <<km, conf, test_case, keep, found, expired, sessions>>

DiffFencedLoad ==
    /\ pc = "diff_fenced_load" /\ pc' = "diff_fenced_trace"
    /\ load_test_case(test_case, TRUE, TRUE)
    /\ UNCHANGED <<measurement_mode, quick_and_dirty_mode, conf, test_case, keep, found, expired,
                   sessions>>

DiffFencedTrace ==
    /\ pc = "diff_fenced_trace"
    /\ \E violation \in BOOLEAN :
          /\ found' = (found \/ violation)
          /\ pc' = IF violation /\ ~Nonstop THEN "down" ELSE "end"
    /\ UNCHANGED <<km, conf, test_case, keep, expired, sessions>>

\* The end of an iteration
EndIteration ==
    /\ pc = "end"
    /\ pc' = IF expired THEN "down" ELSE "next"
    /\ UNCHANGED <<km, conf, test_case, keep, found, expired, sessions>>

Expire ==
    /\ pc # "down" /\ expired' = TRUE
    /\ UNCHANGED <<km, pc, conf, test_case, keep, found, sessions>>

\* The fuzzer is killed, or dies of an error outside of the filters.
Killed ==
    /\ pc # "down" /\ pc' = "down"
    /\ UNCHANGED <<km, conf, test_case, keep, found, expired, sessions>>

LoopNext ==
    \/ StartSession \/ NextTestCase \/ FilterBegins \/ FilterLoad \/ FilterTrace
    \/ FencedLoad \/ FencedTrace \/ FilterEnds \/ FilterDies \/ RoundLoad \/ Round
    \/ ArchLoad \/ ArchMismatchTrace \/ DiffLoad \/ DiffTrace \/ DiffFencedLoad \/ DiffFencedTrace
    \/ EndIteration \/ Expire \/ Killed

LoopSpec == LoopInit /\ [][LoopNext]_loop_vars

-----------------------------------------------------------------------------
(* Properties.                                                             *)

\* Whatever filters ran before and wherever a session was killed, everything
\* is measured in the mode it is meant for: a round measures the test case it
\* is about, linked with the measurement routine of the configuration, and
\* skips nothing; the filters compare the test case with its variant with
\* fences in the same fast mode; and the check for an architectural mismatch
\* and the comparison of the ArchDiffFuzzer read registers, in the mode of the
\* configuration.
MeasuresRightCode ==
    /\ LoopTypeOK
    /\ pc = "round" =>
          /\ linked = [tc |-> test_case, fenced |-> FALSE, mode |-> conf.executor_mode, gpr |-> FALSE]
          /\ measurement_mode = conf.executor_mode /\ ~quick_and_dirty_mode /\ ~dbg_gpr_mode
    /\ pc \in {"filter_trace", "fenced_trace"} =>
          /\ linked.tc = test_case /\ linked.fenced = (pc = "fenced_trace")
          /\ linked.mode = FAST(conf.executor_mode) /\ ~linked.gpr /\ ~dbg_gpr_mode
          /\ quick_and_dirty_mode
    /\ pc \in {"arch", "diff_trace", "diff_fenced_trace"} =>
          /\ linked = [tc |-> test_case, fenced |-> pc = "diff_fenced_trace",
                       mode |-> conf.executor_mode, gpr |-> TRUE]
          /\ measurement_mode = conf.executor_mode /\ dbg_gpr_mode
=============================================================================
