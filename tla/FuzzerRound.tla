---------------------------- MODULE FuzzerRound ----------------------------
(***************************************************************************)
(* One fuzzing round: Fuzzer.fuzzing_round and _RoundManager (fuzzer.py),  *)
(* with what they use of data_generator.py, analyser.py, traces.py and     *)
(* executor.py.                                                            *)
(*                                                                         *)
(* The round measures a test case with a set of inputs and looks for       *)
(* inputs with equal contract traces and different hardware traces.  If    *)
(* there are any, it goes through stages that repeat some part of this     *)
(* more thoroughly, and reports a violation that survives all of them.     *)
(* What a stage may take over from an earlier one (the boosted inputs, the *)
(* contract traces, the samples, the list of ignored inputs) is decided by *)
(* flags that the stages set one after the other.                          *)
(*                                                                         *)
(* A hardware trace is its number of samples and whether all of them are   *)
(* 0; whether two traces differ is up to the hardware.  Contract traces    *)
(* are deterministic: the same for the same nesting and the same inputs.   *)
(***************************************************************************)
EXTENDS Integers, Sequences, FiniteSets

CONSTANTS
    NumInputs,         \* original inputs
    inputs_per_class,
    MaxNesting,        \* model_max_nesting
    CTraces,           \* the contract traces there are
    SampleSizes,       \* the values of executor_sample_sizes to consider
    IgnoreLists,       \* the values of starting_ignore_list to consider
    Errors,            \* whether measurements may fail
    AnalyserIsStable   \* whether the analyser never finds a difference in samples it
                       \* found equivalent before when the same sample is added to both

Inputs == 0..(NumInputs * inputs_per_class - 1)
Ascending(s) == \A i, j \in DOMAIN s : i < j => s[i] < s[j]

ASSUME RoundAssumption ==
    /\ NumInputs \in Nat \ {0} /\ inputs_per_class \in Nat \ {0} /\ MaxNesting \in Nat \ {0}
    /\ SampleSizes \subseteq Seq(Nat \ {0})
    /\ \A s \in SampleSizes : s # << >> /\ Ascending(s)     \* docs/ref/config.md:753
    /\ IgnoreLists \subseteq SUBSET Inputs
    /\ Errors \in BOOLEAN /\ AnalyserIsStable \in BOOLEAN

VARIABLES
    CONF,                  \* the configuration, fixed during a round
    contract,              \* the contract trace of each input that boosting with a nesting makes
    stage,                 \* the stage that is next; "idle" before a round and after it
    sample,                \* the position in executor_sample_sizes
    model_nesting, enable_fast_contract_tracing,                \* of _RoundState,
    update_ignore_list, reuse_ctraces, extend_htraces,          \* like these,
    executor_n_reps,                                            \* and this
    boosted_inputs,        \* the nesting they were made with
    ctraces,
    htraces,               \* len: samples per input; zero: all are 0; of: the inputs they are of
    violations,            \* each is the set of the inputs with one contract trace
    ignore_list,           \* of the executor
    primed,                \* history: samples per input in the last priming check
    outcome                \* history: the stage that ended the round, or "violation"

state == <<model_nesting, enable_fast_contract_tracing, update_ignore_list, reuse_ctraces,
           extend_htraces>>
traces == <<boosted_inputs, ctraces, htraces, ignore_list, executor_n_reps>>
vars == <<CONF, contract, stage, sample, state, traces, violations, primed, outcome>>

Stages == {"fast", "nesting", "taint_mistake", "priming", "noise", "priming_large",
           "arch_mismatch"}
Nestings == 1..MaxNesting
NoTraces == [of |-> {}, len |-> [i \in Inputs |-> 0], zero |-> [i \in Inputs |-> TRUE]]

TypeOK ==
    /\ CONF.sizes \in SampleSizes /\ CONF.min_nesting \in Nestings
    /\ CONF.enable_priming \in BOOLEAN /\ CONF.enable_fast_path_model \in BOOLEAN
    /\ contract \in [Nestings -> [Inputs -> CTraces]]
    /\ stage \in Stages \cup {"idle", "dead"} /\ sample \in 1..Len(CONF.sizes)
    /\ model_nesting \in Nestings /\ enable_fast_contract_tracing \in BOOLEAN
    /\ update_ignore_list \in BOOLEAN /\ reuse_ctraces \in BOOLEAN /\ extend_htraces \in BOOLEAN
    /\ executor_n_reps \in Nat \ {0}
    /\ boosted_inputs \in {0} \cup Nestings
    /\ ctraces \in [of : {0} \cup Nestings, trace : [Inputs -> CTraces]]
    /\ htraces \in [of : SUBSET Nestings, len : [Inputs -> Nat], zero : [Inputs -> BOOLEAN]]
    /\ violations \subseteq SUBSET Inputs
    /\ ignore_list \subseteq Inputs
    /\ primed \in Nat /\ outcome \in Stages \cup {"none", "violation"}

Init ==
    /\ CONF \in [sizes : SampleSizes, min_nesting : {1, MaxNesting},
                 enable_priming : BOOLEAN, enable_fast_path_model : BOOLEAN]
    /\ contract \in [Nestings -> [Inputs -> CTraces]]
    /\ stage = "idle" /\ sample = 1
    /\ model_nesting = CONF.min_nesting
    /\ enable_fast_contract_tracing = CONF.enable_fast_path_model
    /\ update_ignore_list = FALSE /\ reuse_ctraces = FALSE /\ extend_htraces = FALSE
    /\ executor_n_reps = CONF.sizes[1]
    /\ boosted_inputs = 0
    /\ ctraces = [of |-> 0, trace |-> [i \in Inputs |-> CHOOSE c \in CTraces : TRUE]]
    /\ htraces = NoTraces
    /\ violations = {} /\ ignore_list = {}
    /\ primed = 0 /\ outcome = "none"

-----------------------------------------------------------------------------
(* The parts of _normal_stage.                                             *)

\* generate_boosted: the original inputs, then one modified copy of all after
\* the other.  It starts from the same seed each time, so that the result
\* depends only on the taints, which depend on the nesting.
OriginalOf(i) == i % NumInputs

\* Faulty variant: the contract traces are taken over one stage too early.
CollectedCtracesEarly(nesting, fast) ==
    IF update_ignore_list THEN ctraces
    ELSE [of |-> nesting,
          trace |-> [i \in Inputs |-> contract[nesting][IF fast THEN OriginalOf(i) ELSE i]]]

\* _collect_ctraces
CollectedCtraces(nesting, fast) ==
    IF reuse_ctraces THEN ctraces
    ELSE [of |-> nesting,
          trace |-> [i \in Inputs |-> contract[nesting][IF fast THEN OriginalOf(i) ELSE i]]]

\* Executor.trace_test_case: an ignored input has one sample, which is 0; if all
\* inputs are ignored, nothing is measured.
Measured(reps) ==
    LET none == Inputs \subseteq ignore_list
    IN [of |-> {boosted_inputs'},
        len |-> [i \in Inputs |-> IF none THEN 0 ELSE IF i \in ignore_list THEN 1 ELSE reps],
        zero |-> [i \in Inputs |-> i \in ignore_list]]

merge(new, old) ==
    [of |-> new.of \cup old.of,
     len |-> [i \in Inputs |-> new.len[i] + old.len[i]],
     zero |-> [i \in Inputs |-> new.zero[i] /\ old.zero[i]]]

\* filter_violations: the measurements that count, and the contract classes
\* with at least two of them.
Analysed(h) == {i \in Inputs : h.len[i] > 0 /\ ~h.zero[i]}
EffectiveClasses(c, h) ==
    {class \in {{j \in Analysed(h) : c.trace[j] = c.trace[i]} : i \in Analysed(h)} :
        Cardinality(class) >= 2}

\* Which of them are violations is up to the hardware, except that a stable
\* analyser does not change its mind about inputs that are ignored.
filter_violations(c, h, v) ==
    /\ v \subseteq EffectiveClasses(c, h)
    /\ AnalyserIsStable => \A class \in v : ~(class \subseteq ignore_list)

\* Faulty variant: all but two inputs of each violation are ignored too.
_update_ignore_list_pairs(v) ==
    LET kept == UNION {{i \in class : \A j \in class : i <= j \/ \A k \in class : i >= k} :
                         class \in v}
    IN ignore_list' = IF v # {} /\ update_ignore_list
                      THEN ignore_list \cup (Inputs \ kept) ELSE ignore_list

_update_ignore_list(v) ==
    ignore_list' = IF v # {} /\ update_ignore_list
                   THEN ignore_list \cup (Inputs \ UNION v) ELSE ignore_list

\* _normal_stage; an IOError of the executor means that there is no violation
NormalStage(nesting, fast, reps) ==
    /\ boosted_inputs' = nesting
    /\ ctraces' = CollectedCtraces(nesting, fast)
    /\ executor_n_reps' = reps
    /\ \/ /\ htraces' = IF extend_htraces THEN merge(Measured(reps), htraces) ELSE Measured(reps)
          /\ \E v \in SUBSET EffectiveClasses(ctraces', htraces') :
                /\ filter_violations(ctraces', htraces', v)
                /\ violations' = v /\ _update_ignore_list(v)
       \/ /\ Errors /\ violations' = {}
          /\ UNCHANGED <<htraces, ignore_list>>

\* fuzzing_round goes on to the next stage if there still is a violation, and
\* returns None otherwise.
Continue(this, next) ==
    IF violations' = {}
    THEN stage' = "idle" /\ outcome' = this
    ELSE stage' = next /\ UNCHANGED outcome

-----------------------------------------------------------------------------
(* fuzzing_round and execute_stage.                                        *)

\* A round begins: _RoundManager.__init__ loads the test case, which resets the
\* ignore list.
StartRound ==
    /\ stage = "idle" /\ outcome = "none"
    /\ stage' = "fast" /\ ignore_list' \in IgnoreLists
    /\ UNCHANGED <<CONF, contract, sample, state, boosted_inputs, ctraces, htraces,
                   executor_n_reps, violations, primed, outcome>>

Fast ==
    /\ stage = "fast"
    /\ NormalStage(model_nesting, enable_fast_contract_tracing, executor_n_reps)
    /\ Continue("fast", "nesting")
    /\ UNCHANGED <<CONF, contract, sample, state, primed>>

Nesting ==
    /\ stage = "nesting"
    /\ IF model_nesting # MaxNesting
       THEN NormalStage(MaxNesting, enable_fast_contract_tracing, executor_n_reps)
       ELSE UNCHANGED <<traces, violations>>
    /\ model_nesting' = MaxNesting
    /\ update_ignore_list' = TRUE
    /\ Continue("nesting", "taint_mistake")
    /\ UNCHANGED <<CONF, contract, sample, enable_fast_contract_tracing, reuse_ctraces,
                   extend_htraces, primed>>

TaintMistake ==
    /\ stage = "taint_mistake"
    /\ IF enable_fast_contract_tracing
       THEN NormalStage(model_nesting, FALSE, executor_n_reps)
       ELSE UNCHANGED <<traces, violations>>
    /\ enable_fast_contract_tracing' = FALSE
    /\ reuse_ctraces' = TRUE
    /\ Continue("taint_mistake", "priming")
    /\ UNCHANGED <<CONF, contract, sample, model_nesting, update_ignore_list, extend_htraces,
                   primed>>

\* _priming_check looks at one violation only, and swaps two of its inputs (one
\* per hardware class).  It is a false positive if both swapped inputs reproduce
\* the trace of their new position; if the executor ignores one of them, which
\* looks like a tracing error, the violation is dropped as well.
PrimingCheck ==
    \E v \in violations, reproduced \in [1..2 -> BOOLEAN] :
        /\ primed' = htraces.len[CHOOSE i \in v : \A j \in v : i <= j]
        /\ violations' = IF v \cap ignore_list # {} \/ (\A swap \in 1..2 : reproduced[swap])
                         THEN {} ELSE {v}

\* An IOError is not handled and ends the session.
PrimingFails == Errors /\ stage' = "dead" /\ UNCHANGED <<violations, primed, outcome>>

Priming ==
    /\ stage = "priming"
    /\ \/ /\ ~CONF.enable_priming /\ stage' = "noise"
          /\ UNCHANGED <<violations, primed, outcome>>
       \/ /\ CONF.enable_priming /\ PrimingCheck
          /\ Continue("priming", "noise")
       \/ CONF.enable_priming /\ PrimingFails
    /\ UNCHANGED <<CONF, contract, sample, state, traces>>

\* The repetitions that are missing to the next sample size, as far as the
\* first input has them.
MissingReps(next) == CONF.sizes[next] - htraces.len[0]

\* One turn of the loop over the larger sample sizes, ...
Noise ==
    /\ stage = "noise" /\ sample < Len(CONF.sizes)
    /\ extend_htraces                    \* set before the first turn, see EnterNoise
    /\ sample' = sample + 1
    /\ NormalStage(model_nesting, enable_fast_contract_tracing, MissingReps(sample + 1))
    /\ Continue("noise", IF sample + 1 < Len(CONF.sizes) THEN "noise" ELSE "priming_large")
    /\ UNCHANGED <<CONF, contract, state, primed>>

\* ... and what precedes it.
EnterNoise ==
    /\ stage = "noise" /\ ~extend_htraces
    /\ IF Len(CONF.sizes) = 1 THEN stage' = "priming_large" /\ UNCHANGED extend_htraces
       ELSE extend_htraces' = TRUE /\ UNCHANGED stage
    /\ UNCHANGED <<CONF, contract, sample, model_nesting, enable_fast_contract_tracing,
                   update_ignore_list, reuse_ctraces, traces, violations, primed, outcome>>

\* The sample size is that of the violation, whatever executor_n_reps is.
PrimingLarge ==
    /\ stage = "priming_large"
    /\ LET skip == ~CONF.enable_priming \/ Len(CONF.sizes) = 1 IN
          \/ /\ skip /\ stage' = "arch_mismatch"
             /\ UNCHANGED <<violations, primed, outcome>>
          \/ /\ ~skip /\ PrimingCheck
             /\ Continue("priming_large", "arch_mismatch")
          \/ ~skip /\ PrimingFails
    /\ UNCHANGED <<CONF, contract, sample, state, traces>>

\* The registers differ, or they do not and the violation is reported; it is
\* reported as well if they could not be measured.
ArchMismatch ==
    /\ stage = "arch_mismatch" /\ stage' = "idle"
    /\ outcome' \in {"arch_mismatch", "violation"}
    /\ UNCHANGED <<CONF, contract, sample, state, traces, violations, primed>>

Next ==
    \/ StartRound \/ Fast \/ Nesting \/ TaintMistake \/ Priming
    \/ EnterNoise \/ Noise \/ PrimingLarge \/ ArchMismatch

Spec == Init /\ [][Next]_vars

-----------------------------------------------------------------------------
(* Properties.                                                             *)

Reported == outcome = "violation"

\* What fuzzing_round returns is a violation of the contract: its inputs have
\* the same contract trace with full nesting and without the shortcut of the
\* fast path; the contract and the hardware traces, all samples of them, belong
\* to the same boosted inputs; it was measured with the largest sample size;
\* and it passed the priming check with all of its samples.
ReportedConfirmed ==
    /\ TypeOK
    /\ Reported =>
        /\ ctraces.of = boosted_inputs /\ htraces.of = {boosted_inputs}
        /\ \A v \in violations :
              /\ \A i, j \in v : contract[MaxNesting][i] = contract[MaxNesting][j]
              /\ \A i \in v : htraces.len[i] >= CONF.sizes[Len(CONF.sizes)]
              /\ CONF.enable_priming => \A i \in v : primed = htraces.len[i]

\* The analysers compare only traces with the same number of samples ("htraces
\* have different sizes" is an assertion in analyser.py), although some inputs
\* are ignored from some stage on and others are not.
EqualSampleSizes ==
    \A class \in EffectiveClasses(ctraces, htraces) : \A i, j \in class :
        htraces.len[i] = htraces.len[j]

=============================================================================
