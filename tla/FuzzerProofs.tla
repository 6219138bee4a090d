---------------------------- MODULE FuzzerProofs ----------------------------
(***************************************************************************)
(* Proofs about the fuzzer.  For the round (FuzzerRound): for every number *)
(* of inputs, every list of sample sizes, every starting ignore list and   *)
(* whatever the hardware measures, the analysers only compare traces of    *)
(* equal size, and what a round reports has passed all of its filters.     *)
(* For the loop around it (FuzzLoop): whatever the module was left in by   *)
(* other sessions, everything is measured with the code and in the mode it *)
(* is meant for.                                                           *)
(*                                                                         *)
(* The inductive invariant of the round says which inputs and which nesting*)
(* the traces in the hands of the round are of, that inputs with the same  *)
(* contract trace are ignored together or not at all, and that an input    *)
(* that is not ignored has at least the samples of the first one, from     *)
(* which the missing repetitions are computed.  That of the loop, at the   *)
(* end of this module, says which modes are set at each point of a session.*)
(***************************************************************************)
EXTENDS FuzzerRound, FuzzLoop, TLAPS, WellFoundedInduction

HTraces == [of : SUBSET Nestings, len : [Inputs -> Nat], zero : [Inputs -> BOOLEAN]]
Late == {"priming", "noise", "priming_large", "arch_mismatch"}
Measuring == {"nesting", "taint_mistake"} \cup Late
Unmeasured == (stage = "idle" /\ outcome = "none") \/ stage = "fast"

\* Where the round is, and what that says about its flags.
Flags ==
    /\ stage \in Stages \cup {"dead"} => outcome = "none"
    /\ Unmeasured \/ stage \in {"nesting", "taint_mistake"} =>
          ~reuse_ctraces /\ ~extend_htraces /\ sample = 1 /\ executor_n_reps = CONF.sizes[1]
    /\ stage = "taint_mistake" \/ stage \in Late => model_nesting = MaxNesting
    /\ stage \in Late => ~enable_fast_contract_tracing /\ reuse_ctraces
    /\ stage = "priming" => ~extend_htraces /\ sample = 1
    /\ stage = "noise" => IF extend_htraces THEN sample < Len(CONF.sizes) ELSE sample = 1
    /\ stage \in {"priming_large", "arch_mismatch"} => sample = Len(CONF.sizes)

\* The samples of the inputs that were measured at all.
Sizes ==
    /\ Unmeasured => htraces = NoTraces
    /\ ~extend_htraces => \A i \in Inputs : ~htraces.zero[i] => htraces.len[i] = CONF.sizes[1]
    /\ extend_htraces => \A i, j \in Inputs :
          ~htraces.zero[i] /\ ~htraces.zero[j] /\ ctraces.trace[i] = ctraces.trace[j] =>
              htraces.len[i] = htraces.len[j]

\* All traces are of the inputs that were boosted last.
TracesOf(nesting, fast) ==
    /\ boosted_inputs = nesting /\ htraces.of = {nesting}
    /\ ctraces = [of |-> nesting,
                  trace |-> [i \in Inputs |-> contract[nesting][IF fast THEN OriginalOf(i) ELSE i]]]

\* A violation lies within a class, whose inputs are ignored together.
Classes ==
    /\ \A i, j \in Inputs :
          ~htraces.zero[i] /\ ~htraces.zero[j] /\ ctraces.trace[i] = ctraces.trace[j] =>
              (i \in ignore_list <=> j \in ignore_list)
    /\ \A v \in violations :
          /\ v # {} /\ \A i \in v : ~htraces.zero[i]
          /\ \A i, j \in v : ctraces.trace[i] = ctraces.trace[j]
          /\ AnalyserIsStable => v \cap ignore_list = {}

\* The samples of the inputs that are not ignored, and of the first one.
Samples ==
    /\ htraces.len[0] <= CONF.sizes[sample]
    /\ \A i \in Inputs : ~htraces.zero[i] => htraces.len[i] > 0
    /\ \A i \in Inputs \ ignore_list :
          /\ ~htraces.zero[i]
          /\ htraces.len[i] >= CONF.sizes[sample] /\ htraces.len[i] >= htraces.len[0]

Holding ==
    stage \in Measuring =>
        TracesOf(model_nesting, enable_fast_contract_tracing) /\ Classes /\ Samples

\* The priming check has seen the samples that there are.
Primed ==
    CONF.enable_priming /\ (\/ stage \in {"noise", "priming_large"} /\ Len(CONF.sizes) = 1
                            \/ stage = "arch_mismatch")
    => \A v \in violations : \A i \in v : primed = htraces.len[i]

RoundInv ==
    /\ TypeOK /\ Flags /\ Sizes /\ Holding /\ Primed
    /\ AnalyserIsStable => ReportedConfirmed

-----------------------------------------------------------------------------
(* The constants and the operators.                                        *)

LEMMA InputFacts ==
    /\ Inputs \subseteq Nat /\ 0 \in Inputs
    /\ \A i \in Inputs : OriginalOf(i) \in Inputs
    /\ MaxNesting \in Nestings /\ 1 \in Nestings
<1>1. NumInputs \in Nat \ {0} /\ inputs_per_class \in Nat \ {0} /\ MaxNesting \in Nat \ {0}
  BY RoundAssumption
<1>2. NumInputs * inputs_per_class \in Nat /\ NumInputs * inputs_per_class >= NumInputs
  BY <1>1
<1>3. \A i \in Nat : i % NumInputs \in 0..(NumInputs - 1)
  BY <1>1
<1>4. Inputs \subseteq Nat /\ 0 \in Inputs
  BY <1>1, <1>2 DEF Inputs
<1>5. \A i \in Inputs : OriginalOf(i) \in Inputs
  <2> TAKE i \in Inputs
  <2>1. i % NumInputs \in 0..(NumInputs - 1)
    BY <1>3, <1>4
  <2> QED BY <1>1, <1>2, <2>1 DEF OriginalOf, Inputs
<1> QED BY <1>1, <1>4, <1>5 DEF Nestings

LEMMA SizeFacts ==
    ASSUME NEW sizes \in SampleSizes
    PROVE  /\ Len(sizes) \in Nat /\ Len(sizes) > 0
           /\ \A k \in 1..Len(sizes) : sizes[k] \in Nat /\ sizes[k] > 0
           /\ \A k \in 1..Len(sizes) : k < Len(sizes) => sizes[k] < sizes[k + 1]
<1>1. sizes \in Seq(Nat \ {0}) /\ sizes # << >> /\ Ascending(sizes)
  BY RoundAssumption
<1>2. Len(sizes) \in Nat /\ Len(sizes) > 0 /\ DOMAIN sizes = 1..Len(sizes)
  BY <1>1
<1>3. \A k \in 1..Len(sizes) : sizes[k] \in Nat /\ sizes[k] > 0
  BY <1>1, <1>2
<1>4. ASSUME NEW k \in 1..Len(sizes), k < Len(sizes)
      PROVE  sizes[k] < sizes[k + 1]
  <2>1. k \in DOMAIN sizes /\ k + 1 \in DOMAIN sizes /\ k < k + 1
    BY <1>2, <1>4
  <2> QED BY <1>1, <2>1 DEF Ascending
<1> QED BY <1>2, <1>3, <1>4

LEMMA LeastNumber ==
    ASSUME NEW S \in SUBSET Nat, S # {}
    PROVE  \E k \in S : \A j \in S : k <= j
<1>1. PICK k \in S : \A j \in S : ~(<<j, k>> \in OpToRel(<, Nat))
  BY NatLessThanWellFounded, WFMin
<1>2. \A j \in S : <<j, k>> \in OpToRel(<, Nat) <=> j < k
  BY DEF OpToRel
<1>3. \A j \in S : ~(j < k)
  BY <1>1, <1>2, Zenon
<1> QED BY <1>3

\* An effective class has a member, and with one member all inputs that have its
\* contract trace and were measured.
LEMMA ClassFacts ==
    ASSUME NEW c, NEW h, NEW v \in EffectiveClasses(c, h)
    PROVE  /\ v # {} /\ v \subseteq Inputs
           /\ \A i \in v : h.len[i] > 0 /\ ~h.zero[i]
           /\ \A i, j \in v : c.trace[i] = c.trace[j]
           /\ \A i \in v : \A j \in Inputs :
                 h.len[j] > 0 /\ ~h.zero[j] /\ c.trace[j] = c.trace[i] => j \in v
<1>1. PICK k \in Analysed(h) : v = {j \in Analysed(h) : c.trace[j] = c.trace[k]}
  BY DEF EffectiveClasses
<1>2. k \in v /\ v \subseteq Inputs
  BY <1>1 DEF Analysed
<1>3. \A i \in v : h.len[i] > 0 /\ ~h.zero[i] /\ c.trace[i] = c.trace[k]
  BY <1>1 DEF Analysed
<1>4. ASSUME NEW i \in v, NEW j \in Inputs, h.len[j] > 0, ~h.zero[j], c.trace[j] = c.trace[i]
      PROVE  j \in v
  <2>1. j \in Analysed(h)
    BY <1>4, Zenon DEF Analysed
  <2>2. c.trace[j] = c.trace[k]
    BY <1>3, <1>4
  <2> QED BY <1>1, <2>1, <2>2
<1> QED BY <1>2, <1>3, <1>4

\* An ignored input is traced as one zero, another one reps times.
LEMMA MeasuredFacts ==
    ASSUME NEW reps \in Nat \ {0}, NEW nesting \in Nestings, boosted_inputs' = nesting
    PROVE  /\ Measured(reps) \in HTraces
           /\ Measured(reps).of = {nesting}
           /\ \A i \in Inputs : Measured(reps).zero[i] <=> i \in ignore_list
           /\ \A i \in Inputs \ ignore_list : Measured(reps).len[i] = reps
           /\ \A i \in ignore_list \cap Inputs : Measured(reps).len[i] \in {0, 1}
<1> DEFINE none == Inputs \subseteq ignore_list
           len == [i \in Inputs |-> IF none THEN 0 ELSE IF i \in ignore_list THEN 1 ELSE reps]
           zero == [i \in Inputs |-> i \in ignore_list]
<1>1. Measured(reps) = [of |-> {nesting}, len |-> len, zero |-> zero]
  BY DEF Measured
<1>2. len \in [Inputs -> Nat] /\ zero \in [Inputs -> BOOLEAN] /\ {nesting} \in SUBSET Nestings
  OBVIOUS
<1>3. \A i \in Inputs : zero[i] <=> i \in ignore_list
  OBVIOUS
<1>4. \A i \in Inputs \ ignore_list : len[i] = reps
  OBVIOUS
<1>5. \A i \in ignore_list \cap Inputs : len[i] \in {0, 1}
  OBVIOUS
<1> HIDE DEF none, len, zero
<1>6. Measured(reps).of = {nesting} /\ Measured(reps).len = len /\ Measured(reps).zero = zero
  BY <1>1
<1>7. Measured(reps) \in HTraces
  BY <1>1, <1>2 DEF HTraces
<1> QED BY <1>3, <1>4, <1>5, <1>6, <1>7

LEMMA MergeFacts ==
    ASSUME NEW new \in HTraces,
           NEW old \in HTraces
    PROVE  /\ merge(new, old) \in HTraces
           /\ merge(new, old).of = new.of \cup old.of
           /\ \A i \in Inputs : merge(new, old).len[i] = new.len[i] + old.len[i]
           /\ \A i \in Inputs : merge(new, old).zero[i] <=> new.zero[i] /\ old.zero[i]
<1> DEFINE len == [i \in Inputs |-> new.len[i] + old.len[i]]
           zero == [i \in Inputs |-> new.zero[i] /\ old.zero[i]]
<1>1. merge(new, old) = [of |-> new.of \cup old.of, len |-> len, zero |-> zero]
  BY DEF merge
<1>2. len \in [Inputs -> Nat] /\ zero \in [Inputs -> BOOLEAN] /\ new.of \cup old.of \in SUBSET Nestings
  BY DEF HTraces
<1>3. /\ \A i \in Inputs : len[i] = new.len[i] + old.len[i]
      /\ \A i \in Inputs : zero[i] <=> new.zero[i] /\ old.zero[i]
  OBVIOUS
<1> HIDE DEF len, zero
<1>4. /\ merge(new, old).of = new.of \cup old.of
      /\ merge(new, old).len = len /\ merge(new, old).zero = zero
  BY <1>1
<1>5. merge(new, old) \in HTraces
  BY <1>1, <1>2 DEF HTraces
<1> QED BY <1>3, <1>4, <1>5

-----------------------------------------------------------------------------
(* _normal_stage.                                                          *)

\* The stage measured and analysed, or it failed.
Analysis(reps) ==
    /\ htraces' = IF extend_htraces THEN merge(Measured(reps), htraces) ELSE Measured(reps)
    /\ violations' \subseteq EffectiveClasses(ctraces', htraces')
    /\ filter_violations(ctraces', htraces', violations')
    /\ _update_ignore_list(violations')

LEMMA NormalParts ==
    ASSUME NEW nesting, NEW fast, NEW reps, NormalStage(nesting, fast, reps)
    PROVE  /\ boosted_inputs' = nesting
           /\ ctraces' = CollectedCtraces(nesting, fast)
           /\ executor_n_reps' = reps
           /\ Analysis(reps) \/ (violations' = {} /\ UNCHANGED <<htraces, ignore_list>>)
<1>1. CASE \E v \in SUBSET EffectiveClasses(ctraces', htraces') :
              /\ filter_violations(ctraces', htraces', v)
              /\ violations' = v /\ _update_ignore_list(v)
  BY <1>1, Zenon DEF NormalStage, Analysis
<1> QED BY <1>1, Zenon DEF NormalStage

LEMMA CtracesType ==
    ASSUME TypeOK, NEW nesting \in Nestings, NEW fast \in BOOLEAN
    PROVE  CollectedCtraces(nesting, fast) \in [of : {0} \cup Nestings, trace : [Inputs -> CTraces]]
<1>1. \A i \in Inputs : contract[nesting][IF fast THEN OriginalOf(i) ELSE i] \in CTraces
  <2>1. contract[nesting] \in [Inputs -> CTraces]
    BY DEF TypeOK
  <2> QED BY <2>1, InputFacts
<1> QED BY <1>1 DEF CollectedCtraces, TypeOK

\* What the analysis does to the ignore list: it grows by classes.
LEMMA IgnoreFacts ==
    ASSUME TypeOK, NEW reps, Analysis(reps)
    PROVE  /\ ignore_list \subseteq ignore_list' /\ ignore_list' \subseteq Inputs
           /\ violations' \subseteq SUBSET Inputs
           /\ \A v \in violations' : v \cap ignore_list = {} => v \cap ignore_list' = {}
           /\ \A i, j \in Inputs :
                 /\ htraces'.len[i] > 0 /\ ~htraces'.zero[i] /\ htraces'.len[j] > 0
                 /\ ~htraces'.zero[j]
                 /\ ctraces'.trace[i] = ctraces'.trace[j]
                 /\ i \in ignore_list <=> j \in ignore_list
                 => (i \in ignore_list' <=> j \in ignore_list')
<1>1. /\ ignore_list' = ignore_list \/ ignore_list' = ignore_list \cup (Inputs \ UNION violations')
      /\ ignore_list \subseteq Inputs
  BY DEF Analysis, _update_ignore_list, TypeOK
<1>2. \A v \in violations' : v \subseteq Inputs
  BY ClassFacts DEF Analysis
<1>3. \A v \in violations' : v \cap ignore_list = {} => v \cap ignore_list' = {}
  BY <1>1
<1>4. ASSUME NEW i \in Inputs, NEW j \in Inputs,
             htraces'.len[j] > 0, ~htraces'.zero[j], ctraces'.trace[i] = ctraces'.trace[j],
             i \in UNION violations'
      PROVE  j \in UNION violations'
  <2>1. PICK v \in violations' : i \in v
    BY <1>4
  <2>2. v \in EffectiveClasses(ctraces', htraces')
    BY DEF Analysis
  <2>3. j \in v
    BY <1>4, <2>1, <2>2, ClassFacts
  <2> QED BY <2>3
<1>5. ASSUME NEW i \in Inputs, NEW j \in Inputs,
             htraces'.len[i] > 0, ~htraces'.zero[i], htraces'.len[j] > 0, ~htraces'.zero[j],
             ctraces'.trace[i] = ctraces'.trace[j], i \in ignore_list <=> j \in ignore_list
      PROVE  i \in ignore_list' <=> j \in ignore_list'
  <2>1. i \in UNION violations' <=> j \in UNION violations'
    BY <1>4, <1>5
  <2> QED BY <1>1, <1>5, <2>1
<1> QED BY <1>1, <1>2, <1>3, <1>5

LEMMA NormalType ==
    ASSUME TypeOK, NEW nesting \in Nestings, NEW fast \in BOOLEAN, NEW reps \in Nat \ {0},
           NormalStage(nesting, fast, reps)
    PROVE  /\ boosted_inputs' \in {0} \cup Nestings /\ executor_n_reps' \in Nat \ {0}
           /\ ctraces' \in [of : {0} \cup Nestings, trace : [Inputs -> CTraces]]
           /\ htraces' \in HTraces
           /\ violations' \subseteq SUBSET Inputs /\ ignore_list' \subseteq Inputs
<1>1. /\ boosted_inputs' = nesting
      /\ ctraces' = CollectedCtraces(nesting, fast)
      /\ executor_n_reps' = reps
      /\ Analysis(reps) \/ (violations' = {} /\ UNCHANGED <<htraces, ignore_list>>)
  BY NormalParts
<1>2. ctraces' \in [of : {0} \cup Nestings, trace : [Inputs -> CTraces]]
  BY <1>1, CtracesType
<1>3. htraces \in HTraces /\ ignore_list \subseteq Inputs
  BY DEF TypeOK, HTraces
<1>4. CASE Analysis(reps)
  <2>1. Measured(reps) \in HTraces
    BY <1>1, MeasuredFacts
  <2>2. htraces' \in HTraces
    BY <1>3, <1>4, <2>1, MergeFacts DEF Analysis
  <2> QED BY <1>1, <1>2, <1>4, <2>2, IgnoreFacts
<1>5. CASE violations' = {} /\ UNCHANGED <<htraces, ignore_list>>
  BY <1>1, <1>2, <1>3, <1>5
<1> QED BY <1>1, <1>4, <1>5

\* A stage that does not extend the traces: its measurement stands for itself.
LEMMA FreshStage ==
    ASSUME TypeOK, ~extend_htraces, ~reuse_ctraces,
           NEW nesting \in Nestings, NEW fast \in BOOLEAN, NEW reps \in Nat \ {0},
           NormalStage(nesting, fast, reps),
           \A i \in Inputs : ~htraces.zero[i] => htraces.len[i] = reps
    PROVE  /\ \A i \in Inputs : ~htraces'.zero[i] => htraces'.len[i] = reps
           /\ violations' # {} =>
                 /\ boosted_inputs' = nesting /\ htraces'.of = {nesting}
                 /\ ctraces' = [of |-> nesting,
                                trace |-> [i \in Inputs |->
                                    contract[nesting][IF fast THEN OriginalOf(i) ELSE i]]]
                 /\ Classes'
                 /\ CONF' = CONF /\ reps = CONF.sizes[sample'] => Samples'
<1>1. /\ boosted_inputs' = nesting
      /\ ctraces' = CollectedCtraces(nesting, fast)
      /\ Analysis(reps) \/ (violations' = {} /\ UNCHANGED <<htraces, ignore_list>>)
  BY NormalParts
<1>2. CASE Analysis(reps)
  <2>1. /\ htraces' \in HTraces
        /\ htraces'.of = {nesting}
        /\ \A i \in Inputs : htraces'.zero[i] <=> i \in ignore_list
        /\ \A i \in Inputs \ ignore_list : htraces'.len[i] = reps
        /\ \A i \in ignore_list \cap Inputs : htraces'.len[i] \in {0, 1}
    <3>1. htraces' = Measured(reps)
      BY <1>2 DEF Analysis
    <3> QED BY <1>1, <3>1, MeasuredFacts
  <2>2. /\ ignore_list \subseteq ignore_list' /\ ignore_list' \subseteq Inputs
        /\ violations' \subseteq SUBSET Inputs
        /\ \A v \in violations' : v \cap ignore_list = {} => v \cap ignore_list' = {}
        /\ \A i, j \in Inputs :
              /\ htraces'.len[i] > 0 /\ ~htraces'.zero[i] /\ htraces'.len[j] > 0
              /\ ~htraces'.zero[j]
              /\ ctraces'.trace[i] = ctraces'.trace[j]
              /\ i \in ignore_list <=> j \in ignore_list
              => (i \in ignore_list' <=> j \in ignore_list')
    BY <1>2, IgnoreFacts
  <2>3. \A i \in Inputs : ~htraces'.zero[i] => htraces'.len[i] = reps /\ htraces'.len[i] > 0
    BY <2>1
  <2>4. Classes'
    <3>1. ASSUME NEW i \in Inputs, NEW j \in Inputs, ~htraces'.zero[i], ~htraces'.zero[j],
                 ctraces'.trace[i] = ctraces'.trace[j]
          PROVE  i \in ignore_list' <=> j \in ignore_list'
      <4>1. htraces'.len[i] > 0 /\ htraces'.len[j] > 0 /\ i \notin ignore_list /\ j \notin ignore_list
        BY <2>1, <2>3, <3>1
      <4> QED BY <2>2, <3>1, <4>1
    <3>2. ASSUME NEW v \in violations'
          PROVE  /\ v # {} /\ \A i \in v : ~htraces'.zero[i]
                 /\ \A i, j \in v : ctraces'.trace[i] = ctraces'.trace[j]
                 /\ v \cap ignore_list' = {}
      <4>1. v \in EffectiveClasses(ctraces', htraces')
        BY <1>2 DEF Analysis
      <4>2. /\ v # {} /\ v \subseteq Inputs /\ \A i \in v : ~htraces'.zero[i]
            /\ \A i, j \in v : ctraces'.trace[i] = ctraces'.trace[j]
        BY <4>1, ClassFacts
      <4>3. v \cap ignore_list = {}
        BY <2>1, <4>2
      <4> QED BY <2>2, <4>2, <4>3
    <3> QED BY <3>1, <3>2 DEF Classes
  <2>5. ASSUME CONF' = CONF, reps = CONF.sizes[sample'] PROVE Samples'
    <3>1. htraces'.len[0] <= reps
      BY <2>1, InputFacts
    <3>2. \A i \in Inputs \ ignore_list' :
             ~htraces'.zero[i] /\ htraces'.len[i] >= reps /\ htraces'.len[i] >= htraces'.len[0]
      BY <2>1, <2>2, <3>1
    <3> QED BY <2>3, <2>5, <3>1, <3>2 DEF Samples
  <2>6. ctraces' = [of |-> nesting,
                    trace |-> [i \in Inputs |->
                        contract[nesting][IF fast THEN OriginalOf(i) ELSE i]]]
    BY <1>1 DEF CollectedCtraces
  <2> QED BY <1>1, <2>1, <2>3, <2>4, <2>5, <2>6
<1>3. CASE violations' = {} /\ UNCHANGED <<htraces, ignore_list>>
  BY <1>3
<1> QED BY <1>1, <1>2, <1>3

\* The first input has not more samples than the current sample size, so that
\* some are missing to the next one.
LEMMA MissingFacts ==
    ASSUME TypeOK, Samples, sample < Len(CONF.sizes)
    PROVE  /\ MissingReps(sample + 1) \in Nat \ {0} /\ sample + 1 \in 1..Len(CONF.sizes)
           /\ htraces.len[0] + MissingReps(sample + 1) = CONF.sizes[sample + 1]
           /\ htraces.len[0] + 1 <= CONF.sizes[sample + 1]
<1>1. CONF.sizes \in SampleSizes /\ sample \in 1..Len(CONF.sizes) /\ htraces.len[0] \in Nat
  BY InputFacts DEF TypeOK
<1>2. Len(CONF.sizes) \in Nat
  BY <1>1, SizeFacts
<1>3. sample \in Nat /\ sample + 1 \in 1..Len(CONF.sizes)
  BY <1>1, <1>2
<1>4. /\ CONF.sizes[sample] \in Nat /\ CONF.sizes[sample + 1] \in Nat
      /\ CONF.sizes[sample] < CONF.sizes[sample + 1]
  BY <1>1, <1>3, SizeFacts
<1>5. htraces.len[0] <= CONF.sizes[sample]
  BY DEF Samples
<1>6. MissingReps(sample + 1) = CONF.sizes[sample + 1] - htraces.len[0]
  BY DEF MissingReps
<1>7. \A a, b, c, m : a \in Nat /\ b \in Nat /\ c \in Nat /\ a <= b /\ b < c /\ m = c - a =>
         m \in Nat \ {0} /\ a + m = c /\ a + 1 <= c
  OBVIOUS
<1> QED BY <1>1, <1>3, <1>4, <1>5, <1>6, <1>7, SMTT(30)

\* A stage that extends the traces keeps the contract traces: inputs of the same
\* class get the same number of new samples.
LEMMA ExtendingStage ==
    ASSUME TypeOK, extend_htraces, reuse_ctraces, Sizes, Classes, Samples,
           NEW nesting \in Nestings, NEW fast \in BOOLEAN,
           htraces.of = {nesting},
           sample < Len(CONF.sizes), sample' = sample + 1, CONF' = CONF,
           NormalStage(nesting, fast, MissingReps(sample + 1))
    PROVE  /\ ctraces' = ctraces /\ boosted_inputs' = nesting
           /\ \A i, j \in Inputs :
                 ~htraces'.zero[i] /\ ~htraces'.zero[j] /\ ctraces'.trace[i] = ctraces'.trace[j] =>
                     htraces'.len[i] = htraces'.len[j]
           /\ violations' # {} => htraces'.of = {nesting} /\ Classes' /\ Samples'
<1> DEFINE reps == MissingReps(sample + 1)
<1>0. /\ reps \in Nat \ {0} /\ htraces.len[0] + reps = CONF.sizes[sample + 1]
      /\ htraces.len[0] + 1 <= CONF.sizes[sample + 1]
      /\ CONF.sizes[sample + 1] \in Nat
  <2>1. CONF.sizes \in SampleSizes
    BY DEF TypeOK
  <2> QED BY <2>1, MissingFacts, SizeFacts
<1> HIDE DEF reps
<1>1. /\ boosted_inputs' = nesting
      /\ ctraces' = ctraces
      /\ Analysis(reps) \/ (violations' = {} /\ UNCHANGED <<htraces, ignore_list>>)
  BY NormalParts DEF CollectedCtraces, reps
<1>2. CASE Analysis(reps)
  <2>1. /\ Measured(reps) \in HTraces
        /\ Measured(reps).of = {nesting}
        /\ \A i \in Inputs : Measured(reps).zero[i] <=> i \in ignore_list
        /\ \A i \in Inputs \ ignore_list : Measured(reps).len[i] = reps
        /\ \A i \in ignore_list \cap Inputs : Measured(reps).len[i] \in {0, 1}
    BY <1>0, <1>1, MeasuredFacts
  <2>2. htraces \in HTraces /\ htraces' = merge(Measured(reps), htraces)
    BY <1>2 DEF Analysis, TypeOK, HTraces
  <2>3. /\ htraces' \in HTraces
        /\ htraces'.of = {nesting}
        /\ \A i \in Inputs : htraces'.len[i] = Measured(reps).len[i] + htraces.len[i]
        /\ \A i \in Inputs : htraces'.zero[i] <=> Measured(reps).zero[i] /\ htraces.zero[i]
    <3>1. Measured(reps).of \cup htraces.of = {nesting}
      BY <2>1
    <3> QED BY <2>1, <2>2, <3>1, MergeFacts
  <2>4. \A i \in Inputs : htraces.len[i] \in Nat
    BY DEF TypeOK
  \* what was measured once is measured
  <2>5. \A i \in Inputs : htraces'.zero[i] <=> htraces.zero[i]
    BY <2>1, <2>3 DEF Samples
  <2>6. \A i \in Inputs \ ignore_list : htraces'.len[i] = reps + htraces.len[i]
    BY <2>1, <2>3
  <2>7. ASSUME NEW i \in Inputs \cap ignore_list
        PROVE  htraces'.len[i] \in Nat /\ htraces'.len[i] >= htraces.len[i]
               /\ htraces'.len[i] <= htraces.len[i] + 1
    BY <2>1, <2>3, <2>4
  \* the inputs that are ignored get the same new trace, whatever it is
  <2>8. ASSUME NEW i \in Inputs, NEW j \in Inputs, i \in ignore_list <=> j \in ignore_list
        PROVE  Measured(reps).len[i] = Measured(reps).len[j]
    BY <2>8 DEF Measured
  <2>9. ASSUME NEW i \in Inputs, NEW j \in Inputs, ~htraces'.zero[i], ~htraces'.zero[j],
               ctraces'.trace[i] = ctraces'.trace[j]
        PROVE  htraces'.len[i] = htraces'.len[j]
    <3>1. ~htraces.zero[i] /\ ~htraces.zero[j] /\ ctraces.trace[i] = ctraces.trace[j]
      BY <1>1, <2>5, <2>9
    <3>2. i \in ignore_list <=> j \in ignore_list
      BY <3>1 DEF Classes
    <3>3. htraces.len[i] = htraces.len[j]
      BY <3>1 DEF Sizes
    <3>4. Measured(reps).len[i] = Measured(reps).len[j]
      BY <2>8, <3>2
    <3> QED BY <2>3, <3>3, <3>4
  <2>10. \A i \in Inputs : ~htraces'.zero[i] => htraces'.len[i] > 0
    <3> SUFFICES ASSUME NEW i \in Inputs, ~htraces'.zero[i] PROVE htraces'.len[i] > 0
      OBVIOUS
    <3>1. htraces.len[i] > 0 /\ htraces.len[i] \in Nat
      BY <2>4, <2>5 DEF Samples
    <3> QED BY <1>0, <2>6, <2>7, <3>1
  <2>11. /\ ignore_list \subseteq ignore_list' /\ ignore_list' \subseteq Inputs
         /\ violations' \subseteq SUBSET Inputs
         /\ \A v \in violations' : v \cap ignore_list = {} => v \cap ignore_list' = {}
         /\ \A i, j \in Inputs :
              /\ htraces'.len[i] > 0 /\ ~htraces'.zero[i] /\ htraces'.len[j] > 0
              /\ ~htraces'.zero[j]
              /\ ctraces'.trace[i] = ctraces'.trace[j]
              /\ i \in ignore_list <=> j \in ignore_list
              => (i \in ignore_list' <=> j \in ignore_list')
    BY <1>2, IgnoreFacts
  <2>12. Classes'
    <3>1. ASSUME NEW i \in Inputs, NEW j \in Inputs, ~htraces'.zero[i], ~htraces'.zero[j],
                 ctraces'.trace[i] = ctraces'.trace[j]
          PROVE  i \in ignore_list' <=> j \in ignore_list'
      <4>1. ~htraces.zero[i] /\ ~htraces.zero[j] /\ ctraces.trace[i] = ctraces.trace[j]
        BY <1>1, <2>5, <3>1
      <4>2. i \in ignore_list <=> j \in ignore_list
        BY <4>1 DEF Classes
      <4> QED BY <2>10, <2>11, <3>1, <4>2
    <3>2. ASSUME NEW v \in violations'
          PROVE  /\ v # {} /\ \A i \in v : ~htraces'.zero[i]
                 /\ \A i, j \in v : ctraces'.trace[i] = ctraces'.trace[j]
                 /\ AnalyserIsStable => v \cap ignore_list' = {}
      <4>1. v \in EffectiveClasses(ctraces', htraces')
        BY <1>2 DEF Analysis
      <4>2. /\ v # {} /\ v \subseteq Inputs /\ \A i \in v : ~htraces'.zero[i]
            /\ \A i, j \in v : ctraces'.trace[i] = ctraces'.trace[j]
        BY <4>1, ClassFacts
      <4>3. ASSUME AnalyserIsStable PROVE v \cap ignore_list = {}
        <5>1. PICK k \in v : k \notin ignore_list
          BY <1>2, <4>3 DEF Analysis, filter_violations
        <5>2. ASSUME NEW i \in v PROVE i \notin ignore_list
          <6>1. ~htraces.zero[i] /\ ~htraces.zero[k] /\ ctraces.trace[i] = ctraces.trace[k]
            BY <1>1, <2>5, <4>2
          <6> QED BY <4>2, <5>1, <6>1 DEF Classes
        <5> QED BY <5>2
      <4> QED BY <2>11, <4>2, <4>3
    <3> QED BY <3>1, <3>2 DEF Classes
  <2>13. Samples'
    <3>1. CONF'.sizes[sample'] = CONF.sizes[sample + 1]
      OBVIOUS
    <3>2. htraces'.len[0] <= CONF.sizes[sample + 1] /\ htraces'.len[0] \in Nat
      BY <1>0, <2>4, <2>6, <2>7, InputFacts
    <3>3. ASSUME NEW i \in Inputs \ ignore_list'
          PROVE  /\ ~htraces'.zero[i]
                 /\ htraces'.len[i] >= CONF.sizes[sample + 1] /\ htraces'.len[i] >= htraces'.len[0]
      <4>1. i \in Inputs \ ignore_list
        BY <2>11
      <4>2. ~htraces.zero[i] /\ htraces.len[i] >= htraces.len[0]
        BY <4>1 DEF Samples
      <4>3. htraces'.len[i] = reps + htraces.len[i]
        BY <2>6, <4>1
      <4>4. htraces.len[i] \in Nat /\ htraces.len[0] \in Nat
        BY <2>4, InputFacts
      <4>5. htraces'.len[i] >= CONF.sizes[sample + 1]
        BY <1>0, <4>2, <4>3, <4>4
      <4> QED BY <1>0, <2>5, <3>2, <4>2, <4>3, <4>4, <4>5, SMTT(30)
    <3> QED BY <2>10, <3>1, <3>2, <3>3 DEF Samples
  <2> QED BY <1>1, <2>3, <2>9, <2>12, <2>13
<1>3. CASE violations' = {} /\ UNCHANGED <<htraces, ignore_list>>
  BY <1>1, <1>3 DEF Sizes
<1> QED BY <1>1, <1>2, <1>3

\* The priming check sees the samples of the violation, and keeps at most it.
LEMMA PrimingFacts ==
    ASSUME TypeOK, Sizes, Classes, PrimingCheck
    PROVE  /\ primed' \in Nat /\ violations' \subseteq violations
           /\ \A v \in violations' : \A i \in v : primed' = htraces.len[i]
<1>1. PICK v \in violations :
        /\ primed' = htraces.len[CHOOSE i \in v : \A j \in v : i <= j]
        /\ violations' \subseteq {v}
  BY DEF PrimingCheck
<1>2. v \in SUBSET Nat /\ v \subseteq Inputs /\ v # {}
  BY <1>1, InputFacts DEF TypeOK, Classes
<1> DEFINE least == CHOOSE i \in v : \A j \in v : i <= j
<1>3. least \in v
  <2>1. \E i \in v : \A j \in v : i <= j
    BY <1>2, LeastNumber
  <2> QED BY <2>1
<1> HIDE DEF least
<1>4. ASSUME NEW i \in v PROVE htraces.len[least] = htraces.len[i]
  <2>1. ~htraces.zero[i] /\ ~htraces.zero[least] /\ ctraces.trace[i] = ctraces.trace[least]
    BY <1>1, <1>3 DEF Classes
  <2> QED BY <1>2, <1>3, <2>1 DEF Sizes
<1>5. primed' = htraces.len[least]
  BY <1>1 DEF least
<1>6. htraces.len[least] \in Nat
  BY <1>2, <1>3 DEF TypeOK
<1> QED BY <1>1, <1>4, <1>5, <1>6

-----------------------------------------------------------------------------
(* The stages.                                                             *)

LEMMA InitInv == Init => RoundInv
<1> SUFFICES ASSUME Init PROVE RoundInv
  OBVIOUS
<1>1. CONF.sizes \in SampleSizes /\ CONF.min_nesting \in {1, MaxNesting}
      /\ CONF.enable_priming \in BOOLEAN /\ CONF.enable_fast_path_model \in BOOLEAN
  BY DEF Init
<1>2. /\ Len(CONF.sizes) \in Nat /\ 1 \in 1..Len(CONF.sizes) /\ CONF.sizes[1] \in Nat \ {0}
  BY <1>1, SizeFacts
<1>3. (CHOOSE c \in CTraces : TRUE) \in CTraces
  <2>1. contract[1] \in [Inputs -> CTraces]
    BY InputFacts DEF Init
  <2>2. contract[1][0] \in CTraces
    BY <2>1, InputFacts
  <2> QED BY <2>2
<1>4. ctraces \in [of : {0} \cup Nestings, trace : [Inputs -> CTraces]]
  BY <1>3 DEF Init
<1>5. htraces \in HTraces
  BY DEF Init, NoTraces, HTraces
<1>6. /\ stage = "idle" /\ outcome = "none" /\ sample = 1 /\ executor_n_reps = CONF.sizes[1]
      /\ ~reuse_ctraces /\ ~extend_htraces /\ htraces = NoTraces
  BY DEF Init
<1>7. TypeOK
  BY <1>1, <1>2, <1>4, <1>5, InputFacts DEF Init, TypeOK, HTraces
<1>8. Flags
  BY <1>6 DEF Flags, Late, Stages
<1>9. Sizes
  <2>1. \A i \in Inputs : htraces.zero[i]
    BY <1>6 DEF NoTraces
  <2> QED BY <1>6, <2>1 DEF Sizes
<1>10. Holding /\ Primed
  BY <1>6 DEF Holding, Primed, Measuring, Late
<1>11. ReportedConfirmed
  BY <1>6, <1>7 DEF ReportedConfirmed, Reported
<1> QED BY <1>7, <1>8, <1>9, <1>10, <1>11 DEF RoundInv

LEMMA StartRoundStep == RoundInv /\ StartRound => RoundInv'
<1> SUFFICES ASSUME RoundInv, StartRound PROVE RoundInv'
  OBVIOUS
<1>1. /\ stage = "idle" /\ outcome = "none" /\ stage' = "fast" /\ ignore_list' \subseteq Inputs
      /\ outcome' = "none"
      /\ UNCHANGED <<CONF, contract, sample, model_nesting, enable_fast_contract_tracing,
                     update_ignore_list, reuse_ctraces, extend_htraces, boosted_inputs, ctraces,
                     htraces, executor_n_reps, violations, primed>>
  BY RoundAssumption DEF StartRound, state
<1>2. TypeOK'
  BY <1>1 DEF RoundInv, TypeOK, Stages
<1>3. Flags'
  BY <1>1 DEF RoundInv, Flags, Unmeasured, Late
<1>4. Sizes'
  BY <1>1 DEF RoundInv, Sizes, Unmeasured
<1>5. Holding' /\ Primed'
  BY <1>1 DEF Holding, Primed, Measuring, Late
<1>6. ReportedConfirmed'
  BY <1>1, <1>2 DEF ReportedConfirmed, Reported
<1> QED BY <1>2, <1>3, <1>4, <1>5, <1>6 DEF RoundInv

LEMMA FastStep == RoundInv /\ Fast => RoundInv'
<1> SUFFICES ASSUME RoundInv, Fast PROVE RoundInv'
  OBVIOUS
<1>1. /\ stage = "fast" /\ outcome = "none" /\ ~extend_htraces /\ ~reuse_ctraces /\ sample = 1
      /\ executor_n_reps = CONF.sizes[1]
      /\ UNCHANGED <<CONF, contract, sample, model_nesting, enable_fast_contract_tracing,
                     update_ignore_list, reuse_ctraces, extend_htraces, primed>>
  BY DEF Fast, state, RoundInv, Flags, Unmeasured, Stages
<1>2. /\ NormalStage(model_nesting, enable_fast_contract_tracing, executor_n_reps)
      /\ model_nesting \in Nestings /\ enable_fast_contract_tracing \in BOOLEAN
      /\ executor_n_reps \in Nat \ {0}
      /\ TypeOK
  BY DEF Fast, RoundInv, TypeOK
<1>3. \/ violations' = {} /\ stage' = "idle" /\ outcome' = "fast"
      \/ violations' # {} /\ stage' = "nesting" /\ outcome' = "none"
  BY <1>1 DEF Fast, Continue
<1>4. \A i \in Inputs : ~htraces.zero[i] => htraces.len[i] = executor_n_reps
  BY <1>1 DEF RoundInv, Sizes
<1>5. /\ \A i \in Inputs : ~htraces'.zero[i] => htraces'.len[i] = executor_n_reps
      /\ violations' # {} =>
           /\ boosted_inputs' = model_nesting /\ htraces'.of = {model_nesting}
           /\ ctraces' = [of |-> model_nesting,
                          trace |-> [i \in Inputs |->
                              contract[model_nesting][IF enable_fast_contract_tracing
                                                      THEN OriginalOf(i) ELSE i]]]
           /\ Classes'
           /\ CONF' = CONF /\ executor_n_reps = CONF.sizes[sample'] => Samples'
  BY <1>1, <1>2, <1>4, FreshStage
<1>6. /\ boosted_inputs' \in {0} \cup Nestings /\ executor_n_reps' \in Nat \ {0}
      /\ ctraces' \in [of : {0} \cup Nestings, trace : [Inputs -> CTraces]]
      /\ htraces' \in HTraces
      /\ violations' \subseteq SUBSET Inputs /\ ignore_list' \subseteq Inputs
      /\ executor_n_reps' = executor_n_reps
  BY <1>2, NormalType, NormalParts
<1>7. TypeOK'
  BY <1>1, <1>2, <1>3, <1>6 DEF TypeOK, Stages, HTraces
<1>8. Flags'
  BY <1>1, <1>3, <1>6 DEF Flags, Unmeasured, Late, Stages
<1>9. Sizes'
  BY <1>1, <1>3, <1>5 DEF Sizes, Unmeasured
<1>10. Holding'
  <2>1. ASSUME violations' # {}
        PROVE  TracesOf(model_nesting, enable_fast_contract_tracing)' /\ Classes' /\ Samples'
    BY <1>1, <1>5, <2>1 DEF TracesOf
  <2> QED BY <1>3, <2>1 DEF Holding, Measuring, Late
<1>11. Primed'
  BY <1>3 DEF Primed
<1>12. ReportedConfirmed'
  BY <1>3, <1>7 DEF ReportedConfirmed, Reported
<1> QED BY <1>7, <1>8, <1>9, <1>10, <1>11, <1>12 DEF RoundInv

LEMMA NestingStep == RoundInv /\ Nesting => RoundInv'
<1> SUFFICES ASSUME RoundInv, Nesting PROVE RoundInv'
  OBVIOUS
<1>1. /\ stage = "nesting" /\ outcome = "none" /\ ~extend_htraces /\ ~reuse_ctraces /\ sample = 1
      /\ executor_n_reps = CONF.sizes[1] /\ model_nesting' = MaxNesting
      /\ update_ignore_list' = TRUE
      /\ UNCHANGED <<CONF, contract, sample, enable_fast_contract_tracing, reuse_ctraces,
                     extend_htraces, primed>>
  BY DEF Nesting, RoundInv, Flags, Unmeasured, Stages
<1>2. /\ enable_fast_contract_tracing \in BOOLEAN /\ executor_n_reps \in Nat \ {0} /\ TypeOK
      /\ MaxNesting \in Nestings
  BY InputFacts DEF RoundInv, TypeOK
<1>3. \/ violations' = {} /\ stage' = "idle" /\ outcome' = "nesting"
      \/ violations' # {} /\ stage' = "taint_mistake" /\ outcome' = "none"
  BY <1>1 DEF Nesting, Continue
<1>4. \A i \in Inputs : ~htraces.zero[i] => htraces.len[i] = executor_n_reps
  BY <1>1 DEF RoundInv, Sizes
\* The stage measures again, or there is nothing to add to the first one.
<1>5. /\ boosted_inputs' \in {0} \cup Nestings /\ executor_n_reps' = executor_n_reps
      /\ ctraces' \in [of : {0} \cup Nestings, trace : [Inputs -> CTraces]]
      /\ htraces' \in HTraces
      /\ violations' \subseteq SUBSET Inputs /\ ignore_list' \subseteq Inputs
      /\ \A i \in Inputs : ~htraces'.zero[i] => htraces'.len[i] = CONF.sizes[1]
      /\ violations' # {} =>
            TracesOf(model_nesting, enable_fast_contract_tracing)' /\ Classes' /\ Samples'
  <2>1. CASE model_nesting # MaxNesting
    <3>1. NormalStage(MaxNesting, enable_fast_contract_tracing, executor_n_reps)
      BY <2>1 DEF Nesting
    <3>2. /\ \A i \in Inputs : ~htraces'.zero[i] => htraces'.len[i] = executor_n_reps
          /\ violations' # {} =>
               /\ boosted_inputs' = MaxNesting /\ htraces'.of = {MaxNesting}
               /\ ctraces' = [of |-> MaxNesting,
                              trace |-> [i \in Inputs |->
                                  contract[MaxNesting][IF enable_fast_contract_tracing
                                                       THEN OriginalOf(i) ELSE i]]]
               /\ Classes'
               /\ CONF' = CONF /\ executor_n_reps = CONF.sizes[sample'] => Samples'
      BY <1>1, <1>2, <1>4, <3>1, FreshStage
    <3>3. violations' # {} =>
            TracesOf(model_nesting, enable_fast_contract_tracing)' /\ Classes' /\ Samples'
      BY <1>1, <3>2 DEF TracesOf
    <3>4. /\ boosted_inputs' \in {0} \cup Nestings
          /\ ctraces' \in [of : {0} \cup Nestings, trace : [Inputs -> CTraces]]
          /\ htraces' \in HTraces
          /\ violations' \subseteq SUBSET Inputs /\ ignore_list' \subseteq Inputs
          /\ executor_n_reps' = executor_n_reps
      BY <1>2, <3>1, NormalType, NormalParts
    <3> QED BY <1>1, <3>2, <3>3, <3>4
  <2>2. CASE model_nesting = MaxNesting
    <3>1. UNCHANGED <<boosted_inputs, ctraces, htraces, ignore_list, executor_n_reps, violations>>
      BY <2>2 DEF Nesting, traces
    <3>2. TracesOf(model_nesting, enable_fast_contract_tracing) /\ Classes /\ Samples
      BY <1>1 DEF RoundInv, Holding, Measuring
    <3>3. TracesOf(model_nesting, enable_fast_contract_tracing)' /\ Classes' /\ Samples'
      BY <1>1, <2>2, <3>1, <3>2 DEF TracesOf, Classes, Samples
    <3> QED BY <1>1, <1>2, <1>4, <3>1, <3>3 DEF TypeOK, HTraces
  <2> QED BY <2>1, <2>2
<1>7. TypeOK'
  BY <1>1, <1>2, <1>3, <1>5 DEF TypeOK, Stages, HTraces
<1>8. Flags'
  BY <1>1, <1>3, <1>5 DEF Flags, Unmeasured, Late, Stages
<1>9. Sizes'
  BY <1>1, <1>3, <1>5 DEF Sizes, Unmeasured
<1>10. Holding'
  BY <1>3, <1>5 DEF Holding, Measuring, Late
<1>11. Primed'
  BY <1>3 DEF Primed
<1>12. ReportedConfirmed'
  BY <1>3, <1>7 DEF ReportedConfirmed, Reported
<1> QED BY <1>7, <1>8, <1>9, <1>10, <1>11, <1>12 DEF RoundInv

LEMMA TaintMistakeStep == RoundInv /\ TaintMistake => RoundInv'
<1> SUFFICES ASSUME RoundInv, TaintMistake PROVE RoundInv'
  OBVIOUS
<1>1. /\ stage = "taint_mistake" /\ outcome = "none" /\ ~extend_htraces /\ ~reuse_ctraces
      /\ sample = 1 /\ executor_n_reps = CONF.sizes[1] /\ model_nesting = MaxNesting
      /\ enable_fast_contract_tracing' = FALSE /\ reuse_ctraces' = TRUE
      /\ UNCHANGED <<CONF, contract, sample, model_nesting, update_ignore_list,
                     extend_htraces, primed>>
  BY DEF TaintMistake, RoundInv, Flags, Unmeasured, Stages
<1>2. /\ enable_fast_contract_tracing \in BOOLEAN /\ executor_n_reps \in Nat \ {0} /\ TypeOK
      /\ model_nesting \in Nestings
  BY DEF RoundInv, TypeOK
<1>3. \/ violations' = {} /\ stage' = "idle" /\ outcome' = "taint_mistake"
      \/ violations' # {} /\ stage' = "priming" /\ outcome' = "none"
  BY <1>1 DEF TaintMistake, Continue
<1>4. \A i \in Inputs : ~htraces.zero[i] => htraces.len[i] = executor_n_reps
  BY <1>1 DEF RoundInv, Sizes
<1>5. /\ boosted_inputs' \in {0} \cup Nestings /\ executor_n_reps' = executor_n_reps
      /\ ctraces' \in [of : {0} \cup Nestings, trace : [Inputs -> CTraces]]
      /\ htraces' \in HTraces
      /\ violations' \subseteq SUBSET Inputs /\ ignore_list' \subseteq Inputs
      /\ \A i \in Inputs : ~htraces'.zero[i] => htraces'.len[i] = CONF.sizes[1]
      /\ violations' # {} =>
            TracesOf(model_nesting, enable_fast_contract_tracing)' /\ Classes' /\ Samples'
  <2>1. CASE enable_fast_contract_tracing
    <3>1. NormalStage(model_nesting, FALSE, executor_n_reps)
      BY <2>1 DEF TaintMistake
    <3>2. /\ \A i \in Inputs : ~htraces'.zero[i] => htraces'.len[i] = executor_n_reps
          /\ violations' # {} =>
               /\ boosted_inputs' = model_nesting /\ htraces'.of = {model_nesting}
               /\ ctraces' = [of |-> model_nesting,
                              trace |-> [i \in Inputs |->
                                  contract[model_nesting][IF FALSE THEN OriginalOf(i) ELSE i]]]
               /\ Classes'
               /\ CONF' = CONF /\ executor_n_reps = CONF.sizes[sample'] => Samples'
      BY <1>1, <1>2, <1>4, <3>1, FreshStage
    <3>3. violations' # {} =>
            TracesOf(model_nesting, enable_fast_contract_tracing)' /\ Classes' /\ Samples'
      BY <1>1, <3>2 DEF TracesOf
    <3>4. /\ boosted_inputs' \in {0} \cup Nestings
          /\ ctraces' \in [of : {0} \cup Nestings, trace : [Inputs -> CTraces]]
          /\ htraces' \in HTraces
          /\ violations' \subseteq SUBSET Inputs /\ ignore_list' \subseteq Inputs
          /\ executor_n_reps' = executor_n_reps
      BY <1>2, <3>1, NormalType, NormalParts
    <3> QED BY <1>1, <3>2, <3>3, <3>4
  <2>2. CASE ~enable_fast_contract_tracing
    <3>1. UNCHANGED <<boosted_inputs, ctraces, htraces, ignore_list, executor_n_reps, violations>>
      BY <2>2 DEF TaintMistake, traces
    <3>2. TracesOf(model_nesting, enable_fast_contract_tracing) /\ Classes /\ Samples
      BY <1>1 DEF RoundInv, Holding, Measuring
    <3>3. TracesOf(model_nesting, enable_fast_contract_tracing)' /\ Classes' /\ Samples'
      BY <1>1, <2>2, <3>1, <3>2 DEF TracesOf, Classes, Samples
    <3> QED BY <1>1, <1>2, <1>4, <3>1, <3>3 DEF TypeOK, HTraces
  <2> QED BY <1>2, <2>1, <2>2
<1>7. TypeOK'
  BY <1>1, <1>2, <1>3, <1>5 DEF TypeOK, Stages, HTraces
<1>8. Flags'
  BY <1>1, <1>3, <1>5 DEF Flags, Unmeasured, Late, Stages
<1>9. Sizes'
  BY <1>1, <1>3, <1>5 DEF Sizes, Unmeasured
<1>10. Holding'
  BY <1>3, <1>5 DEF Holding, Measuring, Late
<1>11. Primed'
  BY <1>3 DEF Primed
<1>12. ReportedConfirmed'
  BY <1>3, <1>7 DEF ReportedConfirmed, Reported
<1> QED BY <1>7, <1>8, <1>9, <1>10, <1>11, <1>12 DEF RoundInv

\* A stage that measures nothing and at most drops violations.
LEMMA Keeping ==
    ASSUME RoundInv, stage \in Measuring,
           UNCHANGED <<CONF, contract, sample, model_nesting, enable_fast_contract_tracing, traces>>,
           violations' \subseteq violations
    PROVE  /\ TracesOf(model_nesting, enable_fast_contract_tracing)' /\ Classes' /\ Samples'
           /\ UNCHANGED <<boosted_inputs, ctraces, htraces, ignore_list, executor_n_reps>>
<1>1. TracesOf(model_nesting, enable_fast_contract_tracing) /\ Classes /\ Samples
  BY DEF RoundInv, Holding
<1>2. UNCHANGED <<boosted_inputs, ctraces, htraces, ignore_list, executor_n_reps>>
  BY DEF traces
<1>3. TracesOf(model_nesting, enable_fast_contract_tracing)'
  BY <1>1, <1>2 DEF TracesOf
<1>4. Classes' /\ Samples'
  BY <1>1, <1>2 DEF Classes, Samples
<1> QED BY <1>2, <1>3, <1>4

LEMMA PrimingStep == RoundInv /\ Priming => RoundInv'
<1> SUFFICES ASSUME RoundInv, Priming PROVE RoundInv'
  OBVIOUS
<1>1. /\ stage = "priming" /\ outcome = "none" /\ ~extend_htraces /\ sample = 1
      /\ model_nesting = MaxNesting /\ ~enable_fast_contract_tracing /\ reuse_ctraces
      /\ UNCHANGED <<CONF, contract, sample, model_nesting, enable_fast_contract_tracing,
                     update_ignore_list, reuse_ctraces, extend_htraces, traces>>
  BY DEF Priming, state, RoundInv, Flags, Stages, Late
<1>2. TypeOK /\ Sizes /\ Classes
  BY <1>1 DEF RoundInv, Holding, Measuring, Late
<1>3. /\ violations' \subseteq violations /\ primed' \in Nat
      /\ \/ stage' \in {"idle", "dead"} /\ outcome' \in {"none", "priming"}
            /\ (stage' = "idle" => outcome' = "priming") /\ (stage' = "dead" => outcome' = "none")
         \/ /\ stage' = "noise" /\ outcome' = "none"
            /\ CONF.enable_priming => \A v \in violations' : \A i \in v : primed' = htraces.len[i]
  <2>1. CASE ~CONF.enable_priming /\ stage' = "noise" /\ UNCHANGED <<violations, primed, outcome>>
    BY <1>1, <1>2, <2>1 DEF TypeOK
  <2>2. CASE CONF.enable_priming /\ PrimingCheck /\ Continue("priming", "noise")
    BY <1>1, <1>2, <2>2, PrimingFacts DEF Continue
  <2>3. CASE CONF.enable_priming /\ PrimingFails
    BY <1>1, <1>2, <2>3 DEF PrimingFails, TypeOK
  <2> QED BY <1>1, <2>1, <2>2, <2>3 DEF Priming
<1>4. /\ TracesOf(model_nesting, enable_fast_contract_tracing)' /\ Classes' /\ Samples'
      /\ UNCHANGED <<boosted_inputs, ctraces, htraces, ignore_list, executor_n_reps>>
  BY <1>1, <1>3, Keeping DEF Measuring, Late
<1>7. TypeOK'
  BY <1>1, <1>2, <1>3, <1>4 DEF TypeOK, Stages
<1>8. Flags'
  BY <1>1, <1>3 DEF Flags, Unmeasured, Late, Stages
<1>9. Sizes'
  BY <1>1, <1>2, <1>3, <1>4 DEF Sizes, Unmeasured
<1>10. Holding'
  BY <1>4 DEF Holding
<1>11. Primed'
  BY <1>1, <1>3, <1>4 DEF Primed
<1>12. ReportedConfirmed'
  BY <1>3, <1>7 DEF ReportedConfirmed, Reported
<1> QED BY <1>7, <1>8, <1>9, <1>10, <1>11, <1>12 DEF RoundInv

LEMMA EnterNoiseStep == RoundInv /\ EnterNoise => RoundInv'
<1> SUFFICES ASSUME RoundInv, EnterNoise PROVE RoundInv'
  OBVIOUS
<1>1. /\ stage = "noise" /\ outcome = "none" /\ ~extend_htraces /\ sample = 1
      /\ model_nesting = MaxNesting /\ ~enable_fast_contract_tracing /\ reuse_ctraces
      /\ UNCHANGED <<CONF, contract, sample, model_nesting, enable_fast_contract_tracing,
                     update_ignore_list, reuse_ctraces, traces, violations, primed, outcome>>
  BY DEF EnterNoise, RoundInv, Flags, Stages, Late
<1>2. TypeOK /\ Sizes /\ Len(CONF.sizes) \in Nat /\ Len(CONF.sizes) > 0
  BY SizeFacts DEF RoundInv, TypeOK
<1>3. \/ Len(CONF.sizes) = 1 /\ stage' = "priming_large" /\ extend_htraces' = extend_htraces
      \/ Len(CONF.sizes) # 1 /\ stage' = "noise" /\ extend_htraces' = TRUE
  BY <1>1 DEF EnterNoise
<1>4. /\ TracesOf(model_nesting, enable_fast_contract_tracing)' /\ Classes' /\ Samples'
      /\ UNCHANGED <<boosted_inputs, ctraces, htraces, ignore_list, executor_n_reps>>
  BY <1>1, Keeping DEF Measuring, Late
<1>7. TypeOK'
  BY <1>1, <1>2, <1>3, <1>4 DEF TypeOK, Stages
<1>8. Flags'
  <2>1. Len(CONF.sizes) # 1 => sample < Len(CONF.sizes)
    <3>1. \A n \in Nat : n > 0 /\ n # 1 => 1 < n
      OBVIOUS
    <3> QED BY <1>1, <1>2, <3>1
  <2> QED BY <1>1, <1>3, <2>1 DEF Flags, Unmeasured, Late, Stages
<1>9. Sizes'
  <2>1. \A i \in Inputs : ~htraces.zero[i] => htraces.len[i] = CONF.sizes[1]
    BY <1>1, <1>2 DEF Sizes
  <2> QED BY <1>1, <1>3, <1>4, <2>1 DEF Sizes, Unmeasured
<1>10. Holding'
  BY <1>4 DEF Holding
<1>11. Primed'
  BY <1>1, <1>3, <1>4 DEF RoundInv, Primed
<1>12. ReportedConfirmed'
  BY <1>1, <1>7 DEF ReportedConfirmed, Reported
<1> QED BY <1>7, <1>8, <1>9, <1>10, <1>11, <1>12 DEF RoundInv

LEMMA NoiseStep == RoundInv /\ Noise => RoundInv'
<1> SUFFICES ASSUME RoundInv, Noise PROVE RoundInv'
  OBVIOUS
<1>1. /\ stage = "noise" /\ outcome = "none" /\ extend_htraces /\ sample < Len(CONF.sizes)
      /\ model_nesting = MaxNesting /\ ~enable_fast_contract_tracing /\ reuse_ctraces
      /\ sample' = sample + 1
      /\ UNCHANGED <<CONF, contract, model_nesting, enable_fast_contract_tracing,
                     update_ignore_list, reuse_ctraces, extend_htraces, primed>>
  BY DEF Noise, state, RoundInv, Flags, Stages, Late
<1>2. /\ TypeOK /\ Sizes /\ Classes /\ Samples
      /\ TracesOf(model_nesting, enable_fast_contract_tracing)
      /\ model_nesting \in Nestings /\ enable_fast_contract_tracing \in BOOLEAN
  BY <1>1 DEF RoundInv, Holding, Measuring, Late, TypeOK
<1>3. \/ violations' = {} /\ stage' = "idle" /\ outcome' = "noise"
      \/ /\ violations' # {} /\ outcome' = "none"
         /\ stage' = IF sample + 1 < Len(CONF.sizes) THEN "noise" ELSE "priming_large"
  BY <1>1 DEF Noise, Continue
<1>4. NormalStage(model_nesting, enable_fast_contract_tracing, MissingReps(sample + 1))
  BY DEF Noise
<1>5. MissingReps(sample + 1) \in Nat \ {0} /\ sample + 1 \in 1..Len(CONF.sizes)
  BY <1>1, <1>2, MissingFacts
<1>6. /\ ctraces' = ctraces /\ boosted_inputs' = model_nesting
      /\ \A i, j \in Inputs :
            ~htraces'.zero[i] /\ ~htraces'.zero[j] /\ ctraces'.trace[i] = ctraces'.trace[j] =>
                htraces'.len[i] = htraces'.len[j]
      /\ violations' # {} => htraces'.of = {model_nesting} /\ Classes' /\ Samples'
  BY <1>1, <1>2, <1>4, ExtendingStage DEF TracesOf
<1>7. TypeOK'
  <2>1. /\ boosted_inputs' \in {0} \cup Nestings /\ executor_n_reps' \in Nat \ {0}
        /\ ctraces' \in [of : {0} \cup Nestings, trace : [Inputs -> CTraces]]
        /\ htraces' \in HTraces
        /\ violations' \subseteq SUBSET Inputs /\ ignore_list' \subseteq Inputs
    BY <1>2, <1>4, <1>5, NormalType
  <2> QED BY <1>1, <1>2, <1>3, <1>5, <2>1 DEF TypeOK, Stages, HTraces
<1>8. Flags'
  <2>1. ~(sample + 1 < Len(CONF.sizes)) => sample + 1 = Len(CONF.sizes)
    <3>1. Len(CONF.sizes) \in Nat /\ sample \in 1..Len(CONF.sizes)
      BY <1>2, SizeFacts DEF TypeOK
    <3> QED BY <1>1, <3>1
  <2> QED BY <1>1, <1>3, <2>1 DEF Flags, Unmeasured, Late, Stages
<1>9. Sizes'
  BY <1>1, <1>3, <1>6 DEF Sizes, Unmeasured
<1>10. Holding'
  <2>1. ASSUME violations' # {}
        PROVE  TracesOf(model_nesting, enable_fast_contract_tracing)' /\ Classes' /\ Samples'
    BY <1>1, <1>2, <1>6, <2>1 DEF TracesOf
  <2> QED BY <1>3, <2>1 DEF Holding, Measuring, Late
<1>11. Primed'
  <2>1. Len(CONF.sizes) # 1
    <3>1. Len(CONF.sizes) \in Nat /\ sample \in 1..Len(CONF.sizes)
      BY <1>2, SizeFacts DEF TypeOK
    <3>2. \A n \in Nat : \A s \in 1..n : s < n => n # 1
      OBVIOUS
    <3> QED BY <1>1, <3>1, <3>2
  <2> QED BY <1>1, <1>3, <2>1 DEF Primed
<1>12. ReportedConfirmed'
  BY <1>3, <1>7 DEF ReportedConfirmed, Reported
<1> QED BY <1>7, <1>8, <1>9, <1>10, <1>11, <1>12 DEF RoundInv

LEMMA PrimingLargeStep == RoundInv /\ PrimingLarge => RoundInv'
<1> SUFFICES ASSUME RoundInv, PrimingLarge PROVE RoundInv'
  OBVIOUS
<1>1. /\ stage = "priming_large" /\ outcome = "none" /\ sample = Len(CONF.sizes)
      /\ model_nesting = MaxNesting /\ ~enable_fast_contract_tracing /\ reuse_ctraces
      /\ UNCHANGED <<CONF, contract, sample, model_nesting, enable_fast_contract_tracing,
                     update_ignore_list, reuse_ctraces, extend_htraces, traces>>
  BY DEF PrimingLarge, state, RoundInv, Flags, Stages, Late
<1>2. TypeOK /\ Sizes /\ Classes
  BY <1>1 DEF RoundInv, Holding, Measuring, Late
<1>3. /\ violations' \subseteq violations /\ primed' \in Nat
      /\ \/ stage' \in {"idle", "dead"} /\ outcome' \in {"none", "priming_large"}
            /\ (stage' = "idle" => outcome' = "priming_large")
            /\ (stage' = "dead" => outcome' = "none")
         \/ /\ stage' = "arch_mismatch" /\ outcome' = "none"
            /\ CONF.enable_priming => \A v \in violations' : \A i \in v : primed' = htraces.len[i]
  <2>1. CASE /\ ~CONF.enable_priming \/ Len(CONF.sizes) = 1
             /\ stage' = "arch_mismatch" /\ UNCHANGED <<violations, primed, outcome>>
    BY <1>1, <1>2, <2>1 DEF TypeOK, RoundInv, Primed
  <2>2. CASE /\ PrimingCheck /\ Continue("priming_large", "arch_mismatch")
    BY <1>1, <1>2, <2>2, PrimingFacts DEF Continue
  <2>3. CASE PrimingFails
    BY <1>1, <1>2, <2>3 DEF PrimingFails, TypeOK
  <2> QED BY <1>1, <2>1, <2>2, <2>3 DEF PrimingLarge
<1>4. /\ TracesOf(model_nesting, enable_fast_contract_tracing)' /\ Classes' /\ Samples'
      /\ UNCHANGED <<boosted_inputs, ctraces, htraces, ignore_list, executor_n_reps>>
  BY <1>1, <1>3, Keeping DEF Measuring, Late
<1>7. TypeOK'
  BY <1>1, <1>2, <1>3, <1>4 DEF TypeOK, Stages
<1>8. Flags'
  BY <1>1, <1>3 DEF Flags, Unmeasured, Late, Stages
<1>9. Sizes'
  BY <1>1, <1>2, <1>3, <1>4 DEF Sizes, Unmeasured
<1>10. Holding'
  BY <1>4 DEF Holding
<1>11. Primed'
  BY <1>1, <1>3, <1>4 DEF Primed
<1>12. ReportedConfirmed'
  BY <1>3, <1>7 DEF ReportedConfirmed, Reported
<1> QED BY <1>7, <1>8, <1>9, <1>10, <1>11, <1>12 DEF RoundInv

LEMMA ArchMismatchStep == RoundInv /\ ArchMismatch => RoundInv'
<1> SUFFICES ASSUME RoundInv, ArchMismatch PROVE RoundInv'
  OBVIOUS
<1>1. /\ stage = "arch_mismatch" /\ stage' = "idle" /\ sample = Len(CONF.sizes)
      /\ outcome' \in {"arch_mismatch", "violation"}
      /\ model_nesting = MaxNesting /\ ~enable_fast_contract_tracing
      /\ UNCHANGED <<CONF, contract, sample, model_nesting, enable_fast_contract_tracing,
                     update_ignore_list, reuse_ctraces, extend_htraces, traces, violations, primed>>
      /\ UNCHANGED <<boosted_inputs, ctraces, htraces, ignore_list, executor_n_reps>>
  BY DEF ArchMismatch, state, traces, RoundInv, Flags, Late
<1>2. /\ TypeOK /\ Sizes /\ Classes /\ Samples /\ Primed
      /\ TracesOf(model_nesting, enable_fast_contract_tracing)
  BY <1>1 DEF RoundInv, Holding, Measuring, Late
<1>3. TypeOK'
  BY <1>1, <1>2 DEF TypeOK, Stages
<1>4. Flags'
  BY <1>1 DEF Flags, Unmeasured, Late, Stages
<1>5. Sizes'
  BY <1>1, <1>2 DEF Sizes, Unmeasured
<1>6. Holding' /\ Primed'
  BY <1>1 DEF Holding, Primed, Measuring, Late
<1>7. ASSUME AnalyserIsStable PROVE ReportedConfirmed'
  <2>1. ctraces.of = boosted_inputs /\ htraces.of = {boosted_inputs}
    BY <1>2 DEF TracesOf
  <2>2. ASSUME NEW v \in violations
        PROVE  /\ \A i, j \in v : contract[MaxNesting][i] = contract[MaxNesting][j]
               /\ \A i \in v : htraces.len[i] >= CONF.sizes[Len(CONF.sizes)]
               /\ CONF.enable_priming => \A i \in v : primed = htraces.len[i]
    <3>1. v \subseteq Inputs \ ignore_list /\ \A i, j \in v : ctraces.trace[i] = ctraces.trace[j]
      BY <1>2, <1>7 DEF Classes, TypeOK
    <3>2. \A i \in Inputs : ctraces.trace[i] = contract[MaxNesting][i]
      BY <1>1, <1>2 DEF TracesOf
    <3>3. \A i \in v : htraces.len[i] >= CONF.sizes[Len(CONF.sizes)]
      BY <1>1, <1>2, <3>1 DEF Samples
    <3>4. CONF.enable_priming => \A i \in v : primed = htraces.len[i]
      BY <1>1, <1>2 DEF Primed
    <3> QED BY <3>1, <3>2, <3>3, <3>4
  <2> QED BY <1>1, <1>3, <2>1, <2>2 DEF ReportedConfirmed
<1> QED BY <1>3, <1>4, <1>5, <1>6, <1>7 DEF RoundInv

LEMMA RoundInvariant == Spec => []RoundInv
<1>1. RoundInv /\ UNCHANGED vars => RoundInv'
  BY DEF RoundInv, TypeOK, Flags, Sizes, Holding, Primed, ReportedConfirmed, Reported, Unmeasured,
     TracesOf, Classes, Samples, vars, state, traces
<1>2. RoundInv /\ [Next]_vars => RoundInv'
  BY <1>1, StartRoundStep, FastStep, NestingStep, TaintMistakeStep, PrimingStep, EnterNoiseStep,
     NoiseStep, PrimingLargeStep, ArchMismatchStep DEF Next
<1> QED BY <1>2, InitInv, PTL DEF Spec

-----------------------------------------------------------------------------
(* The theorems.                                                           *)

\* Whatever fuzzing_round returns was found with the contract traces of full
\* nesting and of each input itself, with all samples of the largest size, and it
\* passed the priming check with them, provided that the analyser does not change
\* its mind about inputs that are ignored; for every number of inputs, every list
\* of sample sizes and every starting ignore list.
THEOREM ReportedAlwaysConfirmed ==
    ASSUME AnalyserIsStable
    PROVE  Spec => []ReportedConfirmed
<1>1. RoundInv => ReportedConfirmed
  BY DEF RoundInv
<1> QED BY <1>1, RoundInvariant, PTL

\* The assertion of the analysers that the traces they compare have the same size
\* holds in every stage, although the executor ignores some inputs from some stage
\* on; this needs nothing of the analyser.
THEOREM AlwaysEqualSampleSizes == Spec => []EqualSampleSizes
<1>1. RoundInv => EqualSampleSizes
  <2> SUFFICES ASSUME RoundInv, NEW class \in EffectiveClasses(ctraces, htraces),
                      NEW i \in class, NEW j \in class
               PROVE  htraces.len[i] = htraces.len[j]
    BY DEF EqualSampleSizes
  <2>1. /\ i \in Inputs /\ j \in Inputs /\ ~htraces.zero[i] /\ ~htraces.zero[j]
        /\ ctraces.trace[i] = ctraces.trace[j]
    BY ClassFacts
  <2> QED BY <2>1 DEF RoundInv, Sizes
<1> QED BY <1>1, RoundInvariant, PTL

-----------------------------------------------------------------------------
(* The fuzzing loop.                                                       *)

\* Inductive, with MeasuresRightCode: the modes of the module at every point of a
\* session.  Nothing is known about them when no session is running.
ModesInv ==
    /\ pc \in FilterSteps =>
          quick_and_dirty_mode /\ measurement_mode = FAST(conf.executor_mode)
    /\ pc \notin FilterSteps /\ pc # "down" =>
          ~quick_and_dirty_mode /\ measurement_mode = conf.executor_mode

LEMMA FastModes ==
    /\ \A m \in AllModes : m \in KmModes /\ FAST(m) \in KmModes
    /\ \A m \in AllModes : Slow(FAST(m)) = m
<1>1. \A m, k \in AllModes : FAST(m) = FAST(k) => m = k
    BY DEF AllModes, FAST
<1>2. ASSUME NEW m \in AllModes PROVE Slow(FAST(m)) = m
    <2> DEFINE slow == CHOOSE k \in AllModes : FAST(m) = FAST(k)
    <2>1. slow \in AllModes /\ FAST(m) = FAST(slow)
        BY Zenon
    <2>2. Slow(FAST(m)) = slow
        BY Zenon DEF Slow
    <2> HIDE DEF slow
    <2> QED
        BY <1>1, <2>1, <2>2
<1>3. \A m \in AllModes : m \in KmModes /\ FAST(m) \in KmModes
    BY Zenon DEF KmModes
<1> QED
    BY <1>2, <1>3

\* Turning the fast mode off brings back the mode of the configuration.
LEMMA FastModeOff ==
    ASSUME LoopAssumption, LoopTypeOK, ModesInv, pc \in FilterSteps,
           enable_quick_and_dirty_mode(FALSE)
    PROVE  ~quick_and_dirty_mode' /\ measurement_mode' = conf.executor_mode
<1>1. conf.executor_mode \in AllModes
    BY DEF LoopTypeOK, Configurations, LoopAssumption
<1>2. quick_and_dirty_mode = TRUE /\ measurement_mode = FAST(conf.executor_mode)
    BY DEF ModesInv, LoopTypeOK
<1>3. ~quick_and_dirty_mode' /\ measurement_mode' = Slow(measurement_mode)
    BY <1>2 DEF enable_quick_and_dirty_mode
<1> QED
    BY <1>1, <1>2, <1>3, FastModes

LEMMA LoadedType ==
    ASSUME LoopTypeOK, pc # "down", ModesInv, NEW fenced \in BOOLEAN, NEW arch \in BOOLEAN,
           load_test_case(test_case, fenced, arch)
    PROVE  /\ linked' \in [tc : 0..NumTestCases, fenced : BOOLEAN, mode : KmModes, gpr : BOOLEAN]
           /\ linked'.tc = test_case /\ linked'.fenced = fenced
           /\ linked'.mode = measurement_mode /\ linked'.gpr = arch
           /\ dbg_gpr_mode' = arch
  BY DEF load_test_case, LoopTypeOK

LEMMA RightInit ==
    LoopAssumption /\ LoopInit => MeasuresRightCode /\ ModesInv
<1> SUFFICES ASSUME LoopAssumption, LoopInit PROVE MeasuresRightCode /\ ModesInv
    OBVIOUS
<1>1. "P+P" \in KmModes
    BY DEF KmModes, AllModes
<1>2. /\ quick_and_dirty_mode \in BOOLEAN /\ dbg_gpr_mode \in BOOLEAN /\ keep \in BOOLEAN
      /\ found \in BOOLEAN /\ expired \in BOOLEAN
    BY DEF LoopInit
<1>3. test_case \in 0..NumTestCases /\ sessions \in 0..MaxSessions
    BY DEF LoopInit, LoopAssumption
<1>4. LoopTypeOK
    BY <1>1, <1>2, <1>3 DEF LoopInit, LoopTypeOK, PCs
<1> QED
    BY <1>4 DEF LoopInit, MeasuresRightCode, ModesInv, FilterSteps

LEMMA RightStep ==
    LoopAssumption /\ MeasuresRightCode /\ ModesInv /\ [LoopNext]_loop_vars =>
        (MeasuresRightCode /\ ModesInv)'
<1> SUFFICES ASSUME LoopAssumption, MeasuresRightCode, ModesInv, [LoopNext]_loop_vars
             PROVE  (MeasuresRightCode /\ ModesInv)'
    OBVIOUS
<1>0. LoopTypeOK /\ conf.executor_mode \in AllModes /\ NumTestCases \in Nat
    BY DEF MeasuresRightCode, LoopTypeOK, Configurations, LoopAssumption
<1> USE DEF FilterSteps
<1>1. CASE StartSession
    <2>1. conf'.executor_mode \in AllModes
        BY <1>1 DEF StartSession, Configurations, LoopAssumption
    <2>2. measurement_mode' = conf'.executor_mode /\ quick_and_dirty_mode' = FALSE
        BY <1>1 DEF StartSession, measurement_mode_store
    <2>3. sessions' \in 0..MaxSessions
        BY <1>0, <1>1 DEF StartSession, LoopTypeOK, LoopAssumption
    <2>4. /\ quick_and_dirty_mode' \in BOOLEAN /\ found' \in BOOLEAN /\ expired' \in BOOLEAN
          /\ keep' \in BOOLEAN
        BY <1>1, <2>2, Zenon DEF StartSession
    <2>5. test_case' \in 0..NumTestCases
        BY <1>0, <1>1 DEF StartSession
    <2>6. LoopTypeOK'
        BY <1>0, <1>1, <2>1, <2>2, <2>3, <2>4, <2>5, FastModes
           DEF StartSession, LoopTypeOK, PCs
    <2> QED
        BY <1>1, <2>2, <2>6 DEF StartSession, MeasuresRightCode, ModesInv
<1>2. CASE NextTestCase
    <2>1. /\ pc = "next" /\ pc' \in {"down", "diff_load", "filter", "round_load"}
          /\ test_case' \in 0..NumTestCases
        BY <1>0, <1>2 DEF NextTestCase, LoopTypeOK
    <2>2. UNCHANGED <<measurement_mode, quick_and_dirty_mode, dbg_gpr_mode, linked, conf, keep,
                      found, expired, sessions>>
        BY <1>2 DEF NextTestCase, km
    <2>3. LoopTypeOK'
        BY <1>0, <2>1, <2>2 DEF LoopTypeOK, PCs, DiffSteps
    <2> QED
        BY <2>1, <2>2, <2>3 DEF MeasuresRightCode, ModesInv
<1>3. CASE FilterBegins
    <2>1. /\ quick_and_dirty_mode' = TRUE /\ measurement_mode' = FAST(conf.executor_mode)
        BY <1>3 DEF FilterBegins, enable_quick_and_dirty_mode, ModesInv
    <2>2. LoopTypeOK'
        BY <1>0, <1>3, <2>1, FastModes DEF FilterBegins, LoopTypeOK, PCs
    <2> QED
        BY <1>3, <2>1, <2>2 DEF FilterBegins, MeasuresRightCode, ModesInv
<1>4. CASE FilterLoad \/ FencedLoad
    <2>1. /\ pc \in {"filter_load", "fenced_load"}
          /\ UNCHANGED <<measurement_mode, quick_and_dirty_mode, conf, test_case, found, expired,
                         sessions>>
          /\ dbg_gpr_mode' = FALSE
        BY <1>4 DEF FilterLoad, FencedLoad, load_test_case
    <2>2. CASE linked' = Nothing /\ keep' = FALSE /\ pc' = "filter_off"
        <3>1. LoopTypeOK'
            BY <1>0, <2>1, <2>2 DEF LoopTypeOK, PCs
        <3> QED
            BY <2>1, <2>2, <3>1 DEF MeasuresRightCode, ModesInv
    <2>3. CASE /\ load_test_case(test_case, FALSE, FALSE) /\ keep' = keep
               /\ pc' = "filter_trace"
        <3>1. LoopTypeOK'
            BY <1>0, <2>1, <2>3, LoadedType DEF LoopTypeOK, PCs
        <3> QED
            BY <1>0, <2>1, <2>3, <3>1, LoadedType DEF MeasuresRightCode, ModesInv
    <2>4. CASE /\ load_test_case(test_case, TRUE, FALSE) /\ keep' = keep
               /\ pc' = "fenced_trace"
        <3>1. LoopTypeOK'
            BY <1>0, <2>1, <2>4, LoadedType DEF LoopTypeOK, PCs
        <3> QED
            BY <1>0, <2>1, <2>4, <3>1, LoadedType DEF MeasuresRightCode, ModesInv
    <2> QED
        BY <1>4, <2>2, <2>3, <2>4 DEF FilterLoad, FencedLoad
<1>5. CASE FilterTrace \/ FencedTrace
    <2>1. /\ pc \in {"filter_trace", "fenced_trace"}
          /\ pc' \in {"filter_off", "fenced_load"}
          /\ keep' \in BOOLEAN
        BY <1>0, <1>5 DEF FilterTrace, FencedTrace, LoopTypeOK
    <2>2. UNCHANGED <<measurement_mode, quick_and_dirty_mode, dbg_gpr_mode, linked, conf, test_case,
                      found, expired, sessions>>
        BY <1>5 DEF FilterTrace, FencedTrace, km
    <2>3. LoopTypeOK'
        BY <1>0, <2>1, <2>2 DEF LoopTypeOK, PCs
    <2> QED
        BY <2>1, <2>2, <2>3 DEF MeasuresRightCode, ModesInv
<1>6. CASE FilterEnds \/ FilterDies
    <2>1. /\ pc \in FilterSteps /\ pc' \in {"down", "round_load", "next"}
          /\ enable_quick_and_dirty_mode(FALSE)
          /\ UNCHANGED <<dbg_gpr_mode, linked, conf, test_case, keep, found, expired, sessions>>
        BY <1>6 DEF FilterEnds, FilterDies
    <2>2. ~quick_and_dirty_mode' /\ measurement_mode' = conf.executor_mode
        BY <1>0, <2>1, FastModeOff
    <2>3. quick_and_dirty_mode' \in BOOLEAN
        BY <2>1 DEF enable_quick_and_dirty_mode
    <2>4. LoopTypeOK'
        BY <1>0, <2>1, <2>2, <2>3, FastModes DEF LoopTypeOK, PCs
    <2> QED
        BY <2>1, <2>2, <2>4 DEF MeasuresRightCode, ModesInv
<1>7. CASE RoundLoad
    <2>1. /\ load_test_case(test_case, FALSE, FALSE) /\ pc = "round_load"
          /\ pc' \in {"arch_load", "round"}
          /\ UNCHANGED <<measurement_mode, quick_and_dirty_mode, conf, test_case, keep, found,
                         expired, sessions>>
        BY <1>7 DEF RoundLoad
    <2>2. LoopTypeOK'
        BY <1>0, <2>1, LoadedType DEF LoopTypeOK, PCs
    <2> QED
        BY <2>1, <2>2 DEF load_test_case, MeasuresRightCode, ModesInv
<1>8. CASE ArchLoad \/ DiffLoad
    <2>1. /\ load_test_case(test_case, FALSE, TRUE) /\ pc \in {"arch_load", "diff_load"}
          /\ pc' \in {"arch", "diff_trace"}
          /\ UNCHANGED <<measurement_mode, quick_and_dirty_mode, conf, test_case, keep, found,
                         expired, sessions>>
        BY <1>8 DEF ArchLoad, DiffLoad
    <2>2. LoopTypeOK'
        BY <1>0, <2>1, LoadedType DEF LoopTypeOK, PCs, DiffSteps
    <2> QED
        BY <2>1, <2>2 DEF load_test_case, MeasuresRightCode, ModesInv
<1>9. CASE DiffFencedLoad
    <2>1. /\ load_test_case(test_case, TRUE, TRUE) /\ pc = "diff_fenced_load"
          /\ pc' = "diff_fenced_trace"
          /\ UNCHANGED <<measurement_mode, quick_and_dirty_mode, conf, test_case, keep, found,
                         expired, sessions>>
        BY <1>9 DEF DiffFencedLoad
    <2>2. LoopTypeOK'
        BY <1>0, <2>1, LoadedType DEF LoopTypeOK, PCs, DiffSteps
    <2> QED
        BY <2>1, <2>2 DEF load_test_case, MeasuresRightCode, ModesInv
<1>10. CASE Round \/ DiffTrace \/ EndIteration \/ Killed
    <2>1. /\ pc \notin {"down"}
          /\ pc' \in {"end", "arch_load", "diff_fenced_load", "down", "next"}
          /\ pc' # "down" => pc \notin FilterSteps
          /\ UNCHANGED <<measurement_mode, quick_and_dirty_mode, dbg_gpr_mode, linked, conf,
                         test_case, keep, found, expired, sessions>>
        BY <1>10 DEF Round, DiffTrace, EndIteration, Killed, km
    <2>2. LoopTypeOK'
        BY <1>0, <2>1 DEF LoopTypeOK, PCs, DiffSteps
    <2> QED
        BY <2>1, <2>2 DEF MeasuresRightCode, ModesInv
<1>11. CASE ArchMismatchTrace \/ DiffFencedTrace
    <2>1. /\ pc \in {"arch", "diff_fenced_trace"} /\ pc' \in {"end", "down"}
          /\ found' \in BOOLEAN
          /\ UNCHANGED <<measurement_mode, quick_and_dirty_mode, dbg_gpr_mode, linked, conf,
                         test_case, keep, expired, sessions>>
        BY <1>0, <1>11, Zenon DEF ArchMismatchTrace, DiffFencedTrace, km, LoopTypeOK
    <2>2. LoopTypeOK'
        BY <1>0, <2>1 DEF LoopTypeOK, PCs
    <2> QED
        BY <2>1, <2>2 DEF MeasuresRightCode, ModesInv
<1>12. CASE Expire
    <2>1. LoopTypeOK'
        BY <1>0, <1>12 DEF Expire, km, LoopTypeOK
    <2> QED
        BY <1>12, <2>1 DEF Expire, km, MeasuresRightCode, ModesInv
<1>13. CASE UNCHANGED loop_vars
    <2>1. LoopTypeOK'
        BY <1>0, <1>13 DEF loop_vars, km, LoopTypeOK
    <2> QED
        BY <1>13, <2>1 DEF loop_vars, km, MeasuresRightCode, ModesInv
<1> QED
    BY <1>1, <1>2, <1>3, <1>4, <1>5, <1>6, <1>7, <1>8, <1>9, <1>10, <1>11, <1>12, <1>13
       DEF LoopNext

\* Whatever filters ran before and wherever earlier sessions were killed: rounds,
\* filters and the two checks of registers measure the code they are about,
\* linked with the measurement routine they are meant for.
THEOREM AlwaysMeasuresRightCode == LoopSpec => []MeasuresRightCode
<1>1. LoopInit => MeasuresRightCode /\ ModesInv
    BY LoopAssumption, RightInit
<1>2. MeasuresRightCode /\ ModesInv /\ [LoopNext]_loop_vars => (MeasuresRightCode /\ ModesInv)'
    BY LoopAssumption, RightStep
<1> QED
    BY <1>1, <1>2, PTL DEF LoopSpec

=============================================================================
