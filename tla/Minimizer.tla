----------------------------- MODULE Minimizer -----------------------------
(***************************************************************************)
(* The minimizer of violations: src/rvzr/postprocessing.  It reproduces a  *)
(* violation, shrinks the inputs (input_passes.py), then the program       *)
(* (instruction_passes.py), and stores what is left (minimizer.py).  Every *)
(* attempt to shrink is kept only if a fuzzing round still reports the     *)
(* violation.                                                              *)
(*                                                                         *)
(* What really causes the violation is fixed in the initial state: the     *)
(* word of the input that leaks and, for every line of the program, how    *)
(* much of it is needed.  A fuzzing round reports only real violations     *)
(* (FuzzerRound), but it may miss one: noise counts how often.             *)
(***************************************************************************)
EXTENDS Naturals, FiniteSets, SequencesExt

CONSTANTS
    Scenarios,      \* what is minimized, with which passes, and what the truth is
    Retries,        \* minimizer_retries
    NumAttempts,    \* --num-attempts
    MaxNoise,       \* bound: rounds that miss the violation
    HalveAbove,     \* sequences longer than this are halved first (5 in the source)
    MaxBlock,       \* words zeroed at once (64 in the source)
    RegionEnds      \* the last word of each region of an input

\* Inputs are objects with words, and no object is twice in a sequence.
Words == RegionEnds[Len(RegionEnds)]
InputSeqs == {s \in Seq([obj : Nat, w : [1 .. Words -> Nat]]) :
                 \A i, j \in DOMAIN s : s[i].obj = s[j].obj => i = j}

\* A line of a program: its kind k, the instruction it came from (id), the
\* label it jumps to (t), the pass that can simplify it and how often (by, n),
\* whether it takes two bytes, whether it carries the instrumentation tag,
\* and which instruction the generator put this instrumentation before: the one
\* it protects if that comes next (masks, guards), otherwise whatever comes next
\* (behind what they protect: stc, sub, flag patches); 0 if nothing or a label.
Kinds == {"directive", "label", "inst", "jump", "byte", "fence", "fixed"}
Simplifiers == {"simplification", "constant", "mask"}
Line == [id : Nat, k : Kinds, t : Nat, by : Simplifiers \cup {"none"}, n : Nat, two : BOOLEAN,
         tag : BOOLEAN, before : Nat, nopped : BOOLEAN]

\* Instrumentation stands right before some instruction, maybe with more lines
\* of it in between; the instructions have numbers of their own.
Instrumented(p) ==
    /\ \A i, j \in DOMAIN p : p[i].id = p[j].id => i = j
    /\ \A i \in DOMAIN p : p[i].before # 0 =>
          /\ p[i].tag /\ ~p[i].nopped /\ p[i].k \notin {"label", "byte"}
          /\ i < Len(p) /\ p[i].before \in {p[i + 1].id, p[i + 1].before}

ASSUME MinimizerAssumption ==
    /\ Retries \in Nat \ {0} /\ NumAttempts \in Nat /\ MaxNoise \in Nat
    /\ HalveAbove \in Nat \ {0} /\ MaxBlock \in 1 .. 64
    /\ RegionEnds \in Seq(Nat \ {0}) /\ RegionEnds # <<>>
    /\ \A q, r \in DOMAIN RegionEnds : q < r => RegionEnds[q] < RegionEnds[r]
    /\ \A s \in Scenarios : /\ s.inputs \in InputSeqs /\ s.leak \in 1 .. Words
                            /\ s.ipc \in Nat \ {0} /\ s.input_passes \in Seq({"seq", "diff"})
                            /\ s.prog \in Seq(Line) /\ Instrumented(s.prog)
                            /\ \A need \in s.needs : \A i \in DOMAIN s.prog :
                                  s.prog[i].k = "label" => s.prog[i].id \notin DOMAIN need

VARIABLES
    sc,         \* the scenario; never changes
    stage,      \* what the minimizer is doing
    noise,      \* rounds that may still miss the violation
    ipc,        \* CONF.inputs_per_class
    prog,       \* the test case: its lines
    inputs,     \* the inputs in use by run()
    viol,       \* the violation at hand: its input sequence and class members
    todo,       \* input passes still to run
    cand,       \* [in, v]: inputs and violation inside _run_input_passes
    it,         \* loop state of an input pass
    leaked,     \* words the differential pass could not make equal
    ignore,     \* the ignore list of the instruction passes
    attempt,    \* rounds over the instruction passes
    passes,     \* instruction or analysis passes still to run
    work,       \* lines of the last verified program inside a pass
    cur,        \* cursor of the minimization loop
    mods,       \* lines that could be modified
    dropped     \* history: the label pass removed code

vars == <<sc, stage, noise, ipc, prog, inputs, viol, todo, cand, it, leaked,
          ignore, attempt, passes, work, cur, mods, dropped>>
progVars == <<prog, ignore, attempt, passes, work, cur, mods, dropped>>
inputVars == <<inputs, viol, todo, cand, it, leaked, ipc>>

-----------------------------------------------------------------------------
(* Programs, and what of them leaks.                                       *)

LevelOf(l) == IF l.nopped THEN 1 ELSE 2 + l.n

\* how much is left of instruction id; 0 if it is gone
Level(p, id) == Max({0} \cup {LevelOf(p[i]) : i \in {j \in DOMAIN p : p[j].id = id}})

\* no fence stands right before a line that must not be fenced
FenceFree(p) ==
    \A i, j \in DOMAIN p :
        p[i].k = "fence" /\ p[j].id \in sc.unfenced /\ i < j =>
            \E m \in i + 1 .. j - 1 : p[m].k # "label"

\* the code still leaks: enough of some sufficient set of lines is left, and
\* no fence stops the speculation
CodeLeaks(p) ==
    /\ \E need \in sc.needs : \A id \in DOMAIN need : Level(p, id) >= need[id]
    /\ FenceFree(p)

-----------------------------------------------------------------------------
(* Inputs.  An input is an object with words; the first word decides the   *)
(* contract trace and is what taint tracking preserves.                    *)

RandomWord == 9

MaxObj(seq) == Max({seq[i].obj : i \in DOMAIN seq})

\* generate_boosted: the inputs themselves, then fresh inputs that agree with
\* them where it matters for the contract
Boost(seq, n) ==
    LET top == MaxObj(seq \o inputs)
        like(i) == seq[((i - 1) % Len(seq)) + 1]
    IN  [i \in 1 .. n * Len(seq) |->
            IF i <= Len(seq) THEN seq[i]
            ELSE [obj |-> top + (i - Len(seq)),
                  w |-> [a \in 1 .. Words |-> IF a = 1 THEN like(i).w[1] ELSE RandomWord]]]

\* the contract classes with different hardware traces: the members that are
\* not ignored
ViolatingClasses(p, seq, ign) ==
    LET members(c) == {i \in DOMAIN seq : i \notin ign /\ seq[i].w[1] = c}
    IN  IF ~CodeLeaks(p) THEN {}
        ELSE {members(c) : c \in {c \in {seq[i].w[1] : i \in DOMAIN seq} :
                  \E i, j \in members(c) : seq[i].w[sc.leak] # seq[j].w[sc.leak]}}

\* the violations that a fuzzing round can report
Violations(p, ins, ign) ==
    LET seq == Boost(ins, ipc)
    IN  {[seq |-> seq, ids |-> c] : c \in ViolatingClasses(p, seq, ign)}

NoViolation == [seq |-> <<>>, ids |-> {}]

\* the first two measurements of a violation, in the order of the sequence
FirstId(v) == Min(v.ids)
SecondId(v) == Min(v.ids \ {FirstId(v)})

\* one fuzzing round: result is a violation, or none if there is none to be
\* found or it was missed
Round(p, ins, ign, result) ==
    LET found == Violations(p, ins, ign)
    IN  \/ result \in found /\ noise' = noise
        \/ /\ result = NoViolation
           /\ IF found = {} THEN noise' = noise ELSE noise > 0 /\ noise' = noise - 1

\* mutant: running out of retries counts as success
CheckGivesUp(p, ins, ign, result) == result /\ noise' = noise

\* _check_for_violation: rounds are repeated until one finds the violation
Check(p, ins, ign, result) ==
    LET real == Violations(p, ins, ign) # {}
    IN  \/ real /\ result /\ \E k \in 0 .. Retries - 1 :
                k <= noise /\ noise' = noise - k
        \/ real /\ ~result /\ noise >= Retries /\ noise' = noise - Retries
        \/ ~real /\ ~result /\ noise' = noise

-----------------------------------------------------------------------------
(* Reproduction and the frame of the input passes.                         *)

Idle == [pass |-> "none"]

Init ==
    /\ sc \in Scenarios
    /\ stage = "reproduce" /\ noise = MaxNoise
    /\ prog = sc.prog /\ inputs = sc.inputs /\ ipc = sc.ipc
    /\ viol = NoViolation /\ todo = sc.input_passes
    /\ cand = [in |-> <<>>, v |-> NoViolation] /\ it = Idle /\ leaked = {}
    /\ ignore = {} /\ attempt = 0 /\ passes = <<>>
    /\ work = <<>> /\ cur = 0 /\ mods = {} /\ dropped = FALSE

\* the members of the class stay, all other inputs are ignored
IgnoreOthers(v) == DOMAIN v.seq \ v.ids

\* _reproduce_org_violation, with its retries
Reproduce ==
    /\ stage = "reproduce"
    /\ \/ \E v \in Violations(prog, inputs, {}) : \E k \in 0 .. Retries - 1 :
            /\ k <= noise /\ noise' = noise - k
            /\ viol' = v
            /\ cand' = [in |-> inputs, v |-> v]
            /\ stage' = IF todo = <<>> THEN "set_ignore" ELSE "input_pass"
       \/ /\ IF Violations(prog, inputs, {}) = {} THEN noise' = noise
             ELSE noise >= Retries /\ noise' = noise - Retries
          /\ stage' = "not_reproduced" /\ UNCHANGED <<viol, cand>>
    /\ UNCHANGED <<sc, ipc, inputs, todo, it, leaked>> /\ UNCHANGED progVars

\* start the next input pass; both disable boosting while they run
StartInputPass ==
    /\ stage = "input_pass" /\ todo # <<>>
    /\ todo' = Tail(todo)
    /\ IF Head(todo) = "seq"
       THEN /\ it' = [pass |-> "seq", in |-> cand.in, v |-> cand.v]
            /\ stage' = "halve" /\ UNCHANGED <<leaked, ipc>>
       ELSE /\ it' = [pass |-> "diff", region |-> 1, i |-> 0, size |-> 0,
                      a |-> FirstId(cand.v), b |-> SecondId(cand.v), noise |-> noise]
            /\ leaked' = {} /\ ipc' = 1
            /\ stage' = "diff_block"
    /\ UNCHANGED <<sc, noise, inputs, viol, cand>> /\ UNCHANGED progVars

\* a pass returns new inputs; _run_input_passes keeps them if the violation
\* shows again, boosted once more
InputPassDone(new) ==
    /\ it' = [pass |-> "check", new |-> new]
    /\ ipc' = sc.ipc /\ stage' = "input_check"

CheckInputPass ==
    /\ stage = "input_check"
    /\ \E r \in Violations(prog, it.new, {}) \cup {NoViolation} :
          /\ Round(prog, it.new, {}, r)
          /\ cand' = IF r = NoViolation THEN cand ELSE [in |-> it.new, v |-> r]
    /\ stage' = IF todo = <<>> THEN "recheck" ELSE "input_pass"
    /\ it' = Idle
    /\ UNCHANGED <<sc, ipc, inputs, viol, todo, leaked>> /\ UNCHANGED progVars

\* back in run(): the round that decides on the new inputs measures the old
CheckNewInputs ==
    /\ stage = "recheck"
    /\ \E r \in Violations(prog, inputs, {}) \cup {NoViolation} :
          /\ Round(prog, inputs, {}, r)
          /\ IF r = NoViolation THEN UNCHANGED <<inputs, viol, ipc>>
             ELSE inputs' = cand.in /\ viol' = r /\ ipc' = 1
    /\ stage' = "set_ignore"
    /\ UNCHANGED <<sc, todo, cand, it, leaked>> /\ UNCHANGED progVars

-----------------------------------------------------------------------------
(* InputSequenceMinimizationPass.                                          *)

StartShrinking(v) ==
    /\ it' = [pass |-> "seq", in |-> v.seq, v |-> v, iter |-> 1,
              org |-> Len(v.seq), id |-> Len(v.seq)]
    /\ ipc' = 1 /\ stage' = "shrink"

HalveInputs ==
    /\ stage = "halve"
    /\ IF Len(it.in) <= HalveAbove THEN StartShrinking(it.v) /\ UNCHANGED noise
       ELSE LET new == SubSeq(it.in, 1, Len(it.in) \div 2) IN
            \E r \in Violations(prog, new, {}) \cup {NoViolation} :
                /\ Round(prog, new, {}, r)
                /\ IF r = NoViolation THEN StartShrinking(it.v)
                   ELSE /\ it' = [it EXCEPT !.in = new, !.v = r]
                        /\ UNCHANGED <<ipc, stage>>
    /\ UNCHANGED <<sc, inputs, viol, todo, cand, leaked>> /\ UNCHANGED progVars

\* drop the input with (zero-based) number id; input 0 is never tried
ShrinkInputs ==
    /\ stage = "shrink"
    /\ \/ /\ it.id > 0
          /\ LET new == IF it.id < Len(it.in) THEN RemoveAt(it.in, it.id + 1) ELSE it.in IN
             \E r \in Violations(prog, new, {}) \cup {NoViolation} :
                 /\ Round(prog, new, {}, r)
                 /\ it' = IF r = NoViolation THEN [it EXCEPT !.id = @ - 1]
                          ELSE [it EXCEPT !.id = @ - 1, !.in = new, !.v = r]
          /\ UNCHANGED <<ipc, stage>>
       \/ /\ it.id = 0 /\ noise' = noise
          /\ IF Len(it.in) = it.org \/ it.iter = 10 THEN InputPassDone(it.v.seq)
             ELSE /\ it' = [it EXCEPT !.iter = @ + 1, !.org = Len(it.in), !.id = Len(it.in)]
                  /\ UNCHANGED <<ipc, stage>>
    /\ UNCHANGED <<sc, inputs, viol, todo, cand, leaked>> /\ UNCHANGED progVars

-----------------------------------------------------------------------------
(* DifferentialInputMinimizerPass.                                         *)

\* the two inputs with words as given; inputs are objects, and every list
\* that holds one of the two sees the change
WriteBoth(seq, wa, wb) ==
    LET oa == cand.v.seq[it.a].obj
        ob == cand.v.seq[it.b].obj
    IN  [i \in DOMAIN seq |-> CASE seq[i].obj = oa -> [seq[i] EXCEPT !.w = wa]
                                [] seq[i].obj = ob -> [seq[i] EXCEPT !.w = wb]
                                [] OTHER -> seq[i]]

WordsA == cand.v.seq[it.a].w
WordsB == cand.v.seq[it.b].w
RegionStart == IF it.region = 1 THEN 0 ELSE RegionEnds[it.region - 1]
RegionSize == RegionEnds[it.region] - RegionStart
Zeroed(w, n) == [a \in DOMAIN w |->
                    IF a > RegionStart + it.i /\ a <= RegionStart + it.i + n
                    THEN 0 ELSE w[a]]

PowersOfTwo == {1, 2, 4, 8, 16, 32, 64}

\* the largest power of two that is aligned, and fits block and region
StartSize ==
    LET room == Min({MaxBlock - (it.i % MaxBlock), RegionSize - it.i})
    IN  Max({n \in 1 .. room : n \in PowersOfTwo /\ it.i % n = 0})

\* _check_for_violation with all inputs but the two ignored
CheckPair(wa, wb, result) ==
    Check(prog, WriteBoth(cand.v.seq, wa, wb),
          DOMAIN cand.v.seq \ {it.a, it.b}, result)

Keep(wa, wb) ==
    /\ cand' = [in |-> WriteBoth(cand.in, wa, wb),
                v |-> [cand.v EXCEPT !.seq = WriteBoth(@, wa, wb)]]
    /\ inputs' = WriteBoth(inputs, wa, wb)

\* mutant: half of the block counts as done
AdvanceHalf(n) == it' = [it EXCEPT !.i = @ + n \div 2, !.size = 0] /\ stage' = "diff_block"

Advance(n) == it' = [it EXCEPT !.i = @ + n, !.size = 0] /\ stage' = "diff_block"

NextBlock ==
    /\ stage = "diff_block"
    /\ \/ /\ it.i < RegionSize
          /\ it' = [it EXCEPT !.size = StartSize]
          /\ stage' = IF StartSize > 1 THEN "diff_zero" ELSE "diff_one"
          /\ UNCHANGED ipc
       \/ /\ it.i = RegionSize /\ it.region < Len(RegionEnds)
          /\ it' = [it EXCEPT !.i = 0, !.region = @ + 1]
          /\ UNCHANGED <<stage, ipc>>
       \/ /\ it.i = RegionSize /\ it.region = Len(RegionEnds)
          /\ InputPassDone(cand.v.seq)
    /\ UNCHANGED <<sc, noise, inputs, viol, todo, cand, leaked>> /\ UNCHANGED progVars

\* zero a block in both inputs, or try half of it
ZeroBlock ==
    /\ stage = "diff_zero"
    /\ LET wa == Zeroed(WordsA, it.size)
           wb == Zeroed(WordsB, it.size)
       IN  \/ CheckPair(wa, wb, TRUE) /\ Keep(wa, wb) /\ Advance(it.size)
           \/ /\ CheckPair(wa, wb, FALSE)
              /\ it' = [it EXCEPT !.size = @ \div 2]
              /\ stage' = IF it.size \div 2 > 1 THEN "diff_zero" ELSE "diff_one"
              /\ UNCHANGED <<cand, inputs>>
    /\ UNCHANGED <<sc, ipc, viol, todo, leaked>> /\ UNCHANGED progVars

At == RegionStart + it.i + 1

ZeroWord ==
    /\ stage = "diff_one"
    /\ LET wa == Zeroed(WordsA, 1)
           wb == Zeroed(WordsB, 1)
       IN  \/ CheckPair(wa, wb, TRUE) /\ Keep(wa, wb) /\ Advance(1)
           \/ /\ CheckPair(wa, wb, FALSE)
              /\ IF WordsA[At] = WordsB[At] THEN Advance(1)
                 ELSE stage' = "diff_copy" /\ UNCHANGED it
              /\ UNCHANGED <<cand, inputs>>
    /\ UNCHANGED <<sc, ipc, viol, todo, leaked>> /\ UNCHANGED progVars

\* mutant: the copied word is not restored
CopyWordKept ==
    /\ stage = "diff_copy"
    /\ LET wb == [WordsB EXCEPT ![At] = WordsA[At]]
       IN  \E shows \in BOOLEAN :
              /\ CheckPair(WordsA, wb, shows)
              /\ Keep(WordsA, wb)
              /\ leaked' = IF shows THEN leaked ELSE leaked \cup {At}
    /\ Advance(1)
    /\ UNCHANGED <<sc, ipc, viol, todo>> /\ UNCHANGED progVars

\* copy the word of the first input to the second; if that fails it leaks
CopyWord ==
    /\ stage = "diff_copy"
    /\ LET wb == [WordsB EXCEPT ![At] = WordsA[At]]
       IN  \/ CheckPair(WordsA, wb, TRUE) /\ Keep(WordsA, wb) /\ UNCHANGED leaked
           \/ /\ CheckPair(WordsA, wb, FALSE)
              /\ leaked' = leaked \cup {At}
              /\ UNCHANGED <<cand, inputs>>
    /\ Advance(1)
    /\ UNCHANGED <<sc, ipc, viol, todo>> /\ UNCHANGED progVars

-----------------------------------------------------------------------------
(* Instruction passes.                                                     *)

\* mutant: instrumentation is tried like any other line
IsSkippedUntagged(pass, l) == l.k \in {"directive", "label", "byte", "fence", "fixed"}

\* lines the minimization loop leaves alone
IsSkipped(pass, l) ==
    \/ l.k \in {"directive", "label", "byte", "fence", "fixed"}
    \/ l.tag /\ pass # "mask"

Fence == [id |-> 0, k |-> "fence", t |-> 0, by |-> "none", n |-> 0,
          two |-> FALSE, tag |-> FALSE, before |-> 0, nopped |-> FALSE]

\* a two-byte NOP is written as .byte
Nop(l) == [l EXCEPT !.nopped = TRUE, !.n = 0, !.by = "none", !.tag = FALSE,
                    !.k = IF l.two THEN "byte" ELSE "inst"]

\* whether modify_instruction has something to do
CanModify(pass, l) ==
    CASE pass = "removal" -> TRUE
      [] pass = "nop" -> ~l.nopped /\ l.k # "jump"
      [] pass = "fence" -> l.k # "jump"
      [] OTHER -> l.by = pass /\ l.n > 0

\* modify_instruction
Modify(pass, ls, i) ==
    CASE pass = "removal" -> RemoveAt(ls, i)
      [] pass = "nop" -> ReplaceAt(ls, i, Nop(ls[i]))
      [] pass = "fence" -> InsertAt(ls, i, Fence)
      [] OTHER -> [ls EXCEPT ![i].n = @ - 1]

\* what a pass makes of a line it could modify
NewLines(pass, l) == CASE pass = "removal" -> <<>>
                       [] pass = "nop" -> <<Nop(l)>>
                       [] pass = "fence" -> <<Fence, l>>
                       [] OTHER -> <<[l EXCEPT !.n = @ - 1]>>

\* mutant: the numbers of the lines are taken to count from one
ReplayOffByOne(pass, ls, ids) ==
    FlattenSeq([i \in DOMAIN ls |-> IF i + 1 \in ids THEN NewLines(pass, ls[i]) ELSE <<ls[i]>>])

\* the pass builds its result anew from the program it was given: removal
\* and NOPs also take the instrumentation tag from the line before
Replay(pass, ls, ids) ==
    LET kept(i) == IF i + 1 \in ids /\ pass \in {"removal", "nop"}
                   THEN [ls[i] EXCEPT !.tag = FALSE] ELSE ls[i]
    IN  FlattenSeq([i \in DOMAIN ls |->
            IF i \in ids THEN NewLines(pass, ls[i]) ELSE <<kept(i)>>])

\* LabelRemovalPass: every line that begins with a dot, is not reserved and
\* does not occur in another line; nothing is verified
IsUnusedLabel(ls, l) ==
    \/ l.k = "label" /\ \A i \in DOMAIN ls : ls[i].k = "jump" => ls[i].t # l.id
    \/ l.k = "byte"

WithoutLabels(ls) ==
    FlattenSeq([i \in DOMAIN ls |-> IF IsUnusedLabel(ls, ls[i]) THEN <<>> ELSE <<ls[i]>>])

SetIgnoreList ==
    /\ stage = "set_ignore"
    /\ ignore' = IgnoreOthers(viol)
    /\ stage' = "next_pass"
    /\ UNCHANGED <<sc, noise, prog, attempt, passes, work, cur, mods, dropped>>
    /\ UNCHANGED inputVars

StartPass ==
    /\ stage = "next_pass" /\ passes # <<>>
    /\ Head(passes) \notin {"label", "comment"}
    /\ work' = prog /\ cur' = Len(prog) /\ mods' = {}
    /\ stage' = "loop"
    /\ UNCHANGED <<sc, noise, prog, ignore, attempt, passes, dropped>> /\ UNCHANGED inputVars

\* one line of minimization_loop, from the end to the second line
TryLine ==
    /\ stage = "loop" /\ cur > 1
    /\ LET pass == Head(passes)
           l == work[cur]
           new == Modify(pass, work, cur)
       IN  IF IsSkipped(pass, l) \/ ~CanModify(pass, l)
           THEN UNCHANGED <<work, mods, noise>>
           ELSE \/ Check(new, inputs, ignore, TRUE) /\ work' = new /\ mods' = mods \cup {cur}
                \/ Check(new, inputs, ignore, FALSE) /\ UNCHANGED <<work, mods>>
    /\ cur' = cur - 1
    /\ UNCHANGED <<sc, stage, prog, ignore, attempt, passes, dropped>> /\ UNCHANGED inputVars

FinishPass ==
    /\ stage = "loop" /\ cur = 1
    /\ prog' = Replay(Head(passes), prog, mods)
    /\ passes' = Tail(passes) /\ stage' = "next_pass"
    /\ UNCHANGED <<sc, noise, ignore, attempt, work, cur, mods, dropped>> /\ UNCHANGED inputVars

RemoveLabels ==
    /\ stage = "next_pass" /\ passes # <<>> /\ Head(passes) = "label"
    /\ prog' = WithoutLabels(prog)
    /\ dropped' = (dropped \/ \E i \in DOMAIN prog : prog[i].k = "byte")
    /\ work' = prog' /\ passes' = Tail(passes)
    /\ UNCHANGED <<sc, stage, noise, ignore, attempt, cur, mods>> /\ UNCHANGED inputVars

\* the comment pass writes comments into the file, nothing else
AddComments ==
    /\ stage = "next_pass" /\ passes # <<>> /\ Head(passes) = "comment"
    /\ passes' = Tail(passes)
    /\ UNCHANGED <<sc, stage, noise, prog, ignore, attempt, work, cur, mods, dropped>>
    /\ UNCHANGED inputVars

\* the attempts, then the analysis passes, then labels once more; whether an
\* attempt changed anything is asked of two different objects, so it never
\* ends the attempts early
NextAttempt ==
    /\ stage = "next_pass" /\ passes = <<>>
    /\ attempt' = attempt + 1
    /\ \/ attempt < NumAttempts /\ passes' = sc.passes /\ UNCHANGED stage
       \/ attempt = NumAttempts /\ passes' = sc.analysis /\ UNCHANGED stage
       \/ /\ attempt = NumAttempts + 1 /\ UNCHANGED stage
          /\ passes' = SelectSeq(sc.passes, LAMBDA p : p = "label")
       \/ attempt = NumAttempts + 2 /\ stage' = "stored" /\ UNCHANGED passes
    /\ UNCHANGED <<sc, noise, prog, ignore, work, cur, mods, dropped>> /\ UNCHANGED inputVars

Next ==
    \/ Reproduce
    \/ StartInputPass
    \/ CheckInputPass
    \/ CheckNewInputs
    \/ HalveInputs
    \/ ShrinkInputs
    \/ NextBlock
    \/ ZeroBlock
    \/ ZeroWord
    \/ CopyWord
    \/ SetIgnoreList
    \/ StartPass
    \/ TryLine
    \/ FinishPass
    \/ RemoveLabels
    \/ AddComments
    \/ NextAttempt

Spec == Init /\ [][Next]_vars /\ WF_vars(Next)

-----------------------------------------------------------------------------
(***************************************************************************)
(* Properties.                                                             *)
(***************************************************************************)
Untagged(ls) == [i \in DOMAIN ls |-> [ls[i] EXCEPT !.tag = FALSE]]

\* What a pass hands on is the program it verified last: building the result
\* anew from the list of modifiable lines gives, up to tags, the lines that
\* the last successful check measured.  (instruction_passes.py, run methods)
ResultIsVerified == stage = "next_pass" /\ work # <<>> => Untagged(prog) = Untagged(work)

\* The stored program still has the leak that was reproduced, whatever passes
\* ran and whatever rounds missed; unless the label pass, which verifies
\* nothing, took .byte lines for labels.  (minimizer.py run)
StoredStillLeaks == stage = "stored" /\ ~dropped => CodeLeaks(prog)

\* Instrumentation goes after what it was put before: no pass removes an
\* instrumentation line, or makes a NOP of it, while the instruction that it
\* stands before is still in the program as it was given.  For masks and guards
\* that is what they protect.  It is not for an stc or a flag patch behind what
\* it protects: its tag goes with an unrelated instruction, and then it can go
\* while what it protects stays.  (instruction_passes.py minimization_loop,
\* InstructionRemovalPass.run line 143, NopReplacementPass.run)
InstrumentationLast ==
    [][\A i \in DOMAIN prog :
         prog[i].before # 0 /\ Level(prog', prog[i].id) < 2 => Level(prog, prog[i].before) < 2]_vars

\* The differential pass tells the truth: when it is through, the two inputs
\* differ in the words it reports as leaked and in no other, and if the pair
\* shows the violation at all and no round missed it, that is the one word
\* that really leaks.  (input_passes.py _process_block)
DifferenceIsLeaked ==
    stage = "diff_block" /\ it.region = Len(RegionEnds) /\ it.i = RegionSize =>
        /\ {a \in DOMAIN WordsA : WordsA[a] # WordsB[a]} = leaked
        /\ sc.leak \in leaked /\ noise = it.noise /\ CodeLeaks(prog) => leaked = {sc.leak}

\* With the fairness of a sequential program, the minimizer always comes to
\* an end.  (minimizer.py run, input_passes.py)
MinimizationEnds == <>(stage \in {"stored", "not_reproduced"})

\* The instruction passes can see the violation: with the inputs and the
\* ignore list they are given, it can be found in the program that the input
\* passes left unchanged.  (minimizer.py run, the comment at line 130)
PassesSeeViolation ==
    stage = "next_pass" /\ attempt = 0 => Violations(prog, inputs, ignore) # {}
=============================================================================
