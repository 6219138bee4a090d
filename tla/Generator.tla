----------------------------- MODULE Generator -----------------------------
(***************************************************************************)
(* Generation of a test case: src/rvzr/code_generator.py with the x86      *)
(* passes of X86Sandbox.  A function with a random graph of basic blocks   *)
(* is filled with random instructions, or the random parts of a template   *)
(* are filled in; then the passes run, and the program is printed for the  *)
(* assembler and the parser (AsmProgram).                                  *)
(*                                                                         *)
(* What the processor makes of the code is external: it is described here  *)
(* only to say what a good test case is.  Seeds and probabilities are left *)
(* out, everything random is a nondeterministic choice.                    *)
(***************************************************************************)
EXTENDS X86Sandbox, AsmProgram

CONSTANTS
    Configs,    \* configurations of the generator
    Specs,      \* the instruction set
    IndexRegs,  \* mem_index_registers
    Order,      \* the instructions in the order of the instruction set
    Template,   \* the template of test cases with a user actor
    SandboxBase,\* the value of r14
    InitRegs    \* register and memory contents to run a block with

VARIABLES
    conf,       \* the configuration; never changes
    stage,      \* the step of the generator
    fn,         \* the function: owner, blocks with body, terms and succ, exit
    left,       \* loop counter: instructions still to add, blocks done
    cache,      \* the parsed template
    two         \* history: an instruction needed two patches of its flags

vars == <<conf, stage, fn, left, cache, two>>

NoFn == [owner |-> "none", blocks |-> <<>>, exit |-> <<>>]
Pool == Reduced(Specs, conf)

Init ==
    /\ conf \in Configs
    /\ stage = "create" /\ fn = NoFn /\ left = 0 /\ cache = NoFn /\ two = FALSE

-----------------------------------------------------------------------------
(* The function and its instructions.  Block n + 1 is the exit.            *)

MinOf(a, b) == IF a < b THEN a ELSE b
\* one or two successors; without conditional branches always one
MaxSuccessors == IF CondBranches(Pool) = {} THEN 1 ELSE MinOf(conf.max_succ, 2)
MinSuccessors == IF CondBranches(Pool) = {} THEN 1 ELSE MinOf(conf.min_succ, 2)

\* the next block always is a successor, the other one comes after it
SuccessorsOf(i, n) ==
    IF i = n THEN {<<n + 1>>}
    ELSE (IF MinSuccessors < 2 THEN {<<i + 1>>} ELSE {})
         \cup (IF MaxSuccessors = 2 THEN {<<i + 1, j>> : j \in i + 2 .. n + 1} ELSE {})

GenerateEmpty ==
    /\ stage = "create" /\ ~conf.template
    /\ \E n \in conf.blocks :
       \E g \in {h \in [1 .. n -> UNION {SuccessorsOf(i, n) : i \in 1 .. n}] :
                    \A i \in 1 .. n : h[i] \in SuccessorsOf(i, n)} :
          fn' = [owner |-> "kernel", exit |-> <<>>,
                 blocks |-> [i \in 1 .. n |-> [body |-> <<>>, terms |-> <<>>, succ |-> g[i]]]]
    /\ stage' = "terminators"
    /\ UNCHANGED <<conf, left, cache, two>>

Jump(op, to) == Inst(op, <<Operand("label", ToString(to), to)>>)

\* mutant: the branch is left without the jump to the other successor
TerminatorsOfShort(succ, cond, n) ==
    IF Len(succ) = 1 THEN IF succ[1] = n + 1 THEN <<>> ELSE <<Jump("jmp", succ[1])>>
    ELSE <<Jump(cond, succ[1])>>

\* no branch to the exit: the last block falls through to it
TerminatorsOf(succ, cond, n) ==
    IF Len(succ) = 1 THEN IF succ[1] = n + 1 THEN <<>> ELSE <<Jump("jmp", succ[1])>>
    ELSE <<Jump(cond, succ[1]), Jump("jmp", succ[2])>>

AddTerminators ==
    /\ stage = "terminators"
    /\ LET n == Len(fn.blocks)
           conds == {s.name : s \in CondBranches(Pool)} \cup {"jmp"}
       IN  \E c \in [1 .. n -> conds] :
             /\ \A i \in 1 .. n : c[i] = "jmp" <=> Len(fn.blocks[i].succ) = 1
             /\ fn' = [fn EXCEPT !.blocks = [i \in DOMAIN @ |->
                          [@[i] EXCEPT !.terms = TerminatorsOf(fn.blocks[i].succ, c[i], n)]]]
    /\ left' = conf.size /\ stage' = "fill"
    /\ UNCHANGED <<conf, cache, two>>

\* generate_from_random_spec
RandomSpecs(pool) == NonMemory(pool) \cup IF conf.memory THEN Loads(pool) \cup Stores(pool) ELSE {}
RandomInstructions(pool) == UNION {InstancesOf(s, IndexRegs) : s \in RandomSpecs(pool)}

FillFunction ==
    /\ stage = "fill" /\ left > 0
    /\ \E b \in DOMAIN fn.blocks, i \in RandomInstructions(Pool) :
          fn' = [fn EXCEPT !.blocks[b].body = Append(@, i)]
    /\ left' = left - 1
    /\ stage' = IF left = 1 THEN "flags" ELSE "fill"
    /\ UNCHANGED <<conf, cache, two>>

-----------------------------------------------------------------------------
(* Templates.                                                              *)

\* the template is parsed once; its instructions are marked in the copy
StartFromTemplate ==
    /\ stage = "create" /\ conf.template
    /\ LET t == IF cache = NoFn THEN Template ELSE cache
       IN  /\ cache' = t
           /\ fn' = [t EXCEPT !.blocks = [b \in DOMAIN @ |->
                        [@[b] EXCEPT !.body = [k \in DOMAIN @ |-> [@[k] EXCEPT !.tmpl = TRUE]]]]]
    /\ stage' = "expand"
    /\ UNCHANGED <<conf, left, two>>

RandomMacros == {p \in UNION {{<<b, k>> : k \in DOMAIN fn.blocks[b].body} : b \in DOMAIN fn.blocks} :
                    fn.blocks[p[1]].body[p[2]].op = "random_instructions"}

\* one macro is replaced by as many instructions as it asks for
ExpandTemplate ==
    /\ stage = "expand"
    /\ \/ /\ RandomMacros = {} /\ stage' = "flags" /\ UNCHANGED fn
       \/ \E p \in RandomMacros :
            LET body == fn.blocks[p[1]].body
                free == {i \in RandomInstructions(Pool) : i.op \notin conf.actor_block}
            IN  \E new \in [1 .. body[p[2]].o[1].n -> free] :
                   /\ fn' = [fn EXCEPT !.blocks[p[1]].body =
                               SubSeq(body, 1, p[2] - 1) \o new \o SubSeq(body, p[2] + 1, Len(body))]
                   /\ UNCHANGED stage
    /\ UNCHANGED <<conf, left, cache, two>>

-----------------------------------------------------------------------------
(* The passes, in the order of X86Generator.                               *)

OnBodies(f(_)) == [fn EXCEPT !.blocks = [b \in DOMAIN @ |-> [@[b] EXCEPT !.body = f(@)]]]

\* a block in which no patch can be placed ends the generator with an error
RunFlagsPass ==
    /\ stage = "flags"
    /\ LET cands == PatchCandidates(Order, Pool)
           patched == [b \in DOMAIN fn.blocks |->
                         PatchFlags(fn.blocks[b].body, fn.blocks[b].terms, cands)]
       IN  IF \A b \in DOMAIN patched : patched[b].ok
           THEN /\ fn' = [fn EXCEPT !.blocks = [b \in DOMAIN @ |->
                             [@[b] EXCEPT !.body = patched[b].out]]]
                /\ two' = \E b \in DOMAIN patched : patched[b].two
                /\ stage' = "sandbox"
           ELSE stage' = "error" /\ UNCHANGED <<fn, two>>
    /\ UNCHANGED <<conf, left, cache>>

\* what is drawn: the leaf of enclu, the offset of a bit test
Draws == LET ops == UNION {{i.op : i \in ToSet(fn.blocks[b].body)} : b \in DOMAIN fn.blocks}
         IN  IF "enclu" \in ops THEN EncluLeaves ELSE IF "bt" \in ops THEN {0, 7} ELSE {0}

RunSandboxPass ==
    /\ stage = "sandbox"
    /\ \E rnd \in Draws : fn' = OnBodies(LAMBDA b : Sandbox(b, conf, rnd))
    /\ stage' = "result"
    /\ UNCHANGED <<conf, left, cache, two>>

RunResultPass ==
    /\ stage = "result"
    /\ fn' = OnBodies(PatchResult)
    /\ stage' = IF conf.far THEN "far" ELSE IF conf.u2k THEN "u2k" ELSE "opcodes"
    /\ UNCHANGED <<conf, left, cache, two>>

\* at most one access of the whole program
RunNonCanonicalPass ==
    /\ stage = "far"
    /\ \/ UNCHANGED fn
       \/ \E b \in DOMAIN fn.blocks : \E k \in DOMAIN fn.blocks[b].body : \E mask \in {0, 128} :
            /\ MayBeFar(fn.blocks[b].body[k])
            /\ fn' = [fn EXCEPT !.blocks[b].body = MakeFar(@, k, mask)]
    /\ stage' = IF conf.u2k THEN "u2k" ELSE "opcodes"
    /\ UNCHANGED <<conf, left, cache, two>>

\* one block of X86U2KAccessPass: the accesses collected so far are visited,
\* those of the earlier blocks once more
RunU2kPass ==
    /\ stage = "u2k" /\ left < Len(fn.blocks)
    /\ LET at(b) == {k \in DOMAIN fn.blocks[b].body : MayBeRedirected(fn.blocks[b].body[k])}
           seen == UNION {{<<b, k>> : k \in at(b)} : b \in 1 .. left + 1}
       IN  IF fn.owner # "user" THEN UNCHANGED fn
           ELSE \E hit \in SUBSET seen :
                  fn' = [fn EXCEPT !.blocks = [b \in DOMAIN @ |->
                           [@[b] EXCEPT !.body = Redirect(@, {k \in at(b) : <<b, k>> \in hit})]]]
    /\ left' = IF left + 1 = Len(fn.blocks) THEN 0 ELSE left + 1
    /\ stage' = IF left' = 0 THEN "opcodes" ELSE "u2k"
    /\ UNCHANGED <<conf, cache, two>>

RunOpcodesPass ==
    /\ stage = "opcodes"
    /\ fn' = OnBodies(PatchOpcodes)
    /\ stage' = IF conf.template THEN "done" ELSE "symbols"
    /\ UNCHANGED <<conf, left, cache, two>>

MacroInst(m) == Inst("macro", <<Operand("label", m, 0)>>)

\* _add_required_symbols
AddSymbols ==
    /\ stage = "symbols"
    /\ fn' = [fn EXCEPT !.blocks[1].body = <<MacroInst("measurement_start")>> \o @,
                        !.exit = <<MacroInst("measurement_end")>>]
    /\ stage' = "done"
    /\ UNCHANGED <<conf, left, cache, two>>

\* the test case is printed and assembled, and the next one is asked for
NextTestCase ==
    /\ stage = "done"
    /\ stage' = "create" /\ fn' = NoFn /\ two' = FALSE
    /\ UNCHANGED <<conf, left, cache>>

Next ==
    \/ GenerateEmpty
    \/ AddTerminators
    \/ FillFunction
    \/ StartFromTemplate
    \/ ExpandTemplate
    \/ RunFlagsPass
    \/ RunSandboxPass
    \/ RunResultPass
    \/ RunNonCanonicalPass
    \/ RunU2kPass
    \/ RunOpcodesPass
    \/ AddSymbols
    \/ NextTestCase

Spec == Init /\ [][Next]_vars

-----------------------------------------------------------------------------
(* The processor.  A machine state has registers, the memory that was      *)
(* written, by the address where the access starts (all else holds m0),    *)
(* what went wrong, and whether a fault ended the test case.               *)

Address(s, o) == (s.reg[o.v] + (IF o.base THEN s.reg["r14"] ELSE 0) - o.minus * U2kOffset) % 256
Fetch(s, a) == IF a \in DOMAIN s.mem THEN s.mem[a] ELSE s.reg["m0"]
Value(s, o) == CASE o.t = "imm" -> o.n
                 [] o.t = "reg" -> s.reg[o.v]
                 [] o.t = "mem" -> Fetch(s, Address(s, o))
Store(s, o, v) ==
    IF o.t = "reg" THEN [s EXCEPT !.reg[o.v] = v % 256]
    ELSE LET a == Address(s, o)
         IN  [s EXCEPT !.mem = [x \in DOMAIN s.mem \cup {a} |->
                                   IF x = a THEN v % 256 ELSE s.mem[x]]]

\* where the accesses of an instruction start
Starts(s, i) ==
    CASE i.op = "lea" -> {}
      [] i.op = "bt" -> {(Address(s, i.o[k]) + Value(s, i.o[2]) \div 8) % 256 : k \in MemAt(i)}
      [] OTHER -> {Address(s, i.o[k]) : k \in MemAt(i)} \cup {s.reg[r] : r \in ToSet(i.im)}

\* every unit of memory that it accesses; string instructions go up or down,
\* as DF says
Accessed(s, i) ==
    LET n == IF i.op = "rep" THEN s.reg["c"] - 1 ELSE 0
    IN  {(a + d) % 256 : a \in Starts(s, i), d \in -(n * Width(i)) .. (n + 1) * Width(i) - 1}

\* how far an access that starts in its area may run out of it: what is not
\* aligned by all but one unit, and every repetition takes one access more
Overrun(i) ==
    LET more == IF i.op = "rep" THEN RepMask * Width(i) ELSE 0
    IN  [below |-> more, above |-> more + IF IsAligned(i, conf) THEN 0 ELSE Width(i) - 1]

\* how often the U2K pass redirected an access
Redirections(i) == LET ks == MemAt(i) IN IF ks = {} THEN 0 ELSE i.o[CHOOSE k \in ks : TRUE].minus

\* MAIN and FAULTY of the actor, and the kernel's FAULTY page, as seen by an
\* access that was redirected once
AreaOf(i) ==
    IF Redirections(i) = 1 THEN [lo |-> SandboxBase - U2kOffset, size |-> PageSize]
    ELSE [lo |-> SandboxBase, size |-> BoxMask + 1]

StartsInside(i, a) == a \in AreaOf(i).lo .. AreaOf(i).lo + AreaOf(i).size - 1
StaysNear(i, a) ==
    a \in AreaOf(i).lo - Overrun(i).below .. AreaOf(i).lo + AreaOf(i).size - 1 + Overrun(i).above

\* the memory between the pads around MAIN and FAULTY, pads included
InActor(i, a) ==
    a \in AreaOf(i).lo - PageSize .. AreaOf(i).lo + AreaOf(i).size + PageSize - 1

\* code of a template is not instrumented, and a non-canonical address faults
IsContained(s, i) ==
    \/ i.tmpl
    \/ /\ \A a \in Starts(s, i) : StartsInside(i, a) \/ (i.far /\ a >= 128)
       /\ \A a \in Accessed(s, i) :
             (StaysNear(i, a) /\ InActor(i, a)) \/ (i.far /\ a >= 128)

Signed(v, n) == IF v >= n \div 2 THEN v - n ELSE v
Abs(v) == IF v < 0 THEN -v ELSE v

\* fault of a division, if any, and the quotient
Divide(s, i) ==
    LET n == IF i.small THEN 16 ELSE 256
        by == Value(s, i.o[1]) % n
        num == IF i.small THEN s.reg["a"] ELSE s.reg["d"] * 256 + s.reg["a"]
        x == IF i.op = "div" THEN num ELSE Signed(num, n * n)
        y == IF i.op = "div" THEN by ELSE Signed(by, n)
        q == IF y = 0 THEN 0 ELSE (IF (x < 0) = (y < 0) THEN 1 ELSE -1) * (Abs(x) \div Abs(y))
        fits == IF i.op = "div" THEN q < n ELSE q >= -(n \div 2) /\ q < n \div 2
    IN  [fault |-> IF y = 0 THEN "zero" ELSE IF fits THEN "none" ELSE "overflow", q |-> q % n]

\* a fault on purpose, or one of a division, ends the test case
Halts(s, i) ==
    \/ i.op \in {"ud2", "byte"} \/ Redirections(i) > 0
    \/ i.far /\ \E a \in Accessed(s, i) : a >= 128
    \/ IsDivision(i) /\ Divide(s, i).fault # "none"

\* what is wrong with the instruction in state s; an access that was redirected
\* twice goes where nobody meant it to
Wrongs(s, i) ==
    {w \in {"outside", "astray", "unaligned", "result", "leaf", "zero", "overflow"} :
        CASE w = "outside" -> Redirections(i) < 2 /\ ~IsContained(s, i)
          [] w = "astray" -> Redirections(i) > 1
          [] w = "unaligned" -> IsAligned(i, conf) /\ ~i.tmpl
                               /\ \E a \in Starts(s, i) : a % Width(i) # 0
          [] w = "result" -> i.op = "bsf" /\ ~i.tmpl /\ ~Halts(s, i) /\ Value(s, i.o[2]) = 0
          [] w = "leaf" -> i.op = "enclu" /\ s.reg["a"] \notin EncluLeaves
          [] w \in {"zero", "overflow"} -> IsDivision(i) /\ Divide(s, i).fault = w}

Effect(s, i) ==
    LET x == Value(s, i.o[1])
        y == Value(s, i.o[2])
    IN  CASE i.op \in {"mov", "vload", "cmovz"} -> Store(s, i.o[1], y)
          [] i.op = "lea" -> Store(s, i.o[1], Address(s, i.o[2]))
          [] i.op = "xchg" -> Store(Store(s, i.o[1], y), i.o[2], x)
          [] i.op = "add" -> Store(s, i.o[1], x + y)
          [] i.op = "sub" -> Store(s, i.o[1], x - y)
          [] i.op = "and" -> Store(s, i.o[1], x & y)
          [] i.op = "or" -> Store(s, i.o[1], x | y)
          [] i.op = "xor" -> Store(s, i.o[1], x ^^ y)
          [] i.op = "shr" -> Store(s, i.o[1], x \div 2)
          [] i.op = "shl" -> Store(s, i.o[1], x * 2)
          [] i.op = "imul" -> Store(s, i.o[1], x * y)
          [] i.op \in {"bsf", "setc"} -> Store(s, i.o[1], 1)
          [] IsDivision(i) -> Store(Store(s, Reg("a"), Divide(s, i).q), Reg("d"), 1)
          [] i.op = "rep" -> [s EXCEPT !.reg["c"] = 0]
          [] OTHER -> s

Execute(s, i) ==
    IF s.halt THEN s
    ELSE [(IF Halts(s, i) THEN s ELSE Effect(s, i)) EXCEPT
             !.bad = @ \cup Wrongs(s, i),
             !.halt = Halts(s, i)]

\* the states after a block, from any contents of the registers
After(code) ==
    LET states[k \in 0 .. Len(code)] ==
            IF k = 0 THEN {[reg |-> r, mem |-> <<>>, bad |-> {}, halt |-> FALSE] : r \in InitRegs}
            ELSE {Execute(s, code[k]) : s \in states[k - 1]}
    IN  states[Len(code)]

\* what can go wrong in block b, and in some block of the finished test case
CodeOf(b) == fn.blocks[b].body \o fn.blocks[b].terms
TroubleIn(b) == UNION {s.bad : s \in After(CodeOf(b))}
Trouble == UNION {TroubleIn(b) : b \in DOMAIN fn.blocks}

\* flags that some instruction reads after another one of its block left them
\* undefined, or as the block was entered with them
UndefinedReads ==
    LET reads(code) ==
          LET undef[k \in 0 .. Len(code)] ==
                  IF k = 0 THEN Flags
                  ELSE (undef[k - 1] \cup FlagsOf(code[k].op).u) \ FlagsOf(code[k].op).w
          IN  UNION {FlagsOf(code[k].op).r \cap undef[k - 1] :
                        k \in {j \in DOMAIN code : ~code[j].tmpl}}
    IN  UNION {reads(CodeOf(b)) : b \in DOMAIN fn.blocks}

-----------------------------------------------------------------------------
(* The printed program, as the parser reads it.                            *)

BlockName(i) == IF i = Len(fn.blocks) + 1 THEN FunctionExit(<<"0">>) ELSE <<"bb", ToString(i)>>

PrintInstruction(i) ==
    CASE i.op \in {"jz", "jo"} -> Line("branch", <<"jcc">>, <<BlockName(i.o[1].n)>>)
      [] i.op = "jmp" -> Line("branch", <<"jmp">>, <<BlockName(i.o[1].n)>>)
      [] i.op = "byte" -> Line("opcode", <<"byte">>, <<>>)
      [] i.op = "macro" -> Placed(i.o[1].v)
      [] OTHER -> Line("inst", <<i.op>>, <<>>)

PrintBlock(name, body, terms) ==
    <<Line("label", name, <<>>)>>
    \o [k \in DOMAIN body |-> PrintInstruction(body[k])] \o terms

\* the main section with its function; the exit block leaves the test case
Printed ==
    LET n == Len(fn.blocks)
        terms(b) == [k \in DOMAIN fn.blocks[b].terms |-> PrintInstruction(fn.blocks[b].terms[k])]
    IN  <<Section(Main), Func(<<"0">>)>>
        \o FlattenSeq([b \in 1 .. n |-> PrintBlock(BlockName(b), fn.blocks[b].body, terms(b))])
        \o PrintBlock(BlockName(n + 1), fn.exit, <<Line("branch", <<"jmp">>, <<Exit.n>>)>>)
        \o <<Section(Main), [Exit EXCEPT !.nop = TRUE]>>

-----------------------------------------------------------------------------
(* Properties.                                                             *)

\* Every access that the sandbox pass and the passes after it leave in a
\* finished test case starts in MAIN or FAULTY of its actor, for any register
\* values, and aligned accesses are aligned and end there.  Others may run out
\* of it, since only where they start is masked, but no further than their
\* width and their repetitions take them, and not out of the actor's memory
\* with its pads.  Only an access that was made non-canonical, or was sent to
\* the kernel's FAULTY page, goes elsewhere, and that one goes where it was sent;
\* except that X86U2KAccessPass visits the accesses of all but the last block
\* of a function more than once, and may send them astray.
AccessesContained ==
    stage = "done" =>
        /\ Trouble \cap {"outside", "unaligned"} = {}
        /\ \A b \in DOMAIN fn.blocks :
              "astray" \in TroubleIn(b) => conf.u2k /\ fn.owner = "user" /\ b < Len(fn.blocks)

HasWideIdiv == \E b \in DOMAIN fn.blocks : \E i \in ToSet(fn.blocks[b].body) :
                  i.op = "idiv" /\ ~i.small

\* A finished test case raises no division fault that the configuration does
\* not allow (except a wide signed division when only the division by zero is
\* allowed, whose divisor is not guarded at all), no bit scan has an
\* undefined result, and enclu gets a leaf of the list.
NoForbiddenFault ==
    stage = "done" =>
        /\ Trouble \cap {"result", "leaf"} = {}
        /\ "zero" \in Trouble => conf.zero
        /\ "overflow" \in Trouble => conf.overflow \/ (conf.zero /\ HasWideIdiv)

\* After X86PatchUndefinedFlagsPass no instruction or branch reads a flag that
\* an earlier instruction of its block left undefined, or that the block was
\* entered with; unless one instruction took two patches, whose order is
\* reversed.  The passes after it insert masks and guards between writers and
\* readers, and leave only one flag of the finished test case undefined again:
\* AF, which lahf reads.
FlagsDefined ==
    ~two => /\ stage = "sandbox" => UndefinedReads = {}
            /\ stage = "done" => UndefinedReads \subseteq {"a"}

\* The printed program is one that the parser leaves as it is, and the parser
\* finds in it the blocks of the generator, with the same instructions and
\* the same successors: the graph that was drawn is the graph that is tested.
PrintedFlow ==
    stage = "done" /\ ~conf.template =>
        LET cm == CodeMap(PatchAsm(Printed))
            bs == cm.map[Main][1].b
            succ == Successors(cm.map)
            n == Len(fn.blocks)
            lines(is) == [k \in DOMAIN is |-> is[k].line]
        IN  /\ PatchAsm(Printed) = Printed
            /\ cm.ok /\ Len(cm.map[Main]) = 1 /\ Len(bs) = n + 1
            /\ \A i \in 1 .. n :
                 /\ TerminatorsLast(bs[i])
                 /\ lines(Body(bs[i])) = [k \in DOMAIN fn.blocks[i].body |->
                                             PrintInstruction(fn.blocks[i].body[k])]
                 /\ succ[i] = {BlockName(j) : j \in ToSet(fn.blocks[i].succ)}
            /\ Exit.n \in succ[n + 1]
=============================================================================
