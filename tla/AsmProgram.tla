----------------------------- MODULE AsmProgram -----------------------------
(***************************************************************************)
(* Assembly files of a test case, and what Revizor makes of them: the      *)
(* patcher and the code map of src/rvzr/asm_parser.py, the program object  *)
(* of src/rvzr/tc_components/test_case_code.py, the object file as the     *)
(* assembler lays it out (external), and the symbol table and instruction  *)
(* map that src/rvzr/elf_parser.py computes from the two.                  *)
(*                                                                         *)
(* A file is a sequence of lines.  A name is a sequence of words, so that  *)
(* "starts with" of the source is IsPrefix: <<"f">> stands for .function_f *)
(* and <<"f", "0">> for .function_f0.  The operands of an instruction and  *)
(* the numbers in a macro are left out: nothing below depends on them.     *)
(***************************************************************************)
EXTENDS Naturals, FiniteSets, SequencesExt

CONSTANTS
    ActorConf,      \* the actors of the configuration: name -> [mode, pl]
    SectionOrder,   \* their names in the order of the configuration
    PerMacro        \* machine instructions per macro: 1 on x86, 3 on arm64

Main == <<"main">>

ASSUME ConfAssumption ==
    /\ PerMacro \in Nat \ {0}
    /\ Len(SectionOrder) > 0 /\ Head(SectionOrder) = Main
    /\ ToSet(SectionOrder) = DOMAIN ActorConf
    /\ Len(SectionOrder) = Cardinality(DOMAIN ActorConf)
    /\ ActorConf[Main] = [mode |-> "host", pl |-> "kernel"]

(***************************************************************************)
(* Lines.  k is the kind, n the name it declares or the mnemonic, t the    *)
(* names it refers to, nop whether the line carries the NOP placeholder    *)
(* that the patcher gives to macros and to the exit label.                 *)
(***************************************************************************)
Line(k, n, t) == [k |-> k, n |-> n, t |-> t, nop |-> FALSE]
Section(a) == Line("section", a, <<>>)
Func(f) == Line("function", f, <<>>)
Macro(m, args) == Line("macro", <<m>>, args)
Exit == Line("exit", <<"exit">>, <<>>)

IsMacro(l, m) == l.k = "macro" /\ l.n = <<m>>

\* _is_instruction of the patcher: everything that is assembled into code
EmitsCode(l) == l.k \in {"inst", "branch", "opcode", "macro"}

-----------------------------------------------------------------------------
(* The patcher.                                                            *)

\* every line of f replaced by the lines with(i)
Rewrite(f, with(_)) == FlattenSeq([i \in DOMAIN f |-> with(i)])

\* .test_case_exit is put into .data.main, unless the last line before it
\* already opened that section
AddExitSection(f) ==
    LET prev(i) == SelectLastInSubSeq(f, 1, i - 1, LAMBDA l : l.k # "exit")
        inMain(i) == prev(i) # 0 /\ f[prev(i)] = Section(Main)
    IN  Rewrite(f, LAMBDA i :
            IF f[i].k # "exit" THEN <<f[i]>>
            ELSE (IF inMain(i) THEN <<>> ELSE <<Section(Main)>>)
                 \o <<[Exit EXCEPT !.nop = TRUE]>>)

\* the line that decides what the main function is
MainAt(f) ==
    SelectInSeq(f, LAMBDA l : l.k \in {"exit", "function"} \/ EmitsCode(l))

MainLabel(f) == LET i == MainAt(f) IN
                IF i = 0 THEN <<>>
                ELSE IF f[i].k = "function" THEN f[i].n ELSE <<"0">>

\* .function_0 is inserted when code, or the exit, comes before any function
AddDefaultMain(f) ==
    LET i == MainAt(f) IN
    IF i = 0 \/ f[i].k = "function" THEN f
    ELSE InsertAt(f, i, Func(<<"0">>))

AddMacroPlaceholders(f) ==
    [i \in DOMAIN f |-> IF f[i].k = "macro" THEN [f[i] EXCEPT !.nop = TRUE]
                                            ELSE f[i]]

Has(f, m) == \E i \in DOMAIN f : IsMacro(f[i], m)
Placed(m) == [Macro(m, <<>>) EXCEPT !.nop = TRUE]

\* measurement_start goes after every line that starts with the main label
AddMeasurementStart(f, main) ==
    IF Has(f, "measurement_start") THEN f
    ELSE Rewrite(f, LAMBDA i :
            IF main = <<>> \/ (f[i].k = "function" /\ IsPrefix(main, f[i].n))
            THEN <<f[i], Placed("measurement_start")>> ELSE <<f[i]>>)

\* mutant: the macro that is already there is not looked for
AddMeasurementEndAgain(f) ==
    Rewrite(f, LAMBDA i : IF f[i].k # "exit" THEN <<f[i]>>
                          ELSE <<Placed("measurement_end"), f[i]>>)

\* measurement_end goes before the exit, in a function of its own when the
\* exit would otherwise open its section
AddMeasurementEnd(f) ==
    IF Has(f, "measurement_end") THEN f
    ELSE Rewrite(f, LAMBDA i :
            IF f[i].k # "exit" THEN <<f[i]>>
            ELSE (IF i > 1 /\ f[i - 1].k = "section" THEN <<Func(<<"end">>)>>
                                                     ELSE <<>>)
                 \o <<Placed("measurement_end"), f[i]>>)

PatchAsm(f) ==
    LET g == AddDefaultMain(AddExitSection(f))
    IN  AddMeasurementEnd(
            AddMeasurementStart(AddMacroPlaceholders(g),
                                MainLabel(AddExitSection(f))))

-----------------------------------------------------------------------------
(* Line numbers of the patched file.                                       *)

\* the text of original line o is a substring of the text of patched line p
Contained(o, p) ==
    \/ o.k = "blank"
    \/ o = p
    \/ o.k \in {"macro", "exit"} /\ p = [o EXCEPT !.nop = TRUE]
    \/ o.k = "inst" /\ o.n = <<"nop">> /\ p.nop
    \/ o.k = "function" /\ p.k = "macro" /\ p.t # <<>> /\ Last(p.t) = o.n

\* The walk of _update_lines_after_patch: the number of a patched line is
\* that of the next original line if that one is contained in it, else 0.
\* It runs off the end of the original lines if too many are consumed.
LineNumbers(org, patched) ==
    LET step(acc, p) ==
          IF acc.o > Len(org) THEN [acc EXCEPT !.ok = FALSE]
          ELSE IF Contained(org[acc.o], p)
          THEN [acc EXCEPT !.o = @ + 1, !.num = Append(@, acc.o - 1)]
          ELSE [acc EXCEPT !.num = Append(@, 0)]
    IN  FoldLeft(step, [o |-> 1, num |-> <<>>, ok |-> TRUE], patched)

\* _validate_dirty_lines: there is an exit, and no instruction after it
WellEnded(f) ==
    LET e == SelectInSeq(f, LAMBDA l : l.k = "exit")
    IN  e # 0 /\ \A i \in e + 1 .. Len(f) : f[i].k \notin {"inst", "branch"}

\* the lines that reach the code map, each with its place in the file
CleanLines(f) ==
    LET e == SelectInSeq(f, LAMBDA l : l.k = "exit")
    IN  SelectSeq([i \in 1 .. e - 1 |-> [line |-> f[i], pos |-> i]],
                  LAMBDA x : x.line.k \notin {"comment", "blank"})

-----------------------------------------------------------------------------
(* The code map: sections, functions and basic blocks, in file order.      *)

Block(n) == [n |-> n, ins |-> <<>>]
EntryLabel(f) == <<"entry">> \o f
ImplicitFunction(sec) == sec \o <<"0">>

\* functions are kept in an ordered dictionary: a second one of the same
\* name takes the place, and loses the code, of the first
PutFunction(funcs, f) ==
    LET new == [n |-> f, b |-> <<Block(EntryLabel(f))>>]
        at == SelectInSeq(funcs, LAMBDA g : g.n = f)
    IN  IF at = 0 THEN Append(funcs, new) ELSE ReplaceAt(funcs, at, new)

NoName == <<>>
EmptyMap == [sec |-> NoName, fun |-> NoName, auto |-> FALSE, ok |-> TRUE,
             map |-> [a \in DOMAIN ActorConf |-> <<>>]]

StartFunction(cm, f) ==
    [cm EXCEPT !.fun = f, !.auto = TRUE, !.map[cm.sec] = PutFunction(@, f)]

\* apply g to the list of blocks of the current function
OnBlocks(cm, g(_)) ==
    LET at == SelectInSeq(cm.map[cm.sec], LAMBDA f : f.n = cm.fun)
    IN  [cm EXCEPT !.map[cm.sec][at].b = g(@)]

\* mutant: a label replaces the default block with the code in it
StartBlockOver(cm, l) ==
    LET start(bs) == IF Len(bs) = 1 /\ cm.auto
                     THEN <<Block(l)>> ELSE Append(bs, Block(l))
    IN  [OnBlocks(cm, start) EXCEPT !.auto = FALSE]

\* a label replaces the default block of the function while it is empty
StartBlock(cm, l) ==
    LET start(bs) == IF Len(bs) = 1 /\ bs[1].ins = <<>> /\ cm.auto
                     THEN <<Block(l)>> ELSE Append(bs, Block(l))
    IN  [OnBlocks(cm, start) EXCEPT !.auto = FALSE]

AddInstruction(cm, x) ==
    LET add(bs) == [bs EXCEPT ![Len(bs)].ins = Append(@, x)]
    IN  OnBlocks(cm, add)

\* one line of _CodeMapBuilder.create_code_map
MapLine(cm, x) ==
    LET l == x.line
        here == IF cm.fun = NoName /\ cm.sec # NoName
                THEN StartFunction(cm, ImplicitFunction(cm.sec)) ELSE cm
    IN  IF ~cm.ok THEN cm
        ELSE IF l.k = "section"
        THEN IF l.n \in DOMAIN ActorConf
             THEN [cm EXCEPT !.sec = l.n, !.fun = NoName]
             ELSE [cm EXCEPT !.ok = FALSE]
        ELSE IF cm.sec = NoName THEN [cm EXCEPT !.ok = FALSE]
        ELSE IF l.k = "function" THEN StartFunction(cm, l.n)
        ELSE IF l.k = "label" THEN StartBlock(here, l.n)
        ELSE AddInstruction(here, x)

CodeMap(f) == FoldLeft(MapLine, EmptyMap, CleanLines(f))

-----------------------------------------------------------------------------
(* The program: every block of the code map with its straight-line body,   *)
(* its terminators and its successors.                                     *)

IsTerminator(x) == x.line.k = "branch"
Terminators(b) == SelectSeq(b.ins, IsTerminator)
Body(b) == SelectSeq(b.ins, LAMBDA x : ~IsTerminator(x))

\* an instruction after a terminator of the same block is an error
TerminatorsLast(b) == Body(b) \o Terminators(b) = b.ins

IterFunctions(map) == FlattenSeq([i \in DOMAIN SectionOrder |-> map[SectionOrder[i]]])
IterBlocks(map) == LET fs == IterFunctions(map)
                   IN  FlattenSeq([i \in DOMAIN fs |-> fs[i].b])

FunctionExit(f) == <<"exit">> \o f

\* a jump that ends a block leaves no way to the next one
EndsInJump(b) == LET ts == Terminators(b)
                 IN  ts # <<>> /\ Last(ts).line.n = <<"jmp">>

\* the labels the terminators name; calls target functions and are skipped
TakenLabels(b) == {ts.line.t[1] : ts \in {x \in ToSet(Terminators(b)) :
                                              x.line.n # <<"call">>}}

\* mutant: no fall-through behind any terminator
SuccessorsTaken(map) ==
    LET bs == IterBlocks(map)
    IN  [i \in DOMAIN bs |->
            TakenLabels(bs[i])
            \cup {bs[j].n : j \in {j \in DOMAIN bs : j = i + 1 /\ Terminators(bs[i]) = <<>>}}]

\* _connect_control_flow: the fall-through goes to the next block of the
\* whole program, across functions and sections, and the last block of a
\* function also leads to the exit of the function
Successors(map) ==
    LET bs == IterBlocks(map)
        fs == IterFunctions(map)
        lastOf == {<<Last(fs[i].b).n, FunctionExit(fs[i].n)>> : i \in DOMAIN fs}
    IN  [i \in DOMAIN bs |->
            TakenLabels(bs[i])
            \cup {bs[j].n : j \in {j \in DOMAIN bs : j = i + 1 /\ ~EndsInJump(bs[i])}}
            \cup {p[2] : p \in {p \in lastOf : p[1] = bs[i].n}}]

LabelsKnown(map) ==
    LET bs == IterBlocks(map)
        known == {bs[i].n : i \in DOMAIN bs} \cup {Exit.n}
    IN  \A i \in DOMAIN bs : TakenLabels(bs[i]) \subseteq known

\* the instructions of the functions fs
InstructionsOf(fs) ==
    UNION {UNION {ToSet(fs[i].b[j].ins) : j \in DOMAIN fs[i].b} : i \in DOMAIN fs}
=============================================================================
