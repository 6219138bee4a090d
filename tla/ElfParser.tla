------------------------------ MODULE ElfParser ------------------------------
(***************************************************************************)
(* The object file of a test case and what src/rvzr/elf_parser.py reads    *)
(* from it: section and function identifiers, the instruction map (which   *)
(* instruction of the program is at an address) and the symbol table that  *)
(* src/rvzr/tc_components/test_case_binary.py writes for the executor.     *)
(*                                                                         *)
(* The assembler is external: it lays the code of a section out in file    *)
(* order, wherever the section was reopened, and keeps the sections in the *)
(* order in which they first appear.  An address is the number of machine  *)
(* instructions before it in its section.                                  *)
(***************************************************************************)
EXTENDS AsmProgram

(***************************************************************************)
(* The assembler.                                                          *)
(***************************************************************************)
\* the section that is open at line i
SectionAt(f, i) == LET s == SelectLastInSubSeq(f, 1, i, LAMBDA l : l.k = "section")
                   IN  IF s = 0 THEN NoName ELSE f[s].n

\* word w of the code that line pos is assembled to
Words(f, i) ==
    IF f[i].k = "macro" THEN [w \in 1 .. PerMacro |-> [pos |-> i, w |-> w]]
    ELSE IF EmitsCode(f[i]) \/ f[i].k = "exit" THEN <<[pos |-> i, w |-> 1]>>
    ELSE <<>>

\* the code of section a up to line n
TextUpTo(f, a, n) == FlattenSeq([i \in 1 .. n |->
                        IF SectionAt(f, i) = a THEN Words(f, i) ELSE <<>>])
Text(f, a) == TextUpTo(f, a, Len(f))
Offset(f, i) == Len(TextUpTo(f, SectionAt(f, i), i - 1))

ElfSections(f) ==
    LET ss == SelectSeq(f, LAMBDA l : l.k = "section")
        firsts == SelectSeq([i \in DOMAIN ss |-> [n |-> ss[i].n, i |-> i]],
                            LAMBDA x : \A j \in 1 .. x.i - 1 : ss[j].n # x.n)
    IN  [i \in DOMAIN firsts |-> firsts[i].n]

\* the function symbols of a section, in the order of their offsets
FunctionLines(f, a) ==
    SelectSeq([i \in DOMAIN f |-> i],
              LAMBDA i : f[i].k = "function" /\ SectionAt(f, i) = a)

\* a symbol that is defined twice does not assemble
Assembles(f) ==
    \A i, j \in DOMAIN f :
        (i # j /\ f[i].k \in {"function", "label", "exit"} /\ f[j].k = f[i].k)
            => f[j].n # f[i].n

-----------------------------------------------------------------------------
(* Identifiers: consecutive, in the order of the object file.              *)

SectionId(f, a) == SelectInSeq(ElfSections(f), LAMBDA s : s = a) - 1

SymtabFunctions(f) ==
    LET ss == ElfSections(f)
    IN  FlattenSeq([i \in DOMAIN ss |-> FunctionLines(f, ss[i])])

\* mutant: functions are numbered anew in every section
FunctionIdInSection(f, n) ==
    LET i == SelectInSeq(f, LAMBDA l : l = Func(n))
    IN  SelectInSeq(FunctionLines(f, SectionAt(f, i)), LAMBDA j : j = i) - 1

FunctionId(f, n) == SelectInSeq(SymtabFunctions(f), LAMBDA i : f[i].n = n) - 1

-----------------------------------------------------------------------------
(* Macros.  A macro has up to two symbolic arguments, an actor and a       *)
(* function; directions are the four mode switches.                        *)

Directions == {"k2u", "u2k", "h2g", "g2h"}
SetTarget == [d \in Directions |-> CASE d = "k2u" -> "set_k2u_target"
                                     [] d = "u2k" -> "set_u2k_target"
                                     [] d = "h2g" -> "set_h2g_target"
                                     [] d = "g2h" -> "set_g2h_target"]
LandingOf == [d \in Directions |-> CASE d = "k2u" -> "landing_k2u"
                                     [] d = "u2k" -> "landing_u2k"
                                     [] d = "h2g" -> "landing_h2g"
                                     [] d = "g2h" -> "landing_g2h"]

MacroArgs(f, l) ==
    [i \in DOMAIN l.t |-> IF i = 1 THEN SectionId(f, l.t[i])
                                   ELSE FunctionId(f, l.t[i])]

\* every actor and function that the macro names is in the symbol table
MacroResolves(f, l) ==
    /\ Len(l.t) >= 1 => \E i \in DOMAIN ElfSections(f) : ElfSections(f)[i] = l.t[1]
    /\ Len(l.t) = 2 => \E i \in DOMAIN f : f[i].k = "function" /\ f[i].n = l.t[2]

\* _validate_macros: as written, a target is refused only if both its
\* privilege level and its mode are wrong
MacroTargetOk(l) ==
    \A d \in Directions : IsMacro(l, SetTarget[d]) =>
        LET actor == ActorConf[l.t[1]] IN
        ~(CASE d = "k2u" -> actor.pl # "user" /\ actor.mode # "host"
            [] d = "u2k" -> actor.pl # "kernel" /\ actor.mode # "host"
            [] d = "h2g" -> actor.mode # "host" /\ actor.pl # "kernel"
            [] d = "g2h" -> actor.mode # "guest" /\ actor.pl # "kernel")

-----------------------------------------------------------------------------
(* The checks of the parsed program.                                       *)

MacrosOf(fs) == {x \in InstructionsOf(fs) : x.line.k = "macro"}

\* a set_*_target macro names a function that begins with the right landing
LandingSitesOk(map) ==
    LET fs == IterFunctions(map) IN
    \A x \in MacrosOf(fs) : \A d \in Directions :
        IsMacro(x.line, SetTarget[d]) =>
            LET at == SelectInSeq(fs, LAMBDA g : g.n = x.line.t[2])
            IN  /\ at # 0
                /\ Body(fs[at].b[1]) # <<>>
                /\ IsMacro(Body(fs[at].b[1])[1].line, LandingOf[d])

FaultHandlerOk(map) ==
    Cardinality({x \in MacrosOf(IterFunctions(map)) :
                    IsMacro(x.line, "fault_handler")}) <= 1

DataPermissionsOk(map) ==
    \A a \in DOMAIN map : \A x \in MacrosOf(map[a]) :
        IsMacro(x.line, "set_data_permissions") =>
            ActorConf[a] = [mode |-> "host", pl |-> "kernel"]

-----------------------------------------------------------------------------
(* _assign_bin_metadata: a cursor walks the machine code of a section      *)
(* while the functions of the symbol table are taken in their order.       *)

\* the function object of that name; every symbol must have one
FunctionNamed(map, n) == SelectSeq(IterFunctions(map), LAMBDA g : g.n = n)

\* the instructions of a function, in the order of its blocks
FunctionCode(g) == FlattenSeq([i \in DOMAIN g.b |-> Body(g.b[i]) \o Terminators(g.b[i])])

Size(x) == IF x.line.k = "macro" THEN PerMacro ELSE 1

\* _assign_instruction_metadata: the instruction gets the address of the
\* cursor and the map an entry for each of its words
PlaceInstruction(acc, x) ==
    [acc EXCEPT !.imap = @ \o [w \in 1 .. Size(x) |-> [pos |-> x.pos, w |-> w]],
                !.code = Append(@, [x |-> x, off |-> Len(acc.imap)])]

\* one function: its symbol must have the address of the cursor
WalkFunction(f, map, a, acc, i) ==
    LET g == FunctionNamed(map, f[i].n)
        starts == Offset(f, i) = Len(acc.imap) /\ Len(acc.imap) < Len(Text(f, a))
    IN  IF ~acc.ok \/ g = <<>> \/ ~starts THEN [acc EXCEPT !.ok = FALSE]
        ELSE FoldLeft(PlaceInstruction, acc, FunctionCode(g[1]))

WalkSection(f, map, a) ==
    FoldLeft(LAMBDA acc, i : WalkFunction(f, map, a, acc, i),
             [imap |-> <<>>, code |-> <<>>, ok |-> TRUE], FunctionLines(f, a))

\* The exit NOP is entered in the first section of the object file, after
\* the instructions already there; the address is looked up in that section,
\* and only .data.main is sure to have one.
ExitFits(f, walks) == LET s == ElfSections(f)[1]
                      IN  s = Main \/ Len(walks[1].imap) < Len(Text(f, s))

WithExit(f, walks) ==
    LET e == SelectInSeq(f, LAMBDA l : l.k = "exit")
    IN  [i \in DOMAIN walks |->
            IF i = 1 THEN Append(walks[i].imap, [pos |-> e, w |-> 1])
                     ELSE walks[i].imap]

\* a function's symbol: its argument is the identifier
FunctionSymbol(f, i) ==
    [sid |-> SectionId(f, SectionAt(f, i)), off |-> Offset(f, i), pos |-> i,
     type |-> "function", arg |-> <<FunctionId(f, f[i].n)>>]

MacroSymbol(f, sid, c) ==
    [sid |-> sid, off |-> c.off, pos |-> c.x.pos, type |-> "macro",
     arg |-> MacroArgs(f, c.x.line)]

WalkedMacros(walk) == {c \in ToSet(walk.code) : c.x.line.k = "macro"}

\* save_rcbf: first the functions by identifier, then the macros by section
\* and offset
Rcbf(f, walks) ==
    LET funcs == {FunctionSymbol(f, i) : i \in ToSet(SymtabFunctions(f))}
        macros == UNION {{MacroSymbol(f, s - 1, c) : c \in WalkedMacros(walks[s])} :
                            s \in DOMAIN walks}
    IN  SetToSortSeq(funcs, LAMBDA s, t : s.arg[1] < t.arg[1])
        \o SetToSortSeq(macros, LAMBDA s, t : \/ s.sid < t.sid
                                              \/ s.sid = t.sid /\ s.off < t.off)

\* populate_elf_data: the assertions on the way and the final validations
ElfDataOk(f, walks) ==
    LET macros == {c.x.line : c \in UNION {WalkedMacros(walks[s]) : s \in DOMAIN walks}}
    IN  /\ \A s \in DOMAIN walks : walks[s].ok
        /\ \A l \in macros : MacroResolves(f, l)
        /\ ExitFits(f, walks)
        /\ Len(ElfSections(f)) = Len(SectionOrder)
        /\ \A l \in macros : MacroTargetOk(l)

PopulateElf(f, map) ==
    LET ss == ElfSections(f)
        walks == [i \in DOMAIN ss |-> WalkSection(f, map, ss[i])]
    IN  IF ElfDataOk(f, walks)
        THEN [ok |-> TRUE, imap |-> WithExit(f, walks), rcbf |-> Rcbf(f, walks)]
        ELSE [ok |-> FALSE, imap |-> <<>>, rcbf |-> <<>>]
=============================================================================
