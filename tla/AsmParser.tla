------------------------------ MODULE AsmParser ------------------------------
(***************************************************************************)
(* Loading a test case from an assembly file: AsmParser.parse_file of      *)
(* src/rvzr/asm_parser.py, from the file that a user, a template or the    *)
(* generator wrote to the binary that the executor is given.  The result   *)
(* is stored as the patched file, which the minimizer and the reproducer   *)
(* load again: the second pass of the model.                               *)
(***************************************************************************)
EXTENDS ElfParser

CONSTANTS
    Vocabulary,     \* the lines an author may write
    Endings,        \* how the file may end
    MaxLines        \* bound: lines between the first section and the exit

VARIABLES
    step,       \* where parse_file is
    pass,       \* 1: the author's file; 2: the patched file of the first pass
    file,       \* the input file
    patched,    \* the patched file
    nums,       \* line number given to each patched line
    cmap,       \* sections, functions, blocks and instructions
    elf,        \* instruction map and symbol table
    first       \* the results of the first pass, <<>> before

vars == <<step, pass, file, patched, nums, cmap, elf, first>>

NoElf == [ok |-> FALSE, imap |-> <<>>, rcbf |-> <<>>]
Parsed == [patched |-> patched, cmap |-> cmap, elf |-> elf]

Init ==
    /\ step = "write" /\ pass = 1 /\ file = <<Section(Main)>>
    /\ patched = <<>> /\ nums = <<>> /\ cmap = EmptyMap.map /\ elf = NoElf
    /\ first = <<>>

\* the environment: the author adds a line, or ends the file
WriteLine ==
    /\ step = "write" /\ Len(file) <= MaxLines
    /\ \E l \in Vocabulary : /\ Assembles(Append(file, l))
                             /\ file' = Append(file, l)
    /\ UNCHANGED <<step, pass, patched, nums, cmap, elf, first>>

EndFile ==
    /\ step = "write"
    /\ step' = "patch"
    /\ \E e \in Endings : file' = file \o e
    /\ UNCHANGED <<pass, patched, nums, cmap, elf, first>>

Reject(ok, next) == step' = IF ok THEN next ELSE "rejected"

\* patch the file and renumber its lines
PatchFile ==
    /\ step = "patch"
    /\ patched' = PatchAsm(file)
    /\ nums' = LineNumbers(file, patched').num
    /\ Reject(LineNumbers(file, patched').ok /\ WellEnded(patched'), "map")
    /\ UNCHANGED <<pass, file, cmap, elf, first>>

CreateCodeMap ==
    /\ step = "map"
    /\ cmap' = CodeMap(patched).map
    /\ Reject(CodeMap(patched).ok, "fill")
    /\ UNCHANGED <<pass, file, patched, nums, elf, first>>

\* fill the program, connect its blocks and check it
FillTestCase ==
    /\ step = "fill"
    /\ Reject(/\ \A i \in DOMAIN IterBlocks(cmap) : TerminatorsLast(IterBlocks(cmap)[i])
              /\ LabelsKnown(cmap)
              /\ LandingSitesOk(cmap)
              /\ FaultHandlerOk(cmap)
              /\ DataPermissionsOk(cmap), "assemble")
    /\ UNCHANGED <<pass, file, patched, nums, cmap, elf, first>>

AssembleAndPopulate ==
    /\ step = "assemble"
    /\ elf' = IF Assembles(patched) THEN PopulateElf(patched, cmap) ELSE NoElf
    /\ Reject(elf'.ok, "done")
    /\ UNCHANGED <<pass, file, patched, nums, cmap, first>>

\* the stored program is loaded again
LoadStored ==
    /\ step = "done" /\ pass = 1
    /\ pass' = 2 /\ step' = "patch"
    /\ file' = patched /\ first' = <<Parsed>>
    /\ patched' = <<>> /\ nums' = <<>> /\ cmap' = EmptyMap.map /\ elf' = NoElf

Next ==
    \/ WriteLine
    \/ EndFile
    \/ PatchFile
    \/ CreateCodeMap
    \/ FillTestCase
    \/ AssembleAndPopulate
    \/ LoadStored

Spec == Init /\ [][Next]_vars
-----------------------------------------------------------------------------
(***************************************************************************)
(* Properties.                                                             *)
(***************************************************************************)
\* code that comes after a .section line with no function of its own: the
\* code map gives it a function that the object file has no symbol for
ImplicitCode ==
    \E a \in DOMAIN cmap : \E i \in DOMAIN cmap[a] :
        /\ cmap[a][i].n = ImplicitFunction(a)
        /\ \E j \in DOMAIN cmap[a][i].b : cmap[a][i].b[j].ins # <<>>

Accepted == step = "done" /\ ~ImplicitCode

\* The instruction map is the machine code: at every address of every
\* section the ELF parser finds the instruction of the very line that the
\* assembler put there, the words of a macro and the exit NOP included,
\* however sections were reopened and blocks and functions were cut.
\* (elf_parser.py _assign_bin_metadata, asm_parser.py _CodeMapBuilder)
InstructionMapExact ==
    Accepted => \A s \in DOMAIN ElfSections(patched) :
                    elf.imap[s] = Text(patched, ElfSections(patched)[s])

\* the instruction map with lines in the place of line positions
MappedLines(r) ==
    [s \in DOMAIN r.elf.imap |-> [k \in DOMAIN r.elf.imap[s] |->
        <<r.patched[r.elf.imap[s][k].pos], r.elf.imap[s][k].w>>]]

\* Loading the stored program changes nothing: the patched file is accepted
\* again and gives the same program, symbol table and instruction map, and
\* every instruction is then numbered with its own place in the file.  (The
\* patcher does add one more .section line before the exit.)
\* (asm_parser.py patch_asm, _update_lines_after_patch)
StoredProgramStable ==
    pass = 2 =>
        /\ step # "rejected"
        /\ step # "patch" => \A i \in DOMAIN patched :
                                EmitsCode(patched[i]) => nums[i] = i - 1
        /\ step = "done" => /\ cmap = first[1].cmap
                            /\ elf.rcbf = first[1].elf.rcbf
                            /\ MappedLines(Parsed) = MappedLines(first[1])

\* The symbol table denotes the program: every macro is in it, at the address
\* where its code is, and its arguments select the section and, by its index
\* in the table, the entry of the function that the line names.
\* (elf_parser.py _assign_macro_metadata, test_case_binary.py save_rcbf)
SymbolsDenote ==
    Accepted =>
        /\ \A i \in DOMAIN patched : patched[i].k = "macro" =>
             \E s \in DOMAIN elf.rcbf : elf.rcbf[s].pos = i
        /\ \A s \in DOMAIN elf.rcbf :
             LET e == elf.rcbf[s]
                 l == patched[e.pos]
             IN  /\ ElfSections(patched)[e.sid + 1] = SectionAt(patched, e.pos)
                 /\ e.off = Offset(patched, e.pos)
                 /\ e.type = "macro" /\ l.t # <<>> =>
                        ElfSections(patched)[e.arg[1] + 1] = l.t[1]
                 /\ e.type = "macro" /\ Len(l.t) = 2 =>
                        patched[elf.rcbf[e.arg[2] + 1].pos] = Func(l.t[2])

\* the blocks that execution can reach next after block b, through blocks
\* that hold no code
RECURSIVE ReachedFrom(_, _)
ReachedFrom(names, seen) ==
    LET bs == IterBlocks(cmap)
        empty == {i \in DOMAIN bs : bs[i].n \in names /\ bs[i].ins = <<>>}
        next == UNION {Successors(cmap)[i] : i \in empty} \ seen
    IN  IF next = {} THEN names ELSE names \cup ReachedFrom(next, seen \cup next)

\* The successors of a block cover the machine: when the last instruction of
\* a block is not a jump, the block of the instruction at the next address is
\* a successor, possibly through empty blocks.
\* (asm_parser.py _connect_control_flow)
FlowCovered ==
    Accepted =>
        LET bs == IterBlocks(cmap)
            blockOf(p) == CHOOSE i \in DOMAIN bs : \E x \in ToSet(bs[i].ins) : x.pos = p
        IN  \A a \in DOMAIN cmap :
              LET t == Text(patched, a) IN
              \A k \in 1 .. Len(t) - 1 :
                (/\ patched[t[k].pos].k # "exit" /\ patched[t[k + 1].pos].k # "exit"
                 /\ blockOf(t[k].pos) # blockOf(t[k + 1].pos)
                 /\ patched[t[k].pos].n # <<"jmp">>) =>
                    bs[blockOf(t[k + 1].pos)].n
                        \in ReachedFrom(Successors(cmap)[blockOf(t[k].pos)], {})
=============================================================================
