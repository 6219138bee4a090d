------------------------------ MODULE Tracers ------------------------------
(***************************************************************************)
(* The tracers of the contract model: what an instruction and a memory     *)
(* access add to the contract trace, and what they taint, under each       *)
(* observation clause.  A trace is a sequence of typed entries.  Addresses *)
(* of code count instructions, and the two cells of the sandbox lie on     *)
(* different pages, so that they are different cache lines.                *)
(***************************************************************************)
EXTENDS TaintTracker

Observations == {"none", "l1d", "pc", "memory", "ct", "ct-nonspecstore", "arch", "tct", "tcto"}

(* The clauses that do not look at the program counter, and at memory. *)
NoPc == {"none", "l1d", "memory"}
NoMem == {"none", "pc"}

(* How many instructions a cache line of code holds, scaled down. *)
InsnsPerLine == 2
LineOf(pc) == pc \div InsnsPerLine

(* The entries of an instruction: its address or its line, and the next    *)
(* line if it ends there.                                                  *)
PcEntries(obs, pc) ==
    CASE obs \in NoPc -> <<>>
      [] obs = "tct" -> <<<<"pc", LineOf(pc)>>>>
      [] obs = "tcto" ->
            <<<<"pc", LineOf(pc)>>>> \o
            IF LineOf(pc + 1) # LineOf(pc) THEN <<<<"pc", LineOf(pc + 1)>>>> ELSE <<>>
      [] OTHER -> <<<<"pc", pc>>>>

(* The entries of an access.  TruncatedCTWithOverflowsTracer compares the  *)
(* offsets of start and end in their lines, which always differ, so that   *)
(* every access has two entries.                                           *)
MemEntries(obs, c, is_write, in_speculation) ==
    CASE obs \in NoMem -> <<>>
      [] obs = "ct-nonspecstore" /\ in_speculation /\ is_write -> <<>>
      [] obs = "tcto" -> <<<<"mem", c>>, <<"mem", c>>>>
      [] OTHER -> <<<<"mem", c>>>>

(* ArchTracer: the registers at the first instruction.  Its _started says  *)
(* that the trace has a beginning.                                         *)
RegEntries(reg) == <<<<"val", reg["A"]>>, <<"val", reg["C"]>>>>

-----------------------------------------------------------------------------
(* observe_instruction: the trace tr grows, and the tracker t is tainted.  *)
TraceInstruction(obs, tracing, tr, pc, reg) ==
    (IF obs = "arch" /\ tr = <<>> THEN RegEntries(reg) ELSE tr)
        \o (IF tracing THEN PcEntries(obs, pc) ELSE <<>>)

TaintInstruction(obs, tracing, t) ==
    IF tracing /\ obs \notin NoPc THEN TaintPc(t) ELSE t

(* observe_mem_access *)
TraceMemAccess(obs, tracing, tr, c, is_write, in_speculation, value) ==
    IF ~tracing THEN tr
    ELSE tr \o (IF obs = "arch" /\ ~is_write THEN <<<<"val", value>>>> ELSE <<>>)
            \o MemEntries(obs, c, is_write, in_speculation)

(* The loaded value is tainted even where nothing is recorded. *)
TaintMemAccess(obs, tracing, t, c, is_write, in_speculation) ==
    LET u == IF obs = "arch" /\ ~is_write THEN TaintLoaded(t) ELSE t
    IN IF tracing /\ MemEntries(obs, c, is_write, in_speculation) # <<>>
       THEN TaintMem(u) ELSE u

=============================================================================
