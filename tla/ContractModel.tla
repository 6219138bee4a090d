--------------------------- MODULE ContractModel ---------------------------
(***************************************************************************)
(* The contract model on the Unicorn backend: UnicornModel executes a test *)
(* case with an input and collects the contract trace and the taints,      *)
(* while a speculator makes the emulator leave the architectural path, and *)
(* rolls it back, and the interpreter switches between actors.  The first  *)
(* input is traced with taints, the second one is boosted from it and      *)
(* traced without, as in a round of the fuzzer.                            *)
(*                                                                         *)
(* The emulator calls the hook of an instruction, executes it (calling the *)
(* hook of its memory access), and stops on a fault, at the exit and on    *)
(* emu_stop; _run_state_machine then decides where to go on.               *)
(***************************************************************************)
EXTENDS Tracers, SequencesExt

CONSTANTS
    Tests,           \* the test cases, each with the configuration it is traced with
    MaxNesting,      \* the nesting that trace_test_case is called with
    MaxSpecWindow    \* CONF.model_max_spec_window

SpeculatorNames == {"seq", "cond", "bpas", "cond-bpas", "seq-assist", "deh",
                    "nullinj-fault", "nullinj-assist", "meltdown"}
NullSpeculators == {"nullinj-fault", "nullinj-assist"}
AssistSpeculators == {"seq-assist", "nullinj-assist"}

(* The rules for a test case with a second actor (docs/ref/macros.md): the *)
(* entry and the exit point are set before the switch that uses them, where *)
(* no branch skips it, and the code of the second actor ends with the      *)
(* switch back.  Here main switches once.                                  *)
Uses(code, insns) == \E i \in DOMAIN code : code[i] \in insns
SetBefore(t, i, setters) ==
    \E j \in 1..(i - 1) : t.body[j] \in setters /\ (j > 1 => t.body[j - 1] \notin Branches)

ActorsWellFormed(t) ==
    /\ \E i \in DOMAIN t.body :
          /\ \A j \in DOMAIN t.body : t.body[j] \in SwitchesThere => j = i
          /\ t.body[i] \in SwitchesThere
          /\ t.body[i] = "switch_k2u" => SetBefore(t, i, {"set_k2u_target", "set_k2u_target_f2"})
          /\ t.body[i] = "switch_h2g" => SetBefore(t, i, {"set_h2g_target"})
          /\ Uses(t.other, {"switch_u2k"}) => SetBefore(t, i, {"set_u2k_target"})
          /\ Uses(t.other, {"switch_g2h"}) => SetBefore(t, i, {"set_g2h_target"})
    /\ t.other[Len(t.other)] \in {"switch", "switch_u2k", "switch_g2h"}
    /\ ~Uses(t.other, {"switch_k2u", "switch_h2g"})
    /\ \A code \in {t.body, t.other} : Uses(code, {"set_k2u_target_f2"}) => Len(t.other) > 1

(* The sections of the actors do not overlap. *)
WellFormed(t) ==
    /\ ExitAddr(t) < OtherStart
    /\ ~Uses(t.body, {"switch_u2k", "switch_g2h"})
    /\ IF t.other = <<>> THEN ~Uses(t.body, Macros) ELSE ActorsWellFormed(t)

(* pte: the page table entry of the faulty page.                           *)
(* handler: faults go to the exit, or to a handler with code before it.    *)
ASSUME ModelAssumption ==
    /\ \A t \in Tests : /\ t.body \in Seq(Instructions \ {"measurement_start", "measurement_end"})
                        /\ t.other \in Seq({i \in Instructions : Insn[i].access = "none"})
                        /\ t.mode \in {"user", "guest"} /\ t.amd \in BOOLEAN
                        /\ t.contract \in SpeculatorNames /\ t.obs \in Observations
                        /\ t.pte \subseteq PteBits
                        /\ t.handler \in {"exit", "end"}
                        /\ WellFormed(t)
    /\ MaxNesting \in Nat /\ MaxSpecWindow \in Nat

VARIABLES
    test,
    run,       \* 1: trace_test_case_with_taints, 2: trace_test_case
    input,
    phase,     \* where _run_state_machine is
    pc,
    reg,
    mem,
    perm,      \* the permissions of the faulty page: none, ro or rw
    mode,      \* the state of the interpreter
    fault,     \* state.pending_fault
    had_arch_fault,
    spec,      \* the state of UnicornSpeculator
    sub,       \* the state of its subclasses
    tracker,
    trace,
    tracing,   \* tracer.enable_tracing
    first      \* the trace of the first input

machine == <<pc, reg, mem, perm, mode, fault, had_arch_fault>>
vars == <<test, run, input, phase, machine, spec, sub, tracker, trace, tracing, first>>

Exit == ExitAddr(test)
Handler == IF test.handler = "exit" THEN Exit ELSE EndAddr(test)
InsnAt(a) == InsnOf(test, a)

(* _checkpoints, _store_logs, _in_speculation and _speculation_window. *)
FreshSpec == [ckpts |-> <<>>, logs |-> <<>>, in_speculation |-> FALSE, window |-> 0]

(* _previous_store of the store bypass, _dependencies and their            *)
(* checkpoints of DEH, _curr_load and the two flags of null injection.     *)
FreshSub == [store |-> <<>>, deps |-> {}, dep_ckpts |-> <<>>, load |-> <<>>,
             re_execute |-> FALSE, restore |-> FALSE]

Init ==
    /\ test \in Tests
    /\ run = 1
    /\ input \in Inputs
    /\ phase = "load"
    /\ pc = CodeStart /\ reg = input.reg /\ mem = input.mem
    /\ perm = "rw" /\ mode = FreshMode(test)
    /\ fault = "none" /\ had_arch_fault = FALSE
    /\ spec = FreshSpec /\ sub = FreshSub
    /\ tracker = FreshTracker(TRUE, InitialObservations(test.obs))
    /\ trace = <<>> /\ tracing = FALSE /\ first = <<>>

-----------------------------------------------------------------------------
(* Checkpoints. *)

MaxNestingReached == Len(spec.ckpts) >= MaxNesting

(* _checkpoint: the registers r, the base of the data area among them,     *)
(* with the address to go on from.                                         *)
Checkpointed(s, r, next) ==
    [s EXCEPT !.ckpts = Append(@, [reg |-> r, base |-> mode.base, next |-> next,
                                   window |-> s.window]),
              !.logs = Append(@, <<>>),
              !.in_speculation = TRUE]

(* A store is logged with the value that it replaces. *)
Logged(s, c, value) ==
    [s EXCEPT !.logs[Len(s.logs)] = Append(@, <<c, value>>)]

Entries(log, c) == {i \in DOMAIN log : log[i][1] = c}

(* Mutant of Undone: from the beginning, the youngest entry decides. *)
UndoneForward(log, m) ==
    [c \in Cells |-> IF Entries(log, c) = {} THEN m[c] ELSE log[Max(Entries(log, c))][2]]

(* The log is undone from its end: the oldest entry of a cell decides. *)
Undone(log, m) ==
    [c \in Cells |-> IF Entries(log, c) = {} THEN m[c] ELSE log[Min(Entries(log, c))][2]]

(* rollback of UnicornSpeculator and of its subclasses.  The actor is that *)
(* of the next instruction when _run_state_machine goes on; X86UnicornNull *)
(* opens the page of the actor that was executing.                         *)
Rollback ==
    LET top == Last(spec.ckpts)
    IN /\ pc' = top.next
       /\ reg' = top.reg
       /\ mem' = Undone(Last(spec.logs), mem)
       /\ perm' = IF test.contract \in NullSpeculators /\ mode.actor = 0 THEN "rw" ELSE perm
       /\ mode' = [ModeAt(mode, top.next) EXCEPT !.base = top.base]
       /\ spec' = [ckpts |-> Front(spec.ckpts), logs |-> Front(spec.logs),
                   in_speculation |-> Len(spec.ckpts) > 1, window |-> top.window]
       /\ sub' = [sub EXCEPT !.store = <<>>,
                             !.deps = IF test.contract = "deh" THEN Last(sub.dep_ckpts) ELSE @,
                             !.dep_ckpts = IF test.contract = "deh" THEN Front(@) ELSE @]
       /\ tracker' = TrackerRollback(tracker)
       /\ phase' = "enter"
       /\ UNCHANGED <<test, run, input, fault, had_arch_fault, trace, tracing, first>>

-----------------------------------------------------------------------------
(* _execute_test_case_with_inputs: reset the services, load the input. *)
LoadInput ==
    /\ phase = "load"
    /\ phase' = "enter"
    /\ pc' = CodeStart /\ reg' = input.reg /\ mem' = input.mem
    /\ perm' = PermAfterLoad(test, perm) /\ mode' = ModeAfterLoad(mode)
    /\ fault' = "none" /\ had_arch_fault' = FALSE
    /\ spec' = FreshSpec
    /\ sub' = [sub EXCEPT !.store = <<>>]
    /\ tracker' = FreshTracker(run = 1, InitialObservations(test.obs))
    /\ trace' = <<>> /\ tracing' = FALSE
    /\ UNCHANGED <<test, run, input, first>>

(* The head of the loop of _run_state_machine. *)
Enter ==
    /\ phase = "enter"
    /\ IF pc # CodeStart /\ spec.in_speculation /\ pc \in {Exit, Handler}
       THEN Rollback
       ELSE /\ phase' = IF pc = Exit THEN "finished" ELSE "hook"
            /\ fault' = "none"
            /\ mode' = ModeAt(mode, pc)
            /\ UNCHANGED <<test, run, input, pc, reg, mem, perm, had_arch_fault, spec, sub,
                           tracker, trace, tracing, first>>

(* The trace and the taint of the input are recorded; the next input is    *)
(* boosted from the first one.                                             *)
RecordTrace ==
    /\ phase = "finished"
    /\ IF run = 1
       THEN /\ run' = 2 /\ phase' = "load" /\ first' = trace
            /\ input' \in Boosted(input, GetTaint(tracker))
       ELSE phase' = "done" /\ UNCHANGED <<run, first, input>>
    /\ UNCHANGED <<test, machine, spec, sub, tracker, trace, tracing>>

-----------------------------------------------------------------------------
(* The hook of an instruction. *)

(* The window of speculation, and whether it or a barrier stops here. *)
WithWindow == [spec EXCEPT !.window = IF spec.in_speculation THEN @ + 1 ELSE @]
Stops == /\ spec.in_speculation
         /\ InsnAt(pc) = "fence" \/ WithWindow.window > MaxSpecWindow

(* What a speculator does in _speculate_instruction: the next pc, with     *)
(* "execute" if the emulator goes on with this instruction.  Then comes    *)
(* the interpreter, whether the emulator is told to stop or not.           *)
Outcome(next, execute, s, r, m, w, b, t) ==
    LET x == Interpret(test, InsnAt(pc), [pc |-> next, reg |-> r, mode |-> mode])
        f == SoftFault(test, InsnAt(pc), mode.actor)
    IN /\ phase' = CASE Stops \/ f # "none" -> "stopped"
                     [] ~Stops /\ f = "none" /\ execute /\ x.pc = pc -> "execute"
                     [] OTHER -> "hook"
       /\ pc' = x.pc /\ reg' = x.reg /\ mode' = x.mode
       /\ fault' = f
       /\ spec' = s /\ mem' = m /\ perm' = w /\ sub' = b /\ tracker' = t

NoSpeculation(t) == Outcome(pc, TRUE, WithWindow, reg, mem, perm, sub, t)

(* X86CondSpeculator: go where the branch does not go.  A branch to the    *)
(* next instruction decodes to displacement 0 and is not recognised.       *)
Mispredict(t) ==
    LET insn == InsnAt(pc)
        r == IF insn = "loop" THEN Decremented(reg) ELSE reg
        target == Target(test, pc)
    IN IF MaxNestingReached \/ insn \notin Branches \/ target = pc + 1
       THEN NoSpeculation(t)
       ELSE LET jumps == WillJump(insn, reg)
            IN Outcome(IF jumps THEN pc + 1 ELSE target, FALSE,
                       Checkpointed(WithWindow, r, IF jumps THEN target ELSE pc + 1),
                       r, mem, perm, sub, TrackerCheckpoint(t, TRUE))

(* Mutant of BypassStore: at the deepest level the store stays pending. *)
BypassStoreKeepsPending(t) ==
    LET cleared == [sub EXCEPT !.store = <<>>]
    IN IF MaxNestingReached \/ sub.store = <<>>
       THEN NoSpeculation(t)
       ELSE Outcome(pc, TRUE,
                    Logged(Checkpointed(WithWindow, reg, pc), sub.store[1], sub.store[3]),
                    reg, [mem EXCEPT ![sub.store[1]] = sub.store[2]], perm, cleared,
                    TrackerCheckpoint(t, FALSE))

(* StoreBpasSpeculator: the store of the previous instruction is taken     *)
(* back, and its value is logged, so that a rollback redoes it.            *)
BypassStore(t) ==
    LET cleared == [sub EXCEPT !.store = <<>>]
    IN IF MaxNestingReached \/ sub.store = <<>>
       THEN Outcome(pc, TRUE, WithWindow, reg, mem, perm, cleared, t)
       ELSE Outcome(pc, TRUE,
                    Logged(Checkpointed(WithWindow, reg, pc), sub.store[1], sub.store[3]),
                    reg, [mem EXCEPT ![sub.store[1]] = sub.store[2]], perm, cleared,
                    TrackerCheckpoint(t, FALSE))

(* UnicornDEH: skip what depends on a faulting instruction, except an      *)
(* access to memory at an address that does not.                           *)
SkipDependent(t) ==
    LET op == Insn[InsnAt(pc)]
        sources == op.src \cup op.addr
        dependent == sources \cap sub.deps # {}
        kept == sub.deps \ (op.dst \ sources)
        skipped == /\ dependent
                   /\ op.access = "none" \/ op.addr \cap sub.deps # {}
    IN IF ~spec.in_speculation \/ sub.deps = {}
       THEN NoSpeculation(t)
       ELSE Outcome(IF skipped THEN pc + 1 ELSE pc, ~skipped, WithWindow, reg, mem, perm,
                    [sub EXCEPT !.deps = IF dependent THEN kept \cup op.dst ELSE kept], t)

(* X86UnicornNull: the protection of the page comes back after the         *)
(* instruction that faulted was executed again.                            *)
RestoreProtection(t) ==
    LET again == sub.re_execute
        back == sub.restore /\ ~again
    IN Outcome(pc, TRUE, WithWindow, reg, mem, IF back THEN PagePermissions(test) ELSE perm,
               [sub EXCEPT !.re_execute = FALSE, !.restore = again, !.load = <<>>], t)

SpeculateInstruction(t) ==
    CASE test.contract = "cond" -> Mispredict(t)
      [] test.contract \in {"bpas", "cond-bpas"} -> BypassStore(t)
      [] test.contract = "deh" -> SkipDependent(t)
      [] test.contract \in NullSpeculators -> RestoreProtection(t)
      [] OTHER -> NoSpeculation(t)

(* instruction_callback and instruction_dispatch: the tracker, the tracer, *)
(* the speculator and the interpreter of macros, in this order.            *)
InstructionHook ==
    /\ phase = "hook"
    /\ pc # Exit
    /\ LET tracked == TrackInstruction(tracker, InsnAt(pc))
       IN SpeculateInstruction(TaintInstruction(test.obs, tracing, tracked))
    /\ trace' = TraceInstruction(test.obs, tracing, trace, pc, reg)
    /\ tracing' = TracingAfter(InsnAt(pc), spec'.in_speculation, tracing)
    /\ UNCHANGED <<test, run, input, had_arch_fault, first>>

ReachExit ==
    /\ phase = "hook"
    /\ pc = Exit
    /\ phase' = "stopped"
    /\ UNCHANGED <<test, run, input, machine, spec, sub, tracker, trace, tracing, first>>

-----------------------------------------------------------------------------
(* The execution of an instruction. *)

(* Mutant of LoggedAccess: off by one, the first level is not logged. *)
LoggedAccessNested(c, is_write) ==
    IF is_write /\ Len(spec.logs) > 1 THEN Logged(spec, c, mem[c]) ELSE spec

(* handle_mem_access and _speculate_mem_access. *)
LoggedAccess(c, is_write) ==
    IF is_write /\ spec.logs # <<>> THEN Logged(spec, c, mem[c]) ELSE spec

NotedAccess(c, is_write) ==
    CASE is_write /\ test.contract = "bpas" ->
            [sub EXCEPT !.store = <<c, mem[c], Stored(InsnAt(pc), reg)>>]
      [] ~is_write /\ test.contract \in NullSpeculators -> [sub EXCEPT !.load = <<c>>]
      [] OTHER -> sub

(* mem_access_callback runs before the access is checked.  A second store  *)
(* of one instruction, and an access of an untracked one, end the program. *)
MemAccess ==
    LET insn == InsnAt(pc)
        c == Address(insn, reg)
        is_write == Insn[insn].access = "write"
        tracked == TrackMemoryAccess(tracker, c, is_write)
    IN IF Insn[insn].access = "none"
       THEN UNCHANGED <<spec, sub, tracker, trace>>
       ELSE /\ spec' = LoggedAccess(c, is_write)
            /\ sub' = NotedAccess(c, is_write)
            /\ tracker' = TaintMemAccess(test.obs, tracing, tracked, c, is_write,
                                         spec.in_speculation)
            /\ trace' = TraceMemAccess(test.obs, tracing, trace, c, is_write,
                                       spec.in_speculation, mem[c])

MemAccessAllowed ==
    Insn[InsnAt(pc)].access # "none" =>
        /\ TrackingStarted(tracker)
        /\ test.contract = "bpas" /\ Insn[InsnAt(pc)].access = "write" => sub.store = <<>>

Execute ==
    /\ phase = "execute"
    /\ LET insn == InsnAt(pc)
           f == FaultOf(insn, reg, mem, perm)
       IN IF ~MemAccessAllowed
          THEN phase' = "error" /\ UNCHANGED <<pc, reg, mem, fault, spec, sub, tracker, trace>>
          ELSE /\ MemAccess
               /\ fault' = f
               /\ IF f = "none"
                  THEN /\ phase' = "hook"
                       /\ pc' = PcAfter(test, pc, reg)
                       /\ reg' = RegsAfter(insn, reg, mem)
                       /\ mem' = MemAfter(insn, reg, mem)
                  ELSE phase' = "stopped" /\ UNCHANGED <<pc, reg, mem>>
    /\ UNCHANGED <<test, run, input, perm, mode, had_arch_fault, tracing, first>>

-----------------------------------------------------------------------------
(* _run_state_machine after the emulator has stopped. *)

(* The observation of the push of the fault frame, at an address outside   *)
(* of the two cells.                                                       *)
RspInit == 2
FrameTrace ==
    TraceMemAccess(test.obs, tracing, trace, RspInit, TRUE, spec.in_speculation, 0)
FrameTracker ==
    TaintMemAccess(test.obs, tracing, tracker, RspInit, TRUE, spec.in_speculation)

SpeculatesOn(f) ==
    /\ \/ f = "PF" /\ test.contract \in NullSpeculators \cup {"seq-assist", "deh", "meltdown"}
       \/ f \in {"DE", "UD", "GP"} /\ test.contract = "deh"
    /\ ~MaxNestingReached

Resume(a) ==
    /\ phase' = "enter"
    /\ pc' = a
    /\ fault' = "none"
    /\ trace' = FrameTrace
    /\ UNCHANGED <<test, run, input, reg, mode, tracing, first>>

(* SequentialAssistSpeculator and X86Meltdown: unprotect the page, repeat. *)
Unprotect ==
    /\ test.contract \in {"seq-assist", "meltdown"}
    /\ perm' = "rw"
    /\ IF test.contract = "meltdown"
       THEN /\ spec' = Checkpointed(spec, reg, Handler)
            /\ tracker' = TrackerCheckpoint(FrameTracker, TRUE)
       ELSE spec' = spec /\ tracker' = FrameTracker
    /\ Resume(pc)
    /\ UNCHANGED <<mem, sub, had_arch_fault>>

(* X86UnicornNull: the load returns 0 when it is repeated. *)
InjectZero ==
    /\ test.contract \in NullSpeculators
    /\ LET back == IF test.contract = "nullinj-assist" THEN pc ELSE Handler
           s == Checkpointed(spec, reg, back)
       IN IF sub.load = <<>>
          THEN spec' = s /\ mem' = mem
          ELSE /\ spec' = Logged(s, sub.load[1], mem[sub.load[1]])
               /\ mem' = [mem EXCEPT ![sub.load[1]] = 0]
    /\ sub' = [sub EXCEPT !.re_execute = TRUE]
    /\ perm' = "rw"
    /\ tracker' = TrackerCheckpoint(FrameTracker, TRUE)
    /\ Resume(pc)
    /\ UNCHANGED had_arch_fault

(* UnicornDEH: go on behind the instruction that faulted.  There is always *)
(* an instruction behind it: measurement_end at least.                     *)
DelayFault ==
    /\ test.contract = "deh"
    /\ spec' = Checkpointed(spec, reg, Handler)
    /\ sub' = [sub EXCEPT !.dep_ckpts = Append(@, sub.deps),
                          !.deps = @ \cup Insn[InsnAt(pc)].dst]
    /\ tracker' = TrackerCheckpoint(FrameTracker, TRUE)
    /\ Resume(pc + 1)
    /\ UNCHANGED <<mem, perm, had_arch_fault>>

SpeculateOnFault ==
    /\ phase = "stopped"
    /\ SpeculatesOn(fault)
    /\ Unprotect \/ InjectZero \/ DelayFault

(* A fault in speculation is observed and ends it. *)
SquashFault ==
    /\ phase = "stopped"
    /\ fault # "none" /\ ~SpeculatesOn(fault)
    /\ spec.in_speculation
    /\ fault' = "none"
    /\ trace' = FrameTrace
    /\ tracker' = FrameTracker
    /\ UNCHANGED <<test, run, input, phase, pc, reg, mem, perm, mode, had_arch_fault, spec, sub,
                   tracing, first>>

(* An architectural fault goes to its handler, the second one is an error. *)
ArchitecturalFault ==
    /\ phase = "stopped"
    /\ fault # "none" /\ ~SpeculatesOn(fault)
    /\ ~spec.in_speculation
    /\ had_arch_fault' = TRUE
    /\ fault' = "none"
    /\ trace' = FrameTrace
    /\ tracker' = FrameTracker
    /\ phase' = IF had_arch_fault THEN "error" ELSE IF Handler = Exit THEN "finished" ELSE "enter"
    /\ pc' = IF had_arch_fault THEN pc ELSE Handler
    /\ UNCHANGED <<test, run, input, reg, mem, perm, mode, spec, sub, tracing, first>>

(* The emulator stopped at the exit, at a barrier or at the end of the     *)
(* speculation window, or on a fault that is squashed.                     *)
Stopped ==
    /\ phase = "stopped"
    /\ fault = "none"
    /\ IF spec.in_speculation
       THEN Rollback
       ELSE /\ phase' = "finished"
            /\ UNCHANGED <<test, run, input, machine, spec, sub, tracker, trace, tracing, first>>

Terminated == phase \in {"done", "error"} /\ UNCHANGED vars

Next ==
    \/ LoadInput \/ Enter \/ RecordTrace
    \/ InstructionHook \/ ReachExit \/ Execute
    \/ SpeculateOnFault \/ SquashFault \/ ArchitecturalFault \/ Stopped
    \/ Terminated

(* Tracing is one thread of one process. *)
Spec == Init /\ [][Next]_vars /\ WF_vars(Next)

-----------------------------------------------------------------------------
Addresses == CodeStart..Exit \cup OtherStart..LastAddr(test, 1)

(* Every variable has its type. *)
TypeOK ==
    /\ run \in 1..2 /\ input \in Inputs
    /\ phase \in {"load", "enter", "hook", "execute", "stopped", "finished", "done", "error"}
    /\ pc \in Addresses /\ reg \in [Regs -> Values] /\ mem \in [Cells -> Values]
    /\ perm \in {"none", "ro", "rw"} /\ mode.actor \in 0..1 /\ mode.base \in 0..1
    /\ fault \in {"none", "PF", "DE", "UD", "GP"} /\ had_arch_fault \in BOOLEAN
    /\ tracing \in BOOLEAN /\ first \in Seq({"pc", "mem", "val"} \X Nat)

(* The actor that executes is the one whose code it is, and the registers  *)
(* for its data point to its data area, whatever was rolled back; only the *)
(* fault handler of main is entered with those of the actor that faulted.  *)
ActorOfCode ==
    phase \in {"hook", "execute"} =>
        /\ mode.actor = ActorOf(pc)
        /\ mode.base = mode.actor \/ pc \in Handler..Exit

(* Speculation has an end for every beginning: the checkpoints of the      *)
(* registers, of the memory, of the taints and of the dependencies are as  *)
(* deep as each other, never deeper than the nesting asked for, and        *)
(* in_speculation tells whether there are any; the interpreter follows the *)
(* emulator from actor to actor; and no assertion of the services fails    *)
(* (speculator_abc.py, taint_tracker.py, speculators_fault.py,             *)
(* interpreter.py).                                                        *)
ServicesInSync ==
    /\ TypeOK
    /\ ActorOfCode
    /\ Len(spec.logs) = Len(spec.ckpts)
    /\ run = 1 => Len(tracker.cks) = Len(spec.ckpts)
    /\ test.contract = "deh" => Len(sub.dep_ckpts) = Len(spec.ckpts)
    /\ Len(spec.ckpts) <= MaxNesting
    /\ spec.in_speculation = (Len(spec.ckpts) > 0)
    /\ phase # "error"

(* What memory will hold when all speculation is rolled back. *)
ArchMem ==
    [c \in Cells |->
        LET levels == {k \in DOMAIN spec.logs : Entries(spec.logs[k], c) # {}}
        IN IF levels = {} THEN mem[c] ELSE Undone(spec.logs[Min(levels)], mem)[c]]

(* A store that faults under bpas stays pending, and is redone by the      *)
(* rollback of a speculation that the handler starts, although it was      *)
(* never done.                                                             *)
RedoesFaultingStore ==
    test.contract = "bpas" /\ PagePermissions(test) # "rw" /\ test.handler = "end"

(* Nothing that runs in speculation, however deep, changes what its end    *)
(* brings back: the first checkpoint stays, the registers and the address  *)
(* in it are what execution goes on with, and so is the memory that the    *)
(* logs lead back to (checkpoint, rollback, _store_logs).                  *)
SpeculationComesBack ==
    [][/\ spec.in_speculation /\ spec'.in_speculation => spec'.ckpts[1] = spec.ckpts[1]
       /\ spec.in_speculation /\ ~spec'.in_speculation =>
              reg' = spec.ckpts[1].reg /\ pc' = spec.ckpts[1].next
       /\ (spec.in_speculation \/ spec'.in_speculation) /\ ~RedoesFaultingStore =>
              ArchMem' = ArchMem]_vars

(* Speculation is invisible in the architectural state: registers and      *)
(* memory end as they do without it.  The check of architectural           *)
(* mismatches compares the registers with those of the CPU                 *)
(* (_execute_test_case_with_inputs, rollback).                             *)
SpeculationLeavesNoState ==
    phase = "finished" =>
        LET allowed == IF test.contract \in AssistSpeculators THEN "rw" ELSE PagePermissions(test)
            expected == SequentialResult(test, Handler, allowed, input)
        IN reg = expected.x.reg /\ mem = expected.mem

(* Where the taints are known not to cover the trace: whether a division   *)
(* faults depends on its divisor, which is not observed, and a register    *)
(* that a delayed fault leaves unwritten counts as written.  Addresses and *)
(* branches are tainted only where they are observed, but what is observed *)
(* later can depend on them.                                               *)
BodyHas(P(_)) == \E i \in DOMAIN test.body : P(test.body[i])
ImperfectTaint ==
    \/ test.contract = "deh" \/ Contains(test.body, "div")
    \/ test.obs = "pc" /\ BodyHas(LAMBDA i : Insn[i].access # "none")
    \/ test.obs \in {"memory", "l1d"} /\ BodyHas(LAMBDA i : i \in Branches)
    \/ /\ test.obs = "ct-nonspecstore" /\ test.contract # "seq"
       /\ BodyHas(LAMBDA i : Insn[i].access = "write")

(* An input that is boosted from another one has the same contract trace   *)
(* (generate_boosted, UnicornTaintTracker).  The fuzzer traces again in    *)
(* its slow path what ImperfectTaint breaks.                               *)
BoostedSameTrace == phase = "done" /\ ~ImperfectTaint => trace = first

(* Every input is traced to its end, and no assertion of the services      *)
(* fails (_run_state_machine).                                             *)
TracingEnds == <>(phase = "done")

=============================================================================
