---------------------------- MODULE Interpreter ----------------------------
(***************************************************************************)
(* The extra interpreter of the contract model: macros that switch between *)
(* actors, instructions that fault outside of the kernel, the permissions  *)
(* of the faulty page of main.  What a macro changes is a record:          *)
(*   pc, reg                                                               *)
(*   mode.actor   current_actor                                            *)
(*   mode.base    the actor whose data R14 and RSP point to                *)
(*   mode.k2u, mode.h2g, mode.g2h   _curr_targets                          *)
(*   mode.lstar   _pseudo_lstar                                            *)
(* The second actor of t is a user or a guest (t.mode), the CPU is from    *)
(* AMD or not (t.amd).                                                     *)
(***************************************************************************)
EXTENDS TestProgram

PteBits == {"present", "accessed", "writable", "dirty", "reserved_bit"}

PageIsReadable(pte) == {"present", "accessed"} \subseteq pte /\ "reserved_bit" \notin pte
PageIsWritable(pte) == {"writable", "dirty"} \subseteq pte

(* page_permissions: what load_test_case finds in the page table entry. *)
PagePermissions(t) ==
    CASE ~PageIsReadable(t.pte) -> "none"
      [] PageIsReadable(t.pte) /\ ~PageIsWritable(t.pte) -> "ro"
      [] OTHER -> "rw"

(* load_input: a page with all permissions is left as it is. *)
PermAfterLoad(t, perm) == IF PagePermissions(t) = "rw" THEN perm ELSE PagePermissions(t)

-----------------------------------------------------------------------------
(* _curr_targets when the interpreter is made, _pseudo_lstar after         *)
(* load_test_case.                                                         *)
FreshMode(t) == [actor |-> 0, base |-> 0, k2u |-> 0, h2g |-> 0, g2h |-> 0, lstar |-> ExitAddr(t)]

(* full_reset and _load_input: the targets stay. *)
ModeAfterLoad(mode) == [mode EXCEPT !.actor = 0, !.base = 0]

(* reset_after_em_stop *)
ModeAt(mode, pc) == [mode EXCEPT !.actor = ActorOf(pc)]

(* The function of main that the second actor returns to: what follows the *)
(* switch to it.                                                           *)
SwitchesThere == {"switch", "switch_k2u", "switch_h2g"}
Landing(t) == 2 + CHOOSE i \in DOMAIN t.body : t.body[i] \in SwitchesThere

(* PC, data area and stack of the target, and current_actor. *)
Switched(x, target, actor) ==
    [pc |-> target, reg |-> x.reg, mode |-> [x.mode EXCEPT !.actor = actor, !.base = actor]]

Clobbered(t, x) == IF t.amd THEN [x EXCEPT !.reg["A"] = 0] ELSE x

MacroSwitch(t, x) ==
    IF x.mode.actor = 0 THEN Switched(x, OtherStart, 1) ELSE Switched(x, Landing(t), 0)
MacroSetK2uTarget(x, function) == [x EXCEPT !.mode.k2u = OtherStart + function - 1]
MacroSwitchK2u(x) == Switched(x, x.mode.k2u, 1)
MacroSetU2kTarget(t, x) == [x EXCEPT !.mode.lstar = Landing(t)]
MacroSwitchU2k(x) == Switched(x, x.mode.lstar, 0)
MacroLanding(x) == [x EXCEPT !.reg["C"] = 0]
MacroSetH2gTarget(x) == [x EXCEPT !.mode.h2g = OtherStart]
MacroSetG2hTarget(t, x) == [x EXCEPT !.mode.g2h = Landing(t)]
MacroSwitchH2g(t, x) == Clobbered(t, Switched(x, x.mode.h2g, 1))
MacroSwitchG2h(t, x) == Clobbered(t, Switched(x, x.mode.g2h, 0))

(* The macros by name; measurement_start and measurement_end are in        *)
(* TracingAfter.                                                           *)
InterpretMacro(t, insn, x) ==
    CASE insn = "switch" -> MacroSwitch(t, x)
      [] insn = "set_k2u_target" -> MacroSetK2uTarget(x, 1)
      [] insn = "set_k2u_target_f2" -> MacroSetK2uTarget(x, 2)
      [] insn = "switch_k2u" -> MacroSwitchK2u(x)
      [] insn = "set_u2k_target" -> MacroSetU2kTarget(t, x)
      [] insn = "switch_u2k" -> MacroSwitchU2k(x)
      [] insn \in {"landing_k2u", "landing_u2k"} -> MacroLanding(x)
      [] insn = "set_h2g_target" -> MacroSetH2gTarget(x)
      [] insn = "set_g2h_target" -> MacroSetG2hTarget(t, x)
      [] insn = "switch_h2g" -> MacroSwitchH2g(t, x)
      [] insn = "switch_g2h" -> MacroSwitchG2h(t, x)
      [] OTHER -> x

(* Tracing begins and ends outside of speculation only. *)
TracingAfter(insn, in_speculation, tracing) ==
    IF in_speculation THEN tracing
    ELSE CASE insn = "measurement_start" -> TRUE
           [] insn = "measurement_end" -> FALSE
           [] OTHER -> tracing

-----------------------------------------------------------------------------
(* An instruction that a guest or a user may not execute. *)
ExitsToHost(insn, actor) == insn = "wbinvd" /\ actor = 1

(* set_u2k_target is for the kernel only; a guest is one. *)
MacroFaults(t, insn, actor) == insn = "set_u2k_target" /\ actor = 1 /\ t.mode = "user"

SoftFault(t, insn, actor) ==
    CASE MacroFaults(t, insn, actor) -> "GP"
      [] ExitsToHost(insn, actor) -> "UD"
      [] OTHER -> "none"

(* interpret_instruction *)
Interpret(t, insn, x) ==
    IF SoftFault(t, insn, x.mode.actor) # "none" THEN x ELSE InterpretMacro(t, insn, x)

-----------------------------------------------------------------------------
(* The reference: what the code does without any speculation.  The first   *)
(* fault goes to the handler, which executes no faulting instruction.      *)
SequentialStep(t, handler, perm, s) ==
    LET insn == InsnOf(t, s.x.pc)
        x == Interpret(t, insn, s.x)
    IN CASE s.x.pc = ExitAddr(t) -> s
         [] /\ s.x.pc # ExitAddr(t)
            /\ \/ FaultOf(insn, s.x.reg, s.mem, perm) # "none"
               \/ SoftFault(t, insn, s.x.mode.actor) # "none" ->
                [x |-> [pc |-> handler, reg |-> s.x.reg, mode |-> ModeAt(s.x.mode, handler)],
                 mem |-> s.mem]
         [] OTHER -> [x |-> IF x.pc # s.x.pc THEN x
                            ELSE [pc |-> PcAfter(t, s.x.pc, s.x.reg),
                                  reg |-> RegsAfter(insn, x.reg, s.mem), mode |-> x.mode],
                      mem |-> MemAfter(insn, s.x.reg, s.mem)]

(* Every instruction of the code is executed at most once. *)
SequentialSteps(t) == Len(t.body) + Len(t.other) + 3

SequentialRun(t, handler, perm, input) ==
    LET after[k \in 0..SequentialSteps(t)] ==
            IF k = 0 THEN [x |-> [pc |-> CodeStart, reg |-> input.reg, mode |-> FreshMode(t)],
                           mem |-> input.mem]
            ELSE SequentialStep(t, handler, perm, after[k - 1])
    IN after

SequentialResult(t, handler, perm, input) ==
    SequentialRun(t, handler, perm, input)[SequentialSteps(t)]

=============================================================================
