------------------------ MODULE ContractModelProofs ------------------------
(***************************************************************************)
(* Proofs about the contract model (ContractModel), for every set of test  *)
(* cases, nesting and speculation window: the services stay in step with   *)
(* each other and with the emulator, no assertion of theirs fails,         *)
(* whatever runs in speculation leaves the state alone that the emulator   *)
(* comes back to, and nothing of it is left in the end.                    *)
(***************************************************************************)
EXTENDS ContractModel, TLAPS, SequenceTheorems, WellFoundedInduction

Phases == {"load", "enter", "hook", "execute", "stopped", "finished", "done"}
Faults == {"none", "PF", "DE", "UD", "GP"}
Operands == Regs \cup {"RIP"}
Entry == {"pc", "mem", "val"} \X Nat
Checkpoint == [reg : [Regs -> Values], base : 0..1, next : Nat, window : Nat]
SpecState == [ckpts : Seq(Checkpoint), logs : Seq(Seq(Cells \X Values)),
              in_speculation : BOOLEAN, window : Nat]
SubState == [store : {<<>>} \cup (Cells \X Values \X Values), deps : SUBSET Operands,
             dep_ckpts : Seq(SUBSET Operands), load : {<<>>} \cup {<<c>> : c \in Cells},
             re_execute : BOOLEAN, restore : BOOLEAN]
ModeState == [actor : 0..1, base : 0..1, k2u : Nat, h2g : Nat, g2h : Nat, lstar : Nat]

HandlerOf(t) == IF t.handler = "exit" THEN ExitAddr(t) ELSE EndAddr(t)
OtherAddresses(t) == OtherStart..LastAddr(t, 1)
AddressesOf(t) == CodeStart..ExitAddr(t) \cup OtherAddresses(t)

\* The registers for data are those of the actor, or the handler runs.
AtHome(t, a, base) == base = ActorOf(a) \/ a \in HandlerOf(t)..ExitAddr(t)

\* The targets of switches are code of the other actor, if they are set.
ModeOK(t, m) ==
    /\ m \in ModeState
    /\ m.k2u \in {0} \cup OtherAddresses(t) /\ m.h2g \in {0} \cup OtherAddresses(t)
    /\ IF t.other = <<>> THEN m.g2h = 0 /\ m.lstar = ExitAddr(t)
       ELSE m.g2h \in {0, Landing(t)} /\ m.lstar \in {ExitAddr(t), Landing(t)}

\* The instruction at i has set the target that it is there for.
TargetSet(t, m, i) ==
    /\ t.body[i] \in {"set_k2u_target", "set_k2u_target_f2"} => m.k2u # 0
    /\ t.body[i] = "set_h2g_target" => m.h2g # 0
    /\ t.body[i] = "set_g2h_target" => m.g2h # 0
    /\ t.body[i] = "set_u2k_target" => m.lstar # ExitAddr(t)

\* Whoever is at address a has come by the instructions that no branch skips.
Prepared(t, m, a) ==
    /\ t.other # <<>> /\ a < Landing(t) =>
          \A i \in DOMAIN t.body :
              i + 1 < a /\ (i > 1 => t.body[i - 1] \notin Branches) => TargetSet(t, m, i)
    /\ a >= OtherStart /\ Uses(t.other, {"switch_g2h"}) => m.g2h # 0
    /\ a >= OtherStart /\ Uses(t.other, {"switch_u2k"}) => m.lstar # ExitAddr(t)

CheckpointOK(t, m, had, c) ==
    /\ c.next \in AddressesOf(t) /\ AtHome(t, c.next, c.base) /\ Prepared(t, m, c.next)
    /\ had => c.next \in HandlerOf(t)..ExitAddr(t)

SpecOK(t, m, had, s) ==
    /\ s \in SpecState
    /\ Len(s.logs) = Len(s.ckpts) /\ Len(s.ckpts) <= MaxNesting
    /\ s.in_speculation = (Len(s.ckpts) > 0)
    /\ \A k \in 1..Len(s.ckpts) : CheckpointOK(t, m, had, s.ckpts[k])

SubOK(t, s, b) ==
    /\ b \in SubState
    /\ t.contract = "deh" => Len(b.dep_ckpts) = Len(s.ckpts)

TrackerOK(r, s, k) ==
    /\ k \in Trackers
    /\ r = 1 => k.on
    /\ k.on => Len(k.cks) = Len(s.ckpts)

Scalars ==
    /\ test \in Tests /\ run \in 1..2 /\ input \in Inputs /\ phase \in Phases
    /\ reg \in [Regs -> Values] /\ mem \in [Cells -> Values] /\ perm \in {"none", "ro", "rw"}
    /\ fault \in Faults /\ had_arch_fault \in BOOLEAN /\ tracing \in BOOLEAN
    /\ trace \in Seq(Entry) /\ first \in Seq(Entry)

MayFault(insn) == Insn[insn].access # "none" \/ insn \in {"wbinvd", "set_u2k_target"}
Leaving == {"switch", "switch_k2u", "switch_u2k", "switch_h2g", "switch_g2h"}

\* Where the emulator is, in every phase of _run_state_machine.
Flow ==
    /\ pc \in AddressesOf(test) /\ Prepared(test, mode, pc)
    /\ phase \in {"enter", "hook", "execute"} => AtHome(test, pc, mode.base)
    /\ phase \in {"hook", "execute"} => mode.actor = ActorOf(pc) /\ fault = "none"
    /\ phase = "execute" =>
          /\ pc # ExitAddr(test) /\ InsnOf(test, pc) \notin Leaving
          /\ pc \in 2..EndAddr(test) - 1 => TargetSet(test, mode, pc - 1)
          /\ tracker.on => tracker.insn # "none"
          /\ test.contract = "bpas" => sub.store = <<>>
    /\ phase = "stopped" /\ fault # "none" =>
          /\ AtHome(test, pc, mode.base)
          /\ pc # ExitAddr(test) /\ MayFault(InsnOf(test, pc))
          /\ pc >= OtherStart \/ Insn[InsnOf(test, pc)].access # "none"
    /\ had_arch_fault => pc \in HandlerOf(test)..ExitAddr(test)
    /\ phase \in {"load", "finished", "done"} => spec.ckpts = <<>>

ModelInv ==
    /\ Scalars /\ Flow
    /\ ModeOK(test, mode)
    /\ SpecOK(test, mode, had_arch_fault, spec)
    /\ SubOK(test, spec, sub)
    /\ TrackerOK(run, spec, tracker)

-----------------------------------------------------------------------------
(* Instructions and their execution.                                       *)

LEMMA InsnType ==
    \A i \in Instructions :
        Insn[i] \in [src : SUBSET Operands, dst : SUBSET Operands, addr : SUBSET Regs,
                     access : {"none", "read", "write"}, overwrites : BOOLEAN]
  BY DEF Insn, Instructions, Operands, Regs, Op

LEMMA InsnMacro == \A m \in Macros : m \in Instructions /\ Insn[m] = Op({}, {}, {}, "none", FALSE)
  BY DEF Insn, Macros, Instructions

LEMMA AddressType ==
    ASSUME NEW insn \in Instructions, NEW r \in [Regs -> Values]
    PROVE  Address(insn, r) \in Cells
<1>1. Insn[insn].addr \in SUBSET Regs
    BY InsnType
<1>2. Insn[insn].addr # {} => (CHOOSE x \in Insn[insn].addr : TRUE) \in Regs
    BY <1>1
<1> QED
    BY <1>2 DEF Address, Cells, Values

LEMMA StoredType ==
    ASSUME NEW insn \in Instructions, NEW r \in [Regs -> Values], Insn[insn].access = "write"
    PROVE  Stored(insn, r) \in Values
<1>1. insn \in {"storeA", "storeC", "store0"}
    BY DEF Insn, Instructions, Op
<1>2. Insn[insn].src \in {{"A"}, {"C"}}
    BY <1>1 DEF Insn, Instructions, Op
<1>3. (CHOOSE x \in Insn[insn].src : TRUE) \in Regs
    BY <1>2 DEF Regs
<1> QED
    BY <1>3 DEF Stored

LEMMA DecrementedType == \A r \in [Regs -> Values] : Decremented(r) \in [Regs -> Values]
  BY DEF Decremented, Regs, Values

LEMMA ExecutedType ==
    ASSUME NEW insn \in Instructions, NEW r \in [Regs -> Values], NEW m \in [Cells -> Values],
           NEW w, FaultOf(insn, r, m, w) = "none"
    PROVE  RegsAfter(insn, r, m) \in [Regs -> Values] /\ MemAfter(insn, r, m) \in [Cells -> Values]
<1> DEFINE c == Address(insn, r)
<1>1. c \in Cells /\ m[c] \in Values
    BY AddressType
<1>2. insn = "div" => m[c] = 1
    BY <1>1 DEF FaultOf, Values
<1> HIDE DEF c
<1>3. RegsAfter(insn, r, m) \in [Regs -> Values]
    <2>1. r["A"] \in Values /\ r["C"] \in Values
        BY DEF Regs
    <2>2. (r["A"] + m[c]) % 2 \in Values
        BY <1>1, <2>1 DEF Values
    <2>3. insn = "div" => r["A"] \div m[c] \in Values
        BY <1>2, <2>1 DEF Values
    <2> QED
        BY <1>1, <2>1, <2>2, <2>3, DecrementedType DEF RegsAfter, c
<1>4. MemAfter(insn, r, m) \in [Cells -> Values]
    BY <1>1, StoredType DEF MemAfter, c
<1> QED
    BY <1>3, <1>4

LEMMA FaultType ==
    ASSUME NEW insn \in Instructions, NEW r, NEW m, NEW w
    PROVE  /\ FaultOf(insn, r, m, w) \in Faults
           /\ FaultOf(insn, r, m, w) # "none" => Insn[insn].access # "none"
<1>1. insn = "div" => Insn[insn].access = "read"
    BY DEF Insn, Instructions, Op
<1> QED
    BY <1>1 DEF FaultOf, Faults

-----------------------------------------------------------------------------
(* The layout of the code, and where an instruction leads.                 *)

LEMMA TestType ==
    ASSUME NEW t \in Tests
    PROVE  /\ t.body \in Seq(Instructions \ {"measurement_start", "measurement_end"})
           /\ t.other \in Seq(Instructions)
           /\ \A i \in DOMAIN t.other : Insn[t.other[i]].access = "none"
           /\ Len(t.body) \in Nat /\ Len(t.other) \in Nat
           /\ ExitAddr(t) = Len(t.body) + 3 /\ EndAddr(t) = Len(t.body) + 2
           /\ ExitAddr(t) < OtherStart
           /\ HandlerOf(t) \in {ExitAddr(t), EndAddr(t)}
           /\ OtherAddresses(t) = 20..(19 + Len(t.other))
<1>1. /\ t.body \in Seq(Instructions \ {"measurement_start", "measurement_end"})
      /\ t.other \in Seq({i \in Instructions : Insn[i].access = "none"})
      /\ ExitAddr(t) < OtherStart
    BY ModelAssumption DEF WellFormed
<1>2. /\ t.other \in Seq(Instructions)
      /\ \A i \in DOMAIN t.other : Insn[t.other[i]].access = "none"
      /\ Len(t.body) \in Nat /\ Len(t.other) \in Nat
    BY <1>1
<1> QED
    BY <1>1, <1>2 DEF ExitAddr, EndAddr, HandlerOf, OtherAddresses, OtherStart, LastAddr

LEMMA CodeAt ==
    ASSUME NEW t \in Tests, NEW a \in AddressesOf(t), a # ExitAddr(t)
    PROVE  /\ a \in Nat /\ InsnOf(t, a) \in Instructions
           /\ a = 1 => InsnOf(t, a) = "measurement_start"
           /\ a \in 2..EndAddr(t) - 1 => a - 1 \in DOMAIN t.body /\ InsnOf(t, a) = t.body[a - 1]
           /\ a = EndAddr(t) => InsnOf(t, a) = "measurement_end"
           /\ a >= OtherStart => /\ a - 19 \in DOMAIN t.other /\ InsnOf(t, a) = t.other[a - 19]
                                 /\ Insn[InsnOf(t, a)].access = "none"
           /\ a = 1 \/ a \in 2..EndAddr(t) - 1 \/ a = EndAddr(t) \/ a >= OtherStart
<1> USE TestType DEF OtherStart, CodeStart
<1>1. a \in Nat /\ (a = 1 \/ a \in 2..EndAddr(t) - 1 \/ a = EndAddr(t) \/ a >= 20)
    BY DEF AddressesOf
<1>2. "measurement_start" \in Instructions /\ "measurement_end" \in Instructions
    BY DEF Instructions, Macros
<1>3. CASE a = 1
    BY <1>2, <1>3 DEF InsnOf
<1>4. CASE a \in 2..EndAddr(t) - 1
    <2>1. a - 1 \in DOMAIN t.body /\ InsnOf(t, a) = t.body[a - 1]
        BY <1>4 DEF InsnOf
    <2> QED
        BY <1>4, <2>1
<1>5. CASE a = EndAddr(t)
    BY <1>2, <1>5 DEF InsnOf
<1>6. CASE a >= 20
    <2>1. a - 19 \in DOMAIN t.other /\ InsnOf(t, a) = t.other[a - 19]
        BY <1>1, <1>6, SMTT(30) DEF InsnOf, AddressesOf
    <2> QED
        BY <1>1, <1>6, <2>1
<1> QED
    BY <1>1, <1>3, <1>4, <1>5, <1>6

\* The code of the second actor ends with a switch, so that whatever does not switch
\* has an instruction behind it; a branch never leaves its section.
LEMMA GoesOn ==
    ASSUME NEW t \in Tests, NEW a \in AddressesOf(t), a # ExitAddr(t), InsnOf(t, a) \notin Leaving
    PROVE  /\ a + 1 \in AddressesOf(t) /\ ActorOf(a + 1) = ActorOf(a)
           /\ a \in HandlerOf(t)..ExitAddr(t) => a + 1 \in HandlerOf(t)..ExitAddr(t)
           /\ a \in HandlerOf(t)..ExitAddr(t) => InsnOf(t, a) = "measurement_end"
<1> USE TestType, CodeAt DEF OtherStart, CodeStart, AddressesOf, ActorOf
<1>1. CASE a >= 20
    <2>0. t.other # <<>>
        BY <1>1
    <2>1. t.other[Len(t.other)] \in Leaving
        BY <2>0, ModelAssumption, Zenon DEF WellFormed, ActorsWellFormed, Leaving
    <2>2. a - 19 # Len(t.other)
        BY <1>1, <2>1
    <2> QED
        BY <1>1, <2>2
<1>2. CASE a < 20
    BY <1>2
<1> QED
    BY <1>1, <1>2

LEMMA BranchTarget ==
    ASSUME NEW t \in Tests, NEW a \in AddressesOf(t), a # ExitAddr(t), InsnOf(t, a) \in Branches
    PROVE  /\ Target(t, a) \in {a + 1, a + 2} /\ Target(t, a) \in AddressesOf(t)
           /\ ActorOf(Target(t, a)) = ActorOf(a)
           /\ InsnOf(t, a) \notin Leaving /\ InsnOf(t, a) \notin Macros
           /\ a \notin HandlerOf(t)..ExitAddr(t)
<1> USE TestType, CodeAt DEF OtherStart, CodeStart, AddressesOf, ActorOf
<1>1. InsnOf(t, a) \notin Leaving /\ InsnOf(t, a) \notin Macros
    BY DEF Branches, Leaving, Macros
<1>2. /\ a + 1 \in AddressesOf(t) /\ a \notin HandlerOf(t)..ExitAddr(t)
      /\ ActorOf(a + 1) = ActorOf(a) 
    BY <1>1, GoesOn DEF Macros
<1>3. a \in 2..EndAddr(t) - 1 \/ a >= 20
    BY <1>1 DEF Macros
<1>4. CASE a >= 20
    <2>1. ActorOf(a) = 1 /\ a + 1 \in 20..(19 + Len(t.other)) /\ LastAddr(t, 1) = 19 + Len(t.other)
        BY <1>2, <1>4 DEF LastAddr
    <2>2. Target(t, a) \in {a + 1, a + 2} /\ Target(t, a) \in 20..(19 + Len(t.other))
        BY <2>1 DEF Target
    <2> QED
        BY <1>1, <1>2, <1>4, <2>2
<1>5. CASE a \in 2..EndAddr(t) - 1
    <2>1. ActorOf(a) = 0 /\ LastAddr(t, 0) = EndAddr(t)
        BY <1>5 DEF LastAddr
    <2>2. Target(t, a) \in {a + 1, a + 2} /\ Target(t, a) \in 1..EndAddr(t)
        BY <1>5, <2>1 DEF Target
    <2> QED
        BY <1>1, <1>2, <1>5, <2>2
<1> QED
    BY <1>3, <1>4, <1>5

-----------------------------------------------------------------------------
(* Switches between actors.                                                *)

\* Every target that m has is set in n too.
MoreSet(t, m, n) ==
    /\ m.k2u # 0 => n.k2u # 0
    /\ m.h2g # 0 => n.h2g # 0
    /\ m.g2h # 0 => n.g2h # 0
    /\ m.lstar # ExitAddr(t) => n.lstar # ExitAddr(t)

\* The switch of main to the other actor is unique, and its targets are set before it.
LEMMA LandingFacts ==
    ASSUME NEW t \in Tests, t.other # <<>>
    PROVE  /\ Landing(t) - 2 \in DOMAIN t.body /\ Landing(t) \in 3..EndAddr(t)
           /\ \A i \in DOMAIN t.body : t.body[i] \in SwitchesThere => i = Landing(t) - 2
           /\ t.body[Landing(t) - 2] = "switch_k2u" =>
                  SetBefore(t, Landing(t) - 2, {"set_k2u_target", "set_k2u_target_f2"})
           /\ t.body[Landing(t) - 2] = "switch_h2g" =>
                  SetBefore(t, Landing(t) - 2, {"set_h2g_target"})
           /\ Uses(t.other, {"switch_u2k"}) => SetBefore(t, Landing(t) - 2, {"set_u2k_target"})
           /\ Uses(t.other, {"switch_g2h"}) => SetBefore(t, Landing(t) - 2, {"set_g2h_target"})
<1>1. ActorsWellFormed(t)
    BY ModelAssumption, Zenon DEF WellFormed
<1>2. PICK i \in DOMAIN t.body :
          /\ \A j \in DOMAIN t.body : t.body[j] \in SwitchesThere => j = i
          /\ t.body[i] \in SwitchesThere
          /\ t.body[i] = "switch_k2u" => SetBefore(t, i, {"set_k2u_target", "set_k2u_target_f2"})
          /\ t.body[i] = "switch_h2g" => SetBefore(t, i, {"set_h2g_target"})
          /\ Uses(t.other, {"switch_u2k"}) => SetBefore(t, i, {"set_u2k_target"})
          /\ Uses(t.other, {"switch_g2h"}) => SetBefore(t, i, {"set_g2h_target"})
    BY <1>1, Zenon DEF ActorsWellFormed
<1>3. (CHOOSE j \in DOMAIN t.body : t.body[j] \in SwitchesThere) = i
    BY <1>2
<1>4. i \in 1..Len(t.body) /\ Landing(t) = i + 2 /\ Landing(t) - 2 = i
    <2>1. i \in 1..Len(t.body) /\ Len(t.body) \in Nat
        BY TestType
    <2>2. Landing(t) = 2 + i
        BY <1>3, Zenon DEF Landing
    <2> QED
        BY <2>1, <2>2
<1>5. Landing(t) \in 3..EndAddr(t)
    BY <1>4, TestType
<1> QED
    BY <1>2, <1>4, <1>5, Zenon

LEMMA PreparedKeeps ==
    ASSUME NEW t, NEW m, NEW n, NEW a, Prepared(t, m, a), MoreSet(t, m, n)
    PROVE  Prepared(t, n, a)
  BY Zenon DEF Prepared, MoreSet, TargetSet

LEMMA PreparedAtEnds ==
    ASSUME NEW t \in Tests, NEW m
    PROVE  /\ Prepared(t, m, CodeStart)
           /\ \A a \in HandlerOf(t)..ExitAddr(t) : Prepared(t, m, a)
<1>1. Prepared(t, m, CodeStart)
    BY TestType DEF Prepared, CodeStart, OtherStart
<1>2. ASSUME NEW a \in HandlerOf(t)..ExitAddr(t)
      PROVE  Prepared(t, m, a)
    <2>1. a >= EndAddr(t) /\ a < OtherStart /\ a \in Nat
        BY TestType DEF OtherStart
    <2>2. t.other # <<>> => ~(a < Landing(t))
        BY <2>1, LandingFacts, TestType
    <2> QED
        BY <2>1, <2>2 DEF Prepared, OtherStart
<1> QED
    BY <1>1, <1>2

LEMMA PreparedNext ==
    ASSUME NEW t \in Tests, NEW m, NEW a \in AddressesOf(t), a # ExitAddr(t),
           InsnOf(t, a) \notin Leaving, Prepared(t, m, a),
           a \in 2..EndAddr(t) - 1 => TargetSet(t, m, a - 1)
    PROVE  /\ Prepared(t, m, a + 1)
           /\ InsnOf(t, a) \in Branches => Prepared(t, m, Target(t, a))
<1>1. /\ a \in Nat /\ Len(t.body) \in Nat /\ EndAddr(t) < 19 /\ DOMAIN t.body = 1..Len(t.body)
      /\ EndAddr(t) = Len(t.body) + 2
    BY CodeAt, TestType DEF OtherStart
<1>2. CASE a >= OtherStart
    <2>1. ASSUME NEW b \in {a + 1, a + 2} PROVE Prepared(t, m, b)
        <3>1. t.other # <<>> => ~(b < Landing(t)) /\ ~(a < Landing(t))
            BY <1>1, <1>2, LandingFacts DEF OtherStart
        <3> QED
            BY <1>2, <3>1 DEF Prepared
    <2> QED
        BY <1>2, <2>1, BranchTarget
<1>3. CASE a < OtherStart
    <2>1. Prepared(t, m, a + 1)
        <3>1. ASSUME t.other # <<>>, a + 1 < Landing(t), NEW i \in DOMAIN t.body, i + 1 < a + 1,
                     i > 1 => t.body[i - 1] \notin Branches
              PROVE  TargetSet(t, m, i)
            <4>1. i + 1 = a \/ i + 1 < a
                BY <1>1, <3>1
            <4>2. CASE i + 1 = a
                BY <1>1, <4>2
            <4>3. CASE i + 1 < a
                <5>1. a < Landing(t)
                    BY <1>1, <3>1, LandingFacts
                <5> QED
                    BY <3>1, <4>3, <5>1, Zenon DEF Prepared
            <4> QED
                BY <4>1, <4>2, <4>3
        <3>2. ~(a + 1 >= OtherStart)
            BY <1>1, <1>3, TestType DEF AddressesOf, OtherStart, CodeStart
        <3> QED
            BY <3>1, <3>2 DEF Prepared
    <2>2. ASSUME InsnOf(t, a) \in Branches PROVE Prepared(t, m, a + 2)
        <3>1. a \in 2..EndAddr(t) - 1 /\ InsnOf(t, a) = t.body[a - 1]
            <4>1. a # 1 /\ a # EndAddr(t)
                BY <2>2, CodeAt DEF Branches
            <4> QED
                BY <1>3, <4>1, CodeAt DEF OtherStart
        <3>2. ASSUME t.other # <<>>, a + 2 < Landing(t), NEW i \in DOMAIN t.body, i + 1 < a + 2,
                     i > 1 => t.body[i - 1] \notin Branches
              PROVE  TargetSet(t, m, i)
            <4>1. i = a \/ i + 1 = a \/ i + 1 < a
                BY <1>1, <3>2
            <4>2. CASE i + 1 = a
                BY <1>1, <3>1, <4>2
            <4>3. CASE i + 1 < a
                <5>1. a < Landing(t)
                    BY <1>1, <3>2, LandingFacts
                <5> QED
                    BY <3>2, <4>3, <5>1, Zenon DEF Prepared
            <4>4. CASE i = a
                <5>1. i > 1 /\ t.body[i - 1] \in Branches
                    BY <2>2, <3>1, <4>4
                <5> QED
                    BY <3>2, <5>1
            <4> QED
                BY <4>1, <4>2, <4>3, <4>4
        <3>3. ~(a + 2 >= OtherStart)
            BY <1>1, <3>1 DEF OtherStart
        <3> QED
            BY <3>2, <3>3 DEF Prepared
    <2> QED
        BY <2>1, <2>2, BranchTarget
<1> QED
    BY <1>1, <1>2, <1>3 DEF OtherStart

\* The machine y after a switch to an actor.
Switches(t, y, actor) ==
    /\ y.pc \in AddressesOf(t) /\ ActorOf(y.pc) = actor /\ y.mode.actor = actor
    /\ y.mode.base = actor /\ Prepared(t, y.mode, y.pc)

Setters ==
    {"set_k2u_target", "set_k2u_target_f2", "set_h2g_target", "set_g2h_target", "set_u2k_target"}

LEMMA SwitchedFacts ==
    ASSUME NEW next, NEW r \in [Regs -> Values], NEW m \in ModeState, NEW target,
           NEW actor \in 0..1, NEW t, NEW y,
           LET x == Switched([pc |-> next, reg |-> r, mode |-> m], target, actor)
           IN y = x \/ y = Clobbered(t, x)
    PROVE  /\ y.pc = target /\ y.reg \in [Regs -> Values]
           /\ y.mode \in ModeState /\ y.mode.actor = actor /\ y.mode.base = actor
           /\ y.mode.k2u = m.k2u /\ y.mode.h2g = m.h2g /\ y.mode.g2h = m.g2h
           /\ y.mode.lstar = m.lstar
<1> DEFINE x == Switched([pc |-> next, reg |-> r, mode |-> m], target, actor)
           n == [m EXCEPT !.actor = actor, !.base = actor]
<1>1. x.pc = target /\ x.reg = r /\ x.mode = n
    BY DEF Switched
<1>2. /\ Clobbered(t, x).pc = target /\ Clobbered(t, x).mode = n
      /\ Clobbered(t, x).reg \in {r, [r EXCEPT !["A"] = 0]}
    BY DEF Switched, Clobbered
<1>3. [r EXCEPT !["A"] = 0] \in [Regs -> Values]
    BY DEF Regs, Values
<1>4. /\ n \in ModeState /\ n.actor = actor /\ n.base = actor
      /\ n.k2u = m.k2u /\ n.h2g = m.h2g /\ n.g2h = m.g2h /\ n.lstar = m.lstar
    BY DEF ModeState
<1>5. y = x \/ y = Clobbered(t, x)
    OBVIOUS
<1> HIDE DEF n, x
<1> QED
    BY <1>1, <1>2, <1>3, <1>4, <1>5

LEMMA SameModeOK ==
    ASSUME NEW t, NEW m, ModeOK(t, m), NEW n \in ModeState,
           n.k2u = m.k2u, n.h2g = m.h2g, n.g2h = m.g2h, n.lstar = m.lstar
    PROVE  ModeOK(t, n) /\ MoreSet(t, m, n)
  BY DEF ModeOK, MoreSet

\* A setter before the switch, which no branch skips, has been executed.
LEMMA SetAtSwitch ==
    ASSUME NEW t \in Tests, t.other # <<>>, NEW m, NEW S, Prepared(t, m, Landing(t) - 1),
           SetBefore(t, Landing(t) - 2, S)
    PROVE  \E i \in DOMAIN t.body : t.body[i] \in S /\ TargetSet(t, m, i)
<1>1. /\ Landing(t) - 2 \in DOMAIN t.body /\ Landing(t) \in 3..EndAddr(t) /\ EndAddr(t) \in Nat
      /\ DOMAIN t.body = 1..Len(t.body) /\ Len(t.body) \in Nat
    BY LandingFacts, TestType
<1>2. PICK j \in 1..(Landing(t) - 2 - 1) :
          t.body[j] \in S /\ (j > 1 => t.body[j - 1] \notin Branches)
    BY Zenon DEF SetBefore
<1>3. j \in DOMAIN t.body /\ j + 1 < Landing(t) - 1 /\ Landing(t) - 1 < Landing(t)
    BY <1>1, <1>2
<1>4. TargetSet(t, m, j)
    BY <1>2, <1>3, Zenon DEF Prepared
<1> QED
    BY <1>2, <1>3, <1>4

\* In main: a switch leads to the other actor, whose way back is set.
LEMMA SwitchThere ==
    ASSUME NEW t \in Tests, NEW m, ModeOK(t, m), NEW a \in 2..EndAddr(t) - 1,
           t.body[a - 1] \in SwitchesThere, Prepared(t, m, a)
    PROVE  /\ t.other # <<>> /\ OtherStart \in OtherAddresses(t)
           /\ t.body[a - 1] = "switch_k2u" => m.k2u \in OtherAddresses(t)
           /\ t.body[a - 1] = "switch_h2g" => m.h2g \in OtherAddresses(t)
           /\ \A b \in OtherAddresses(t) : Prepared(t, m, b)
<1>1. a - 1 \in DOMAIN t.body /\ a \in Nat
    BY TestType
<1>2. t.other # <<>>
    <2>1. t.body[a - 1] \in Macros
        BY DEF SwitchesThere, Macros
    <2>2. t.other = <<>> => ~Uses(t.body, Macros)
        BY ModelAssumption, Zenon DEF WellFormed
    <2> QED
        BY <1>1, <2>1, <2>2, Zenon DEF Uses
<1>3. a = Landing(t) - 1 /\ a - 1 = Landing(t) - 2
    <2>1. a - 1 = Landing(t) - 2 /\ Landing(t) \in 3..EndAddr(t)
        BY <1>1, <1>2, LandingFacts
    <2> QED
        BY <1>1, <2>1, TestType
<1>4. Len(t.other) > 0 /\ OtherStart \in OtherAddresses(t)
    BY <1>2, TestType DEF OtherStart
<1>5. t.body[a - 1] = "switch_k2u" => m.k2u # 0
    <2> SUFFICES ASSUME t.body[a - 1] = "switch_k2u" PROVE m.k2u # 0
        OBVIOUS
    <2> DEFINE S == {"set_k2u_target", "set_k2u_target_f2"}
    <2>1. SetBefore(t, Landing(t) - 2, S)
        BY <1>2, <1>3, LandingFacts, Zenon
    <2> HIDE DEF S
    <2>2. \E i \in DOMAIN t.body : t.body[i] \in S /\ TargetSet(t, m, i)
        BY <1>2, <1>3, <2>1, SetAtSwitch, Zenon
    <2> QED
        BY <2>2 DEF TargetSet, S
<1>6. t.body[a - 1] = "switch_h2g" => m.h2g # 0
    <2> SUFFICES ASSUME t.body[a - 1] = "switch_h2g" PROVE m.h2g # 0
        OBVIOUS
    <2> DEFINE S == {"set_h2g_target"}
    <2>1. SetBefore(t, Landing(t) - 2, S)
        BY <1>2, <1>3, LandingFacts, Zenon
    <2> HIDE DEF S
    <2>2. \E i \in DOMAIN t.body : t.body[i] \in S /\ TargetSet(t, m, i)
        BY <1>2, <1>3, <2>1, SetAtSwitch, Zenon
    <2> QED
        BY <2>2 DEF TargetSet, S
<1>7. Uses(t.other, {"switch_g2h"}) => m.g2h # 0
    <2> SUFFICES ASSUME Uses(t.other, {"switch_g2h"}) PROVE m.g2h # 0
        OBVIOUS
    <2> DEFINE S == {"set_g2h_target"}
    <2>1. SetBefore(t, Landing(t) - 2, S)
        BY <1>2, LandingFacts, Zenon
    <2> HIDE DEF S
    <2>2. \E i \in DOMAIN t.body : t.body[i] \in S /\ TargetSet(t, m, i)
        BY <1>2, <1>3, <2>1, SetAtSwitch, Zenon
    <2> QED
        BY <2>2 DEF TargetSet, S
<1>8. Uses(t.other, {"switch_u2k"}) => m.lstar # ExitAddr(t)
    <2> SUFFICES ASSUME Uses(t.other, {"switch_u2k"}) PROVE m.lstar # ExitAddr(t)
        OBVIOUS
    <2> DEFINE S == {"set_u2k_target"}
    <2>1. SetBefore(t, Landing(t) - 2, S)
        BY <1>2, LandingFacts, Zenon
    <2> HIDE DEF S
    <2>2. \E i \in DOMAIN t.body : t.body[i] \in S /\ TargetSet(t, m, i)
        BY <1>2, <1>3, <2>1, SetAtSwitch, Zenon
    <2> QED
        BY <2>2 DEF TargetSet, S
<1>9. ASSUME NEW b \in OtherAddresses(t) PROVE Prepared(t, m, b)
    <2>1. ~(b < Landing(t))
        BY <1>2, LandingFacts, TestType, SMTT(30) DEF OtherStart
    <2> QED
        BY <1>7, <1>8, <2>1 DEF Prepared
<1> QED
    BY <1>2, <1>4, <1>5, <1>6, <1>9 DEF ModeOK

\* In the second actor: a switch leads back to main.
LEMMA SwitchBack ==
    ASSUME NEW t \in Tests, NEW m, ModeOK(t, m), NEW a \in OtherAddresses(t),
           InsnOf(t, a) \in Leaving, Prepared(t, m, a)
    PROVE  /\ InsnOf(t, a) \in {"switch", "switch_u2k", "switch_g2h"}
           /\ Landing(t) \in AddressesOf(t) /\ ActorOf(Landing(t)) = 0
           /\ InsnOf(t, a) = "switch_g2h" => m.g2h = Landing(t)
           /\ InsnOf(t, a) = "switch_u2k" => m.lstar = Landing(t)
           /\ m.lstar \in {ExitAddr(t), Landing(t)} /\ ExitAddr(t) \in AddressesOf(t)
           /\ ActorOf(ExitAddr(t)) = 0
           /\ \A n : Prepared(t, n, Landing(t)) /\ Prepared(t, n, ExitAddr(t))
<1>1. /\ a \in AddressesOf(t) /\ a # ExitAddr(t) /\ a >= OtherStart /\ a - 19 \in DOMAIN t.other
      /\ InsnOf(t, a) = t.other[a - 19] /\ t.other # <<>>
    <2>1. a \in AddressesOf(t) /\ a # ExitAddr(t) /\ a >= OtherStart
        BY TestType DEF AddressesOf, OtherStart
    <2> QED
        BY <2>1, CodeAt, TestType
<1>2. ActorsWellFormed(t)
    BY <1>1, ModelAssumption, Zenon DEF WellFormed
<1>3. InsnOf(t, a) \in {"switch", "switch_u2k", "switch_g2h"}
    BY <1>1, <1>2, Zenon DEF ActorsWellFormed, Uses, Leaving
<1>4. Landing(t) \in 3..EndAddr(t)
    BY <1>1, LandingFacts
<1>5. /\ Landing(t) \in AddressesOf(t) /\ ActorOf(Landing(t)) = 0
      /\ ExitAddr(t) \in AddressesOf(t) /\ ActorOf(ExitAddr(t)) = 0
    BY <1>4, TestType DEF AddressesOf, CodeStart, ActorOf, OtherStart
<1>6. InsnOf(t, a) = "switch_g2h" => m.g2h = Landing(t)
    <2>1. InsnOf(t, a) = "switch_g2h" => Uses(t.other, {"switch_g2h"})
        BY <1>1, Zenon DEF Uses
    <2> QED
        BY <1>1, <2>1 DEF Prepared, ModeOK
<1>7. InsnOf(t, a) = "switch_u2k" => m.lstar = Landing(t)
    <2>1. InsnOf(t, a) = "switch_u2k" => Uses(t.other, {"switch_u2k"})
        BY <1>1, Zenon DEF Uses
    <2> QED
        BY <1>1, <2>1 DEF Prepared, ModeOK
<1>8. ASSUME NEW n PROVE Prepared(t, n, Landing(t)) /\ Prepared(t, n, ExitAddr(t))
    <2>1. /\ ~(Landing(t) < Landing(t)) /\ ~(Landing(t) >= OtherStart)
          /\ ~(ExitAddr(t) < Landing(t)) /\ ~(ExitAddr(t) >= OtherStart)
        BY <1>4, TestType DEF OtherStart
    <2> QED
        BY <2>1, Zenon DEF Prepared
<1> QED
    BY <1>1, <1>3, <1>5, <1>6, <1>7, <1>8 DEF ModeOK

\* interpret_instruction at address a.
LEMMA InterpretFacts ==
    ASSUME NEW t \in Tests, NEW m, ModeOK(t, m), NEW a \in AddressesOf(t), a # ExitAddr(t),
           m.actor = ActorOf(a), Prepared(t, m, a), NEW next, NEW r \in [Regs -> Values]
    PROVE  LET y == Interpret(t, InsnOf(t, a), [pc |-> next, reg |-> r, mode |-> m])
           IN /\ y.reg \in [Regs -> Values] /\ ModeOK(t, y.mode) /\ MoreSet(t, m, y.mode)
              /\ InsnOf(t, a) \notin Leaving =>
                     y.pc = next /\ y.mode.actor = m.actor /\ y.mode.base = m.base
              /\ InsnOf(t, a) \in Leaving => Switches(t, y, 1 - ActorOf(a))
              /\ a \in 2..EndAddr(t) - 1 => TargetSet(t, y.mode, a - 1)
<1> DEFINE x == [pc |-> next, reg |-> r, mode |-> m]
           insn == InsnOf(t, a)
           y == Interpret(t, insn, x)
<1>1. /\ m \in ModeState /\ x.pc = next /\ x.reg = r /\ x.mode = m /\ ActorOf(a) \in 0..1
      /\ ActorOf(a) = 0 <=> ~(a >= OtherStart)
    BY DEF ModeOK, ActorOf
<1>2. a >= OtherStart => a \in OtherAddresses(t)
    BY TestType DEF AddressesOf, OtherStart, CodeStart
<1>3. /\ a \in Nat /\ (a \in 2..EndAddr(t) - 1 => a - 1 \in DOMAIN t.body /\ insn = t.body[a - 1])
      /\ (a \in 2..EndAddr(t) - 1 => ~(a >= OtherStart))
      /\ insn \in SwitchesThere /\ ~(a >= OtherStart) => a \in 2..EndAddr(t) - 1
      /\ a >= OtherStart => a - 19 \in DOMAIN t.other /\ insn = t.other[a - 19] /\ t.other # <<>>
    <2>1. insn \in SwitchesThere => a # 1 /\ a # EndAddr(t)
        BY CodeAt DEF SwitchesThere
    <2> QED
        BY <2>1, CodeAt, TestType DEF OtherStart
<1> HIDE DEF insn
<1>4. CASE insn \in Leaving
    <2>1. SoftFault(t, insn, x.mode.actor) = "none" /\ y = InterpretMacro(t, insn, x)
        BY <1>4 DEF SoftFault, MacroFaults, ExitsToHost, Interpret, Leaving
    <2>2. CASE a >= OtherStart
        <3>1. /\ insn \in {"switch", "switch_u2k", "switch_g2h"}
              /\ Landing(t) \in AddressesOf(t) /\ ActorOf(Landing(t)) = 0
              /\ insn = "switch_g2h" => m.g2h = Landing(t)
              /\ m.lstar \in {ExitAddr(t), Landing(t)} /\ ExitAddr(t) \in AddressesOf(t)
              /\ ActorOf(ExitAddr(t)) = 0
              /\ \A n : Prepared(t, n, Landing(t)) /\ Prepared(t, n, ExitAddr(t))
            BY <1>2, <1>4, <2>2, SwitchBack DEF insn
        <3>2. PICK b \in {ExitAddr(t), Landing(t)} :
                  y = Switched(x, b, 0) \/ y = Clobbered(t, Switched(x, b, 0))
            BY <1>1, <2>1, <2>2, <3>1
               DEF InterpretMacro, MacroSwitch, MacroSwitchU2k, MacroSwitchG2h
        <3>3. /\ y.pc = b /\ y.reg \in [Regs -> Values]
              /\ y.mode \in ModeState /\ y.mode.actor = 0 /\ y.mode.base = 0
              /\ y.mode.k2u = m.k2u /\ y.mode.h2g = m.h2g /\ y.mode.g2h = m.g2h
              /\ y.mode.lstar = m.lstar
            <4> HIDE DEF y
            <4> QED
                BY <1>1, <3>2, SwitchedFacts
        <3> HIDE DEF y
        <3>4. ModeOK(t, y.mode) /\ MoreSet(t, m, y.mode)
            BY <3>3, SameModeOK
        <3>5. Switches(t, y, 0) /\ 1 - ActorOf(a) = 0
            BY <1>1, <2>2, <3>1, <3>2, <3>3 DEF Switches
        <3>6. ~(a \in 2..EndAddr(t) - 1)
            BY <1>3, <2>2
        <3> QED
            BY <1>4, <3>3, <3>4, <3>5, <3>6 DEF y, insn
    <2>3. CASE ~(a >= OtherStart)
        <3>1. a \in 2..EndAddr(t) - 1 /\ insn \in SwitchesThere
            <4>1. insn \notin {"switch_u2k", "switch_g2h"}
                <5>1. a = 1 \/ a \in 2..EndAddr(t) - 1 \/ a = EndAddr(t)
                    BY <2>3, CodeAt
                <5>2. ~Uses(t.body, {"switch_u2k", "switch_g2h"})
                    BY ModelAssumption, Zenon DEF WellFormed
                <5>3. CASE a \in 2..EndAddr(t) - 1
                    BY <1>3, <5>2, <5>3, Zenon DEF Uses
                <5>4. CASE a = 1 \/ a = EndAddr(t)
                    BY <5>4, CodeAt DEF insn
                <5> QED
                    BY <5>1, <5>3, <5>4
            <4>2. insn \in SwitchesThere
                BY <1>4, <4>1 DEF Leaving, SwitchesThere
            <4> QED
                BY <1>3, <2>3, <4>2
        <3>2. /\ OtherStart \in OtherAddresses(t)
              /\ insn = "switch_k2u" => m.k2u \in OtherAddresses(t)
              /\ insn = "switch_h2g" => m.h2g \in OtherAddresses(t)
              /\ \A b \in OtherAddresses(t) : Prepared(t, m, b)
            BY <1>3, <3>1, SwitchThere
        <3>3. PICK b \in OtherAddresses(t) :
                  y = Switched(x, b, 1) \/ y = Clobbered(t, Switched(x, b, 1))
            BY <1>1, <2>1, <2>3, <3>1, <3>2
               DEF InterpretMacro, MacroSwitch, MacroSwitchK2u, MacroSwitchH2g, SwitchesThere
        <3>4. /\ y.pc = b /\ y.reg \in [Regs -> Values]
              /\ y.mode \in ModeState /\ y.mode.actor = 1 /\ y.mode.base = 1
              /\ y.mode.k2u = m.k2u /\ y.mode.h2g = m.h2g /\ y.mode.g2h = m.g2h
              /\ y.mode.lstar = m.lstar
            <4> HIDE DEF y
            <4> QED
                BY <1>1, <3>3, SwitchedFacts
        <3> HIDE DEF y
        <3>5. ModeOK(t, y.mode) /\ MoreSet(t, m, y.mode)
            BY <3>4, SameModeOK
        <3>6. b \in AddressesOf(t) /\ ActorOf(b) = 1 /\ 1 - ActorOf(a) = 1
            BY <1>1, <2>3, TestType DEF AddressesOf, ActorOf, OtherStart
        <3>7. Switches(t, y, 1)
            BY <3>2, <3>4, <3>5, <3>6, PreparedKeeps DEF Switches
        <3>8. TargetSet(t, y.mode, a - 1)
            BY <1>3, <3>1 DEF TargetSet, SwitchesThere
        <3> QED
            BY <1>4, <3>4, <3>5, <3>6, <3>7, <3>8 DEF y, insn
    <2> QED
        BY <2>2, <2>3
<1>5. insn \in Setters => t.other # <<>>
    <2>1. t.other = <<>> => ~Uses(t.body, Macros)
        BY ModelAssumption, Zenon DEF WellFormed
    <2>2. insn \in Setters => insn \in Macros /\ a # 1 /\ a # EndAddr(t)
        BY CodeAt DEF Setters, Macros, insn
    <2>3. insn \in Setters => a \in 2..EndAddr(t) - 1 \/ a >= OtherStart
        BY <2>2, CodeAt
    <2> QED
        BY <1>3, <2>1, <2>2, <2>3, Zenon DEF Uses
<1>6. CASE insn \in Setters
    <2>1. insn \notin Leaving /\ insn \notin {"landing_k2u", "landing_u2k"} /\ t.other # <<>>
        BY <1>5, <1>6 DEF Setters, Leaving
    <2>2. /\ Landing(t) \in Nat /\ Landing(t) # 0 /\ Landing(t) # ExitAddr(t)
          /\ OtherStart \in OtherAddresses(t)
        BY <2>1, LandingFacts, TestType DEF OtherStart
    <2>3. insn = "set_k2u_target_f2" => OtherStart + 1 \in OtherAddresses(t)
        <3> SUFFICES ASSUME insn = "set_k2u_target_f2" PROVE Len(t.other) > 1
            BY TestType DEF OtherStart
        <3>1. \E code \in {t.body, t.other} : Uses(code, {"set_k2u_target_f2"})
            <4>1. a # 1 /\ a # EndAddr(t)
                BY CodeAt DEF insn
            <4>2. \/ a - 1 \in DOMAIN t.body /\ t.body[a - 1] = insn
                  \/ a - 19 \in DOMAIN t.other /\ t.other[a - 19] = insn
                BY <1>3, <4>1, CodeAt
            <4> QED
                BY <4>2, Zenon DEF Uses
        <3>2. ActorsWellFormed(t)
            BY <2>1, ModelAssumption, Zenon DEF WellFormed
        <3> QED
            BY <3>1, <3>2, Zenon DEF ActorsWellFormed
    <2>4. CASE y = x
        <3>1. CASE a \in 2..EndAddr(t) - 1
            <4>1. y = InterpretMacro(t, insn, x)
                BY <1>1, <1>3, <3>1 DEF Interpret, SoftFault, MacroFaults, ExitsToHost
            <4>2. \/ insn \in {"set_k2u_target", "set_k2u_target_f2"} /\ y.mode.k2u # 0
                  \/ insn = "set_h2g_target" /\ y.mode.h2g # 0
                  \/ insn = "set_g2h_target" /\ y.mode.g2h # 0
                  \/ insn = "set_u2k_target" /\ y.mode.lstar # ExitAddr(t)
                BY <1>1, <1>6, <2>2, <4>1 DEF InterpretMacro, MacroSetK2uTarget, MacroSetH2gTarget,
                   MacroSetG2hTarget, MacroSetU2kTarget, ModeState, OtherStart, Setters
            <4>3. TargetSet(t, y.mode, a - 1)
                BY <1>3, <3>1, <4>2 DEF TargetSet
            <4> QED
                BY <1>1, <2>1, <2>4, <4>3 DEF MoreSet, insn
        <3>2. CASE ~(a \in 2..EndAddr(t) - 1)
            BY <1>1, <2>1, <2>4, <3>2 DEF MoreSet, insn
        <3> QED
            BY <3>1, <3>2
    <2>5. CASE y = InterpretMacro(t, insn, x)
        <3>1. /\ y.pc = next /\ y.reg = r /\ y.mode.actor = m.actor /\ y.mode.base = m.base
              /\ y.mode \in ModeState
              /\ y.mode.k2u = m.k2u \/ y.mode.k2u \in OtherAddresses(t)
              /\ y.mode.h2g = m.h2g \/ y.mode.h2g \in OtherAddresses(t)
              /\ y.mode.g2h = m.g2h \/ y.mode.g2h = Landing(t)
              /\ y.mode.lstar = m.lstar \/ y.mode.lstar = Landing(t)
              /\ insn \in {"set_k2u_target", "set_k2u_target_f2"} =>
                     y.mode.k2u \in OtherAddresses(t)
              /\ insn = "set_h2g_target" => y.mode.h2g \in OtherAddresses(t)
              /\ insn = "set_g2h_target" => y.mode.g2h = Landing(t)
              /\ insn = "set_u2k_target" => y.mode.lstar = Landing(t)
            <4>1. CASE insn = "set_k2u_target"
                BY <1>1, <2>2, <2>5, <4>1
                   DEF InterpretMacro, MacroSetK2uTarget, ModeState, OtherStart
            <4>2. CASE insn = "set_k2u_target_f2"
                BY <1>1, <2>3, <2>5, <4>2
                   DEF InterpretMacro, MacroSetK2uTarget, ModeState, OtherStart
            <4>3. CASE insn = "set_h2g_target"
                BY <1>1, <2>2, <2>5, <4>3
                   DEF InterpretMacro, MacroSetH2gTarget, ModeState, OtherStart
            <4>4. CASE insn = "set_g2h_target"
                BY <1>1, <2>2, <2>5, <4>4 DEF InterpretMacro, MacroSetG2hTarget, ModeState
            <4>5. CASE insn = "set_u2k_target"
                BY <1>1, <2>2, <2>5, <4>5 DEF InterpretMacro, MacroSetU2kTarget, ModeState
            <4> QED
                BY <1>6, <4>1, <4>2, <4>3, <4>4, <4>5 DEF Setters
        <3> HIDE DEF y
        <3>2. 0 \notin OtherAddresses(t)
            BY TestType
        <3>3. ModeOK(t, y.mode) /\ MoreSet(t, m, y.mode)
            BY <2>1, <2>2, <3>1, <3>2 DEF ModeOK, MoreSet
        <3>4. a \in 2..EndAddr(t) - 1 => TargetSet(t, y.mode, a - 1)
            BY <1>3, <2>2, <3>1, <3>2 DEF TargetSet
        <3> QED
            BY <2>1, <3>1, <3>3, <3>4 DEF y, insn
    <2> QED
        BY <2>4, <2>5 DEF Interpret
<1>7. CASE insn \notin Leaving /\ insn \notin Setters
    <2>1. y.pc = next /\ y.mode = m /\ y.reg \in {r, [r EXCEPT !["C"] = 0]}
        BY <1>1, <1>7 DEF Interpret, InterpretMacro, MacroLanding, Leaving, Setters
    <2> HIDE DEF y
    <2>2. [r EXCEPT !["C"] = 0] \in [Regs -> Values]
        BY DEF Regs, Values
    <2>3. a \in 2..EndAddr(t) - 1 => TargetSet(t, y.mode, a - 1)
        BY <1>3, <1>7 DEF TargetSet, Setters
    <2> QED
        BY <1>7, <2>1, <2>2, <2>3 DEF MoreSet, y, insn
<1> QED
    BY <1>4, <1>6, <1>7

-----------------------------------------------------------------------------
(* The taint tracker: what keeps its checkpoints, and what changes them.   *)

Deps == [Labels -> SUBSET Labels]
Follows(k, j) == j \in Trackers /\ j.on = k.on /\ Len(j.cks) = Len(k.cks)

LEMMA LabelFacts ==
    /\ Operands \subseteq Labels /\ Regs \subseteq Labels /\ "RIP" \in Labels
    /\ CellLabels \subseteq Labels /\ \A c \in Cells : CellLabel(c) \in CellLabels
  BY DEF Operands, Labels, CellLabels

LEMMA FreshType ==
    ASSUME NEW on \in BOOLEAN, NEW obs
    PROVE  LET k == FreshTracker(on, InitialObservations(obs))
           IN k \in Trackers /\ k.on = on /\ Len(k.cks) = 0
<1>1. InitialObservations(obs) \in SUBSET Labels
    BY LabelFacts DEF InitialObservations
<1>2. [l \in Labels |-> {l}] \in Deps
    BY DEF Deps
<1>3. <<>> \in Seq(Deps) /\ Len(<<>>) = 0
    OBVIOUS
<1> QED
    BY <1>1, <1>2, <1>3 DEF FreshTracker, Trackers, Deps

LEMMA FinalizedFacts ==
    ASSUME NEW k \in Trackers
    PROVE  Follows(k, FinalizedIfAny(k)) /\ FinalizedIfAny(k).insn = "none"
<1>1. CASE k.insn = "none"
    BY <1>1 DEF FinalizedIfAny, Follows
<1>2. CASE k.insn # "none"
    <2>1. /\ k.insn \in Instructions /\ k.deps \in Deps /\ k.reads \in SUBSET Labels
          /\ k.writes \in SUBSET Labels /\ k.pend \in SUBSET Labels /\ k.tainted \in SUBSET Labels
        BY <1>2, LabelFacts DEF Trackers, Deps
    <2>2. Insn[k.insn].src \in SUBSET Labels
        BY <2>1, InsnType, LabelFacts
    <2>3. SourceDeps(k) \in SUBSET Labels
        BY <2>1, <2>2 DEF SourceDeps, Deps
    <2>4. Propagated(k) \in Deps
        BY <2>1, <2>3 DEF Propagated, Deps
    <2> DEFINE d == Propagated(k)
    <2> HIDE DEF d
    <2>5. WithoutOverwritten(k, d) \in Deps
        BY <2>4 DEF WithoutOverwritten, Deps, d
    <2>6. UNION {d[l] : l \in k.pend} \in SUBSET Labels
        BY <2>1, <2>4 DEF Deps, d
    <2> DEFINE new == k.tainted \cup UNION {d[l] : l \in k.pend}
               w == WithoutOverwritten(k, d)
               j == [k EXCEPT !.tainted = new, !.deps = w, !.insn = "none"]
    <2>7. FinalizedIfAny(k) = j
        BY <1>2 DEF FinalizedIfAny, Finalized, d
    <2>8. new \in SUBSET Labels /\ w \in Deps
        BY <2>1, <2>5, <2>6
    <2> HIDE DEF new, w
    <2>9. j \in Trackers /\ j.on = k.on /\ j.cks = k.cks /\ j.insn = "none"
        BY <2>8 DEF Trackers, Deps
    <2> QED
        BY <2>7, <2>9 DEF Follows
<1> QED
    BY <1>1, <1>2

LEMMA TrackInstructionFacts ==
    ASSUME NEW k \in Trackers, NEW insn \in Instructions
    PROVE  /\ Follows(k, TrackInstruction(k, insn))
           /\ k.on => TrackInstruction(k, insn).insn = insn
<1> DEFINE f == FinalizedIfAny(k)
<1>1. Follows(k, f)
    BY FinalizedFacts
<1> HIDE DEF f
<1> DEFINE j == [f EXCEPT !.insn = insn, !.pend = {}, !.reads = {}, !.writes = {}]
<1>2. j \in Trackers /\ j.on = f.on /\ j.cks = f.cks /\ j.insn = insn
    BY <1>1 DEF Follows, Trackers
<1>3. k.on => TrackInstruction(k, insn) = j
    BY DEF TrackInstruction, f
<1>4. ~k.on => TrackInstruction(k, insn) = k
    BY DEF TrackInstruction
<1> HIDE DEF j
<1> QED
    BY <1>1, <1>2, <1>3, <1>4 DEF Follows

LEMMA TrackMemoryAccessFacts ==
    ASSUME NEW k \in Trackers, NEW c \in Cells, NEW is_write \in BOOLEAN
    PROVE  /\ Follows(k, TrackMemoryAccess(k, c, is_write))
           /\ TrackMemoryAccess(k, c, is_write).insn = k.insn
<1>1. CellLabel(c) \in CellLabels
    BY LabelFacts
<1>2. /\ k.reads \cup {CellLabel(c)} \in SUBSET CellLabels
      /\ k.writes \cup {CellLabel(c)} \in SUBSET CellLabels
    BY <1>1 DEF Trackers
<1> QED
    BY <1>2 DEF TrackMemoryAccess, Follows, Trackers

\* taint(...) only adds labels of the instruction to _pending_taint.
LEMMA PendingFacts ==
    ASSUME NEW k \in Trackers, NEW L \in SUBSET Labels
    PROVE  Follows(k, [k EXCEPT !.pend = @ \cup L]) /\ [k EXCEPT !.pend = @ \cup L].insn = k.insn
<1>1. k.pend \cup L \in SUBSET Labels
    BY DEF Trackers
<1> QED
    BY <1>1 DEF Follows, Trackers

LEMMA TaintFacts ==
    ASSUME NEW k \in Trackers
    PROVE  /\ Follows(k, TaintPc(k)) /\ TaintPc(k).insn = k.insn
           /\ Follows(k, TaintMem(k)) /\ TaintMem(k).insn = k.insn
           /\ Follows(k, TaintLoaded(k)) /\ TaintLoaded(k).insn = k.insn
<1>1. Follows(k, k)
    BY DEF Follows
<1>2. Follows(k, TaintPc(k)) /\ TaintPc(k).insn = k.insn
    <2>1. {"RIP"} \in SUBSET Labels
        BY LabelFacts
    <2> QED
        BY <1>1, <2>1, PendingFacts DEF TaintPc
<1>3. Follows(k, TaintMem(k)) /\ TaintMem(k).insn = k.insn
    <2>1. k.insn # "none" => k.insn \in Instructions
        BY DEF Trackers
    <2>2. k.insn # "none" => Insn[k.insn].addr \in SUBSET Labels
        BY <2>1, InsnType, LabelFacts
    <2> QED
        BY <1>1, <2>2, PendingFacts DEF TaintMem
<1>4. Follows(k, TaintLoaded(k)) /\ TaintLoaded(k).insn = k.insn
    <2>1. k.reads \in SUBSET Labels
        BY LabelFacts DEF Trackers
    <2> QED
        BY <1>1, <2>1, PendingFacts DEF TaintLoaded
<1> QED
    BY <1>2, <1>3, <1>4

LEMMA ObservedFacts ==
    ASSUME NEW k \in Trackers, NEW obs, NEW on, NEW c, NEW is_write, NEW in_spec
    PROVE  /\ Follows(k, TaintInstruction(obs, on, k)) /\ TaintInstruction(obs, on, k).insn = k.insn
           /\ Follows(k, TaintMemAccess(obs, on, k, c, is_write, in_spec))
           /\ TaintMemAccess(obs, on, k, c, is_write, in_spec).insn = k.insn
<1>1. Follows(k, k)
    BY DEF Follows
<1>2. Follows(k, TaintInstruction(obs, on, k)) /\ TaintInstruction(obs, on, k).insn = k.insn
    BY <1>1, TaintFacts DEF TaintInstruction
<1> DEFINE u == IF obs = "arch" /\ ~is_write THEN TaintLoaded(k) ELSE k
<1>3. Follows(k, u) /\ u.insn = k.insn
    BY <1>1, TaintFacts
<1>4. TaintMemAccess(obs, on, k, c, is_write, in_spec) \in {u, TaintMem(u)}
    BY DEF TaintMemAccess
<1> HIDE DEF u
<1>5. Follows(k, TaintMem(u)) /\ TaintMem(u).insn = k.insn
    BY <1>3, TaintFacts DEF Follows
<1> QED
    BY <1>2, <1>3, <1>4, <1>5

LEMMA TrackerCheckpointFacts ==
    ASSUME NEW k \in Trackers, NEW include \in BOOLEAN
    PROVE  LET j == TrackerCheckpoint(k, include)
           IN /\ j \in Trackers /\ j.on = k.on
              /\ k.on => Len(j.cks) = Len(k.cks) + 1
              /\ ~include => j.insn = k.insn
<1> DEFINE u == IF include THEN FinalizedIfAny(k) ELSE k
           j == [u EXCEPT !.cks = Append(@, u.deps)]
<1>1. Follows(k, u) /\ (~include => u.insn = k.insn)
    BY FinalizedFacts DEF Follows
<1> HIDE DEF u
<1>2. u.cks \in Seq(Deps) /\ u.deps \in Deps
    BY <1>1 DEF Follows, Trackers, Deps
<1>3. Append(u.cks, u.deps) \in Seq(Deps) /\ Len(Append(u.cks, u.deps)) = Len(u.cks) + 1
    BY <1>2
<1>4. j \in Trackers /\ j.on = u.on /\ Len(j.cks) = Len(u.cks) + 1 /\ j.insn = u.insn
    BY <1>1, <1>3 DEF Follows, Trackers, Deps
<1>5. k.on => TrackerCheckpoint(k, include) = j
    BY DEF TrackerCheckpoint, u
<1>6. ~k.on => TrackerCheckpoint(k, include) = k
    BY DEF TrackerCheckpoint
<1> HIDE DEF j
<1> QED
    BY <1>1, <1>4, <1>5, <1>6 DEF Follows

LEMMA TrackerRollbackFacts ==
    ASSUME NEW k \in Trackers, k.on => Len(k.cks) > 0
    PROVE  LET j == TrackerRollback(k)
           IN j \in Trackers /\ j.on = k.on /\ (k.on => Len(j.cks) = Len(k.cks) - 1)
<1> DEFINE u == FinalizedIfAny(k)
           last == k.cks[Len(k.cks)]
           rest == SubSeq(u.cks, 1, Len(u.cks) - 1)
           j == [u EXCEPT !.deps = last, !.cks = rest]
<1>1. Follows(k, u)
    BY FinalizedFacts
<1> HIDE DEF u
<1>2. k.cks \in Seq(Deps) /\ u.cks \in Seq(Deps)
    BY <1>1 DEF Follows, Trackers, Deps
<1>3. k.on => last \in Deps
    BY <1>2
<1>4. k.on => rest \in Seq(Deps) /\ Len(rest) = Len(k.cks) - 1
    BY <1>1, <1>2 DEF Follows
<1> HIDE DEF last, rest
<1>5. k.on => j \in Trackers /\ j.on = u.on /\ j.cks = rest
    BY <1>1, <1>3, <1>4 DEF Follows, Trackers, Deps
<1>6. k.on => TrackerRollback(k) = j
    BY DEF TrackerRollback, u, last, rest
<1>7. ~k.on => TrackerRollback(k) = k
    BY DEF TrackerRollback
<1> HIDE DEF j
<1> QED
    BY <1>1, <1>4, <1>5, <1>6, <1>7 DEF Follows

-----------------------------------------------------------------------------
(* Faults of the interpreter, and the trace.                               *)

LEMMA SoftFaultFacts ==
    ASSUME NEW t \in Tests, NEW a \in AddressesOf(t), a # ExitAddr(t)
    PROVE  /\ SoftFault(t, InsnOf(t, a), ActorOf(a)) \in Faults
           /\ SoftFault(t, InsnOf(t, a), ActorOf(a)) # "none" =>
                  /\ MayFault(InsnOf(t, a)) /\ InsnOf(t, a) \notin Leaving
                  /\ a >= OtherStart
<1>1. ActorOf(a) = 1 => a >= OtherStart
    BY DEF ActorOf
<1> QED
    BY <1>1 DEF SoftFault, MacroFaults, ExitsToHost, Faults, MayFault, Leaving

LEMMA EntryFacts ==
    /\ \A obs : \A a \in Nat : PcEntries(obs, a) \in Seq(Entry)
    /\ \A obs, is_write, in_spec : \A c \in Nat : MemEntries(obs, c, is_write, in_spec) \in Seq(Entry)
    /\ \A v \in Nat : <<<<"val", v>>>> \in Seq(Entry)
    /\ \A r \in [Regs -> Values] : RegEntries(r) \in Seq(Entry)
<1>0. \A k \in {"pc", "mem", "val"}, n \in Nat : <<k, n>> \in Entry
    BY DEF Entry
<1>1. \A e \in Entry : <<e>> \in Seq(Entry)
    OBVIOUS
<1>2. \A d, e \in Entry : <<d, e>> \in Seq(Entry)
    OBVIOUS
<1>3. <<>> \in Seq(Entry)
    OBVIOUS
<1>4. ASSUME NEW obs, NEW a \in Nat PROVE PcEntries(obs, a) \in Seq(Entry)
    <2>1. LineOf(a) \in Nat /\ LineOf(a + 1) \in Nat
        BY DEF LineOf, InsnsPerLine
    <2> DEFINE x == <<<<"pc", LineOf(a)>>>>
               y == IF LineOf(a + 1) # LineOf(a) THEN <<<<"pc", LineOf(a + 1)>>>> ELSE <<>>
    <2>2. x \in Seq(Entry) /\ y \in Seq(Entry) /\ <<<<"pc", a>>>> \in Seq(Entry)
        BY <1>0, <1>1, <1>3, <2>1
    <2>3. PcEntries(obs, a) \in {<<>>, x, x \o y, <<<<"pc", a>>>>}
        BY Zenon DEF PcEntries
    <2> HIDE DEF x, y
    <2>4. x \o y \in Seq(Entry)
        BY <2>2
    <2> QED
        BY <1>3, <2>2, <2>3, <2>4
<1>5. ASSUME NEW obs, NEW is_write, NEW in_spec, NEW c \in Nat
      PROVE  MemEntries(obs, c, is_write, in_spec) \in Seq(Entry)
    <2>1. MemEntries(obs, c, is_write, in_spec) \in
              {<<>>, <<<<"mem", c>>, <<"mem", c>>>>, <<<<"mem", c>>>>}
        BY Zenon DEF MemEntries
    <2>2. <<"mem", c>> \in Entry
        BY <1>0
    <2> QED
        BY <1>1, <1>2, <1>3, <2>1, <2>2
<1>6. ASSUME NEW r \in [Regs -> Values] PROVE RegEntries(r) \in Seq(Entry)
    <2>1. r["A"] \in Nat /\ r["C"] \in Nat
        BY DEF Regs, Values
    <2>2. <<"val", r["A"]>> \in Entry /\ <<"val", r["C"]>> \in Entry
        BY <1>0, <2>1
    <2> QED
        BY <1>2, <2>2 DEF RegEntries
<1> QED
    BY <1>0, <1>1, <1>4, <1>5, <1>6

LEMMA TraceFacts ==
    ASSUME NEW tr \in Seq(Entry), NEW obs, NEW on, NEW a \in Nat, NEW r \in [Regs -> Values],
           NEW c \in Nat, NEW is_write, NEW in_spec, NEW v \in Nat
    PROVE  /\ TraceInstruction(obs, on, tr, a, r) \in Seq(Entry)
           /\ TraceMemAccess(obs, on, tr, c, is_write, in_spec, v) \in Seq(Entry)
<1> DEFINE x == IF obs = "arch" /\ tr = <<>> THEN RegEntries(r) ELSE tr
           y == IF on THEN PcEntries(obs, a) ELSE <<>>
           z == IF obs = "arch" /\ ~is_write THEN <<<<"val", v>>>> ELSE <<>>
           w == MemEntries(obs, c, is_write, in_spec)
<1>0. <<>> \in Seq(Entry)
    OBVIOUS
<1>1. x \in Seq(Entry) /\ y \in Seq(Entry) /\ z \in Seq(Entry) /\ w \in Seq(Entry)
    <2>1. /\ PcEntries(obs, a) \in Seq(Entry) /\ RegEntries(r) \in Seq(Entry)
          /\ <<<<"val", v>>>> \in Seq(Entry) /\ w \in Seq(Entry)
        BY EntryFacts
    <2> QED
        BY <1>0, <2>1, Zenon
<1>2. /\ TraceInstruction(obs, on, tr, a, r) = x \o y
      /\ TraceMemAccess(obs, on, tr, c, is_write, in_spec, v) \in {tr, tr \o z \o w}
    BY Zenon DEF TraceInstruction, TraceMemAccess
<1> HIDE DEF x, y, z, w
<1>3. x \o y \in Seq(Entry) /\ tr \o z \in Seq(Entry)
    BY <1>1
<1>4. (tr \o z) \o w \in Seq(Entry)
    BY <1>1, <1>3
<1> QED
    BY <1>2, <1>3, <1>4

-----------------------------------------------------------------------------
(* Checkpoints of the speculator.                                          *)

LEMMA CheckpointedFacts ==
    ASSUME NEW t, NEW m, NEW had, NEW s, SpecOK(t, m, had, s), Len(s.ckpts) < MaxNesting,
           NEW r \in [Regs -> Values], mode.base \in 0..1, NEW next \in Nat,
           CheckpointOK(t, m, had, [reg |-> r, base |-> mode.base, next |-> next, window |-> s.window])
    PROVE  LET u == Checkpointed(s, r, next)
           IN SpecOK(t, m, had, u) /\ Len(u.ckpts) = Len(s.ckpts) + 1
<1> DEFINE c == [reg |-> r, base |-> mode.base, next |-> next, window |-> s.window]
           u == Checkpointed(s, r, next)
<1>1. s.ckpts \in Seq(Checkpoint) /\ s.logs \in Seq(Seq(Cells \X Values)) /\ s.window \in Nat
    BY DEF SpecOK, SpecState
<1>2. c \in Checkpoint /\ CheckpointOK(t, m, had, c)
    BY <1>1 DEF Checkpoint
<1>3. u = [s EXCEPT !.ckpts = Append(@, c), !.logs = Append(@, <<>>), !.in_speculation = TRUE]
    BY DEF Checkpointed
<1> HIDE DEF c, u
<1>4. /\ Append(s.ckpts, c) \in Seq(Checkpoint) /\ Len(Append(s.ckpts, c)) = Len(s.ckpts) + 1
      /\ \A k \in 1..Len(s.ckpts) + 1 :
            Append(s.ckpts, c)[k] = IF k = Len(s.ckpts) + 1 THEN c ELSE s.ckpts[k]
    BY <1>1, <1>2
<1>5. <<>> \in Seq(Cells \X Values)
    OBVIOUS
<1>6. /\ Append(s.logs, <<>>) \in Seq(Seq(Cells \X Values))
      /\ Len(Append(s.logs, <<>>)) = Len(s.logs) + 1
    BY <1>1, <1>5
<1>7. /\ u \in SpecState /\ u.ckpts = Append(s.ckpts, c) /\ u.logs = Append(s.logs, <<>>)
      /\ u.in_speculation = TRUE
    BY <1>3, <1>4, <1>6 DEF SpecOK, SpecState
<1>8. Len(s.ckpts) \in Nat /\ Len(s.logs) = Len(s.ckpts) /\ MaxNesting \in Nat
    BY <1>1, ModelAssumption DEF SpecOK
<1>9. \A k \in 1..Len(u.ckpts) : CheckpointOK(t, m, had, u.ckpts[k])
    BY <1>2, <1>4, <1>7, <1>8 DEF SpecOK
<1>10. /\ Len(u.ckpts) = Len(s.ckpts) + 1 /\ Len(u.logs) = Len(u.ckpts)
       /\ Len(u.ckpts) <= MaxNesting /\ Len(u.ckpts) > 0
    BY <1>4, <1>6, <1>7, <1>8
<1>11. u.in_speculation = (Len(u.ckpts) > 0)
    BY <1>7, <1>10
<1> QED
    BY <1>7, <1>9, <1>10, <1>11 DEF SpecOK, u

LEMMA LoggedFacts ==
    ASSUME NEW t, NEW m, NEW had, NEW s, SpecOK(t, m, had, s), s.logs # <<>>,
           NEW c \in Cells, NEW v \in Values
    PROVE  LET u == Logged(s, c, v)
           IN SpecOK(t, m, had, u) /\ u.ckpts = s.ckpts /\ u.in_speculation = s.in_speculation
<1> DEFINE n == Len(s.logs)
           l == Append(s.logs[n], <<c, v>>)
           u == Logged(s, c, v)
<1>1. s.logs \in Seq(Seq(Cells \X Values)) /\ n \in Nat /\ n > 0
    BY DEF SpecOK, SpecState
<1>2. l \in Seq(Cells \X Values)
    BY <1>1
<1>3. u = [s EXCEPT !.logs = [s.logs EXCEPT ![n] = l]]
    BY DEF Logged, SpecOK, SpecState
<1> HIDE DEF l, u
<1>4. /\ [s.logs EXCEPT ![n] = l] \in Seq(Seq(Cells \X Values))
      /\ Len([s.logs EXCEPT ![n] = l]) = Len(s.logs)
    BY <1>1, <1>2
<1>5. /\ u \in SpecState /\ u.ckpts = s.ckpts /\ u.in_speculation = s.in_speculation
      /\ Len(u.logs) = Len(s.logs)
    BY <1>3, <1>4 DEF SpecOK, SpecState
<1> QED
    BY <1>5 DEF SpecOK, u

\* What is prepared stays prepared: checkpoints survive whatever a macro sets.
LEMMA SpecKeeps ==
    ASSUME NEW t, NEW m, NEW n, MoreSet(t, m, n), NEW had, NEW s, SpecOK(t, m, had, s)
    PROVE  SpecOK(t, n, had, s)
<1>1. \A k \in 1..Len(s.ckpts) : CheckpointOK(t, n, had, s.ckpts[k])
    BY PreparedKeeps DEF SpecOK, CheckpointOK
<1> QED
    BY <1>1 DEF SpecOK

LEMMA LeastNumber ==
    ASSUME NEW S \in SUBSET Nat, S # {}
    PROVE  Min(S) \in S /\ \A k \in S : Min(S) <= k
<1>1. PICK k \in S : \A j \in S : ~(<<j, k>> \in OpToRel(<, Nat))
    BY NatLessThanWellFounded, WFMin
<1>2. \A j \in S : <<j, k>> \in OpToRel(<, Nat) <=> j < k
    BY DEF OpToRel
<1>3. \A j \in S : ~(j < k)
    BY <1>1, <1>2, Zenon
<1>4. \A j \in S : k <= j
    BY <1>3
<1> QED
    BY <1>4 DEF Min

LEMMA UndoneFacts ==
    ASSUME NEW log \in Seq(Cells \X Values), NEW m \in [Cells -> Values]
    PROVE  Undone(log, m) \in [Cells -> Values]
<1>1. ASSUME NEW c \in Cells, Entries(log, c) # {}
      PROVE  log[Min(Entries(log, c))][2] \in Values
    <2>1. Entries(log, c) \in SUBSET Nat /\ Entries(log, c) \subseteq DOMAIN log
        BY DEF Entries
    <2>2. Min(Entries(log, c)) \in DOMAIN log
        BY <1>1, <2>1, LeastNumber
    <2>3. log[Min(Entries(log, c))] \in Cells \X Values
        BY <2>2
    <2> QED
        BY <2>3
<1> QED
    BY <1>1 DEF Undone

-----------------------------------------------------------------------------
(* The steps of the model.                                                 *)

LEMMA Layout == /\ Exit = ExitAddr(test) /\ Handler = HandlerOf(test)
                /\ Addresses = AddressesOf(test) /\ \A a : InsnAt(a) = InsnOf(test, a)
  BY DEF Exit, Handler, HandlerOf, Addresses, AddressesOf, OtherAddresses, InsnAt

LEMMA RollbackStep ==
    ASSUME ModelInv, Rollback, spec.in_speculation
    PROVE  ModelInv'
<1> DEFINE n == Len(spec.ckpts)
           top == spec.ckpts[n]
<1>1. /\ spec.ckpts \in Seq(Checkpoint) /\ spec.logs \in Seq(Seq(Cells \X Values))
      /\ n \in Nat /\ n > 0 /\ n = Len(spec.logs) /\ n <= MaxNesting /\ MaxNesting \in Nat
    BY ModelAssumption DEF ModelInv, SpecOK, SpecState
<1>2. top \in Checkpoint /\ CheckpointOK(test, mode, had_arch_fault, top)
    BY <1>1 DEF ModelInv, SpecOK
<1>3. spec.logs[n] \in Seq(Cells \X Values)
    BY <1>1
<1>4. /\ test' = test /\ pc' = top.next /\ reg' = top.reg /\ mem' = Undone(spec.logs[n], mem)
      /\ perm' \in {"rw", perm}
      /\ mode' = [ModeAt(mode, top.next) EXCEPT !.base = top.base]
      /\ spec' = [ckpts |-> Front(spec.ckpts), logs |-> Front(spec.logs),
                  in_speculation |-> n > 1, window |-> top.window]
      /\ tracker' = TrackerRollback(tracker)
      /\ phase' = "enter"
    BY <1>1 DEF Rollback, Last
<1> HIDE DEF top
<1>5. Scalars'
    <2>1. mem' \in [Cells -> Values]
        BY <1>3, <1>4, UndoneFacts DEF ModelInv, Scalars
    <2>2. reg' \in [Regs -> Values] /\ phase' \in Phases /\ perm' \in {"none", "ro", "rw"}
        BY <1>2, <1>4 DEF ModelInv, Scalars, Checkpoint, Phases
    <2> QED
        BY <2>1, <2>2 DEF ModelInv, Scalars, Rollback
<1>6. /\ mode' \in ModeState /\ mode'.actor = ActorOf(pc') /\ mode'.base = top.base
      /\ mode'.k2u = mode.k2u /\ mode'.h2g = mode.h2g /\ mode'.g2h = mode.g2h
      /\ mode'.lstar = mode.lstar
    <2>1. ActorOf(top.next) \in 0..1
        BY DEF ActorOf
    <2> QED
        BY <1>2, <1>4, <2>1 DEF ModelInv, ModeOK, ModeState, ModeAt, Checkpoint
<1>7. ModeOK(test', mode') /\ MoreSet(test, mode, mode')
    BY <1>4, <1>6, SameModeOK DEF ModelInv
<1>8. Prepared(test', mode', pc')
    BY <1>2, <1>4, <1>7, PreparedKeeps DEF CheckpointOK
<1>9. Flow'
    BY <1>2, <1>4, <1>6, <1>8 DEF Flow, CheckpointOK, Rollback
<1>10. /\ Front(spec.ckpts) \in Seq(Checkpoint) /\ Len(Front(spec.ckpts)) = n - 1
       /\ \A k \in 1..n - 1 : Front(spec.ckpts)[k] = spec.ckpts[k]
       /\ Front(spec.logs) \in Seq(Seq(Cells \X Values)) /\ Len(Front(spec.logs)) = n - 1
    BY <1>1, SMTT(30) DEF Front
<1>11. SpecOK(test', mode', had_arch_fault', spec')
    <2>1. /\ spec' \in SpecState /\ spec'.ckpts = Front(spec.ckpts) /\ spec'.logs = Front(spec.logs)
          /\ spec'.in_speculation = (n > 1)
        BY <1>2, <1>4, <1>10 DEF SpecState, Checkpoint
    <2>2. \A k \in 1..Len(spec'.ckpts) : CheckpointOK(test, mode, had_arch_fault, spec'.ckpts[k])
        <3>1. \A k \in 1..n : CheckpointOK(test, mode, had_arch_fault, spec.ckpts[k])
            BY DEF ModelInv, SpecOK
        <3>2. 1..Len(spec'.ckpts) = 1..n - 1 /\ 1..n - 1 \subseteq 1..n
            BY <1>1, <1>10, <2>1
        <3> QED
            BY <1>10, <2>1, <3>1, <3>2
    <2>3. /\ Len(spec'.ckpts) = n - 1 /\ Len(spec'.logs) = Len(spec'.ckpts)
          /\ Len(spec'.ckpts) <= MaxNesting /\ (n > 1) = (n - 1 > 0)
        BY <1>1, <1>10, <2>1
    <2>4. SpecOK(test, mode, had_arch_fault, spec')
        BY <2>1, <2>2, <2>3 DEF SpecOK
    <2> QED
        BY <1>4, <1>7, <2>4, SpecKeeps DEF Rollback
<1>12. SubOK(test', spec', sub')
    <2>1. sub \in SubState /\ (test.contract = "deh" => Len(sub.dep_ckpts) = n)
        BY DEF ModelInv, SubOK
    <2>2. test.contract = "deh" =>
              /\ Last(sub.dep_ckpts) \in SUBSET Operands
              /\ Front(sub.dep_ckpts) \in Seq(SUBSET Operands) /\ Len(Front(sub.dep_ckpts)) = n - 1
        BY <1>1, <2>1 DEF SubState, Last, Front
    <2>3. sub' = [sub EXCEPT !.store = <<>>,
                             !.deps = IF test.contract = "deh" THEN Last(sub.dep_ckpts) ELSE @,
                             !.dep_ckpts = IF test.contract = "deh" THEN Front(@) ELSE @]
        BY DEF Rollback
    <2>4. /\ sub' \in SubState
          /\ test.contract = "deh" => sub'.dep_ckpts = Front(sub.dep_ckpts)
        BY <2>1, <2>2, <2>3 DEF SubState
    <2> QED
        BY <1>4, <1>10, <2>2, <2>4 DEF SubOK
<1>13. TrackerOK(run', spec', tracker')
    <2>1. tracker \in Trackers /\ (run = 1 => tracker.on) /\ (tracker.on => Len(tracker.cks) = n)
        BY DEF ModelInv, TrackerOK
    <2>2. /\ tracker' \in Trackers /\ tracker'.on = tracker.on
          /\ tracker.on => Len(tracker'.cks) = Len(tracker.cks) - 1
        BY <1>1, <1>4, <2>1, TrackerRollbackFacts
    <2> QED
        BY <1>4, <1>10, <2>1, <2>2 DEF TrackerOK, Rollback
<1> QED
    BY <1>5, <1>7, <1>9, <1>11, <1>12, <1>13 DEF ModelInv

LEMMA FreshFacts ==
    /\ \A t, m, had : SpecOK(t, m, had, FreshSpec)
    /\ FreshSub \in SubState
<1>1. /\ <<>> \in Seq(Checkpoint) /\ <<>> \in Seq(Seq(Cells \X Values)) /\ Len(<<>>) = 0
      /\ <<>> \in Seq(SUBSET Operands)
    OBVIOUS
<1>2. FreshSpec \in SpecState /\ FreshSpec.ckpts = <<>> /\ FreshSpec.logs = <<>>
    BY <1>1 DEF FreshSpec, SpecState
<1>3. FreshSpec.in_speculation = (Len(FreshSpec.ckpts) > 0)
    <2>1. FreshSpec.in_speculation = FALSE
        BY DEF FreshSpec
    <2>2. (Len(FreshSpec.ckpts) > 0) = FALSE
        BY <1>1, <1>2
    <2> QED
        BY <2>1, <2>2, Zenon
<1>4. FreshSub \in SubState
    BY <1>1 DEF FreshSub, SubState
<1>5. \A k : ~(k \in 1..Len(FreshSpec.ckpts))
    BY <1>1, <1>2
<1>6. Len(FreshSpec.logs) = Len(FreshSpec.ckpts) /\ Len(FreshSpec.ckpts) <= MaxNesting
    BY <1>1, <1>2, ModelAssumption
<1> QED
    BY <1>2, <1>3, <1>4, <1>5, <1>6 DEF SpecOK

LEMMA InitStep == Init => ModelInv
<1> SUFFICES ASSUME Init PROVE ModelInv
    OBVIOUS
<1>0. input.reg \in [Regs -> Values] /\ input.mem \in [Cells -> Values] /\ <<>> \in Seq(Entry)
    BY DEF Init, Inputs
<1>1. Scalars
    <2>1. reg \in [Regs -> Values] /\ mem \in [Cells -> Values]
        BY <1>0 DEF Init
    <2>2. trace \in Seq(Entry) /\ first \in Seq(Entry) /\ run \in 1..2
        BY <1>0 DEF Init
    <2> QED
        BY <2>1, <2>2, Zenon DEF Init, Scalars, Phases, Faults
<1>2. ModeOK(test, mode)
    <2>1. ExitAddr(test) \in Nat
        BY TestType DEF Init
    <2> QED
        BY <2>1 DEF Init, FreshMode, ModeOK, ModeState
<1>3. SpecOK(test, mode, had_arch_fault, spec)
    BY FreshFacts DEF Init
<1>4. SubOK(test, spec, sub)
    BY FreshFacts DEF Init, SubOK, FreshSub, FreshSpec
<1>5. TrackerOK(run, spec, tracker)
    BY FreshType DEF Init, TrackerOK, FreshSpec
<1>6. CodeStart \in AddressesOf(test) /\ Prepared(test, mode, CodeStart)
    BY TestType, PreparedAtEnds DEF Init, AddressesOf, CodeStart
<1>7. Flow
    BY <1>6 DEF Init, Flow, FreshSpec
<1> QED
    BY <1>1, <1>2, <1>3, <1>4, <1>5, <1>7 DEF ModelInv

LEMMA LoadInputStep ==
    ASSUME ModelInv, LoadInput
    PROVE  ModelInv'
<1>0. /\ test' = test /\ run' = run /\ pc' = CodeStart /\ phase' = "enter" /\ fault' = "none"
      /\ had_arch_fault' = FALSE /\ mode' = ModeAfterLoad(mode) /\ spec' = FreshSpec
      /\ test \in Tests /\ run \in 1..2 /\ spec.ckpts = <<>>
    BY DEF LoadInput, ModelInv, Scalars, Flow
<1>1. Scalars'
    <2>1. input.reg \in [Regs -> Values] /\ input.mem \in [Cells -> Values] /\ <<>> \in Seq(Entry)
        BY DEF ModelInv, Scalars, Inputs
    <2>2. PermAfterLoad(test, perm) \in {"none", "ro", "rw"}
        BY DEF ModelInv, Scalars, PermAfterLoad, PagePermissions
    <2> QED
        BY <2>1, <2>2 DEF LoadInput, ModelInv, Scalars, Phases, Faults
<1>2. /\ mode' \in ModeState /\ mode'.actor = 0 /\ mode'.base = 0
      /\ mode'.k2u = mode.k2u /\ mode'.h2g = mode.h2g /\ mode'.g2h = mode.g2h
      /\ mode'.lstar = mode.lstar
    <2>1. mode \in ModeState /\ mode' = [mode EXCEPT !.actor = 0, !.base = 0]
        BY <1>0 DEF ModelInv, ModeOK, ModeAfterLoad
    <2>2. 0 \in 0..1
        OBVIOUS
    <2> QED
        BY <2>1, <2>2 DEF ModeState
<1>3. ModeOK(test', mode')
    BY <1>0, <1>2, SameModeOK DEF ModelInv
<1>4. SpecOK(test', mode', had_arch_fault', spec')
    BY <1>0, FreshFacts
<1>5. SubOK(test', spec', sub')
    <2>1. sub' \in SubState /\ sub'.dep_ckpts = sub.dep_ckpts
        BY DEF LoadInput, ModelInv, SubOK, SubState
    <2>2. test.contract = "deh" => Len(sub.dep_ckpts) = Len(<<>>)
        BY <1>0 DEF ModelInv, SubOK
    <2> QED
        BY <1>0, <2>1, <2>2 DEF SubOK, FreshSpec
<1>6. TrackerOK(run', spec', tracker')
    <2>1. tracker' = FreshTracker(run = 1, InitialObservations(test.obs))
        BY DEF LoadInput
    <2>2. CASE run = 1
        <3>1. tracker' = FreshTracker(TRUE, InitialObservations(test.obs))
            BY <2>1, <2>2
        <3> QED
            BY <1>0, <3>1, FreshType DEF TrackerOK, FreshSpec
    <2>3. CASE run # 1
        <3>1. tracker' = FreshTracker(FALSE, InitialObservations(test.obs))
            BY <2>1, <2>3
        <3> QED
            BY <1>0, <2>3, <3>1, FreshType DEF TrackerOK, FreshSpec
    <2> QED
        BY <2>2, <2>3
<1>7. /\ CodeStart \in AddressesOf(test) /\ Prepared(test, mode', CodeStart)
      /\ ActorOf(CodeStart) = 0
    BY <1>0, TestType, PreparedAtEnds DEF AddressesOf, CodeStart, ActorOf, OtherStart
<1>8. Flow'
    BY <1>0, <1>2, <1>7 DEF Flow, AtHome
<1> QED
    BY <1>1, <1>3, <1>4, <1>5, <1>6, <1>8 DEF ModelInv

\* Without speculation there are no checkpoints.
LEMMA NoCheckpoints ==
    ASSUME ModelInv, ~spec.in_speculation
    PROVE  spec.ckpts = <<>> /\ \A had : SpecOK(test, mode, had, spec)
<1>1. Len(spec.ckpts) = 0 /\ spec.ckpts \in Seq(Checkpoint)
    <2>1. spec.ckpts \in Seq(Checkpoint) /\ ~(Len(spec.ckpts) > 0)
        BY DEF ModelInv, SpecOK, SpecState
    <2> QED
        BY <2>1
<1>2. spec.ckpts = <<>>
    BY <1>1
<1>3. \A k : ~(k \in 1..Len(spec.ckpts))
    BY <1>1
<1> QED
    BY <1>2, <1>3 DEF ModelInv, SpecOK

LEMMA NotSpeculating ==
    ASSUME ModelInv, spec.ckpts = <<>>
    PROVE  ~spec.in_speculation
<1>1. Len(spec.ckpts) = 0
    OBVIOUS
<1>2. ~(Len(spec.ckpts) > 0)
    BY <1>1
<1> QED
    BY <1>2 DEF ModelInv, SpecOK

LEMMA EnterStep ==
    ASSUME ModelInv, Enter
    PROVE  ModelInv'
<1>1. CASE pc # CodeStart /\ spec.in_speculation /\ pc \in {Exit, Handler}
    BY <1>1, RollbackStep DEF Enter
<1>2. CASE ~(pc # CodeStart /\ spec.in_speculation /\ pc \in {Exit, Handler})
    <2>0. /\ phase = "enter" /\ phase' = (IF pc = Exit THEN "finished" ELSE "hook")
          /\ fault' = "none" /\ mode' = ModeAt(mode, pc)
          /\ UNCHANGED <<test, run, input, pc, reg, mem, perm, had_arch_fault, spec, sub,
                         tracker, trace, tracing, first>>
        BY <1>2 DEF Enter
    <2>1. Scalars'
        BY <2>0 DEF ModelInv, Scalars, Phases, Faults
    <2>2. /\ mode' \in ModeState /\ mode'.actor = ActorOf(pc) /\ mode'.base = mode.base
          /\ mode'.k2u = mode.k2u /\ mode'.h2g = mode.h2g /\ mode'.g2h = mode.g2h
          /\ mode'.lstar = mode.lstar
        <3>1. ActorOf(pc) \in 0..1
            BY DEF ActorOf
        <3> QED
            BY <2>0, <3>1 DEF ModelInv, ModeOK, ModeState, ModeAt
    <2>3. ModeOK(test', mode') /\ MoreSet(test, mode, mode')
        BY <2>0, <2>2, SameModeOK DEF ModelInv
    <2>4. SpecOK(test', mode', had_arch_fault', spec')
        BY <2>0, <2>3, SpecKeeps DEF ModelInv
    <2>5. phase' = "finished" => spec.ckpts = <<>>
        <3>1. Exit # CodeStart
            BY Layout, TestType DEF CodeStart, ModelInv, Scalars
        <3> QED
            BY <1>2, <2>0, <3>1, NoCheckpoints
    <2>6. Prepared(test, mode', pc)
        BY <2>3, PreparedKeeps DEF ModelInv, Flow
    <2>7. Flow'
        BY <2>0, <2>2, <2>5, <2>6 DEF ModelInv, Flow
    <2> QED
        BY <2>0, <2>1, <2>3, <2>4, <2>7 DEF ModelInv
<1> QED
    BY <1>1, <1>2

LEMMA RecordTraceStep ==
    ASSUME ModelInv, RecordTrace
    PROVE  ModelInv'
<1>0. /\ phase = "finished" /\ spec.ckpts = <<>> /\ phase' \in {"load", "done"}
      /\ run' \in {2, run} /\ input' \in Inputs /\ first' \in {trace, first}
      /\ UNCHANGED <<test, machine, spec, sub, tracker, trace, tracing>>
    BY DEF RecordTrace, Boosted, ModelInv, Flow, Scalars
<1>1. Scalars'
    BY <1>0 DEF ModelInv, Scalars, machine, Phases
<1>2. Flow'
    BY <1>0 DEF ModelInv, Flow, machine
<1>3. TrackerOK(run', spec', tracker')
    BY <1>0 DEF ModelInv, TrackerOK
<1> QED
    BY <1>0, <1>1, <1>2, <1>3 DEF ModelInv, machine

LEMMA ReachExitStep ==
    ASSUME ModelInv, ReachExit
    PROVE  ModelInv'
<1>0. /\ phase = "hook" /\ phase' = "stopped" /\ pc = ExitAddr(test)
      /\ UNCHANGED <<test, run, input, machine, spec, sub, tracker, trace, tracing, first>>
    BY Layout DEF ReachExit
<1>1. fault = "none"
    BY <1>0 DEF ModelInv, Flow
<1>2. Scalars'
    BY <1>0 DEF ModelInv, Scalars, machine, Phases
<1>3. Flow'
    BY <1>0, <1>1 DEF ModelInv, Flow, machine
<1> QED
    BY <1>0, <1>2, <1>3 DEF ModelInv, machine

LEMMA StoppedStep ==
    ASSUME ModelInv, Stopped
    PROVE  ModelInv'
<1>1. CASE spec.in_speculation
    BY <1>1, RollbackStep DEF Stopped
<1>2. CASE ~spec.in_speculation
    <2>0. /\ phase = "stopped" /\ fault = "none" /\ phase' = "finished"
          /\ UNCHANGED <<test, run, input, machine, spec, sub, tracker, trace, tracing, first>>
        BY <1>2 DEF Stopped
    <2>1. Scalars'
        BY <2>0 DEF ModelInv, Scalars, machine, Phases
    <2>2. Flow'
        BY <1>2, <2>0, NoCheckpoints DEF ModelInv, Flow, machine
    <2> QED
        BY <2>0, <2>1, <2>2 DEF ModelInv, machine
<1> QED
    BY <1>1, <1>2

\* The frame of a fault is traced, and its address tainted.
LEMMA FrameFacts ==
    ASSUME ModelInv
    PROVE  /\ FrameTrace \in Seq(Entry)
           /\ FrameTracker \in Trackers /\ FrameTracker.on = tracker.on
           /\ Len(FrameTracker.cks) = Len(tracker.cks)
           /\ TrackerOK(run, spec, FrameTracker)
<1>1. trace \in Seq(Entry) /\ tracker \in Trackers /\ RspInit \in Nat /\ 0 \in Nat
      /\ reg \in [Regs -> Values]
    BY DEF ModelInv, Scalars, TrackerOK, RspInit
<1>2. FrameTrace \in Seq(Entry)
    BY <1>1, TraceFacts DEF FrameTrace
<1>3. Follows(tracker, FrameTracker)
    BY <1>1, ObservedFacts DEF FrameTracker
<1> QED
    BY <1>2, <1>3 DEF Follows, ModelInv, TrackerOK

LEMMA SquashFaultStep ==
    ASSUME ModelInv, SquashFault
    PROVE  ModelInv'
<1>0. /\ phase = "stopped" /\ fault' = "none" /\ trace' = FrameTrace /\ tracker' = FrameTracker
      /\ UNCHANGED <<test, run, input, phase, pc, reg, mem, perm, mode, had_arch_fault, spec, sub,
                     tracing, first>>
    BY DEF SquashFault
<1>1. Scalars'
    BY <1>0, FrameFacts DEF ModelInv, Scalars, Faults
<1>2. Flow'
    BY <1>0 DEF ModelInv, Flow
<1>3. TrackerOK(run', spec', tracker')
    BY <1>0, FrameFacts
<1> QED
    BY <1>0, <1>1, <1>2, <1>3 DEF ModelInv

\* The handler faults never: a second architectural fault does not happen.
LEMMA FirstFault ==
    ASSUME ModelInv, phase = "stopped", fault # "none"
    PROVE  had_arch_fault = FALSE
<1>1. /\ test \in Tests /\ pc \in AddressesOf(test) /\ pc # ExitAddr(test)
      /\ pc >= OtherStart \/ Insn[InsnOf(test, pc)].access # "none"
    BY DEF ModelInv, Scalars, Flow
<1>2. SUFFICES ASSUME pc \in HandlerOf(test)..ExitAddr(test) PROVE FALSE
    BY DEF ModelInv, Scalars, Flow
<1>3. pc = EndAddr(test) /\ ~(pc >= OtherStart)
    BY <1>1, <1>2, TestType DEF OtherStart
<1>4. InsnOf(test, pc) = "measurement_end"
    BY <1>1, <1>3, CodeAt
<1>5. Insn["measurement_end"].access = "none"
    BY InsnMacro DEF Macros, Op
<1> QED
    BY <1>1, <1>3, <1>4, <1>5

LEMMA ArchitecturalFaultStep ==
    ASSUME ModelInv, ArchitecturalFault
    PROVE  ModelInv'
<1>0. /\ had_arch_fault = FALSE /\ test \in Tests /\ had_arch_fault' = TRUE /\ fault' = "none"
      /\ trace' = FrameTrace /\ tracker' = FrameTracker
      /\ phase' = IF HandlerOf(test) = ExitAddr(test) THEN "finished" ELSE "enter"
      /\ pc' = HandlerOf(test)
      /\ ~spec.in_speculation
      /\ UNCHANGED <<test, run, input, reg, mem, perm, mode, spec, sub, tracing, first>>
    BY FirstFault, Layout DEF ArchitecturalFault, ModelInv, Scalars
<1>1. Scalars'
    BY <1>0, FrameFacts DEF ModelInv, Scalars, Faults, Phases
<1>2. SpecOK(test', mode', had_arch_fault', spec') /\ spec.ckpts = <<>>
    BY <1>0, NoCheckpoints
<1>3. /\ HandlerOf(test) \in HandlerOf(test)..ExitAddr(test)
      /\ HandlerOf(test) \in AddressesOf(test) /\ Prepared(test, mode, HandlerOf(test))
    <2>1. HandlerOf(test) \in HandlerOf(test)..ExitAddr(test) /\ HandlerOf(test) \in AddressesOf(test)
        BY <1>0, TestType DEF AddressesOf, CodeStart
    <2> QED
        BY <1>0, <2>1, PreparedAtEnds
<1>4. Flow'
    BY <1>0, <1>2, <1>3 DEF Flow, AtHome
<1>5. TrackerOK(run', spec', tracker')
    BY <1>0, FrameFacts
<1> QED
    BY <1>0, <1>1, <1>2, <1>4, <1>5 DEF ModelInv

\* The checkpoint at a fault: execution goes on from the handler or from here.
LEMMA FaultCheckpoint ==
    ASSUME ModelInv, phase = "stopped", SpeculatesOn(fault), NEW next \in {Handler, pc}, NEW u,
           u = Checkpointed(spec, reg, next)
    PROVE  /\ SpecOK(test, mode, had_arch_fault, u) /\ Len(u.ckpts) = Len(spec.ckpts) + 1
           /\ u.logs # <<>>
           /\ TrackerOK(run, u, TrackerCheckpoint(FrameTracker, TRUE))
<1>1. fault # "none" /\ had_arch_fault = FALSE
    BY FirstFault DEF SpeculatesOn
<1>2. /\ test \in Tests /\ reg \in [Regs -> Values] /\ mode.base \in 0..1 /\ spec.window \in Nat
      /\ SpecOK(test, mode, had_arch_fault, spec) /\ Len(spec.ckpts) \in Nat
      /\ Len(spec.ckpts) < MaxNesting /\ MaxNesting \in Nat
    <2>1. spec.ckpts \in Seq(Checkpoint) /\ ~(Len(spec.ckpts) >= MaxNesting) /\ MaxNesting \in Nat
        BY ModelAssumption DEF ModelInv, SpecOK, SpecState, SpeculatesOn, MaxNestingReached
    <2> QED
        BY <2>1 DEF ModelInv, Scalars, ModeOK, ModeState, SpecOK, SpecState
<1>3. next \in Nat /\ next \in AddressesOf(test) /\ AtHome(test, next, mode.base)
      /\ Prepared(test, mode, next)
    <2>1. CASE next = pc
        <3>1. pc \in AddressesOf(test) /\ AtHome(test, pc, mode.base) /\ Prepared(test, mode, pc)
            BY <1>1 DEF ModelInv, Flow
        <3> QED
            BY <1>2, <2>1, <3>1, TestType DEF AddressesOf, CodeStart
    <2>2. CASE next = Handler
        <3>1. next = HandlerOf(test) /\ next \in HandlerOf(test)..ExitAddr(test)
            BY <1>2, <2>2, Layout, TestType
        <3>2. next \in Nat /\ next \in AddressesOf(test)
            BY <1>2, <3>1, TestType DEF AddressesOf, CodeStart
        <3> QED
            BY <1>2, <3>1, <3>2, PreparedAtEnds DEF AtHome
    <2> QED
        BY <2>1, <2>2
<1> DEFINE c == [reg |-> reg, base |-> mode.base, next |-> next, window |-> spec.window]
<1>4. CheckpointOK(test, mode, had_arch_fault, c)
    BY <1>1, <1>3 DEF CheckpointOK
<1>5. SpecOK(test, mode, had_arch_fault, u) /\ Len(u.ckpts) = Len(spec.ckpts) + 1
    BY <1>1, <1>2, <1>3, <1>4, CheckpointedFacts
<1>6. u.logs # <<>>
    <2>1. u.logs \in Seq(Seq(Cells \X Values)) /\ Len(u.logs) = Len(spec.ckpts) + 1
        BY <1>5 DEF SpecOK, SpecState
    <2> QED
        BY <1>2, <2>1
<1>7. TrackerOK(run, u, TrackerCheckpoint(FrameTracker, TRUE))
    BY <1>5, FrameFacts, TrackerCheckpointFacts DEF ModelInv, TrackerOK
<1> QED
    BY <1>5, <1>6, <1>7

\* After a fault execution goes on at the instruction, or behind it.
LEMMA ResumeFlow ==
    ASSUME ModelInv, phase = "stopped", fault # "none"
    PROVE  /\ pc + 1 \in AddressesOf(test) /\ Prepared(test, mode, pc + 1)
           /\ AtHome(test, pc + 1, mode.base)
<1>1. /\ test \in Tests /\ pc \in AddressesOf(test) /\ pc # ExitAddr(test)
      /\ MayFault(InsnOf(test, pc)) /\ Prepared(test, mode, pc) /\ AtHome(test, pc, mode.base)
      /\ pc >= OtherStart \/ Insn[InsnOf(test, pc)].access # "none"
    BY DEF ModelInv, Scalars, Flow
<1>2. InsnOf(test, pc) \notin Leaving
    <2>1. Insn[InsnOf(test, pc)].access # "none" => InsnOf(test, pc) \notin Macros
        BY InsnMacro DEF Op
    <2> QED
        BY <1>1, <2>1 DEF MayFault, Leaving, Macros
<1>3. pc \in 2..EndAddr(test) - 1 => TargetSet(test, mode, pc - 1)
    <2>1. SUFFICES ASSUME pc \in 2..EndAddr(test) - 1 PROVE TargetSet(test, mode, pc - 1)
        OBVIOUS
    <2>2. InsnOf(test, pc) = test.body[pc - 1] /\ ~(pc >= OtherStart)
        BY <1>1, <2>1, CodeAt, TestType DEF OtherStart
    <2>3. InsnOf(test, pc) \notin Macros
        BY <1>1, <2>2, InsnMacro DEF Op
    <2> QED
        BY <2>2, <2>3 DEF TargetSet, Macros
<1> QED
    BY <1>1, <1>2, <1>3, GoesOn, PreparedNext DEF AtHome

LEMMA SpeculateOnFaultStep ==
    ASSUME ModelInv, SpeculateOnFault
    PROVE  ModelInv'
<1>0. phase = "stopped" /\ SpeculatesOn(fault) /\ fault # "none"
    BY DEF SpeculateOnFault, SpeculatesOn
<1>1. ASSUME Resume(pc'), pc' \in {pc, pc + 1}, UNCHANGED had_arch_fault,
             perm' \in {perm, "rw"}, mem' \in [Cells -> Values], pc' = pc + 1 => had_arch_fault = FALSE,
             SpecOK(test, mode, had_arch_fault, spec'), SubOK(test, spec', sub'),
             TrackerOK(run, spec', tracker')
      PROVE  ModelInv'
    <2>0. /\ phase' = "enter" /\ fault' = "none" /\ trace' = FrameTrace
          /\ UNCHANGED <<test, run, input, reg, mode, tracing, first>>
        BY <1>1 DEF Resume
    <2>1. Scalars'
        BY <1>1, <2>0, FrameFacts DEF ModelInv, Scalars, Phases, Faults
    <2>2. pc' \in AddressesOf(test) /\ Prepared(test, mode, pc') /\ AtHome(test, pc', mode.base)
        BY <1>0, <1>1, ResumeFlow DEF ModelInv, Flow
    <2>3. Flow'
        BY <1>1, <2>0, <2>2 DEF ModelInv, Flow
    <2> QED
        BY <1>1, <2>0, <2>1, <2>3 DEF ModelInv
<1>2. had_arch_fault = FALSE
    BY <1>0, FirstFault
<1>3. ASSUME NEW u, test.contract # "deh" PROVE SubOK(test, u, sub)
    BY <1>3 DEF ModelInv, SubOK
<1>4. mem \in [Cells -> Values] /\ sub \in SubState /\ SpecOK(test, mode, had_arch_fault, spec)
      /\ TrackerOK(run, spec, tracker)
    BY DEF ModelInv, Scalars, SubOK
<1>5. CASE Unprotect
    <2>0. /\ test.contract # "deh" /\ Resume(pc') /\ pc' = pc
          /\ UNCHANGED <<mem, sub, had_arch_fault>>
          /\ perm' = "rw"
        BY <1>5 DEF Unprotect, Resume
    <2>1. SpecOK(test, mode, had_arch_fault, spec') /\ TrackerOK(run, spec', tracker')
        <3>1. CASE test.contract = "meltdown"
            <4>1. spec' = Checkpointed(spec, reg, Handler)
                  /\ tracker' = TrackerCheckpoint(FrameTracker, TRUE)
                BY <1>5, <3>1 DEF Unprotect
            <4> QED
                BY <1>0, <4>1, FaultCheckpoint
        <3>2. CASE test.contract # "meltdown"
            BY <1>4, <1>5, <3>2, FrameFacts DEF Unprotect
        <3> QED
            BY <3>1, <3>2
    <2>2. SubOK(test, spec', sub')
        BY <1>3, <2>0
    <2>3. mem' \in [Cells -> Values]
        BY <1>4, <2>0
    <2> QED
        BY <1>1, <1>2, <2>0, <2>1, <2>2, <2>3, Zenon
<1>6. CASE InjectZero
    <2> DEFINE back == IF test.contract = "nullinj-assist" THEN pc ELSE Handler
               s == Checkpointed(spec, reg, back)
    <2>0. /\ test.contract # "deh" /\ Resume(pc') /\ pc' = pc /\ UNCHANGED had_arch_fault
          /\ perm' = "rw" /\ sub' = [sub EXCEPT !.re_execute = TRUE]
          /\ tracker' = TrackerCheckpoint(FrameTracker, TRUE)
        BY <1>6 DEF InjectZero, Resume, NullSpeculators
    <2>1. back \in {Handler, pc}
        OBVIOUS
    <2>2. \/ sub.load = <<>> /\ spec' = s /\ mem' = mem
          \/ /\ sub.load # <<>> /\ spec' = Logged(s, sub.load[1], mem[sub.load[1]])
             /\ mem' = [mem EXCEPT ![sub.load[1]] = 0]
        BY <1>6 DEF InjectZero
    <2> HIDE DEF back
    <2>3. /\ SpecOK(test, mode, had_arch_fault, s) /\ s.logs # <<>>
          /\ TrackerOK(run, s, TrackerCheckpoint(FrameTracker, TRUE))
        BY <1>0, <2>1, FaultCheckpoint
    <2> HIDE DEF s
    <2>4. /\ SpecOK(test, mode, had_arch_fault, spec') /\ spec'.ckpts = s.ckpts
          /\ mem' \in [Cells -> Values]
        <3>1. CASE sub.load = <<>>
            BY <1>4, <2>2, <2>3, <3>1
        <3>2. CASE sub.load # <<>>
            <4>1. sub.load[1] \in Cells
                BY <1>4, <3>2 DEF SubState
            <4>2. mem[sub.load[1]] \in Values /\ 0 \in Values
                BY <1>4, <4>1 DEF Values
            <4> QED
                BY <1>4, <2>2, <2>3, <3>2, <4>1, <4>2, LoggedFacts
        <3> QED
            BY <3>1, <3>2
    <2>5. TrackerOK(run, spec', tracker')
        BY <2>0, <2>3, <2>4 DEF TrackerOK
    <2>6. SubOK(test, spec', sub')
        BY <1>4, <2>0 DEF SubOK, SubState
    <2> QED
        BY <1>1, <1>2, <2>0, <2>4, <2>5, <2>6, Zenon
<1>7. CASE DelayFault
    <2>0. /\ Resume(pc') /\ pc' = pc + 1 /\ UNCHANGED <<mem, perm, had_arch_fault>>
          /\ spec' = Checkpointed(spec, reg, Handler)
          /\ sub' = [sub EXCEPT !.dep_ckpts = Append(@, sub.deps),
                                !.deps = @ \cup Insn[InsnAt(pc)].dst]
          /\ tracker' = TrackerCheckpoint(FrameTracker, TRUE)
        BY <1>7 DEF DelayFault, Resume
    <2>1. /\ SpecOK(test, mode, had_arch_fault, spec') /\ Len(spec'.ckpts) = Len(spec.ckpts) + 1
          /\ TrackerOK(run, spec', tracker')
        BY <1>0, <2>0, FaultCheckpoint
    <2>2. Insn[InsnAt(pc)].dst \in SUBSET Operands
        <3>1. InsnAt(pc) \in Instructions
            BY <1>0, Layout, CodeAt DEF ModelInv, Scalars, Flow
        <3> QED
            BY <3>1, InsnType
    <2>3. SubOK(test, spec', sub')
        <3>1. /\ sub.dep_ckpts \in Seq(SUBSET Operands) /\ sub.deps \in SUBSET Operands
              /\ test.contract = "deh" => Len(sub.dep_ckpts) = Len(spec.ckpts)
            BY <1>4 DEF SubState, ModelInv, SubOK
        <3>2. /\ Append(sub.dep_ckpts, sub.deps) \in Seq(SUBSET Operands)
              /\ Len(Append(sub.dep_ckpts, sub.deps)) = Len(sub.dep_ckpts) + 1
            BY <3>1
        <3>3. sub.deps \cup Insn[InsnAt(pc)].dst \in SUBSET Operands
            BY <2>2, <3>1
        <3>4. sub' \in SubState /\ sub'.dep_ckpts = Append(sub.dep_ckpts, sub.deps)
            BY <1>4, <2>0, <3>2, <3>3 DEF SubState
        <3> QED
            BY <2>1, <3>1, <3>2, <3>4 DEF SubOK
    <2> QED
        BY <1>1, <1>2, <1>4, <2>0, <2>1, <2>3
<1> QED
    BY <1>5, <1>6, <1>7 DEF SpeculateOnFault

LEMMA MemAccessFacts ==
    ASSUME ModelInv, MemAccess, pc # ExitAddr(test), UNCHANGED <<test, run, mode, had_arch_fault>>
    PROVE  /\ SpecOK(test, mode, had_arch_fault, spec')
           /\ spec'.ckpts = spec.ckpts /\ spec'.in_speculation = spec.in_speculation
           /\ SubOK(test, spec', sub') /\ TrackerOK(run, spec', tracker') /\ trace' \in Seq(Entry)
<1> DEFINE insn == InsnAt(pc)
           c == Address(insn, reg)
           is_write == Insn[insn].access = "write"
           tracked == TrackMemoryAccess(tracker, c, is_write)
<1>1. /\ insn \in Instructions /\ reg \in [Regs -> Values] /\ mem \in [Cells -> Values]
      /\ sub \in SubState /\ tracker \in Trackers /\ trace \in Seq(Entry)
      /\ SpecOK(test, mode, had_arch_fault, spec)
      /\ SubOK(test, spec, sub) /\ TrackerOK(run, spec, tracker)
    <2>1. insn \in Instructions
        BY Layout, CodeAt DEF ModelInv, Scalars, Flow
    <2> QED
        BY <2>1 DEF ModelInv, Scalars, SubOK, TrackerOK
<1>2. c \in Cells /\ c \in Nat /\ mem[c] \in Values /\ mem[c] \in Nat /\ is_write \in BOOLEAN
    BY <1>1, AddressType DEF Cells, Values
<1>3. is_write => Stored(insn, reg) \in Values
    BY <1>1, StoredType
<1>4. CASE Insn[insn].access = "none"
    BY <1>1, <1>4 DEF MemAccess
<1>5. CASE Insn[insn].access # "none"
    <2>0. /\ spec' = LoggedAccess(c, is_write) /\ sub' = NotedAccess(c, is_write)
          /\ tracker' = TaintMemAccess(test.obs, tracing, tracked, c, is_write, spec.in_speculation)
          /\ trace' = TraceMemAccess(test.obs, tracing, trace, c, is_write,
                                     spec.in_speculation, mem[c])
        BY <1>5 DEF MemAccess
    <2> HIDE DEF insn, c, is_write
    <2>1. /\ SpecOK(test, mode, had_arch_fault, spec')
          /\ spec'.ckpts = spec.ckpts /\ spec'.in_speculation = spec.in_speculation
        BY <1>1, <1>2, <2>0, LoggedFacts DEF LoggedAccess
    <2>2. sub' \in SubState /\ sub'.dep_ckpts = sub.dep_ckpts
        <3>1. is_write => <<c, mem[c], Stored(insn, reg)>> \in Cells \X Values \X Values
            BY <1>2, <1>3
        <3>2. \/ sub' = sub
              \/ is_write /\ sub' = [sub EXCEPT !.store = <<c, mem[c], Stored(insn, reg)>>]
              \/ sub' = [sub EXCEPT !.load = <<c>>]
            BY <2>0 DEF NotedAccess, insn
        <3> QED
            BY <1>1, <1>2, <3>1, <3>2 DEF SubState
    <2>3. Follows(tracker, tracked)
        BY <1>1, <1>2, TrackMemoryAccessFacts
    <2> HIDE DEF tracked
    <2>4. Follows(tracked, tracker')
        BY <2>0, <2>3, ObservedFacts DEF Follows
    <2>5. trace' \in Seq(Entry)
        <3>1. pc \in Nat
            BY CodeAt DEF ModelInv, Scalars, Flow
        <3> QED
            BY <1>1, <1>2, <2>0, <3>1, TraceFacts
    <2>6. SubOK(test, spec', sub') /\ TrackerOK(run, spec', tracker')
        BY <1>1, <2>1, <2>2, <2>3, <2>4 DEF Follows, SubOK, TrackerOK
    <2> QED
        BY <2>1, <2>5, <2>6
<1> QED
    BY <1>4, <1>5

\* Where an instruction leads that does not fault.
LEMMA AdvanceFacts ==
    ASSUME NEW t \in Tests, NEW m, NEW a \in AddressesOf(t), a # ExitAddr(t),
           InsnOf(t, a) \notin Leaving, Prepared(t, m, a), AtHome(t, a, m.base),
           a \in 2..EndAddr(t) - 1 => TargetSet(t, m, a - 1),
           NEW b, b = a + 1 \/ (InsnOf(t, a) \in Branches /\ b = Target(t, a))
    PROVE  /\ b \in AddressesOf(t) /\ Prepared(t, m, b) /\ AtHome(t, b, m.base)
           /\ ActorOf(b) = ActorOf(a)
           /\ a \in HandlerOf(t)..ExitAddr(t) => b \in HandlerOf(t)..ExitAddr(t)
<1>1. CASE b = a + 1
    BY <1>1, GoesOn, PreparedNext DEF AtHome
<1>2. CASE InsnOf(t, a) \in Branches /\ b = Target(t, a)
    BY <1>2, BranchTarget, PreparedNext DEF AtHome
<1> QED
    BY <1>1, <1>2

LEMMA ExecuteStep ==
    ASSUME ModelInv, Execute
    PROVE  ModelInv'
<1> DEFINE op == InsnOf(test, pc)
           f == FaultOf(op, reg, mem, perm)
<1>0. /\ test \in Tests /\ pc \in AddressesOf(test) /\ pc # ExitAddr(test) /\ op \notin Leaving
      /\ Prepared(test, mode, pc) /\ AtHome(test, pc, mode.base) /\ mode.actor = ActorOf(pc)
      /\ phase = "execute"
      /\ pc \in 2..EndAddr(test) - 1 => TargetSet(test, mode, pc - 1)
      /\ tracker.on => tracker.insn # "none"
      /\ test.contract = "bpas" => sub.store = <<>>
      /\ had_arch_fault => pc \in HandlerOf(test)..ExitAddr(test)
      /\ reg \in [Regs -> Values] /\ mem \in [Cells -> Values]
    BY DEF ModelInv, Scalars, Flow, Execute
<1>1. op \in Instructions /\ InsnAt(pc) = op
    BY <1>0, CodeAt, Layout
<1>2. MemAccessAllowed
    BY <1>0 DEF MemAccessAllowed, TrackingStarted
<1> HIDE DEF op
<1>3. /\ MemAccess /\ fault' = f
      /\ IF f = "none"
         THEN /\ phase' = "hook" /\ pc' = PcAfter(test, pc, reg)
              /\ reg' = RegsAfter(op, reg, mem) /\ mem' = MemAfter(op, reg, mem)
         ELSE phase' = "stopped" /\ UNCHANGED <<pc, reg, mem>>
      /\ UNCHANGED <<test, run, input, perm, mode, had_arch_fault, tracing, first>>
    BY <1>1, <1>2 DEF Execute
<1>4. f \in Faults /\ (f # "none" => Insn[op].access # "none")
    BY <1>1, FaultType
<1>5. f = "none" => reg' \in [Regs -> Values] /\ mem' \in [Cells -> Values]
    BY <1>0, <1>1, <1>3, ExecutedType
<1> HIDE DEF f
<1>6. /\ SpecOK(test, mode, had_arch_fault, spec')
      /\ SubOK(test, spec', sub') /\ TrackerOK(run, spec', tracker') /\ trace' \in Seq(Entry)
    BY <1>0, <1>3, MemAccessFacts
<1>7. Scalars'
    BY <1>0, <1>3, <1>4, <1>5, <1>6 DEF ModelInv, Scalars, Phases
<1>8. Flow'
    <2>1. CASE f = "none"
        <3>1. pc' = pc + 1 \/ (op \in Branches /\ pc' = Target(test, pc))
            <4>1. pc' = PcAfter(test, pc, reg)
                BY <1>3, <2>1
            <4> QED
                BY <4>1, Zenon DEF PcAfter, op
        <3>2. /\ pc' \in AddressesOf(test) /\ Prepared(test, mode, pc')
                 /\ AtHome(test, pc', mode.base)
              /\ ActorOf(pc') = ActorOf(pc)
              /\ pc \in HandlerOf(test)..ExitAddr(test) => pc' \in HandlerOf(test)..ExitAddr(test)
            BY <1>0, <3>1, AdvanceFacts, Zenon DEF op
        <3> QED
            BY <1>0, <1>3, <2>1, <3>2 DEF Flow
    <2>2. CASE f # "none"
        BY <1>0, <1>3, <1>4, <2>2 DEF Flow, MayFault, op
    <2> QED
        BY <2>1, <2>2
<1> QED
    BY <1>3, <1>6, <1>7, <1>8 DEF ModelInv

\* What an instruction and the interpreter lead to, whatever the speculator decided.
Decided(next, execute, s, b, k) ==
    /\ \/ next = pc
       \/ /\ InsnOf(test, pc) \notin Macros \cup {"wbinvd"}
          /\ next = pc + 1 \/ (InsnOf(test, pc) \in Branches /\ next = Target(test, pc))
    /\ SpecOK(test, mode, had_arch_fault, s) /\ SubOK(test, s, b) /\ TrackerOK(run, s, k)
    /\ execute => /\ next = pc
                  /\ k.on => k.insn # "none"
                  /\ test.contract = "bpas" => b.store = <<>>

LEMMA OutcomeStep ==
    ASSUME ModelInv, phase = "hook", pc # ExitAddr(test), NEW next, NEW execute \in BOOLEAN, NEW s,
           NEW r \in [Regs -> Values], NEW m \in [Cells -> Values], NEW w \in {"none", "ro", "rw"},
           NEW b, NEW k, Outcome(next, execute, s, r, m, w, b, k), Decided(next, execute, s, b, k),
           UNCHANGED <<test, run, input, had_arch_fault, first>>, trace' \in Seq(Entry),
           tracing' \in BOOLEAN
    PROVE  ModelInv'
<1> DEFINE op == InsnOf(test, pc)
           y == Interpret(test, op, [pc |-> next, reg |-> r, mode |-> mode])
           f == SoftFault(test, op, mode.actor)
<1>0. /\ test \in Tests /\ pc \in AddressesOf(test) /\ Prepared(test, mode, pc)
      /\ AtHome(test, pc, mode.base) /\ mode.actor = ActorOf(pc) /\ ModeOK(test, mode)
      /\ had_arch_fault => pc \in HandlerOf(test)..ExitAddr(test)
    BY DEF ModelInv, Scalars, Flow
<1>1. /\ phase' \in {"stopped", "execute", "hook"}
      /\ phase' = "execute" => execute /\ y.pc = pc
      /\ f # "none" => phase' = "stopped"
      /\ pc' = y.pc /\ reg' = y.reg /\ mode' = y.mode /\ fault' = f
      /\ spec' = s /\ mem' = m /\ perm' = w /\ sub' = b /\ tracker' = k
    BY Layout DEF Outcome
<1>2. /\ y.reg \in [Regs -> Values] /\ ModeOK(test, y.mode) /\ MoreSet(test, mode, y.mode)
      /\ op \notin Leaving => y.pc = next /\ y.mode.actor = mode.actor /\ y.mode.base = mode.base
      /\ op \in Leaving => Switches(test, y, 1 - ActorOf(pc))
      /\ pc \in 2..EndAddr(test) - 1 => TargetSet(test, y.mode, pc - 1)
    BY <1>0, InterpretFacts
<1>3. f \in Faults /\ (f # "none" => MayFault(op) /\ op \notin Leaving /\ pc >= OtherStart)
    BY <1>0, SoftFaultFacts
<1>4. f # "none" => op \in Macros \cup {"wbinvd"}
    BY DEF SoftFault, MacroFaults, ExitsToHost, Macros
<1> HIDE DEF y, f
<1>5. Scalars'
    BY <1>1, <1>2, <1>3 DEF ModelInv, Scalars, Phases
<1>6. ModeOK(test', mode') /\ SpecOK(test', mode', had_arch_fault', spec')
    BY <1>1, <1>2, SpecKeeps DEF Decided
<1>7. SubOK(test', spec', sub') /\ TrackerOK(run', spec', tracker')
    BY <1>1 DEF Decided
<1>8. Flow'
    <2>1. CASE op \in Leaving
        <3>1. /\ y.pc \in AddressesOf(test) /\ ActorOf(y.pc) = 1 - ActorOf(pc)
              /\ y.mode.actor = ActorOf(y.pc) /\ y.mode.base = ActorOf(y.pc)
              /\ Prepared(test, y.mode, y.pc)
            BY <1>2, <2>1 DEF Switches
        <3>2. y.pc # pc
            BY <3>1 DEF ActorOf
        <3>3. ~had_arch_fault
            <4>1. pc \in HandlerOf(test)..ExitAddr(test) => pc = EndAddr(test)
                <5>1. /\ Len(test.body) \in Nat /\ ExitAddr(test) = Len(test.body) + 3
                      /\ EndAddr(test) = Len(test.body) + 2
                      /\ HandlerOf(test) \in {ExitAddr(test), EndAddr(test)}
                    BY <1>0, TestType
                <5> QED
                    BY <5>1
            <4>2. pc = EndAddr(test) => op \notin Leaving
                BY <1>0, CodeAt DEF Leaving
            <4> QED
                BY <1>0, <2>1, <4>1, <4>2
        <3> QED
            BY <1>1, <1>3, <2>1, <3>1, <3>2, <3>3 DEF Flow, AtHome
    <2>2. CASE op \notin Leaving
        <3>1. Prepared(test, y.mode, pc) /\ AtHome(test, pc, y.mode.base)
            BY <1>0, <1>2, <2>2, PreparedKeeps
        <3>2. /\ next \in AddressesOf(test) /\ Prepared(test, y.mode, next)
              /\ AtHome(test, next, y.mode.base) /\ ActorOf(next) = ActorOf(pc)
              /\ pc \in HandlerOf(test)..ExitAddr(test) => next \in HandlerOf(test)..ExitAddr(test)
            <4>1. CASE next = pc
                BY <1>0, <3>1, <4>1
            <4>2. CASE next = pc + 1 \/ (op \in Branches /\ next = Target(test, pc))
                BY <1>0, <1>2, <2>2, <3>1, <4>2, AdvanceFacts
            <4> QED
                BY <4>1, <4>2 DEF Decided
        <3>3. /\ pc' = next /\ mode'.actor = ActorOf(pc') /\ mode'.base = y.mode.base
            BY <1>0, <1>1, <1>2, <2>2, <3>2
        <3>4. phase' = "execute" =>
                  /\ pc' = pc /\ (k.on => k.insn # "none")
                  /\ (test.contract = "bpas" => b.store = <<>>)
            BY <1>1 DEF Decided
        <3>5. fault' # "none" => pc' = pc
            BY <1>1, <1>4, <3>3 DEF Decided
        <3> HIDE DEF op
        <3> QED
            BY <1>0, <1>1, <1>2, <1>3, <2>2, <3>2, <3>3, <3>4, <3>5 DEF Flow, op
    <2> QED
        BY <2>1, <2>2
<1> QED
    BY <1>5, <1>6, <1>7, <1>8 DEF ModelInv

LEMMA WithWindowFacts ==
    ASSUME ModelInv
    PROVE  /\ SpecOK(test, mode, had_arch_fault, WithWindow) /\ WithWindow.ckpts = spec.ckpts
           /\ WithWindow.logs = spec.logs /\ WithWindow.in_speculation = spec.in_speculation
           /\ WithWindow.window \in Nat
<1>1. SpecOK(test, mode, had_arch_fault, spec) /\ spec \in SpecState /\ spec.window \in Nat
    BY DEF ModelInv, SpecOK, SpecState
<1> DEFINE n == IF spec.in_speculation THEN spec.window + 1 ELSE spec.window
<1>2. n \in Nat /\ WithWindow = [spec EXCEPT !.window = n]
    BY <1>1 DEF WithWindow, SpecState
<1> HIDE DEF n
<1>3. /\ WithWindow \in SpecState /\ WithWindow.ckpts = spec.ckpts /\ WithWindow.logs = spec.logs
      /\ WithWindow.in_speculation = spec.in_speculation /\ WithWindow.window \in Nat
    BY <1>1, <1>2 DEF SpecState
<1> QED
    BY <1>1, <1>3 DEF SpecOK

\* Every speculator leaves the services in step.
LEMMA SpeculateInstructionStep ==
    ASSUME ModelInv, phase = "hook", pc # ExitAddr(test), NEW k, SpeculateInstruction(k),
           TrackerOK(run, spec, k), k.on => k.insn # "none",
           UNCHANGED <<test, run, input, had_arch_fault, first>>, trace' \in Seq(Entry),
           tracing' \in BOOLEAN
    PROVE  ModelInv'
<1> DEFINE op == InsnOf(test, pc)
<1>0. /\ test \in Tests /\ pc \in AddressesOf(test) /\ Prepared(test, mode, pc)
      /\ AtHome(test, pc, mode.base) /\ mode.base \in 0..1 /\ pc \in Nat
      /\ had_arch_fault => pc \in HandlerOf(test)..ExitAddr(test)
      /\ reg \in [Regs -> Values] /\ mem \in [Cells -> Values] /\ perm \in {"none", "ro", "rw"}
      /\ SubOK(test, spec, sub) /\ sub \in SubState /\ k \in Trackers /\ op \in Instructions
      /\ InsnAt(pc) = op /\ TRUE \in BOOLEAN /\ FALSE \in BOOLEAN
    BY CodeAt, Layout DEF ModelInv, Scalars, Flow, ModeOK, ModeState, SubOK, TrackerOK
<1>1. /\ SpecOK(test, mode, had_arch_fault, WithWindow) /\ WithWindow.window \in Nat
      /\ SubOK(test, WithWindow, sub) /\ TrackerOK(run, WithWindow, k)
      /\ WithWindow.ckpts = spec.ckpts
    BY <1>0, WithWindowFacts DEF SubOK, TrackerOK
<1>2. Len(spec.ckpts) \in Nat /\ MaxNesting \in Nat
    BY ModelAssumption DEF ModelInv, SpecOK, SpecState
<1>3. ~MaxNestingReached => Len(WithWindow.ckpts) < MaxNesting
    BY <1>1, <1>2 DEF MaxNestingReached
\* A checkpoint from which this instruction is executed, or one behind it.
<1>4. ASSUME ~MaxNestingReached, NEW r \in [Regs -> Values], NEW back,
             back = pc \/ (op \in Branches /\ (back = pc + 1 \/ back = Target(test, pc)))
      PROVE  LET u == Checkpointed(WithWindow, r, back)
             IN /\ SpecOK(test, mode, had_arch_fault, u) /\ Len(u.ckpts) = Len(spec.ckpts) + 1
                /\ u.logs # <<>>
    <2> DEFINE c == [reg |-> r, base |-> mode.base, next |-> back, window |-> WithWindow.window]
               u == Checkpointed(WithWindow, r, back)
    <2>1. /\ back \in AddressesOf(test) /\ Prepared(test, mode, back)
          /\ AtHome(test, back, mode.base)
          /\ had_arch_fault => back \in HandlerOf(test)..ExitAddr(test)
        <3>1. CASE back = pc
            BY <1>0, <3>1
        <3>2. CASE op \in Branches /\ (back = pc + 1 \/ back = Target(test, pc))
            <4>1. op \notin Leaving /\ op \notin Macros
                BY <1>0, <3>2, BranchTarget
            <4>2. pc \in 2..EndAddr(test) - 1 => TargetSet(test, mode, pc - 1)
                BY <1>0, <4>1, CodeAt DEF TargetSet, Macros
            <4> QED
                BY <1>0, <3>2, <4>1, <4>2, AdvanceFacts
        <3> QED
            BY <1>4, <3>1, <3>2
    <2>2. back \in Nat
        BY <1>0, <2>1, TestType DEF AddressesOf, CodeStart
    <2>3. CheckpointOK(test, mode, had_arch_fault, c)
        BY <2>1 DEF CheckpointOK
    <2>4. SpecOK(test, mode, had_arch_fault, u) /\ Len(u.ckpts) = Len(spec.ckpts) + 1
        BY <1>0, <1>1, <1>3, <1>4, <2>2, <2>3, CheckpointedFacts
    <2> HIDE DEF u
    <2>5. u.logs # <<>>
        <3>1. u.logs \in Seq(Seq(Cells \X Values)) /\ Len(u.logs) = Len(spec.ckpts) + 1
            BY <2>4 DEF SpecOK, SpecState
        <3> QED
            BY <1>2, <3>1
    <2> QED
        BY <2>4, <2>5 DEF u
<1>5. ASSUME NoSpeculation(k), test.contract # "bpas"
      PROVE  ModelInv'
    <2>1. Decided(pc, TRUE, WithWindow, sub, k)
        BY <1>1, <1>5 DEF Decided
    <2> QED
        BY <1>0, <1>5, <2>1, OutcomeStep DEF NoSpeculation
<1>6. CASE test.contract = "cond"
    <2> DEFINE r == IF op = "loop" THEN Decremented(reg) ELSE reg
               target == Target(test, pc)
               jumps == WillJump(op, reg)
               next == IF jumps THEN pc + 1 ELSE target
               back == IF jumps THEN target ELSE pc + 1
               s == Checkpointed(WithWindow, r, back)
               j == TrackerCheckpoint(k, TRUE)
    <2>0. Mispredict(k)
        BY <1>6 DEF SpeculateInstruction, NullSpeculators
    <2>1. CASE MaxNestingReached \/ op \notin Branches \/ target = pc + 1
        BY <1>0, <1>5, <1>6, <2>0, <2>1 DEF Mispredict
    <2>2. CASE ~(MaxNestingReached \/ op \notin Branches \/ target = pc + 1)
        <3>1. Outcome(next, FALSE, s, r, mem, perm, sub, j)
            BY <1>0, <2>0, <2>2 DEF Mispredict
        <3>2. r \in [Regs -> Values]
            BY <1>0, DecrementedType
        <3>3. next \in {pc + 1, target} /\ back \in {pc + 1, target}
            OBVIOUS
        <3>4. op \notin Macros \cup {"wbinvd"}
            BY <2>2 DEF Branches, Macros
        <3> HIDE DEF r, next, back
        <3>5. SpecOK(test, mode, had_arch_fault, s) /\ Len(s.ckpts) = Len(spec.ckpts) + 1
            BY <1>4, <2>2, <3>2, <3>3
        <3> HIDE DEF s
        <3>6. TrackerOK(run, s, j)
            BY <1>0, <3>5, TrackerCheckpointFacts DEF TrackerOK
        <3>7. SubOK(test, s, sub)
            BY <1>0, <1>6 DEF SubOK
        <3> HIDE DEF j
        <3>8. Decided(next, FALSE, s, sub, j)
            BY <2>2, <3>3, <3>4, <3>5, <3>6, <3>7 DEF Decided
        <3> QED
            BY <1>0, <3>1, <3>2, <3>8, OutcomeStep
    <2> QED
        BY <2>1, <2>2
<1>7. CASE test.contract \in {"bpas", "cond-bpas"}
    <2> DEFINE cleared == [sub EXCEPT !.store = <<>>]
    <2>0. BypassStore(k)
        BY <1>7 DEF SpeculateInstruction, NullSpeculators
    <2>1. cleared \in SubState /\ cleared.store = <<>> /\ test.contract # "deh"
        BY <1>0, <1>7 DEF SubState
    <2>2. CASE MaxNestingReached \/ sub.store = <<>>
        <3>1. Outcome(pc, TRUE, WithWindow, reg, mem, perm, cleared, k)
            BY <2>0, <2>2 DEF BypassStore
        <3> HIDE DEF cleared
        <3>2. Decided(pc, TRUE, WithWindow, cleared, k)
            BY <1>1, <2>1 DEF Decided, SubOK
        <3> QED
            BY <1>0, <3>1, <3>2, OutcomeStep
    <2>3. CASE ~(MaxNestingReached \/ sub.store = <<>>)
        <3> DEFINE s == Checkpointed(WithWindow, reg, pc)
                   u == Logged(s, sub.store[1], sub.store[3])
                   m == [mem EXCEPT ![sub.store[1]] = sub.store[2]]
                   j == TrackerCheckpoint(k, FALSE)
        <3>1. Outcome(pc, TRUE, u, reg, m, perm, cleared, j)
            BY <2>0, <2>3 DEF BypassStore
        <3>2. sub.store[1] \in Cells /\ sub.store[2] \in Values /\ sub.store[3] \in Values
            BY <1>0, <2>3 DEF SubState
        <3>3. m \in [Cells -> Values]
            BY <1>0, <3>2
        <3>4. /\ SpecOK(test, mode, had_arch_fault, s) /\ Len(s.ckpts) = Len(spec.ckpts) + 1
              /\ s.logs # <<>>
            BY <1>0, <1>4, <2>3
        <3> HIDE DEF s
        <3>5. SpecOK(test, mode, had_arch_fault, u) /\ u.ckpts = s.ckpts
            BY <3>2, <3>4, LoggedFacts
        <3> HIDE DEF u
        <3>6. TrackerOK(run, u, j) /\ (j.on => j.insn # "none")
            BY <1>0, <3>4, <3>5, TrackerCheckpointFacts DEF TrackerOK
        <3> HIDE DEF j, m, cleared
        <3>7. Decided(pc, TRUE, u, cleared, j)
            BY <2>1, <3>5, <3>6 DEF Decided, SubOK
        <3> QED
            BY <1>0, <3>1, <3>3, <3>7, OutcomeStep
    <2> QED
        BY <2>2, <2>3
<1>8. CASE test.contract = "deh"
    <2> DEFINE o == Insn[op]
               sources == o.src \cup o.addr
               dependent == sources \cap sub.deps # {}
               kept == sub.deps \ (o.dst \ sources)
               skipped == /\ dependent
                          /\ o.access = "none" \/ o.addr \cap sub.deps # {}
               next == IF skipped THEN pc + 1 ELSE pc
               deps == IF dependent THEN kept \cup o.dst ELSE kept
               b == [sub EXCEPT !.deps = deps]
    <2>0. SkipDependent(k)
        BY <1>8 DEF SpeculateInstruction, NullSpeculators
    <2>1. CASE ~spec.in_speculation \/ sub.deps = {}
        BY <1>5, <1>8, <2>0, <2>1 DEF SkipDependent
    <2>2. CASE ~(~spec.in_speculation \/ sub.deps = {})
        <3>1. Outcome(next, ~skipped, WithWindow, reg, mem, perm, b, k)
            BY <1>0, <2>0, <2>2 DEF SkipDependent
        <3>2. o.dst \in SUBSET Operands /\ sub.deps \in SUBSET Operands
            BY <1>0, InsnType DEF SubState
        <3>3. skipped => op \notin Macros \cup {"wbinvd"}
            <4>1. op \in Macros \cup {"wbinvd"} => o = Op({}, {}, {}, "none", FALSE)
                BY InsnMacro DEF Insn, Instructions
            <4> QED
                BY <4>1 DEF Op
        <3>4. deps \in SUBSET Operands
            BY <3>2
        <3>5. /\ skipped => next = pc + 1
              /\ ~skipped => next = pc
              /\ (~skipped) \in BOOLEAN
            OBVIOUS
        <3> HIDE DEF deps, skipped, next
        <3>6. b \in SubState /\ b.dep_ckpts = sub.dep_ckpts
            BY <1>0, <3>4 DEF SubState
        <3>7. SubOK(test, WithWindow, b)
            BY <1>0, <1>1, <3>6 DEF SubOK
        <3>8. Decided(next, ~skipped, WithWindow, b, k)
            BY <1>1, <1>8, <3>3, <3>5, <3>7 DEF Decided
        <3> HIDE DEF b
        <3> QED
            BY <1>0, <3>1, <3>5, <3>8, OutcomeStep
    <2> QED
        BY <2>1, <2>2
<1>9. CASE test.contract \in NullSpeculators
    <2> DEFINE back == sub.restore /\ ~sub.re_execute
               w == IF back THEN PagePermissions(test) ELSE perm
               b == [sub EXCEPT !.re_execute = FALSE, !.restore = sub.re_execute, !.load = <<>>]
    <2>0. test.contract \notin {"cond", "bpas", "cond-bpas", "deh"}
        BY <1>9 DEF NullSpeculators
    <2>1. RestoreProtection(k)
        BY <1>9, <2>0 DEF SpeculateInstruction
    <2>2. Outcome(pc, TRUE, WithWindow, reg, mem, w, b, k)
        BY <2>1 DEF RestoreProtection
    <2>3. w \in {"none", "ro", "rw"}
        BY <1>0 DEF PagePermissions
    <2>4. b \in SubState
        BY <1>0 DEF SubState
    <2> HIDE DEF b, w
    <2>5. Decided(pc, TRUE, WithWindow, b, k)
        BY <1>1, <2>0, <2>4 DEF Decided, SubOK
    <2> QED
        BY <1>0, <2>2, <2>3, <2>5, OutcomeStep
<1>10. CASE test.contract \notin {"cond", "bpas", "cond-bpas", "deh"} \cup NullSpeculators
    BY <1>5, <1>10 DEF SpeculateInstruction
<1> QED
    BY <1>6, <1>7, <1>8, <1>9, <1>10

LEMMA InstructionHookStep ==
    ASSUME ModelInv, InstructionHook
    PROVE  ModelInv'
<1> DEFINE op == InsnOf(test, pc)
           j == TrackInstruction(tracker, op)
           k == TaintInstruction(test.obs, tracing, j)
<1>0. /\ test \in Tests /\ phase = "hook" /\ pc # ExitAddr(test) /\ pc \in AddressesOf(test)
      /\ tracker \in Trackers /\ TrackerOK(run, spec, tracker)
      /\ reg \in [Regs -> Values] /\ trace \in Seq(Entry) /\ tracing \in BOOLEAN
    BY Layout DEF InstructionHook, ModelInv, Scalars, Flow, TrackerOK
<1>1. pc \in Nat /\ op \in Instructions /\ op # "none" /\ InsnAt(pc) = op
    BY <1>0, CodeAt, Layout DEF Instructions, Macros
<1>2. /\ SpeculateInstruction(k)
      /\ trace' = TraceInstruction(test.obs, tracing, trace, pc, reg)
      /\ tracing' = TracingAfter(op, spec'.in_speculation, tracing)
      /\ UNCHANGED <<test, run, input, had_arch_fault, first>>
    BY <1>1 DEF InstructionHook
<1> HIDE DEF op
<1>3. Follows(tracker, j) /\ (tracker.on => j.insn = op)
    BY <1>0, <1>1, TrackInstructionFacts
<1> HIDE DEF j
<1>4. Follows(j, k) /\ k.insn = j.insn
    BY <1>3, ObservedFacts DEF Follows
<1> HIDE DEF k
<1>5. TrackerOK(run, spec, k) /\ (k.on => k.insn # "none")
    BY <1>0, <1>1, <1>3, <1>4 DEF Follows, TrackerOK
<1>6. trace' \in Seq(Entry)
    <2>1. 0 \in Nat
        OBVIOUS
    <2> QED
        BY <1>0, <1>1, <1>2, <2>1, TraceFacts
<1>7. tracing' \in BOOLEAN
    BY <1>0, <1>2 DEF TracingAfter
<1> QED
    BY <1>0, <1>2, <1>5, <1>6, <1>7, SpeculateInstructionStep

LEMMA ModelInvStep ==
    ASSUME ModelInv, [Next]_vars
    PROVE  ModelInv'
<1>1. CASE UNCHANGED vars
    BY <1>1 DEF ModelInv, Scalars, Flow, vars, machine
<1>2. CASE Next
    <2>1. CASE Terminated
        BY <1>1, <2>1 DEF Terminated
    <2> QED
        BY <1>2, <2>1, LoadInputStep, EnterStep, RecordTraceStep, InstructionHookStep,
           ReachExitStep,
           ExecuteStep, SpeculateOnFaultStep, SquashFaultStep, ArchitecturalFaultStep, StoppedStep
           DEF Next
<1> QED
    BY <1>1, <1>2

LEMMA ModelInvAlways == Spec => []ModelInv
<1>1. Init => ModelInv
    BY InitStep
<1>2. ModelInv /\ [Next]_vars => ModelInv'
    BY ModelInvStep
<1> QED
    BY <1>1, <1>2, PTL DEF Spec

LEMMA InSync == ModelInv => ServicesInSync
<1> SUFFICES ASSUME ModelInv PROVE ServicesInSync
    OBVIOUS
<1>1. TypeOK
    <2>1. phase \in {"load", "enter", "hook", "execute", "stopped", "finished", "done", "error"}
        BY DEF ModelInv, Scalars, Phases
    <2>2. pc \in Addresses
        BY Layout DEF ModelInv, Flow
    <2>3. first \in Seq({"pc", "mem", "val"} \X Nat)
        BY DEF ModelInv, Scalars, Entry
    <2> QED
        BY <2>1, <2>2, <2>3 DEF TypeOK, ModelInv, Scalars, ModeOK, ModeState, Faults
<1>2. ActorOfCode
    BY Layout DEF ActorOfCode, ModelInv, Flow, AtHome
<1>3. phase # "error"
    BY DEF ModelInv, Scalars, Phases
<1> QED
    BY <1>1, <1>2, <1>3 DEF ServicesInSync, ModelInv, SpecOK, SubOK, TrackerOK

(* The services of the model stay in step with each other, with the        *)
(* emulator and with the interpreter of actors, for every set of test      *)
(* cases, nesting and window: every checkpoint of the registers has one of *)
(* the memory, the taints and the dependencies, so that each rollback      *)
(* finds what it takes back, the code of an actor runs as that actor and   *)
(* on its data, and no assertion of the services fails (speculator_abc.py, *)
(* taint_tracker.py, speculators_fault.py, interpreter.py).                *)
THEOREM ServicesAlwaysInSync == Spec => []ServicesInSync
  BY ModelInvAlways, InSync, PTL

-----------------------------------------------------------------------------
(* What the logs lead back to.                                             *)

Logs == Seq(Seq(Cells \X Values))
Arch(L, m) ==
    [c \in Cells |->
        LET levels == {k \in DOMAIN L : Entries(L[k], c) # {}}
        IN IF levels = {} THEN m[c] ELSE Undone(L[Min(levels)], m)[c]]

\* Entry i of level k is the oldest one of cell c.
Oldest(L, c, k, i) ==
    /\ k \in DOMAIN L /\ i \in DOMAIN L[k] /\ L[k][i][1] = c
    /\ \A j \in DOMAIN L : j < k => Entries(L[j], c) = {}
    /\ \A j \in DOMAIN L[k] : j < i => L[k][j][1] # c
Untouched(L, c) == \A k \in DOMAIN L : Entries(L[k], c) = {}

LEMMA LeastEntry ==
    ASSUME NEW log \in Seq(Cells \X Values), NEW c \in Cells, NEW i \in DOMAIN log, log[i][1] = c,
           \A j \in DOMAIN log : j < i => log[j][1] # c
    PROVE  Entries(log, c) # {} /\ Min(Entries(log, c)) = i
<1>1. i \in Entries(log, c) /\ Entries(log, c) \in SUBSET Nat /\ DOMAIN log \subseteq Nat
    BY DEF Entries
<1>2. Min(Entries(log, c)) \in Entries(log, c) /\ Min(Entries(log, c)) <= i
    BY <1>1, LeastNumber
<1>3. Min(Entries(log, c)) \in DOMAIN log /\ log[Min(Entries(log, c))][1] = c
    BY <1>2 DEF Entries
<1> QED
    BY <1>1, <1>2, <1>3

(* Undone is what the loop of rollback computes: nothing is left to do for *)
(* an empty log, and otherwise the last entry is written back first.       *)
LEMMA UndoneByLoop ==
    ASSUME NEW m \in [Cells -> Values]
    PROVE  /\ Undone(<<>>, m) = m
           /\ \A log \in Seq(Cells \X Values) : Len(log) > 0 =>
                 Undone(log, m) =
                     Undone(Front(log), [m EXCEPT ![log[Len(log)][1]] = log[Len(log)][2]])
<1>1. Undone(<<>>, m) = m
    BY DEF Undone, Entries
<1>2. ASSUME NEW log \in Seq(Cells \X Values), Len(log) > 0
      PROVE  Undone(log, m) =
                 Undone(Front(log), [m EXCEPT ![log[Len(log)][1]] = log[Len(log)][2]])
    <2> DEFINE n == Len(log)
               front == Front(log)
               k == [m EXCEPT ![log[n][1]] = log[n][2]]
    <2>1. /\ n \in Nat \ {0} /\ DOMAIN log = 1..n /\ front \in Seq(Cells \X Values)
          /\ DOMAIN front = 1..n - 1 /\ \A i \in 1..n - 1 : front[i] = log[i]
        BY <1>2 DEF Front
    <2>2. /\ log[n][1] \in Cells
          /\ \A d \in Cells : k[d] = IF d = log[n][1] THEN log[n][2] ELSE m[d]
        BY <1>2, <2>1
    <2> HIDE DEF n, front, k
    <2>3. ASSUME NEW d \in Cells PROVE Undone(log, m)[d] = Undone(front, k)[d]
        <3>1. Entries(log, d) \in SUBSET Nat /\ Entries(front, d) \in SUBSET Nat
            BY <2>1 DEF Entries
        <3>2. Entries(front, d) = Entries(log, d) \ {n}
            <4>1. 1..n - 1 = (1..n) \ {n}
                BY <2>1
            <4> QED
                BY <2>1, <4>1 DEF Entries
        <3>3. n \in Entries(log, d) <=> d = log[n][1]
            BY <2>1 DEF Entries
        <3>4. CASE Entries(front, d) # {}
            <4>1. PICK i \in Entries(front, d) : \A j \in Entries(front, d) : i <= j
                BY <3>1, <3>4, LeastNumber
            <4>2. i \in 1..n - 1 /\ log[i][1] = d /\ front[i][1] = d
                BY <2>1, <4>1 DEF Entries
            <4>3. \A j \in 1..n : j < i => j \in 1..n - 1 /\ log[j][1] # d /\ front[j][1] # d
                <5>1. \A j \in 1..n : j < i => j \in 1..n - 1 /\ ~(i <= j)
                    BY <2>1, <4>2
                <5> QED
                    BY <2>1, <4>1, <5>1 DEF Entries
            <4>4. Min(Entries(log, d)) = i /\ Entries(log, d) # {}
                <5>1. i \in DOMAIN log
                    BY <2>1, <4>2
                <5> QED
                    BY <2>1, <4>2, <4>3, <5>1, LeastEntry
            <4>5. Min(Entries(front, d)) = i
                <5>1. i \in DOMAIN front /\ \A j \in DOMAIN front : j \in 1..n
                    BY <2>1, <4>2
                <5> QED
                    BY <2>1, <4>2, <4>3, <5>1, LeastEntry
            <4> QED
                BY <2>1, <3>4, <4>2, <4>4, <4>5 DEF Undone
        <3>5. CASE Entries(front, d) = {} /\ d = log[n][1]
            <4>1. \A j \in 1..n : j < n => log[j][1] # d
                BY <2>1, <3>2, <3>5 DEF Entries
            <4>2. Entries(log, d) # {} /\ Min(Entries(log, d)) = n
                BY <1>2, <2>1, <3>5, <4>1, LeastEntry
            <4> QED
                BY <2>2, <3>5, <4>2 DEF Undone
        <3>6. CASE Entries(front, d) = {} /\ d # log[n][1]
            <4>1. Entries(log, d) = {}
                BY <3>2, <3>3, <3>6
            <4> QED
                BY <2>2, <3>6, <4>1 DEF Undone
        <3> QED
            BY <3>4, <3>5, <3>6
    <2> QED
        BY <2>3 DEF Undone, n, front, k
<1> QED
    BY <1>1, <1>2

LEMMA ArchFacts ==
    ASSUME NEW L \in Logs, NEW m \in [Cells -> Values], NEW c \in Cells
    PROVE  /\ Untouched(L, c) \/ \E k \in DOMAIN L : \E i \in DOMAIN L[k] : Oldest(L, c, k, i)
           /\ Untouched(L, c) => Arch(L, m)[c] = m[c]
           /\ \A k, i : Oldest(L, c, k, i) => Arch(L, m)[c] = L[k][i][2]
<1> DEFINE levels == {k \in DOMAIN L : Entries(L[k], c) # {}}
<1>1. /\ L \in Seq(Seq(Cells \X Values)) /\ DOMAIN L \subseteq Nat /\ levels \in SUBSET Nat
      /\ \A k \in DOMAIN L : L[k] \in Seq(Cells \X Values) /\ DOMAIN L[k] \subseteq Nat
    BY DEF Logs
<1>2. Arch(L, m)[c] = IF levels = {} THEN m[c] ELSE Undone(L[Min(levels)], m)[c]
    BY DEF Arch
<1>3. Untouched(L, c) <=> levels = {}
    BY DEF Untouched
<1>4. ASSUME levels # {}
      PROVE  \E k \in DOMAIN L : \E i \in DOMAIN L[k] : Oldest(L, c, k, i)
    <2> DEFINE k == Min(levels)
    <2>1. k \in levels /\ \A j \in levels : k <= j
        BY <1>1, <1>4, LeastNumber
    <2>2. k \in DOMAIN L /\ Entries(L[k], c) # {}
        BY <2>1
    <2> HIDE DEF k
    <2> DEFINE E == Entries(L[k], c)
               i == Min(E)
    <2>3. E \in SUBSET Nat /\ E # {}
        BY <1>1, <2>2 DEF Entries
    <2>4. i \in E /\ \A j \in E : i <= j
        BY <2>3, LeastNumber
    <2> HIDE DEF i
    <2>5. i \in DOMAIN L[k] /\ L[k][i][1] = c
        BY <2>4 DEF Entries
    <2>6. \A j \in DOMAIN L[k] : j < i => L[k][j][1] # c
        <3> SUFFICES ASSUME NEW j \in DOMAIN L[k], j < i, L[k][j][1] = c PROVE FALSE
            OBVIOUS
        <3>1. j \in E
            BY DEF Entries
        <3>2. i <= j /\ i \in Nat /\ j \in Nat
            BY <2>3, <2>4, <3>1
        <3> QED
            BY <3>2
    <2>7. \A j \in DOMAIN L : j < k => Entries(L[j], c) = {}
        <3> SUFFICES ASSUME NEW j \in DOMAIN L, j < k, Entries(L[j], c) # {} PROVE FALSE
            OBVIOUS
        <3>1. k <= j /\ k \in Nat /\ j \in Nat
            BY <1>1, <2>1, <2>2
        <3> QED
            BY <3>1
    <2> QED
        BY <2>2, <2>5, <2>6, <2>7 DEF Oldest
<1>5. ASSUME NEW k, NEW i, Oldest(L, c, k, i)
      PROVE  Arch(L, m)[c] = L[k][i][2]
    <2>1. k \in DOMAIN L /\ L[k] \in Seq(Cells \X Values)
        BY <1>1, <1>5 DEF Oldest
    <2>2. Entries(L[k], c) # {} /\ Min(Entries(L[k], c)) = i
        BY <1>5, <2>1, LeastEntry DEF Oldest
    <2>3. k \in levels
        BY <2>1, <2>2
    <2>4. Min(levels) \in levels /\ Min(levels) <= k
        BY <1>1, <2>3, LeastNumber
    <2>5. Min(levels) = k
        <3>1. Min(levels) \in DOMAIN L /\ Entries(L[Min(levels)], c) # {}
            BY <2>4
        <3>2. ~(Min(levels) < k)
            BY <1>5, <3>1 DEF Oldest
        <3>3. Min(levels) \in Nat /\ k \in Nat
            BY <1>1, <2>1, <3>1
        <3> QED
            BY <2>4, <3>2, <3>3
    <2>6. Undone(L[k], m)[c] = L[k][i][2]
        BY <2>2 DEF Undone
    <2> QED
        BY <1>2, <2>3, <2>5, <2>6
<1> QED
    BY <1>2, <1>3, <1>4, <1>5

LEMMA ArchEqual ==
    ASSUME NEW K, NEW L, NEW m, NEW n, \A c \in Cells : Arch(K, m)[c] = Arch(L, n)[c]
    PROVE  Arch(K, m) = Arch(L, n)
<1>1. Arch(K, m) = [c \in Cells |-> Arch(K, m)[c]] /\ Arch(L, n) = [c \in Cells |-> Arch(L, n)[c]]
    BY Zenon DEF Arch
<1> QED
    BY <1>1

\* A new level has no entries yet.
LEMMA ArchCheckpointed ==
    ASSUME NEW L \in Logs, NEW m \in [Cells -> Values]
    PROVE  Append(L, <<>>) \in Logs /\ Arch(Append(L, <<>>), m) = Arch(L, m)
<1> DEFINE K == Append(L, <<>>)
<1>1. <<>> \in Seq(Cells \X Values) /\ L \in Seq(Seq(Cells \X Values))
    BY DEF Logs
<1>2. /\ K \in Logs /\ DOMAIN K = DOMAIN L \cup {Len(L) + 1} /\ Len(L) \in Nat
      /\ DOMAIN L = 1..Len(L)
      /\ \A k \in DOMAIN L : K[k] = L[k]
      /\ K[Len(L) + 1] = <<>>
    BY <1>1 DEF Logs
<1> HIDE DEF K
<1>3. ASSUME NEW c \in Cells PROVE Arch(K, m)[c] = Arch(L, m)[c]
    <2>1. Entries(K[Len(L) + 1], c) = {}
        BY <1>2 DEF Entries
    <2>2. CASE Untouched(L, c)
        <3>1. Untouched(K, c)
            BY <1>2, <2>1, <2>2 DEF Untouched
        <3> QED
            BY <1>2, <2>2, <3>1, ArchFacts
    <2>3. CASE \E k \in DOMAIN L : \E i \in DOMAIN L[k] : Oldest(L, c, k, i)
        <3>1. PICK k \in DOMAIN L : \E i \in DOMAIN L[k] : Oldest(L, c, k, i)
            BY <2>3
        <3>2. PICK i \in DOMAIN L[k] : Oldest(L, c, k, i)
            BY <3>1
        <3>3. Oldest(K, c, k, i) /\ K[k] = L[k]
            BY <1>2, <2>1, <3>2 DEF Oldest
        <3> QED
            BY <1>2, <3>2, <3>3, ArchFacts
    <2> QED
        BY <2>2, <2>3, ArchFacts
<1> QED
    BY <1>2, <1>3, ArchEqual DEF K

\* What a store replaces is logged: it comes back, unless an older entry does.
LEMMA ArchLogged ==
    ASSUME NEW L \in Logs, L # <<>>, NEW m \in [Cells -> Values], NEW n \in [Cells -> Values],
           NEW c \in Cells, \A d \in Cells : d # c => n[d] = m[d]
    PROVE  LET K == [L EXCEPT ![Len(L)] = Append(@, <<c, m[c]>>)]
           IN K \in Logs /\ Arch(K, n) = Arch(L, m)
<1> DEFINE h == Len(L)
           e == <<c, m[c]>>
           last == Append(L[h], e)
           K == [L EXCEPT ![h] = last]
<1>1. /\ L \in Seq(Seq(Cells \X Values)) /\ h \in Nat /\ h > 0 /\ DOMAIN L = 1..h /\ h \in DOMAIN L
      /\ L[h] \in Seq(Cells \X Values) /\ e \in Cells \X Values /\ e[1] = c /\ e[2] = m[c]
    BY DEF Logs
<1> HIDE DEF e
<1>2. /\ last \in Seq(Cells \X Values) /\ DOMAIN last = DOMAIN L[h] \cup {Len(L[h]) + 1}
      /\ Len(L[h]) \in Nat /\ DOMAIN L[h] = 1..Len(L[h])
      /\ \A i \in DOMAIN L[h] : last[i] = L[h][i]
      /\ last[Len(L[h]) + 1] = e
    BY <1>1
<1> HIDE DEF last
<1>3. /\ K \in Logs /\ DOMAIN K = DOMAIN L /\ K[h] = last
      /\ \A k \in DOMAIN L : k # h => K[k] = L[k]
    BY <1>1, <1>2 DEF Logs
<1> HIDE DEF K, h
<1>4. ASSUME NEW d \in Cells PROVE Arch(K, n)[d] = Arch(L, m)[d]
    <2>1. CASE \E k \in DOMAIN L : \E i \in DOMAIN L[k] : Oldest(L, d, k, i)
        <3>1. PICK k \in DOMAIN L : \E i \in DOMAIN L[k] : Oldest(L, d, k, i)
            BY <2>1
        <3>2. PICK i \in DOMAIN L[k] : Oldest(L, d, k, i)
            BY <3>1
        <3>3. i \in DOMAIN K[k] /\ K[k][i] = L[k][i]
            BY <1>2, <1>3
        <3>4. \A j \in DOMAIN L : j < k => K[j] = L[j]
            BY <1>1, <1>3
        <3>5. \A j \in DOMAIN K[k] : j < i => K[k][j][1] # d
            <4>1. CASE k = h
                BY <1>2, <1>3, <3>2, <4>1 DEF Oldest
            <4>2. CASE k # h
                BY <1>3, <3>2, <4>2 DEF Oldest
            <4> QED
                BY <4>1, <4>2
        <3>6. Oldest(K, d, k, i)
            BY <1>3, <3>2, <3>3, <3>4, <3>5 DEF Oldest
        <3> QED
            BY <1>3, <3>2, <3>3, <3>6, ArchFacts
    <2>2. CASE Untouched(L, d) /\ d = c
        <3>1. \A j \in DOMAIN L[h] : L[h][j][1] # c
            BY <1>1, <2>2 DEF Untouched, Entries
        <3>2. \A j \in DOMAIN K : j < h => Entries(K[j], c) = {}
            <4>1. \A j \in DOMAIN L : j < h => K[j] = L[j]
                BY <1>1, <1>3
            <4> QED
                BY <1>3, <2>2, <4>1 DEF Untouched
        <3>3. \A j \in DOMAIN K[h] : j < Len(L[h]) + 1 => K[h][j][1] # c
            BY <1>2, <1>3, <3>1
        <3>4. Oldest(K, d, h, Len(L[h]) + 1) /\ K[h][Len(L[h]) + 1] = e
            BY <1>1, <1>2, <1>3, <2>2, <3>2, <3>3 DEF Oldest
        <3> QED
            BY <1>1, <1>3, <2>2, <3>4, ArchFacts, SMTT(30)
    <2>3. CASE Untouched(L, d) /\ d # c
        <3>1. Entries(last, d) = {}
            <4>1. \A i \in DOMAIN L[h] : L[h][i][1] # d
                BY <1>1, <2>3 DEF Untouched, Entries
            <4>2. \A i \in DOMAIN last : last[i][1] # d
                BY <1>1, <1>2, <2>3, <4>1
            <4> QED
                BY <4>2 DEF Entries
        <3>2. Untouched(K, d)
            BY <1>3, <2>3, <3>1 DEF Untouched
        <3> QED
            BY <1>3, <2>3, <3>2, ArchFacts
    <2> QED
        BY <2>1, <2>2, <2>3, ArchFacts
<1>5. K = [L EXCEPT ![Len(L)] = Append(@, <<c, m[c]>>)]
    BY <1>1 DEF K, last, e, h
<1>6. Arch(K, n) = Arch(L, m)
    BY <1>4, ArchEqual
<1> QED
    BY <1>3, <1>5, <1>6

\* A rollback undoes the youngest level, the others lead back to the same memory.
LEMMA ArchRolledBack ==
    ASSUME NEW L \in Logs, L # <<>>, NEW m \in [Cells -> Values]
    PROVE  Arch(Front(L), Undone(L[Len(L)], m)) = Arch(L, m)
<1> DEFINE h == Len(L)
           K == Front(L)
           n == Undone(L[h], m)
<1>1. /\ L \in Seq(Seq(Cells \X Values)) /\ h \in Nat /\ h > 0 /\ DOMAIN L = 1..h /\ h \in DOMAIN L
      /\ L[h] \in Seq(Cells \X Values)
    BY DEF Logs
<1>2. K \in Logs /\ DOMAIN K = 1..h - 1 /\ \A k \in DOMAIN K : K[k] = L[k]
    BY <1>1 DEF Front, Logs
<1>3. /\ n \in [Cells -> Values]
      /\ \A c \in Cells :
            n[c] = IF Entries(L[h], c) = {} THEN m[c] ELSE L[h][Min(Entries(L[h], c))][2]
    BY <1>1, UndoneFacts DEF Undone
<1> HIDE DEF K, n, h
<1>4. DOMAIN K \subseteq DOMAIN L /\ \A k \in DOMAIN L : k # h => k \in DOMAIN K
    BY <1>1, <1>2
<1>5. ASSUME NEW c \in Cells PROVE Arch(K, n)[c] = Arch(L, m)[c]
    <2>1. CASE Untouched(L, c)
        <3>1. Untouched(K, c) /\ n[c] = m[c]
            BY <1>1, <1>2, <1>3, <1>4, <2>1 DEF Untouched
        <3> QED
            BY <1>2, <1>3, <2>1, <3>1, ArchFacts
    <2>2. CASE \E k \in DOMAIN L : \E i \in DOMAIN L[k] : Oldest(L, c, k, i)
        <3>1. PICK k \in DOMAIN L : \E i \in DOMAIN L[k] : Oldest(L, c, k, i)
            BY <2>2
        <3>2. PICK i \in DOMAIN L[k] : Oldest(L, c, k, i)
            BY <3>1
        <3>3. CASE k = h
            <4>1. Min(Entries(L[h], c)) = i /\ Entries(L[h], c) # {}
                BY <1>1, <3>2, <3>3, LeastEntry, SMTT(30) DEF Oldest
            <4>2. n[c] = L[k][i][2]
                BY <1>3, <3>3, <4>1
            <4>3. Untouched(K, c)
                <5>1. \A j \in DOMAIN K : j < k
                    BY <1>1, <1>2, <3>3
                <5> QED
                    BY <1>2, <1>4, <3>2, <5>1 DEF Untouched, Oldest
            <4> QED
                BY <1>2, <1>3, <3>2, <4>2, <4>3, ArchFacts
        <3>4. CASE k # h
            <4>1. k \in DOMAIN K /\ K[k] = L[k]
                BY <1>2, <1>4, <3>4
            <4>2. Oldest(K, c, k, i)
                BY <1>2, <1>4, <3>2, <4>1 DEF Oldest
            <4>3. Arch(K, n)[c] = K[k][i][2]
                <5>1. K \in Logs /\ n \in [Cells -> Values]
                    BY <1>2, <1>3
                <5>2. \A x, y : Oldest(K, c, x, y) => Arch(K, n)[c] = K[x][y][2]
                    BY <5>1, ArchFacts
                <5> QED
                    BY <4>2, <5>2
            <4>4. Arch(L, m)[c] = L[k][i][2]
                BY <3>2, ArchFacts
            <4> QED
                BY <4>1, <4>3, <4>4
        <3> QED
            BY <3>3, <3>4
    <2> QED
        BY <2>1, <2>2, ArchFacts
<1> QED
    BY <1>5, ArchEqual DEF K, n, h

-----------------------------------------------------------------------------
(* Speculation comes back to where it began.                               *)

\* The store that a bypass may take back is in memory, unless it faulted.
StoresOK ==
    /\ PagePermissions(test) = "rw" => perm = "rw"
    /\ test.contract # "bpas" => sub.store = <<>>
    /\ ~RedoesFaultingStore =>
          /\ phase \in {"enter", "execute"} => sub.store = <<>>
          /\ phase = "hook" /\ sub.store # <<>> => mem[sub.store[1]] = sub.store[3]
          /\ phase = "stopped" /\ fault # "none" /\ sub.store # <<>> => perm # "rw"

\* The step that SpeculationComesBack asks of every action.
ComesBack ==
    /\ spec.in_speculation /\ spec'.in_speculation => spec'.ckpts[1] = spec.ckpts[1]
    /\ spec.in_speculation /\ ~spec'.in_speculation =>
           reg' = spec.ckpts[1].reg /\ pc' = spec.ckpts[1].next
    /\ (spec.in_speculation \/ spec'.in_speculation) /\ ~RedoesFaultingStore =>
           ArchMem' = ArchMem

\* A speculator with state s over memory m comes back to the same state.
Keeps(s, m) ==
    /\ spec.in_speculation => s.in_speculation /\ s.ckpts[1] = spec.ckpts[1]
    /\ ~RedoesFaultingStore => Arch(s.logs, m) = Arch(spec.logs, mem)

LEMMA KeepsComesBack ==
    /\ Keeps(spec', mem') => ComesBack
    /\ ArchMem = Arch(spec.logs, mem) /\ ArchMem' = Arch(spec'.logs, mem')
<1>1. ArchMem = Arch(spec.logs, mem)
    BY Zenon DEF ArchMem, Arch
<1>2. ArchMem' = Arch(spec'.logs, mem')
    BY Zenon DEF ArchMem, Arch
<1> QED
    BY <1>1, <1>2, Zenon DEF Keeps, ComesBack

LEMMA KeepsSame ==
    ASSUME NEW s, s.ckpts = spec.ckpts, s.logs = spec.logs, s.in_speculation = spec.in_speculation
    PROVE  Keeps(s, mem)
  BY DEF Keeps

LEMMA KeepsCheckpointed ==
    ASSUME ModelInv, NEW s \in SpecState, s.ckpts = spec.ckpts, s.logs = spec.logs,
           NEW r, NEW next
    PROVE  LET u == Checkpointed(s, r, next)
           IN Keeps(u, mem) /\ u.logs \in Logs /\ u.logs # <<>> /\ u.in_speculation
<1> DEFINE c == [reg |-> r, base |-> mode.base, next |-> next, window |-> s.window]
           u == Checkpointed(s, r, next)
<1>1. /\ spec.ckpts \in Seq(Checkpoint) /\ spec.logs \in Logs /\ mem \in [Cells -> Values]
      /\ spec.in_speculation => Len(spec.ckpts) > 0
    BY DEF ModelInv, SpecOK, SpecState, Scalars, Logs
<1>2. u = [s EXCEPT !.ckpts = Append(@, c), !.logs = Append(@, <<>>), !.in_speculation = TRUE]
    BY DEF Checkpointed
<1> HIDE DEF c, u
<1>3. /\ u.ckpts = Append(spec.ckpts, c) /\ u.logs = Append(spec.logs, <<>>)
      /\ u.in_speculation = TRUE
    BY <1>2 DEF SpecState
<1>4. spec.in_speculation => Append(spec.ckpts, c)[1] = spec.ckpts[1]
    BY <1>1
<1>5. Append(spec.logs, <<>>) \in Logs /\ Arch(Append(spec.logs, <<>>), mem) = Arch(spec.logs, mem)
    BY <1>1, ArchCheckpointed
<1>6. Append(spec.logs, <<>>) # <<>>
    <2> DEFINE l == Len(spec.logs)
    <2>1. l \in Nat /\ Len(Append(spec.logs, <<>>)) = l + 1
        BY <1>1 DEF Logs
    <2> HIDE DEF l
    <2>2. Len(Append(spec.logs, <<>>)) # 0 /\ Len(<<>>) = 0
        BY <2>1
    <2> QED
        BY <2>2, Zenon
<1> QED
    BY <1>3, <1>4, <1>5, <1>6 DEF Keeps, u

LEMMA KeepsLogged ==
    ASSUME ModelInv, NEW s, Keeps(s, mem), DOMAIN s = {"ckpts", "logs", "in_speculation", "window"},
           s.logs \in Logs, s.logs # <<>>, NEW c \in Cells, NEW v,
           ~RedoesFaultingStore => v = mem[c],
           NEW n \in [Cells -> Values], \A d \in Cells : d # c => n[d] = mem[d]
    PROVE  Keeps(Logged(s, c, v), n)
<1> DEFINE u == Logged(s, c, v)
           K == [s.logs EXCEPT ![Len(s.logs)] = Append(@, <<c, v>>)]
<1>1. mem \in [Cells -> Values]
    BY DEF ModelInv, Scalars
<1>2. u.ckpts = s.ckpts /\ u.in_speculation = s.in_speculation /\ u.logs = K
    BY DEF Logged
<1>3. ~RedoesFaultingStore => Arch(K, n) = Arch(s.logs, mem)
    <2> SUFFICES ASSUME ~RedoesFaultingStore PROVE Arch(K, n) = Arch(s.logs, mem)
        OBVIOUS
    <2>1. K = [s.logs EXCEPT ![Len(s.logs)] = Append(@, <<c, mem[c]>>)]
        OBVIOUS
    <2> HIDE DEF K
    <2> QED
        BY <1>1, <2>1, ArchLogged
<1> HIDE DEF u, K
<1> QED
    BY <1>2, <1>3 DEF Keeps, u

LEMMA RollbackBack ==
    ASSUME ModelInv, Rollback, spec.in_speculation
    PROVE  ComesBack
<1> DEFINE n == Len(spec.ckpts)
<1>1. /\ spec.ckpts \in Seq(Checkpoint) /\ spec.logs \in Logs
      /\ n \in Nat /\ n > 0 /\ n = Len(spec.logs) /\ spec.logs # <<>> /\ mem \in [Cells -> Values]
    <2>1. /\ spec.ckpts \in Seq(Checkpoint) /\ spec.logs \in Seq(Seq(Cells \X Values))
          /\ n > 0 /\ n = Len(spec.logs) /\ mem \in [Cells -> Values]
        BY DEF ModelInv, SpecOK, SpecState, Scalars
    <2>2. n \in Nat /\ spec.logs # <<>>
        BY <2>1
    <2> QED
        BY <2>1, <2>2 DEF Logs
<1>2. /\ pc' = spec.ckpts[n].next /\ reg' = spec.ckpts[n].reg
      /\ mem' = Undone(spec.logs[n], mem)
      /\ spec'.ckpts = Front(spec.ckpts) /\ spec'.logs = Front(spec.logs)
      /\ spec'.in_speculation = (n > 1)
    BY <1>1 DEF Rollback, Last
<1>3. n > 1 => Front(spec.ckpts)[1] = spec.ckpts[1]
    BY <1>1 DEF Front
<1>4. ~(n > 1) => n = 1
    <2>1. n \in Nat /\ n > 0
        BY <1>1
    <2> HIDE DEF n
    <2> QED
        BY <2>1
<1>5. Arch(spec'.logs, mem') = Arch(spec.logs, mem)
    BY <1>1, <1>2, ArchRolledBack
<1> QED
    BY <1>2, <1>3, <1>4, <1>5, KeepsComesBack DEF ComesBack

\* The hook of an instruction.
LEMMA HookKeeps ==
    ASSUME ModelInv, StoresOK, phase = "hook", NEW k, SpeculateInstruction(k)
    PROVE  /\ Keeps(spec', mem') /\ sub'.store = <<>> /\ perm' \in {perm, PagePermissions(test)}
           /\ phase' \in {"stopped", "execute", "hook"}
<1>1. /\ WithWindow \in SpecState /\ WithWindow.ckpts = spec.ckpts /\ WithWindow.logs = spec.logs
      /\ WithWindow.in_speculation = spec.in_speculation
    BY WithWindowFacts DEF SpecOK
<1>2. Keeps(WithWindow, mem)
    BY <1>1, KeepsSame
<1>3. ASSUME NEW next, NEW execute, NEW s, NEW r, NEW m, NEW w, NEW b, NEW j,
             Outcome(next, execute, s, r, m, w, b, j)
      PROVE  /\ spec' = s /\ mem' = m /\ sub' = b /\ perm' = w
             /\ phase' \in {"stopped", "execute", "hook"}
    BY <1>3 DEF Outcome
<1>4. sub \in SubState /\ (test.contract # "bpas" => sub.store = <<>>)
      /\ mem \in [Cells -> Values]
    BY DEF ModelInv, SubOK, StoresOK, Scalars
<1>5. ASSUME NoSpeculation(k), test.contract # "bpas"
      PROVE  /\ Keeps(spec', mem') /\ sub'.store = <<>> /\ perm' = perm
             /\ phase' \in {"stopped", "execute", "hook"}
    BY <1>2, <1>3, <1>4, <1>5 DEF NoSpeculation
<1>6. CASE test.contract = "cond"
    <2>0. Mispredict(k)
        BY <1>6 DEF SpeculateInstruction, NullSpeculators
    <2>1. CASE NoSpeculation(k)
        BY <1>5, <1>6, <2>1
    <2>2. ASSUME NEW next, NEW r, NEW back, NEW j,
                 Outcome(next, FALSE, Checkpointed(WithWindow, r, back), r, mem, perm, sub, j)
          PROVE  /\ Keeps(spec', mem') /\ sub'.store = <<>> /\ perm' = perm
                 /\ phase' \in {"stopped", "execute", "hook"}
        <3> DEFINE u == Checkpointed(WithWindow, r, back)
        <3>1. Keeps(u, mem)
            BY <1>1, KeepsCheckpointed
        <3> HIDE DEF u
        <3>2. Outcome(next, FALSE, u, r, mem, perm, sub, j)
            BY <2>2 DEF u
        <3> QED
            BY <1>3, <1>4, <1>6, <3>1, <3>2
    <2> QED
        BY <2>0, <2>1, <2>2 DEF Mispredict
<1>7. CASE test.contract \in {"bpas", "cond-bpas"}
    <2> DEFINE cleared == [sub EXCEPT !.store = <<>>]
    <2>0. BypassStore(k)
        BY <1>7 DEF SpeculateInstruction, NullSpeculators
    <2>1. cleared.store = <<>>
        BY <1>4 DEF SubState
    <2>2. CASE MaxNestingReached \/ sub.store = <<>>
        <3>1. Outcome(pc, TRUE, WithWindow, reg, mem, perm, cleared, k)
            BY <2>0, <2>2 DEF BypassStore
        <3> HIDE DEF cleared
        <3> QED
            BY <1>2, <1>3, <2>1, <3>1
    <2>3. CASE ~(MaxNestingReached \/ sub.store = <<>>)
        <3> DEFINE s == Checkpointed(WithWindow, reg, pc)
                   u == Logged(s, sub.store[1], sub.store[3])
                   m == [mem EXCEPT ![sub.store[1]] = sub.store[2]]
                   j == TrackerCheckpoint(k, FALSE)
        <3>1. Outcome(pc, TRUE, u, reg, m, perm, cleared, j)
            BY <2>0, <2>3 DEF BypassStore
        <3>2. sub.store[1] \in Cells /\ sub.store[2] \in Values
            BY <1>4, <2>3 DEF SubState
        <3>3. m \in [Cells -> Values] /\ \A d \in Cells : d # sub.store[1] => m[d] = mem[d]
            BY <1>4, <3>2
        <3>4. Keeps(s, mem) /\ s.logs \in Logs /\ s.logs # <<>>
            BY <1>1, KeepsCheckpointed
        <3>5. DOMAIN s = {"ckpts", "logs", "in_speculation", "window"}
            BY <1>1 DEF Checkpointed, SpecState
        <3>6. ~RedoesFaultingStore => sub.store[3] = mem[sub.store[1]]
            BY <2>3 DEF StoresOK
        <3> HIDE DEF s, m
        <3>7. Keeps(u, m)
            BY <3>2, <3>3, <3>4, <3>5, <3>6, KeepsLogged
        <3> HIDE DEF u, j, cleared
        <3> QED
            BY <1>3, <2>1, <3>1, <3>7
    <2> QED
        BY <2>2, <2>3
<1>8. CASE test.contract = "deh"
    <2>0. SkipDependent(k)
        BY <1>8 DEF SpeculateInstruction, NullSpeculators
    <2>1. CASE NoSpeculation(k)
        BY <1>5, <1>8, <2>1
    <2>2. ASSUME NEW next, NEW execute, NEW deps,
                 Outcome(next, execute, WithWindow, reg, mem, perm, [sub EXCEPT !.deps = deps], k)
          PROVE  /\ Keeps(spec', mem') /\ sub'.store = <<>> /\ perm' = perm
                 /\ phase' \in {"stopped", "execute", "hook"}
        <3>1. [sub EXCEPT !.deps = deps].store = <<>>
            BY <1>4, <1>8 DEF SubState
        <3> DEFINE b == [sub EXCEPT !.deps = deps]
        <3> HIDE DEF b
        <3>2. Outcome(next, execute, WithWindow, reg, mem, perm, b, k) /\ b.store = <<>>
            BY <2>2, <3>1 DEF b
        <3> QED
            BY <1>2, <1>3, <3>2
    <2> QED
        BY <2>0, <2>1, <2>2 DEF SkipDependent
<1>9. CASE test.contract \in NullSpeculators
    <2> DEFINE back == sub.restore /\ ~sub.re_execute
               w == IF back THEN PagePermissions(test) ELSE perm
               b == [sub EXCEPT !.re_execute = FALSE, !.restore = sub.re_execute, !.load = <<>>]
    <2>0. test.contract \notin {"cond", "bpas", "cond-bpas", "deh"}
        BY <1>9 DEF NullSpeculators
    <2>1. RestoreProtection(k)
        BY <1>9, <2>0 DEF SpeculateInstruction
    <2>2. Outcome(pc, TRUE, WithWindow, reg, mem, w, b, k)
        BY <2>1 DEF RestoreProtection
    <2>3. w \in {perm, PagePermissions(test)} /\ b.store = <<>>
        BY <1>4, <2>0 DEF SubState
    <2> HIDE DEF b, w
    <2> QED
        BY <1>2, <1>3, <2>2, <2>3
<1>10. CASE test.contract \notin {"cond", "bpas", "cond-bpas", "deh"} \cup NullSpeculators
    BY <1>5, <1>10 DEF SpeculateInstruction
<1> QED
    BY <1>6, <1>7, <1>8, <1>9, <1>10

LEMMA HookBack ==
    ASSUME ModelInv, StoresOK, InstructionHook
    PROVE  ComesBack /\ StoresOK'
<1>1. phase = "hook" /\ test' = test /\ \E k : SpeculateInstruction(k)
    BY DEF InstructionHook
<1>2. /\ Keeps(spec', mem') /\ sub'.store = <<>> /\ perm' \in {perm, PagePermissions(test)}
    BY <1>1, HookKeeps
<1>3. StoresOK'
    BY <1>1, <1>2 DEF StoresOK
<1> QED
    BY <1>2, <1>3, KeepsComesBack

LEMMA ExecuteBack ==
    ASSUME ModelInv, StoresOK, Execute
    PROVE  ComesBack /\ StoresOK'
<1> DEFINE op == InsnOf(test, pc)
           c == Address(op, reg)
           f == FaultOf(op, reg, mem, perm)
           write == Insn[op].access = "write"
<1>0. /\ test \in Tests /\ pc \in AddressesOf(test) /\ pc # ExitAddr(test) /\ phase = "execute"
      /\ tracker.on => tracker.insn # "none"
      /\ test.contract = "bpas" => sub.store = <<>>
      /\ reg \in [Regs -> Values] /\ mem \in [Cells -> Values] /\ sub \in SubState
      /\ spec.logs \in Logs /\ SpecOK(test, mode, had_arch_fault, spec)
    BY DEF ModelInv, Scalars, Flow, Execute, SubOK, SpecOK, SpecState, Logs
<1>1. op \in Instructions /\ InsnAt(pc) = op
    BY <1>0, CodeAt, Layout
<1>2. MemAccessAllowed /\ sub.store = <<>>
    BY <1>0 DEF MemAccessAllowed, TrackingStarted, StoresOK
<1>3. c \in Cells /\ mem[c] \in Values /\ (write => Stored(op, reg) \in Values)
    BY <1>0, <1>1, AddressType, StoredType
<1> HIDE DEF op
<1>4. /\ MemAccess /\ fault' = f
      /\ f = "none" => phase' = "hook" /\ mem' = MemAfter(op, reg, mem)
      /\ f # "none" => phase' = "stopped" /\ mem' = mem
      /\ test' = test /\ perm' = perm
    BY <1>1, <1>2 DEF Execute
<1>5. write /\ f # "none" => perm # "rw"
    BY <1>1 DEF FaultOf, Insn, Instructions, Op
<1>6. /\ mem' = mem \/ (write /\ f = "none" /\ mem' = [mem EXCEPT ![c] = Stored(op, reg)])
      /\ write /\ f = "none" => mem' = [mem EXCEPT ![c] = Stored(op, reg)]
    BY <1>4 DEF MemAfter
<1> HIDE DEF f
<1>7. CASE ~write
    <2>1. spec' = spec /\ mem' = mem /\ sub'.store = <<>>
        <3>1. spec' = spec /\ (sub' = sub \/ sub' = [sub EXCEPT !.load = <<c>>])
            BY <1>1, <1>4, <1>7 DEF MemAccess, LoggedAccess, NotedAccess
        <3> QED
            BY <1>0, <1>2, <1>6, <1>7, <3>1 DEF SubState
    <2>2. Keeps(spec', mem')
        BY <2>1, KeepsSame
    <2>3. StoresOK'
        BY <1>4, <2>1 DEF StoresOK
    <2> QED
        BY <2>2, <2>3, KeepsComesBack
<1>8. CASE write
    <2>1. /\ spec' = IF spec.logs # <<>> THEN Logged(spec, c, mem[c]) ELSE spec
          /\ sub' = IF test.contract = "bpas"
                    THEN [sub EXCEPT !.store = <<c, mem[c], Stored(op, reg)>>] ELSE sub
        BY <1>1, <1>4, <1>8 DEF MemAccess, LoggedAccess, NotedAccess
    <2> HIDE DEF c, write
    <2>2. mem' \in [Cells -> Values] /\ \A d \in Cells : d # c => mem'[d] = mem[d]
        BY <1>0, <1>3, <1>6, <1>8
    <2>3. ComesBack
        <3>1. CASE spec.logs # <<>>
            <4>1. Keeps(spec, mem) /\ DOMAIN spec = {"ckpts", "logs", "in_speculation", "window"}
                BY <1>0, KeepsSame DEF SpecOK, SpecState
            <4>2. Keeps(spec', mem')
                BY <1>0, <1>3, <2>1, <2>2, <3>1, <4>1, KeepsLogged
            <4> QED
                BY <4>2, KeepsComesBack
        <3>2. CASE spec.logs = <<>>
            <4>1. spec' = spec /\ ~spec.in_speculation
                <5>1. spec.ckpts \in Seq(Checkpoint) /\ Len(spec.ckpts) = 0
                    BY <1>0, <3>2 DEF SpecOK, SpecState
                <5>2. spec.ckpts = <<>>
                    BY <5>1
                <5> QED
                    BY <2>1, <3>2, <5>2, NotSpeculating
            <4> QED
                BY <4>1 DEF ComesBack
        <3> QED
            BY <3>1, <3>2
    <2>4. StoresOK'
        <3>1. CASE test.contract # "bpas"
            BY <1>2, <1>4, <2>1, <3>1 DEF StoresOK
        <3>2. CASE test.contract = "bpas"
            <4>1. sub'.store = <<c, mem[c], Stored(op, reg)>>
                BY <1>0, <2>1, <3>2 DEF SubState
            <4>2. sub'.store[1] = c /\ sub'.store[3] = Stored(op, reg)
                BY <4>1
            <4>3. f = "none" => mem'[c] = Stored(op, reg)
                BY <1>0, <1>3, <1>6, <1>8
            <4>4. phase' \in {"hook", "stopped"} /\ (phase' = "hook" => f = "none")
                BY <1>4
            <4> QED
                BY <1>4, <1>5, <1>8, <3>2, <4>2, <4>3, <4>4 DEF StoresOK
        <3> QED
            BY <3>1, <3>2
    <2> QED
        BY <2>3, <2>4
<1> QED
    BY <1>7, <1>8

\* Steps that leave the speculator and the memory alone.
LEMMA SameBack ==
    ASSUME spec' = spec, mem' = mem
    PROVE  ComesBack
<1>1. Keeps(spec', mem')
    BY KeepsSame
<1> QED
    BY <1>1, KeepsComesBack

LEMMA RollbackStores ==
    ASSUME ModelInv, StoresOK, Rollback
    PROVE  StoresOK'
<1>1. sub'.store = <<>>
    BY DEF Rollback, ModelInv, SubOK, SubState
<1> QED
    BY <1>1 DEF StoresOK, Rollback

LEMMA FaultBack ==
    ASSUME ModelInv, StoresOK, SpeculateOnFault
    PROVE  ComesBack /\ StoresOK'
<1>0. /\ spec \in SpecState /\ mem \in [Cells -> Values] /\ sub \in SubState /\ sub.store = <<>>
      /\ test' = test /\ phase' = "enter"
    <2>1. test.contract # "bpas"
        BY DEF SpeculateOnFault, SpeculatesOn, NullSpeculators
    <2> QED
        BY <2>1
           DEF ModelInv, SpecOK, Scalars, SubOK, StoresOK, SpeculateOnFault, Unprotect, InjectZero,
           DelayFault, Resume
<1>1. ASSUME NEW next
      PROVE  LET s == Checkpointed(spec, reg, next)
             IN Keeps(s, mem) /\ s.logs \in Logs /\ s.logs # <<>>
    BY <1>0, KeepsCheckpointed
<1>2. sub'.store = <<>> /\ perm' \in {perm, "rw"}
    BY <1>0 DEF SpeculateOnFault, Unprotect, InjectZero, DelayFault, SubState
<1>3. StoresOK'
    BY <1>0, <1>2 DEF StoresOK
<1>4. Keeps(spec', mem')
    <2>1. CASE Unprotect
        <3>1. mem' = mem /\ (spec' = spec \/ spec' = Checkpointed(spec, reg, Handler))
            BY <2>1 DEF Unprotect
        <3>2. Keeps(spec, mem)
            BY KeepsSame
        <3> QED
            BY <1>1, <3>1, <3>2
    <2>2. CASE InjectZero
        <3> DEFINE back == IF test.contract = "nullinj-assist" THEN pc ELSE Handler
                   s == Checkpointed(spec, reg, back)
        <3>1. \/ spec' = s /\ mem' = mem
              \/ /\ sub.load # <<>> /\ spec' = Logged(s, sub.load[1], mem[sub.load[1]])
                 /\ mem' = [mem EXCEPT ![sub.load[1]] = 0]
            BY <2>2 DEF InjectZero
        <3> HIDE DEF back
        <3>2. /\ Keeps(s, mem) /\ s.logs \in Logs /\ s.logs # <<>>
              /\ DOMAIN s = {"ckpts", "logs", "in_speculation", "window"}
            BY <1>0, <1>1 DEF Checkpointed, SpecState
        <3> HIDE DEF s
        <3>3. CASE sub.load # <<>> /\ mem' = [mem EXCEPT ![sub.load[1]] = 0]
                       /\ spec' = Logged(s, sub.load[1], mem[sub.load[1]])
            <4>1. sub.load[1] \in Cells
                BY <1>0, <3>3 DEF SubState
            <4>2. /\ mem' \in [Cells -> Values]
                  /\ \A d \in Cells : d # sub.load[1] => mem'[d] = mem[d]
                BY <1>0, <3>3, <4>1 DEF Values
            <4> DEFINE x == sub.load[1]
                       v == mem[x]
            <4>3. ~RedoesFaultingStore => v = mem[x]
                OBVIOUS
            <4> HIDE DEF x, v
            <4>4. Keeps(Logged(s, x, v), mem')
                BY <3>2, <4>1, <4>2, <4>3, KeepsLogged DEF x
            <4> QED
                BY <3>3, <4>4 DEF x, v
        <3> QED
            BY <3>1, <3>2, <3>3
    <2>3. CASE DelayFault
        BY <1>1, <2>3 DEF DelayFault
    <2> QED
        BY <2>1, <2>2, <2>3 DEF SpeculateOnFault
<1> QED
    BY <1>3, <1>4, KeepsComesBack

LEMMA InitStores == Init => StoresOK
  BY DEF Init, StoresOK, FreshSub

LEMMA BackStep ==
    ASSUME ModelInv, StoresOK, [Next]_vars
    PROVE  ComesBack /\ StoresOK'
<1>0. sub \in SubState
    BY DEF ModelInv, SubOK
<1>1. CASE UNCHANGED vars
    <2>1. ComesBack
        BY <1>1, SameBack DEF vars, machine
    <2> QED
        BY <1>1, <2>1 DEF StoresOK, RedoesFaultingStore, vars, machine
<1>2. CASE LoadInput
    <2>1. ~spec.in_speculation
        <3>1. spec.ckpts = <<>>
            BY <1>2 DEF LoadInput, ModelInv, Flow
        <3> QED
            BY <3>1, NotSpeculating
    <2>2. spec'.in_speculation = FALSE /\ sub'.store = <<>>
        BY <1>0, <1>2 DEF LoadInput, FreshSpec, SubState
    <2>3. ComesBack
        BY <2>1, <2>2 DEF ComesBack
    <2>4. StoresOK'
        BY <1>2, <2>2 DEF LoadInput, StoresOK, PermAfterLoad
    <2> QED
        BY <2>3, <2>4
<1>3. CASE Enter
    <2>1. CASE pc # CodeStart /\ spec.in_speculation /\ pc \in {Exit, Handler}
        BY <1>3, <2>1, RollbackBack, RollbackStores DEF Enter
    <2>2. CASE ~(pc # CodeStart /\ spec.in_speculation /\ pc \in {Exit, Handler})
        <3>1. ComesBack
            BY <1>3, <2>2, SameBack DEF Enter
        <3>2. StoresOK'
            BY <1>3, <2>2 DEF Enter, StoresOK, RedoesFaultingStore
        <3> QED
            BY <3>1, <3>2
    <2> QED
        BY <2>1, <2>2
<1>4. CASE RecordTrace
    <2>1. ComesBack
        BY <1>4, SameBack DEF RecordTrace, machine
    <2> QED
        BY <1>4, <2>1 DEF RecordTrace, StoresOK, machine
<1>5. CASE ReachExit
    <2>1. ComesBack
        BY <1>5, SameBack DEF ReachExit, machine
    <2>2. fault' = "none"
        BY <1>5 DEF ReachExit, machine, ModelInv, Flow
    <2> QED
        BY <1>5, <2>1, <2>2 DEF ReachExit, StoresOK, machine
<1>6. CASE SquashFault
    <2>1. ComesBack
        BY <1>6, SameBack DEF SquashFault
    <2> QED
        BY <1>6, <2>1 DEF SquashFault, StoresOK
<1>7. CASE ArchitecturalFault
    <2>1. ComesBack
        BY <1>7, SameBack DEF ArchitecturalFault
    <2>2. phase' = "enter" => test.handler = "end"
        <3>1. had_arch_fault = FALSE /\ test \in Tests
            BY <1>7, FirstFault DEF ArchitecturalFault, ModelInv, Scalars
        <3>2. test.handler \in {"exit", "end"}
            BY <3>1, ModelAssumption
        <3> QED
            BY <1>7, <3>1, <3>2 DEF ArchitecturalFault, Handler
    <2>3. phase' \in {"error", "finished", "enter"}
        BY <1>7 DEF ArchitecturalFault
    <2> QED
        BY <1>7, <2>1, <2>2, <2>3 DEF ArchitecturalFault, StoresOK, RedoesFaultingStore
<1>8. CASE Stopped
    <2>1. CASE spec.in_speculation
        BY <1>8, <2>1, RollbackBack, RollbackStores DEF Stopped
    <2>2. CASE ~spec.in_speculation
        <3>1. ComesBack
            BY <1>8, <2>2, SameBack DEF Stopped, machine
        <3> QED
            BY <1>8, <2>2, <3>1 DEF Stopped, StoresOK, machine
    <2> QED
        BY <2>1, <2>2
<1>9. CASE Terminated
    BY <1>1, <1>9 DEF Terminated
<1> QED
    BY <1>1, <1>2, <1>3, <1>4, <1>5, <1>6, <1>7, <1>8, <1>9, HookBack, ExecuteBack, FaultBack
       DEF Next

(* Nothing that runs in speculation, at any depth, with any test case,     *)
(* changes what its end brings back: the checkpoint of its beginning       *)
(* stays, the registers and the address in it are what execution goes on   *)
(* with, and so is the memory that the logs lead back to (checkpoint,      *)
(* rollback and _store_logs of UnicornSpeculator, and its subclasses).     *)
THEOREM SpeculationAlwaysComesBack == Spec => SpeculationComesBack
<1>1. Init => ModelInv /\ StoresOK
    BY InitStep, InitStores
<1>2. ModelInv /\ StoresOK /\ [Next]_vars => (ModelInv /\ StoresOK)'
    BY ModelInvStep, BackStep
<1>3. ModelInv /\ StoresOK /\ [Next]_vars => [ComesBack]_vars
    BY BackStep
<1> QED
    BY <1>1, <1>2, <1>3, PTL DEF Spec, SpeculationComesBack, ComesBack

-----------------------------------------------------------------------------
(* The run without speculation.                                            *)

Machines == [x : [pc : Nat, reg : [Regs -> Values], mode : ModeState], mem : [Cells -> Values]]
StartOf(t, i) == [x |-> [pc |-> CodeStart, reg |-> i.reg, mode |-> FreshMode(t)], mem |-> i.mem]

LEMMA StepsType ==
    ASSUME NEW t \in Tests
    PROVE  SequentialSteps(t) \in Nat
<1>1. Len(t.body) \in Nat /\ Len(t.other) \in Nat
    BY TestType
<1> DEFINE m == Len(t.body)
           n == Len(t.other)
<1>2. SequentialSteps(t) = m + n + 3 /\ m \in Nat /\ n \in Nat
    BY <1>1 DEF SequentialSteps
<1> HIDE DEF m, n
<1> QED
    BY <1>2

\* The definition of the run by recursion defines a function.
LEMMA RunFacts ==
    ASSUME NEW t \in Tests, NEW h, NEW w, NEW i
    PROVE  LET R == SequentialRun(t, h, w, i)
           IN /\ R[0] = StartOf(t, i)
              /\ \A k \in 0..SequentialSteps(t) - 1 : R[k + 1] = SequentialStep(t, h, w, R[k])
<1> DEFINE StepTo(k, f) == IF k = 0 THEN StartOf(t, i) ELSE SequentialStep(t, h, w, f[k - 1])
           IsRun(f, n) == f = [k \in 0..n |-> StepTo(k, f)]
           Bad == {n \in Nat : ~\E f : IsRun(f, n)}
           n0 == SequentialSteps(t)
<1>1. n0 \in Nat
    BY StepsType
<1>2. ASSUME Bad # {} PROVE FALSE
    <2>1. PICK n \in Bad : \A m \in Bad : n <= m
        BY <1>2, LeastNumber
    <2>2. n # 0
        <3>1. IsRun([k \in 0..0 |-> StartOf(t, i)], 0)
            OBVIOUS
        <3> QED
            BY <2>1, <3>1
    <2>3. n - 1 \in Nat /\ n - 1 \notin Bad
        <3>1. n \in Nat
            BY <2>1
        <3> HIDE DEF Bad
        <3> QED
            BY <2>1, <2>2, <3>1
    <2>4. PICK f : IsRun(f, n - 1)
        BY <2>3
    <2> DEFINE g == [k \in 0..n |-> IF k = n THEN SequentialStep(t, h, w, f[n - 1]) ELSE f[k]]
    <2>5. \A k \in 0..n - 1 : g[k] = f[k]
        BY <2>1
    <2>6. ASSUME NEW k \in 0..n PROVE g[k] = StepTo(k, g)
        <3>1. CASE k = n
            <4>1. g[k] = SequentialStep(t, h, w, f[n - 1]) /\ n - 1 \in 0..n - 1
                BY <2>1, <2>2, <3>1
            <4> HIDE DEF g
            <4> QED
                BY <2>2, <2>5, <3>1, <4>1
        <3>2. CASE k # n
            <4>1. /\ k \in 0..n - 1 /\ g[k] = f[k] /\ f[k] = StepTo(k, f)
                  /\ (k # 0 => k - 1 \in 0..n - 1)
                BY <2>1, <2>4, <3>2
            <4> HIDE DEF g
            <4> QED
                BY <2>5, <4>1
        <3> QED
            BY <3>1, <3>2
    <2>7. IsRun(g, n)
        BY <2>6
    <2> QED
        BY <2>1, <2>7
<1>3. \E f : IsRun(f, n0)
    BY <1>1, <1>2
<1>4. SequentialRun(t, h, w, i) = CHOOSE f : IsRun(f, n0)
    BY DEF SequentialRun, StartOf
<1>5. IsRun(SequentialRun(t, h, w, i), n0)
    BY <1>3, <1>4
<1> DEFINE R == SequentialRun(t, h, w, i)
<1> HIDE DEF R, n0
<1>6. R = [k \in 0..n0 |-> StepTo(k, R)]
    BY <1>5 DEF R
<1>7. R[0] = StartOf(t, i)
    BY <1>1, <1>6
<1>8. ASSUME NEW k \in 0..n0 - 1 PROVE R[k + 1] = SequentialStep(t, h, w, R[k])
    <2>1. k + 1 \in 0..n0 /\ k + 1 # 0 /\ (k + 1) - 1 = k
        BY <1>1
    <2>2. R[k + 1] = StepTo(k + 1, R)
        BY <1>6, <2>1
    <2> QED
        BY <2>1, <2>2
<1> QED
    BY <1>7, <1>8 DEF R, n0

-----------------------------------------------------------------------------
(* The targets of switches: which ones are set may differ from the run     *)
(* without speculation, what they are set to may not.                      *)

UsesIn(t, insn) == Uses(t.body, {insn}) \/ Uses(t.other, {insn})

\* The user is entered at one of its two functions, not now at one and then at the other.
OneEntry(t) == ~(UsesIn(t, "set_k2u_target") /\ UsesIn(t, "set_k2u_target_f2"))
EntryOf(t) == IF UsesIn(t, "set_k2u_target_f2") THEN OtherStart + 1 ELSE OtherStart
Determined(t, m) == m.k2u \in {0, EntryOf(t)} /\ m.h2g \in {0, OtherStart}

LEMMA InsnUsed ==
    ASSUME NEW t \in Tests, NEW a \in AddressesOf(t), a # ExitAddr(t),
           InsnOf(t, a) \notin {"measurement_start", "measurement_end"}
    PROVE  UsesIn(t, InsnOf(t, a))
<1>1. \/ a - 1 \in DOMAIN t.body /\ t.body[a - 1] = InsnOf(t, a)
      \/ a - 19 \in DOMAIN t.other /\ t.other[a - 19] = InsnOf(t, a)
    BY CodeAt
<1> QED
    BY <1>1, Zenon DEF UsesIn, Uses

\* What a switch between host and guest leaves in the registers.
AfterGuest(t, r) == IF t.amd THEN [r EXCEPT !["A"] = 0] ELSE r

LEMMA SwitchedReg ==
    ASSUME NEW next, NEW r \in [Regs -> Values], NEW m \in ModeState, NEW target, NEW actor, NEW t
    PROVE  LET x == Switched([pc |-> next, reg |-> r, mode |-> m], target, actor)
           IN x.reg = r /\ Clobbered(t, x).reg = AfterGuest(t, r)
<1> DEFINE x == Switched([pc |-> next, reg |-> r, mode |-> m], target, actor)
<1>1. x.reg = r
    BY DEF Switched
<1>2. Clobbered(t, x).reg = AfterGuest(t, r)
    <2>1. CASE t.amd
        BY <2>1 DEF Switched, Clobbered, AfterGuest
    <2>2. CASE ~t.amd
        BY <1>1, <2>2 DEF Clobbered, AfterGuest
    <2> QED
        BY <2>1, <2>2
<1> QED
    BY <1>1, <1>2

\* Where an instruction leads the interpreter, and what it leaves in the registers.
AfterPc(t, insn, actor, next) ==
    CASE insn = "switch" -> IF actor = 0 THEN OtherStart ELSE Landing(t)
      [] insn = "switch_k2u" -> EntryOf(t)
      [] insn = "switch_h2g" -> OtherStart
      [] insn \in {"switch_u2k", "switch_g2h"} -> Landing(t)
      [] OTHER -> next
AfterReg(t, insn, r) ==
    CASE insn \in {"landing_k2u", "landing_u2k"} -> [r EXCEPT !["C"] = 0]
      [] insn \in {"switch_h2g", "switch_g2h"} -> AfterGuest(t, r)
      [] OTHER -> r

\* interpret_instruction at address a, in one of two modes that agree so far.
LEMMA InterpretExactly ==
    ASSUME NEW t \in Tests, OneEntry(t), NEW m, ModeOK(t, m), NEW a \in AddressesOf(t),
           a # ExitAddr(t), m.actor = ActorOf(a), Determined(t, m), Prepared(t, m, a), NEW next,
           NEW r \in [Regs -> Values],
           NEW insn, insn = InsnOf(t, a), NEW y,
           y = Interpret(t, insn, [pc |-> next, reg |-> r, mode |-> m])
    PROVE  /\ Determined(t, y.mode)
           /\ y.pc = AfterPc(t, insn, ActorOf(a), next) /\ y.reg = AfterReg(t, insn, r)
           /\ y.mode.base = IF insn \in Leaving THEN 1 - ActorOf(a) ELSE m.base
           /\ y.mode.k2u # 0 <=> m.k2u # 0 \/ insn \in {"set_k2u_target", "set_k2u_target_f2"}
           /\ y.mode.h2g # 0 <=> m.h2g # 0 \/ insn = "set_h2g_target"
           /\ y.mode.g2h # 0 <=> m.g2h # 0 \/ insn = "set_g2h_target"
           /\ y.mode.lstar # ExitAddr(t) <=>
                  \/ m.lstar # ExitAddr(t)
                  \/ insn = "set_u2k_target" /\ SoftFault(t, insn, ActorOf(a)) = "none"
<1> DEFINE x == [pc |-> next, reg |-> r, mode |-> m]
<1>1. /\ m \in ModeState /\ x.pc = next /\ x.reg = r /\ x.mode = m /\ ActorOf(a) \in 0..1
      /\ ActorOf(a) = 0 <=> ~(a >= OtherStart)
      /\ insn \in Instructions
    BY CodeAt DEF ModeOK, ActorOf
<1>2. insn # "set_u2k_target" /\ insn # "wbinvd" => SoftFault(t, insn, ActorOf(a)) = "none"
    BY DEF SoftFault, MacroFaults, ExitsToHost
<1>3. insn \in Leaving =>
          /\ a >= OtherStart => /\ insn \in {"switch", "switch_u2k", "switch_g2h"}
                                /\ insn = "switch_g2h" => m.g2h = Landing(t)
                                /\ insn = "switch_u2k" => m.lstar = Landing(t)
          /\ ~(a >= OtherStart) => /\ insn \in SwitchesThere
                                   /\ insn = "switch_k2u" => m.k2u = EntryOf(t)
                                   /\ insn = "switch_h2g" => m.h2g = OtherStart
    <2> SUFFICES ASSUME insn \in Leaving
                 PROVE  /\ a >= OtherStart => /\ insn \in {"switch", "switch_u2k", "switch_g2h"}
                                              /\ insn = "switch_g2h" => m.g2h = Landing(t)
                                              /\ insn = "switch_u2k" => m.lstar = Landing(t)
                        /\ ~(a >= OtherStart) => /\ insn \in SwitchesThere
                                                 /\ insn = "switch_k2u" => m.k2u = EntryOf(t)
                                                 /\ insn = "switch_h2g" => m.h2g = OtherStart
        OBVIOUS
    <2>1. a >= OtherStart => a \in OtherAddresses(t)
        BY TestType DEF AddressesOf, OtherStart, CodeStart
    <2>2. CASE a >= OtherStart
        BY <2>1, <2>2, SwitchBack
    <2>3. CASE ~(a >= OtherStart)
        <3>1. a \in 2..EndAddr(t) - 1 /\ insn = t.body[a - 1] /\ a - 1 \in DOMAIN t.body
            <4>1. a # 1 /\ a # EndAddr(t)
                BY CodeAt DEF Leaving
            <4> QED
                BY <2>3, <4>1, CodeAt
        <3>2. insn \in SwitchesThere
            <4>1. ~Uses(t.body, {"switch_u2k", "switch_g2h"})
                BY ModelAssumption, Zenon DEF WellFormed
            <4>2. insn \notin {"switch_u2k", "switch_g2h"}
                BY <3>1, <4>1, Zenon DEF Uses
            <4> QED
                BY <4>2 DEF Leaving, SwitchesThere
        <3>3. /\ insn = "switch_k2u" => m.k2u \in OtherAddresses(t)
              /\ insn = "switch_h2g" => m.h2g \in OtherAddresses(t)
            BY <3>1, <3>2, SwitchThere
        <3>4. 0 \notin OtherAddresses(t)
            BY TestType
        <3> QED
            BY <2>3, <3>2, <3>3, <3>4 DEF Determined
    <2> QED
        BY <2>2, <2>3
<1>7. ASSUME NEW d, NEW e \in 0..1, NEW u,
             u = Switched(x, d, e) \/ u = Clobbered(t, Switched(x, d, e))
      PROVE  /\ u.pc = d /\ u.mode.base = e /\ u.mode.k2u = m.k2u /\ u.mode.h2g = m.h2g
             /\ u.mode.g2h = m.g2h /\ u.mode.lstar = m.lstar
    <2>1. CASE u = Switched(x, d, e)
        BY <1>1, <2>1 DEF Switched, ModeState
    <2>2. CASE u = Clobbered(t, Switched(x, d, e))
        BY <1>1, <2>2 DEF Switched, Clobbered, ModeState
    <2> QED
        BY <1>7, <2>1, <2>2
<1>4. CASE insn \in Leaving
    <2>1. y = InterpretMacro(t, insn, x)
        BY <1>1, <1>2, <1>4 DEF Interpret, Leaving
    <2> DEFINE b == CASE insn = "switch" -> IF ActorOf(a) = 0 THEN OtherStart ELSE Landing(t)
                      [] insn = "switch_k2u" -> EntryOf(t)
                      [] insn = "switch_h2g" -> OtherStart
                      [] OTHER -> Landing(t)
               c == 1 - ActorOf(a)
               z == Switched(x, b, c)
    <2>2. y = IF insn \in {"switch_h2g", "switch_g2h"} THEN Clobbered(t, z) ELSE z
        <3>1. CASE a >= OtherStart
            BY <1>1, <1>3, <1>4, <2>1, <3>1
               DEF InterpretMacro, MacroSwitch, MacroSwitchU2k, MacroSwitchG2h, SwitchesThere
        <3>2. CASE ~(a >= OtherStart)
            BY <1>1, <1>3, <1>4, <2>1, <3>2
               DEF InterpretMacro, MacroSwitch, MacroSwitchK2u, MacroSwitchH2g, SwitchesThere
        <3> QED
            BY <3>1, <3>2
    <2>3. c \in 0..1
        BY <1>1
    <2> HIDE DEF b, c
    <2>4. z.reg = r /\ Clobbered(t, z).reg = AfterGuest(t, r)
        BY <1>1, SwitchedReg
    <2>5. y.reg = IF insn \in {"switch_h2g", "switch_g2h"} THEN AfterGuest(t, r) ELSE r
        BY <2>2, <2>4
    <2>6. /\ y.pc = b /\ y.mode.base = c /\ y.mode.k2u = m.k2u /\ y.mode.h2g = m.h2g
          /\ y.mode.g2h = m.g2h /\ y.mode.lstar = m.lstar
        <3>1. y = Switched(x, b, c) \/ y = Clobbered(t, Switched(x, b, c))
            BY <2>2
        <3> HIDE DEF z
        <3> QED
            BY <1>7, <2>3, <3>1
    <2> HIDE DEF z, x
    <2>7. Determined(t, y.mode)
        BY <2>6 DEF Determined
    <2>8. b = AfterPc(t, insn, ActorOf(a), next)
        BY <1>4 DEF b, Leaving, AfterPc
    <2>9. insn \notin {"landing_k2u", "landing_u2k", "set_k2u_target", "set_k2u_target_f2",
                       "set_h2g_target", "set_g2h_target", "set_u2k_target"}
        BY <1>4 DEF Leaving
    <2> QED
        BY <1>4, <2>5, <2>6, <2>7, <2>8, <2>9 DEF c, AfterReg, Leaving
<1>5. CASE insn \in Setters
    <2>0. insn \notin Leaving \cup {"landing_k2u", "landing_u2k"}
        BY <1>5 DEF Setters, Leaving
    <2>1. t.other # <<>> /\ 0 # Landing(t) /\ ExitAddr(t) # Landing(t) /\ Landing(t) \in Nat
        <3>1. t.other # <<>>
            <4>1. UsesIn(t, insn)
                BY <1>5, InsnUsed DEF Setters
            <4>2. t.other = <<>> => ~Uses(t.body, Macros) /\ ~Uses(t.other, {insn})
                <5>1. t.other = <<>> => ~Uses(t.body, Macros)
                    BY ModelAssumption, Zenon DEF WellFormed
                <5> QED
                    BY <5>1 DEF Uses
            <4>3. Uses(t.body, {insn}) => Uses(t.body, Macros)
                BY <1>5 DEF Uses, Setters, Macros
            <4> QED
                BY <4>1, <4>2, <4>3 DEF UsesIn
        <3> QED
            BY <3>1, LandingFacts, TestType
    <2>2. CASE insn = "set_u2k_target" /\ SoftFault(t, insn, ActorOf(a)) # "none"
        <3>1. y = x
            BY <2>2 DEF Interpret
        <3> QED
            BY <1>1, <2>0, <2>2, <3>1 DEF AfterPc, AfterReg, Leaving
    <2>3. CASE ~(insn = "set_u2k_target" /\ SoftFault(t, insn, ActorOf(a)) # "none")
        <3>1. SoftFault(t, insn, ActorOf(a)) = "none"
            BY <1>2, <1>5, <2>3 DEF Setters
        <3>2. y = InterpretMacro(t, insn, x)
            BY <1>1, <3>1 DEF Interpret
        <3>3. y.pc = next /\ y.reg = r /\ y.mode.base = m.base
            BY <1>1, <1>5, <3>2
               DEF InterpretMacro, MacroSetK2uTarget, MacroSetH2gTarget, MacroSetG2hTarget,
               MacroSetU2kTarget, ModeState, Setters
        <3>4. /\ insn = "set_k2u_target" => y.mode = [m EXCEPT !.k2u = OtherStart + 1 - 1]
              /\ insn = "set_k2u_target_f2" => y.mode = [m EXCEPT !.k2u = OtherStart + 2 - 1]
              /\ insn = "set_h2g_target" => y.mode = [m EXCEPT !.h2g = OtherStart]
              /\ insn = "set_g2h_target" => y.mode = [m EXCEPT !.g2h = Landing(t)]
              /\ insn = "set_u2k_target" => y.mode = [m EXCEPT !.lstar = Landing(t)]
            BY <1>1, <3>2
               DEF InterpretMacro, MacroSetK2uTarget, MacroSetH2gTarget, MacroSetG2hTarget,
               MacroSetU2kTarget, ModeState
        <3>5. /\ insn = "set_k2u_target" => EntryOf(t) = OtherStart
              /\ insn = "set_k2u_target_f2" => EntryOf(t) = OtherStart + 1
            <4>1. UsesIn(t, insn)
                BY <1>5, InsnUsed DEF Setters
            <4> QED
                BY <4>1 DEF EntryOf, OneEntry
        <3>6. /\ y.mode.k2u = IF insn \in {"set_k2u_target", "set_k2u_target_f2"}
                              THEN EntryOf(t) ELSE m.k2u
              /\ y.mode.h2g = IF insn = "set_h2g_target" THEN OtherStart ELSE m.h2g
              /\ y.mode.g2h = IF insn = "set_g2h_target" THEN Landing(t) ELSE m.g2h
              /\ y.mode.lstar = IF insn = "set_u2k_target" THEN Landing(t) ELSE m.lstar
            BY <1>1, <1>5, <3>4, <3>5 DEF ModeState, OtherStart, Setters
        <3>7. Determined(t, y.mode) /\ EntryOf(t) # 0 /\ OtherStart # 0
            BY <3>6 DEF Determined, EntryOf, OtherStart
        <3> QED
            BY <2>0, <2>1, <3>1, <3>3, <3>6, <3>7 DEF AfterPc, AfterReg, Leaving
    <2> QED
        BY <2>2, <2>3
<1>6. CASE insn \notin Leaving /\ insn \notin Setters
    <2>1. /\ y.pc = next /\ y.mode = m
          /\ y.reg = IF insn \in {"landing_k2u", "landing_u2k"} THEN [r EXCEPT !["C"] = 0] ELSE r
        <3>1. CASE insn = "wbinvd"
            BY <1>1, <3>1 DEF Interpret, InterpretMacro
        <3>2. CASE insn # "wbinvd"
            <4>1. y = InterpretMacro(t, insn, x)
                BY <1>1, <1>2, <1>6, <3>2 DEF Interpret, Setters
            <4> QED
                BY <1>1, <1>6, <4>1 DEF InterpretMacro, MacroLanding, Leaving, Setters
        <3> QED
            BY <3>1, <3>2
    <2> QED
        BY <1>6, <2>1 DEF AfterPc, AfterReg, Leaving, Setters
<1> QED
    BY <1>4, <1>5, <1>6

\* Two modes that agree so far agree after the instruction at a, too.
LEMMA InterpretAgrees ==
    ASSUME NEW t \in Tests, OneEntry(t), NEW m, ModeOK(t, m), NEW n, ModeOK(t, n),
           MoreSet(t, m, n), m.base = n.base, Determined(t, m), Determined(t, n),
           NEW a \in AddressesOf(t), a # ExitAddr(t), m.actor = ActorOf(a), n.actor = ActorOf(a),
           Prepared(t, m, a), NEW next, NEW r \in [Regs -> Values], NEW y, NEW z,
           y = Interpret(t, InsnOf(t, a), [pc |-> next, reg |-> r, mode |-> m]),
           z = Interpret(t, InsnOf(t, a), [pc |-> next, reg |-> r, mode |-> n])
    PROVE  /\ y.pc = z.pc /\ y.reg = z.reg /\ y.mode.base = z.mode.base
           /\ MoreSet(t, y.mode, z.mode)
<1>1. Prepared(t, n, a)
    BY PreparedKeeps
<1> DEFINE insn == InsnOf(t, a)
           p == AfterPc(t, insn, ActorOf(a), next)
           q == AfterReg(t, insn, r)
           set == insn = "set_u2k_target" /\ SoftFault(t, insn, ActorOf(a)) = "none"
<1>2. /\ y.pc = p /\ y.reg = q
      /\ y.mode.base = IF insn \in Leaving THEN 1 - ActorOf(a) ELSE m.base
      /\ y.mode.k2u # 0 <=> m.k2u # 0 \/ insn \in {"set_k2u_target", "set_k2u_target_f2"}
      /\ y.mode.h2g # 0 <=> m.h2g # 0 \/ insn = "set_h2g_target"
      /\ y.mode.g2h # 0 <=> m.g2h # 0 \/ insn = "set_g2h_target"
      /\ y.mode.lstar # ExitAddr(t) <=> m.lstar # ExitAddr(t) \/ set
    BY InterpretExactly
<1>3. /\ z.pc = p /\ z.reg = q
      /\ z.mode.base = IF insn \in Leaving THEN 1 - ActorOf(a) ELSE n.base
      /\ z.mode.k2u # 0 <=> n.k2u # 0 \/ insn \in {"set_k2u_target", "set_k2u_target_f2"}
      /\ z.mode.h2g # 0 <=> n.h2g # 0 \/ insn = "set_h2g_target"
      /\ z.mode.g2h # 0 <=> n.g2h # 0 \/ insn = "set_g2h_target"
      /\ z.mode.lstar # ExitAddr(t) <=> n.lstar # ExitAddr(t) \/ set
    BY <1>1, InterpretExactly
<1> HIDE DEF insn, p, q, set
<1> QED
    BY <1>2, <1>3 DEF MoreSet

-----------------------------------------------------------------------------
(* The steps without speculation.                                          *)

SeqOK(t, s) ==
    /\ s \in Machines
    /\ s.x.pc \in AddressesOf(t) /\ ModeOK(t, s.x.mode) /\ Determined(t, s.x.mode)
    /\ s.x.mode.actor = ActorOf(s.x.pc) /\ Prepared(t, s.x.mode, s.x.pc)

\* The order in which the code is executed.
Rank(t, a) ==
    CASE a >= OtherStart -> Landing(t) + a - OtherStart
      [] a < OtherStart /\ t.other # <<>> /\ a >= Landing(t) -> a + Len(t.other)
      [] OTHER -> a

LEMMA RankFacts ==
    ASSUME NEW t \in Tests
    PROVE  /\ Rank(t, CodeStart) > 0 /\ Rank(t, ExitAddr(t)) = SequentialSteps(t)
           /\ \A a \in AddressesOf(t) : Rank(t, a) \in Nat /\ Rank(t, a) <= SequentialSteps(t)
           /\ \A a \in AddressesOf(t) : a # ExitAddr(t) => Rank(t, a) < SequentialSteps(t)
           /\ \A a, b \in AddressesOf(t) :
                  a < b /\ ActorOf(a) = ActorOf(b) => Rank(t, a) < Rank(t, b)
           /\ \A a \in AddressesOf(t), b \in OtherAddresses(t) :
                  a + 1 = Landing(t) => Rank(t, a) < Rank(t, b)
           /\ \A a \in OtherAddresses(t) : Rank(t, a) < Rank(t, Landing(t))
           /\ \A a \in OtherAddresses(t), b \in {EndAddr(t), ExitAddr(t)} : Rank(t, a) < Rank(t, b)
<1> DEFINE m == Len(t.body)
           n == Len(t.other)
           l == Landing(t)
<1>1. /\ m \in Nat /\ n \in Nat /\ EndAddr(t) = m + 2 /\ ExitAddr(t) = m + 3 /\ m + 3 < 20
      /\ t.other = <<>> => n = 0
      /\ OtherAddresses(t) = 20..(19 + n)
      /\ AddressesOf(t) = 1..(m + 3) \cup 20..(19 + n)
      /\ SequentialSteps(t) = m + n + 3
    <2>1. /\ m \in Nat /\ n \in Nat /\ EndAddr(t) = m + 2 /\ ExitAddr(t) = m + 3
          /\ ExitAddr(t) < OtherStart /\ OtherAddresses(t) = 20..(19 + n)
        BY TestType
    <2>2. t.other = <<>> => n = 0
        OBVIOUS
    <2>3. SequentialSteps(t) = m + n + 3
        BY DEF SequentialSteps
    <2> HIDE DEF m, n
    <2> QED
        BY <2>1, <2>2, <2>3 DEF AddressesOf, OtherStart, CodeStart
<1>2. t.other # <<>> => l \in 3..m + 2
    BY <1>1, LandingFacts
<1>3. /\ \A a \in 20..(19 + n) : Rank(t, a) = l + a - 20
      /\ \A a \in 1..(m + 3) : Rank(t, a) = IF t.other # <<>> /\ a >= l THEN a + n ELSE a
      /\ \A a \in 20..(19 + n) : ActorOf(a) = 1
      /\ \A a \in 1..(m + 3) : ActorOf(a) = 0
      /\ CodeStart = 1
    BY <1>1 DEF Rank, OtherStart, ActorOf, CodeStart
<1>4. \A a \in 20..(19 + n) : t.other # <<>>
    BY <1>1
<1> HIDE DEF m, n, l
<1>5. Rank(t, 1) > 0 /\ Rank(t, m + 3) = m + n + 3
    <2>1. 1 \in 1..(m + 3) /\ m + 3 \in 1..(m + 3)
        BY <1>1
    <2>2. CASE t.other = <<>>
        BY <1>1, <1>3, <2>1, <2>2
    <2>3. CASE t.other # <<>>
        BY <1>1, <1>2, <1>3, <2>1, <2>3
    <2> QED
        BY <2>2, <2>3
<1>6. \A a \in AddressesOf(t) : Rank(t, a) \in Nat /\ Rank(t, a) <= m + n + 3
    <2> SUFFICES ASSUME NEW a \in AddressesOf(t) PROVE Rank(t, a) \in Nat /\ Rank(t, a) <= m + n + 3
        OBVIOUS
    <2>1. CASE a \in 1..(m + 3)
        <3>1. Rank(t, a) \in {a, a + n} /\ m \in Nat /\ n \in Nat
            BY <1>1, <1>3, <2>1
        <3> QED
            BY <2>1, <3>1
    <2>2. CASE a \in 20..(19 + n)
        BY <1>1, <1>2, <1>3, <1>4, <2>2
    <2> QED
        BY <1>1, <2>1, <2>2
<1>7. \A a \in AddressesOf(t) : a # m + 3 => Rank(t, a) < m + n + 3
    <2> SUFFICES ASSUME NEW a \in AddressesOf(t) PROVE a # m + 3 => Rank(t, a) < m + n + 3
        OBVIOUS
    <2>1. CASE a \in 1..(m + 3)
        <3>1. Rank(t, a) \in {a, a + n} /\ m \in Nat /\ n \in Nat
            BY <1>1, <1>3, <2>1
        <3> QED
            BY <2>1, <3>1
    <2>2. CASE a \in 20..(19 + n)
        BY <1>1, <1>2, <1>3, <1>4, <2>2
    <2> QED
        BY <1>1, <2>1, <2>2
<1>8. \A a, b \in AddressesOf(t) : a < b /\ ActorOf(a) = ActorOf(b) => Rank(t, a) < Rank(t, b)
    <2> SUFFICES ASSUME NEW a \in AddressesOf(t), NEW b \in AddressesOf(t), a < b,
                        ActorOf(a) = ActorOf(b)
                 PROVE  Rank(t, a) < Rank(t, b)
        OBVIOUS
    <2>1. CASE a \in 1..(m + 3)
        <3>1. b \in 1..(m + 3)
            BY <1>1, <1>3, <2>1
        <3> QED
            BY <1>1, <1>2, <1>3, <2>1, <3>1
    <2>2. CASE a \in 20..(19 + n)
        <3>1. b \in 20..(19 + n) /\ t.other # <<>>
            BY <1>1, <1>3, <1>4, <2>2
        <3> QED
            BY <1>1, <1>2, <1>3, <2>2, <3>1
    <2> QED
        BY <1>1, <2>1, <2>2
<1>9. \A a \in AddressesOf(t), b \in 20..(19 + n) : a + 1 = l => Rank(t, a) < Rank(t, b)
    <2> SUFFICES ASSUME NEW a \in AddressesOf(t), NEW b \in 20..(19 + n), a + 1 = l
                 PROVE  Rank(t, a) < Rank(t, b)
        OBVIOUS
    <2>1. t.other # <<>> /\ a \in 1..(m + 3)
        BY <1>1, <1>2, <1>4
    <2> QED
        BY <1>1, <1>2, <1>3, <2>1
<1>10. \A a \in 20..(19 + n) : Rank(t, a) < Rank(t, l)
    BY <1>1, <1>2, <1>3, <1>4
<1>11. \A a \in 20..(19 + n), b \in {m + 2, m + 3} : Rank(t, a) < Rank(t, b)
    <2> SUFFICES ASSUME NEW a \in 20..(19 + n), NEW b \in {m + 2, m + 3}
                 PROVE  Rank(t, a) < Rank(t, b)
        OBVIOUS
    <2>1. t.other # <<>> /\ b \in 1..(m + 3) /\ b >= l
        BY <1>1, <1>2, <1>4
    <2>2. Rank(t, a) = l + a - 20 /\ Rank(t, b) = b + n
        BY <1>3, <2>1
    <2> QED
        BY <1>1, <1>2, <2>1, <2>2
<1> QED
    BY <1>1, <1>3, <1>5, <1>6, <1>7, <1>8, <1>9, <1>10, <1>11 DEF l

SeqFault(t, w, s) ==
    \/ FaultOf(InsnOf(t, s.x.pc), s.x.reg, s.mem, w) # "none"
    \/ SoftFault(t, InsnOf(t, s.x.pc), s.x.mode.actor) # "none"

LEMMA SequentialStepShape ==
    ASSUME NEW t, NEW h, NEW w, NEW s \in Machines, s.x.pc # ExitAddr(t), NEW n,
           n = SequentialStep(t, h, w, s), NEW y, y = Interpret(t, InsnOf(t, s.x.pc), s.x)
    PROVE  /\ n = [x |-> n.x, mem |-> n.mem]
           /\ SeqFault(t, w, s) =>
                 /\ n.mem = s.mem
                 /\ n.x = [pc |-> h, reg |-> s.x.reg, mode |-> ModeAt(s.x.mode, h)]
           /\ ~SeqFault(t, w, s) =>
                 /\ n.mem = MemAfter(InsnOf(t, s.x.pc), s.x.reg, s.mem)
                 /\ y.pc # s.x.pc => n.x = y
                 /\ y.pc = s.x.pc =>
                       n.x = [pc |-> PcAfter(t, s.x.pc, s.x.reg), mode |-> y.mode,
                              reg |-> RegsAfter(InsnOf(t, s.x.pc), y.reg, s.mem)]
<1> DEFINE insn == InsnOf(t, s.x.pc)
<1>1. CASE SeqFault(t, w, s)
    <2>1. n = [x |-> [pc |-> h, reg |-> s.x.reg, mode |-> ModeAt(s.x.mode, h)], mem |-> s.mem]
        BY <1>1 DEF SequentialStep, SeqFault
    <2> QED
        BY <1>1, <2>1
<1>2. CASE ~SeqFault(t, w, s)
    <2>1. n = [x |-> IF y.pc # s.x.pc THEN y
                     ELSE [pc |-> PcAfter(t, s.x.pc, s.x.reg),
                           reg |-> RegsAfter(insn, y.reg, s.mem), mode |-> y.mode],
               mem |-> MemAfter(insn, s.x.reg, s.mem)]
        BY <1>2 DEF SequentialStep, SeqFault
    <2> QED
        BY <1>2, <2>1
<1> QED
    BY <1>1, <1>2

LEMMA MachineFields ==
    ASSUME NEW s \in Machines
    PROVE  /\ s.x = [pc |-> s.x.pc, reg |-> s.x.reg, mode |-> s.x.mode]
           /\ s.x.pc \in Nat /\ s.x.reg \in [Regs -> Values] /\ s.x.mode \in ModeState
           /\ s.mem \in [Cells -> Values]
  BY DEF Machines

LEMMA InterpretShape ==
    ASSUME NEW t, NEW insn, NEW p, NEW r, NEW m, NEW y,
           y = Interpret(t, insn, [pc |-> p, reg |-> r, mode |-> m])
    PROVE  y = [pc |-> y.pc, reg |-> y.reg, mode |-> y.mode]
<1> DEFINE x == [pc |-> p, reg |-> r, mode |-> m]
           Shaped(z) == z = [pc |-> z.pc, reg |-> z.reg, mode |-> z.mode]
<1>1. \A a, b : LET z == Switched(x, a, b) IN Shaped(z) /\ Shaped(Clobbered(t, z))
    <2> SUFFICES ASSUME NEW a, NEW b
                 PROVE  LET z == Switched(x, a, b) IN Shaped(z) /\ Shaped(Clobbered(t, z))
        OBVIOUS
    <2> DEFINE z == Switched(x, a, b)
    <2>1. z = [pc |-> a, reg |-> r, mode |-> z.mode]
        BY DEF Switched
    <2> HIDE DEF z
    <2>2. Shaped(Clobbered(t, z))
        BY <2>1 DEF Clobbered
    <2> QED
        BY <2>1, <2>2 DEF z
<1>2. Shaped(x)
    OBVIOUS
<1>3. Shaped(InterpretMacro(t, insn, x))
    <2> HIDE DEF Shaped
    <2>1. CASE insn \in Leaving
        BY <1>1, <2>1 DEF InterpretMacro, MacroSwitch, MacroSwitchK2u, MacroSwitchU2k,
           MacroSwitchH2g, MacroSwitchG2h, Leaving
    <2>2. CASE insn \notin Leaving
        BY <1>2, <2>2 DEF InterpretMacro, MacroSetK2uTarget, MacroSetU2kTarget, MacroLanding,
           MacroSetH2gTarget, MacroSetG2hTarget, Leaving, Shaped
    <2> QED
        BY <2>1, <2>2
<1> QED
    BY <1>2, <1>3 DEF Interpret

LEMMA MacroFacts ==
    ASSUME NEW insn \in Macros, NEW r, NEW m, NEW w
    PROVE  RegsAfter(insn, r, m) = r /\ MemAfter(insn, r, m) = m /\ FaultOf(insn, r, m, w) = "none"
  BY InsnMacro DEF RegsAfter, MemAfter, FaultOf, Op, Macros

\* The interpreter leaves the registers alone, except for macros.
LEMMA MacrosOnly ==
    ASSUME NEW t, NEW insn, insn \notin Macros, NEW r
    PROVE  AfterReg(t, insn, r) = r
  BY DEF AfterReg, Macros

LEMMA SeqOKStep ==
    ASSUME NEW t \in Tests, OneEntry(t), NEW w, NEW s, SeqOK(t, s), s.x.pc # ExitAddr(t), NEW n,
           n = SequentialStep(t, HandlerOf(t), w, s)
    PROVE  SeqOK(t, n) /\ Rank(t, s.x.pc) < Rank(t, n.x.pc)
<1> DEFINE a == s.x.pc
           insn == InsnOf(t, a)
           m == s.x.mode
           r == s.x.reg
           y == Interpret(t, insn, s.x)
           h == HandlerOf(t)
<1>1. /\ a \in AddressesOf(t) /\ a \in Nat /\ a # ExitAddr(t) /\ r \in [Regs -> Values]
      /\ m \in ModeState /\ ModeOK(t, m) /\ Determined(t, m) /\ m.actor = ActorOf(a)
      /\ Prepared(t, m, a) /\ s.mem \in [Cells -> Values] /\ s \in Machines
      /\ insn \in Instructions
    BY MachineFields, CodeAt DEF SeqOK
<1>2. y = Interpret(t, insn, [pc |-> a, reg |-> r, mode |-> m])
    BY <1>1, MachineFields
<1>3. /\ n = [x |-> n.x, mem |-> n.mem]
      /\ SeqFault(t, w, s) =>
             n.mem = s.mem /\ n.x = [pc |-> h, reg |-> r, mode |-> ModeAt(m, h)]
      /\ ~SeqFault(t, w, s) =>
             /\ n.mem = MemAfter(insn, r, s.mem)
             /\ y.pc # a => n.x = y
             /\ y.pc = a => n.x = [pc |-> PcAfter(t, a, r), mode |-> y.mode,
                                   reg |-> RegsAfter(insn, y.reg, s.mem)]
    BY <1>1, SequentialStepShape
<1>4. /\ Determined(t, y.mode) /\ y.pc = AfterPc(t, insn, ActorOf(a), a)
      /\ y.reg = AfterReg(t, insn, r)
    BY <1>1, <1>2, InterpretExactly
<1>5. /\ y.reg \in [Regs -> Values] /\ ModeOK(t, y.mode) /\ MoreSet(t, m, y.mode)
      /\ insn \notin Leaving => y.pc = a /\ y.mode.actor = m.actor /\ y.mode.base = m.base
      /\ insn \in Leaving => Switches(t, y, 1 - ActorOf(a))
      /\ a \in 2..EndAddr(t) - 1 => TargetSet(t, y.mode, a - 1)
    BY <1>1, <1>2, InterpretFacts
<1>6. y = [pc |-> y.pc, reg |-> y.reg, mode |-> y.mode]
    BY <1>2, InterpretShape
<1>7. SeqFault(t, w, s) \/ insn \in Leaving \/ (~SeqFault(t, w, s) /\ insn \notin Leaving)
    OBVIOUS
<1> HIDE DEF a, insn, m, r, y, h
<1>8. CASE SeqFault(t, w, s)
    <2>1. /\ h \in AddressesOf(t) /\ ActorOf(h) = 0 /\ Prepared(t, ModeAt(m, h), h)
          /\ h \in {EndAddr(t), ExitAddr(t)}
        <3>1. h \in {EndAddr(t), ExitAddr(t)} /\ h \in HandlerOf(t)..ExitAddr(t)
            BY TestType DEF h
        <3>2. h \in AddressesOf(t) /\ ActorOf(h) = 0
            BY <3>1, TestType DEF AddressesOf, ActorOf, CodeStart, OtherStart
        <3> QED
            BY <3>1, <3>2, PreparedAtEnds
    <2>2. /\ ModeAt(m, h) \in ModeState /\ ModeAt(m, h).actor = 0
          /\ ModeAt(m, h).k2u = m.k2u /\ ModeAt(m, h).h2g = m.h2g /\ ModeAt(m, h).g2h = m.g2h
          /\ ModeAt(m, h).lstar = m.lstar
        BY <1>1, <2>1 DEF ModeAt, ModeState
    <2>3. ModeOK(t, ModeAt(m, h)) /\ Determined(t, ModeAt(m, h))
        BY <1>1, <2>2, SameModeOK DEF Determined
    <2>4. /\ n.mem = s.mem /\ n.x = [pc |-> h, reg |-> r, mode |-> ModeAt(m, h)]
        BY <1>3, <1>8
    <2>5. n \in Machines /\ n.x.pc = h /\ n.x.mode = ModeAt(m, h)
        BY <1>1, <1>3, <2>1, <2>2, <2>4, CodeAt, TestType DEF Machines
    <2>6. SeqOK(t, n)
        BY <2>1, <2>2, <2>3, <2>5 DEF SeqOK
    <2>7. a >= OtherStart \/ a < EndAddr(t)
        <3>1. MayFault(insn)
            <4>1. FaultOf(insn, r, s.mem, w) # "none" => Insn[insn].access # "none"
                BY <1>1, FaultType
            <4>2. SoftFault(t, insn, m.actor) # "none" => MayFault(insn)
                BY <1>1, SoftFaultFacts DEF insn
            <4> QED
                BY <1>8, <4>1, <4>2 DEF SeqFault, MayFault, a, insn, m, r
        <3>2. ~MayFault("measurement_end")
            BY InsnMacro DEF MayFault, Macros, Op
        <3> QED
            BY <1>1, <3>1, <3>2, CodeAt, TestType DEF insn
    <2>8. Rank(t, a) < Rank(t, h)
        <3>1. CASE a >= OtherStart
            <4>1. a \in OtherAddresses(t)
                BY <1>1, <3>1, TestType DEF AddressesOf, OtherStart, CodeStart
            <4> QED
                BY <2>1, <4>1, RankFacts
        <3>2. CASE ~(a >= OtherStart)
            <4>1. ActorOf(a) = ActorOf(h) /\ a < h
                BY <1>1, <2>1, <2>7, <3>2, TestType DEF ActorOf
            <4> QED
                BY <1>1, <2>1, <4>1, RankFacts
        <3> QED
            BY <3>1, <3>2
    <2> QED
        BY <2>5, <2>6, <2>8 DEF a
<1>9. CASE ~SeqFault(t, w, s) /\ insn \in Leaving
    <2>1. /\ y.pc \in AddressesOf(t) /\ ActorOf(y.pc) = 1 - ActorOf(a)
          /\ y.mode.actor = ActorOf(y.pc) /\ Prepared(t, y.mode, y.pc)
        BY <1>5, <1>9 DEF Switches
    <2>2. y.pc # a /\ insn \in Macros
        BY <1>9, <2>1 DEF ActorOf, Leaving, Macros
    <2>3. n.x = y /\ n.mem = s.mem
        BY <1>3, <1>9, <2>2, MacroFacts
    <2>4. n \in Machines
        <3>1. y.pc \in Nat /\ y.mode \in ModeState
            BY <1>5, <2>1, TestType DEF AddressesOf, CodeStart, ModeOK
        <3> QED
            BY <1>1, <1>3, <1>5, <1>6, <2>3, <3>1 DEF Machines
    <2>5. SeqOK(t, n)
        BY <1>4, <1>5, <2>1, <2>3, <2>4 DEF SeqOK
    <2>6. Rank(t, a) < Rank(t, y.pc)
        <3>1. CASE a >= OtherStart
            <4>1. a \in OtherAddresses(t)
                BY <1>1, <3>1, TestType DEF AddressesOf, OtherStart, CodeStart
            <4>2. insn \in {"switch", "switch_u2k", "switch_g2h"} /\ ActorOf(a) = 1
                BY <1>1, <1>9, <3>1, <4>1, SwitchBack DEF insn, ActorOf
            <4>3. y.pc = Landing(t)
                BY <1>4, <4>2 DEF AfterPc
            <4> QED
                BY <4>1, <4>3, RankFacts
        <3>2. CASE ~(a >= OtherStart)
            <4>1. y.pc \in OtherAddresses(t)
                BY <2>1, <3>2, TestType DEF AddressesOf, ActorOf, OtherStart, CodeStart
            <4>2. a \in 2..EndAddr(t) - 1 /\ insn = t.body[a - 1] /\ a - 1 \in DOMAIN t.body
                <5>1. insn # "measurement_start" /\ insn # "measurement_end"
                    BY <1>9 DEF Leaving
                <5> QED
                    BY <1>1, <3>2, <5>1, CodeAt DEF insn
            <4>3. insn \in SwitchesThere
                <5>1. ~Uses(t.body, {"switch_u2k", "switch_g2h"})
                    BY ModelAssumption, Zenon DEF WellFormed
                <5>2. insn \notin {"switch_u2k", "switch_g2h"}
                    BY <4>2, <5>1, Zenon DEF Uses
                <5> QED
                    BY <1>9, <5>2 DEF Leaving, SwitchesThere
            <4>4. a + 1 = Landing(t)
                <5>1. t.other # <<>>
                    BY <4>1, TestType
                <5>2. a - 1 = Landing(t) - 2 /\ Landing(t) \in 3..EndAddr(t)
                    BY <4>2, <4>3, <5>1, LandingFacts
                <5> QED
                    BY <1>1, <5>2, TestType
            <4> QED
                BY <1>1, <4>1, <4>4, RankFacts
        <3> QED
            BY <3>1, <3>2
    <2> QED
        BY <2>3, <2>5, <2>6 DEF a
<1>10. CASE ~SeqFault(t, w, s) /\ insn \notin Leaving
    <2> DEFINE b == PcAfter(t, a, r)
               q == RegsAfter(insn, y.reg, s.mem)
    <2>1. n.mem = MemAfter(insn, r, s.mem) /\ n.x = [pc |-> b, mode |-> y.mode, reg |-> q]
        BY <1>3, <1>5, <1>10
    <2>2. b = a + 1 \/ (insn \in Branches /\ b = Target(t, a))
        BY DEF PcAfter, insn
    <2>3. q \in [Regs -> Values] /\ n.mem \in [Cells -> Values]
        <3>1. FaultOf(insn, r, s.mem, w) = "none"
            BY <1>10 DEF SeqFault, a, insn, m, r
        <3>2. CASE insn \in Macros
            BY <1>1, <1>5, <2>1, <3>2, MacroFacts
        <3>3. CASE insn \notin Macros
            BY <1>1, <1>4, <2>1, <3>1, <3>3, MacrosOnly, ExecutedType
        <3> QED
            BY <3>2, <3>3
    <2>4. Prepared(t, y.mode, a)
        BY <1>1, <1>5, PreparedKeeps
    <2>5. /\ a + 1 \in AddressesOf(t) /\ ActorOf(a + 1) = ActorOf(a)
          /\ Prepared(t, y.mode, a + 1)
        BY <1>1, <1>5, <1>10, <2>4, GoesOn, PreparedNext DEF insn
    <2>6. insn \in Branches => /\ Target(t, a) \in {a + 1, a + 2} /\ Target(t, a) \in AddressesOf(t)
                               /\ ActorOf(Target(t, a)) = ActorOf(a)
                               /\ Prepared(t, y.mode, Target(t, a))
        BY <1>1, <1>5, <1>10, <2>4, BranchTarget, PreparedNext DEF insn
    <2> HIDE DEF b, q
    <2>7. /\ b \in AddressesOf(t) /\ ActorOf(b) = ActorOf(a) /\ Prepared(t, y.mode, b)
          /\ b \in {a + 1, a + 2}
        BY <2>2, <2>5, <2>6
    <2>8. n \in Machines
        <3>1. b \in Nat /\ y.mode \in ModeState
            BY <1>1, <1>5, <2>7 DEF ModeOK
        <3> QED
            BY <1>3, <2>1, <2>3, <3>1 DEF Machines
    <2>9. SeqOK(t, n)
        BY <1>1, <1>4, <1>5, <1>10, <2>1, <2>7, <2>8 DEF SeqOK
    <2>10. Rank(t, a) < Rank(t, b)
        BY <1>1, <2>7, RankFacts
    <2> QED
        BY <2>1, <2>9, <2>10 DEF a
<1> QED
    BY <1>8, <1>9, <1>10

\* The run without speculation comes through state s.
Reached(t, w, i, s) ==
    \E k \in 0..SequentialSteps(t) :
        /\ s = SequentialRun(t, HandlerOf(t), w, i)[k]
        /\ k < Rank(t, s.x.pc) /\ SeqOK(t, s)

LEMMA ReachedStart ==
    ASSUME NEW t \in Tests, NEW w, NEW i \in Inputs
    PROVE  Reached(t, w, i, StartOf(t, i))
<1> DEFINE s == StartOf(t, i)
           m == FreshMode(t)
<1>1. /\ s.x.pc = CodeStart /\ s.x.mode = m /\ s.mem = i.mem /\ s.x.reg = i.reg
      /\ s = [x |-> [pc |-> CodeStart, reg |-> i.reg, mode |-> m], mem |-> i.mem]
    BY DEF StartOf
<1>2. /\ m \in ModeState /\ m.actor = 0 /\ m.k2u = 0 /\ m.h2g = 0 /\ m.g2h = 0
      /\ m.lstar = ExitAddr(t)
    BY TestType DEF FreshMode, ModeState
<1>3. ModeOK(t, m) /\ Determined(t, m)
    BY <1>2 DEF ModeOK, Determined
<1>4. CodeStart \in AddressesOf(t) /\ ActorOf(CodeStart) = 0 /\ CodeStart \in Nat
    BY TestType DEF AddressesOf, CodeStart, ActorOf, OtherStart
<1> HIDE DEF m, s
<1>5. s \in Machines
    BY <1>1, <1>2, <1>4 DEF Machines, Inputs
<1>6. SeqOK(t, s)
    BY <1>1, <1>2, <1>3, <1>4, <1>5, PreparedAtEnds DEF SeqOK
<1>7. s = SequentialRun(t, HandlerOf(t), w, i)[0]
    BY RunFacts DEF s
<1>8. 0 \in 0..SequentialSteps(t) /\ 0 < Rank(t, s.x.pc)
    BY <1>1, StepsType, RankFacts
<1> QED
    BY <1>6, <1>7, <1>8 DEF Reached, s

LEMMA ReachedStep ==
    ASSUME NEW t \in Tests, OneEntry(t), NEW w, NEW i, NEW s, Reached(t, w, i, s),
           s.x.pc # ExitAddr(t)
    PROVE  Reached(t, w, i, SequentialStep(t, HandlerOf(t), w, s))
<1> DEFINE R == SequentialRun(t, HandlerOf(t), w, i)
           n == SequentialStep(t, HandlerOf(t), w, s)
           steps == SequentialSteps(t)
<1>1. PICK k \in 0..steps : s = R[k] /\ k < Rank(t, s.x.pc) /\ SeqOK(t, s)
    BY DEF Reached
<1>2. SeqOK(t, n) /\ Rank(t, s.x.pc) < Rank(t, n.x.pc)
    BY <1>1, SeqOKStep
<1>3. /\ steps \in Nat /\ Rank(t, s.x.pc) \in Nat /\ Rank(t, s.x.pc) < steps
      /\ Rank(t, n.x.pc) \in Nat
    BY <1>1, <1>2, StepsType, RankFacts DEF SeqOK
<1> HIDE DEF R, n, steps
<1>4. k \in 0..steps - 1 /\ k + 1 \in 0..steps /\ k + 1 < Rank(t, n.x.pc)
    BY <1>1, <1>2, <1>3
<1>5. n = R[k + 1]
    BY <1>1, <1>4, RunFacts DEF R, n, steps
<1> QED
    BY <1>2, <1>4, <1>5 DEF Reached, R, n, steps

LEMMA ReachedEnd ==
    ASSUME NEW t \in Tests, NEW w, NEW i, NEW s, Reached(t, w, i, s), s.x.pc = ExitAddr(t)
    PROVE  SequentialResult(t, HandlerOf(t), w, i) = s
<1> DEFINE R == SequentialRun(t, HandlerOf(t), w, i)
           steps == SequentialSteps(t)
<1>1. PICK k \in 0..steps : s = R[k]
    BY DEF Reached
<1> DEFINE Bad == {j \in Nat : j \in k..steps /\ R[j] # s}
<1>2. SequentialStep(t, HandlerOf(t), w, s) = s
    BY DEF SequentialStep
<1>3. ASSUME Bad # {} PROVE FALSE
    <2>1. PICK j \in Bad : \A l \in Bad : j <= l
        BY <1>3, LeastNumber
    <2>2. j # k /\ j \in k..steps /\ j \in Nat /\ R[j] # s
        BY <1>1, <2>1
    <2>3. steps \in Nat
        BY StepsType
    <2>4. j - 1 \in Nat /\ j - 1 \in k..steps /\ j - 1 \in 0..steps - 1 /\ (j - 1) + 1 = j
        BY <2>2, <2>3
    <2>5. R[j - 1] = s
        BY <2>1, <2>2, <2>4
    <2>6. R[(j - 1) + 1] = SequentialStep(t, HandlerOf(t), w, R[j - 1])
        BY <2>4, RunFacts
    <2> QED
        BY <1>2, <2>2, <2>4, <2>5, <2>6
<1>4. R[steps] = s
    <2>1. steps \in Nat /\ steps \in k..steps
        BY StepsType
    <2> QED
        BY <1>3, <2>1
<1> QED
    BY <1>4 DEF SequentialResult

-----------------------------------------------------------------------------
(* Execution follows the run without speculation.                          *)

Running == {"enter", "hook", "execute", "stopped", "finished"}
Allowed(t) == IF t.contract \in AssistSpeculators THEN "rw" ELSE PagePermissions(t)

\* The target of a switch is always the same one, and an assist can begin.
Tame == /\ ~RedoesFaultingStore
        /\ OneEntry(test)
        /\ test.contract \in AssistSpeculators => MaxNesting > 0

\* In front of execute, the interpreter has been here already.
Pending(s) ==
    IF phase = "execute" /\ ~spec.in_speculation
    THEN Interpret(test, InsnOf(test, s.x.pc), s.x) ELSE s.x

\* Here, or where speculation comes back to, is y.
Agrees(y) ==
    IF spec.in_speculation
    THEN /\ spec.ckpts[1].next = y.pc /\ spec.ckpts[1].reg = y.reg
         /\ spec.ckpts[1].base = y.mode.base
    ELSE pc = y.pc /\ reg = y.reg /\ mode.base = y.mode.base

Matches(s) ==
    /\ ArchMem = s.mem
    /\ MoreSet(test, Pending(s).mode, mode)
    /\ Agrees(Pending(s))
    /\ phase = "execute" /\ ~spec.in_speculation => s.x.pc = pc

PathOK ==
    phase \in Running => \E s : Reached(test, Allowed(test), input, s) /\ Matches(s)

\* The page is open in the speculation on a fault only, and in its handler.
Opening == {"nullinj-fault", "meltdown"}
PermOK ==
    /\ perm \in {PagePermissions(test), "rw"}
    /\ phase \in Running /\ test.contract \notin AssistSpeculators \cup Opening =>
          perm = PagePermissions(test)
    /\ phase \in Running /\ test.contract \in Opening =>
          IF spec.in_speculation THEN spec.ckpts[1].next = HandlerOf(test)
          ELSE perm = PagePermissions(test) \/ pc \in HandlerOf(test)..ExitAddr(test)

FaultsOK ==
    LET soft == SoftFault(test, InsnOf(test, pc), ActorOf(pc))
    IN /\ phase = "execute" => soft = "none"
       /\ phase = "stopped" /\ ~spec.in_speculation =>
             IF fault = "none" THEN pc = ExitAddr(test)
             ELSE /\ mode.actor = ActorOf(pc)
                  /\ fault = soft \/ fault = FaultOf(InsnOf(test, pc), reg, mem, perm)
       /\ phase = "finished" => pc = ExitAddr(test)

PathInv == Determined(test, mode) /\ PermOK /\ FaultsOK /\ PathOK

-----------------------------------------------------------------------------
(* The hook of an instruction, from outside of speculation.                *)

\* No speculation begins.
PlainHook ==
    LET x == Interpret(test, InsnOf(test, pc), [pc |-> pc, reg |-> reg, mode |-> mode])
        f == SoftFault(test, InsnOf(test, pc), ActorOf(pc))
    IN /\ ~spec'.in_speculation /\ mem' = mem /\ spec'.logs = spec.logs
       /\ pc' = x.pc /\ reg' = x.reg /\ mode' = x.mode
       /\ phase' = IF f # "none" THEN "stopped" ELSE IF x.pc = pc THEN "execute" ELSE "hook"

ComesBackTo(next, r) ==
    /\ spec'.in_speculation
    /\ spec'.ckpts[1].next = next /\ spec'.ckpts[1].reg = r /\ spec'.ckpts[1].base = mode.base

\* A branch is mispredicted.
BranchHook ==
    /\ InsnOf(test, pc) \in Branches
    /\ ComesBackTo(PcAfter(test, pc, reg), RegsAfter(InsnOf(test, pc), reg, mem))

LEMMA FirstCheckpoint ==
    ASSUME ModelInv, ~spec.in_speculation, NEW s \in SpecState, s.ckpts = spec.ckpts, NEW r,
           NEW next, NEW u, u = Checkpointed(s, r, next)
    PROVE  /\ u.in_speculation /\ u.ckpts[1].next = next /\ u.ckpts[1].reg = r
           /\ u.ckpts[1].base = mode.base
           /\ \A c, v : LET l == Logged(u, c, v)
                        IN l.in_speculation = u.in_speculation /\ l.ckpts = u.ckpts
<1> DEFINE c == [reg |-> r, base |-> mode.base, next |-> next, window |-> s.window]
<1>1. spec.ckpts = <<>>
    BY NoCheckpoints
<1>2. u.ckpts = Append(<<>>, c) /\ u.in_speculation = TRUE
      /\ DOMAIN u = {"ckpts", "logs", "in_speculation", "window"}
    BY <1>1 DEF Checkpointed, SpecState
<1>3. u.ckpts[1] = c
    BY <1>2
<1>4. \A d, v : LET l == Logged(u, d, v)
                IN l.in_speculation = u.in_speculation /\ l.ckpts = u.ckpts
    BY <1>2 DEF Logged
<1> QED
    BY <1>2, <1>3, <1>4

LEMMA OutcomeFacts ==
    ASSUME ModelInv, phase = "hook", pc # ExitAddr(test), NEW next, NEW execute \in BOOLEAN, NEW s,
           NEW r, NEW m, NEW w, NEW b, NEW j,
           Outcome(next, execute, s, r, m, w, b, j)
    PROVE  LET x == Interpret(test, InsnOf(test, pc), [pc |-> next, reg |-> r, mode |-> mode])
               f == SoftFault(test, InsnOf(test, pc), ActorOf(pc))
           IN /\ fault' = f /\ pc' = x.pc /\ reg' = x.reg /\ mode' = x.mode
              /\ spec' = s /\ mem' = m /\ perm' = w /\ sub' = b
              /\ phase' = "execute" => f = "none" /\ pc' = pc
              /\ ~spec.in_speculation /\ execute =>
                     phase' = IF f # "none" THEN "stopped"
                              ELSE IF x.pc = pc THEN "execute" ELSE "hook"
<1>1. mode.actor = ActorOf(pc) /\ InsnAt(pc) = InsnOf(test, pc)
    BY Layout DEF ModelInv, Flow
<1> DEFINE x == Interpret(test, InsnOf(test, pc), [pc |-> next, reg |-> r, mode |-> mode])
           f == SoftFault(test, InsnOf(test, pc), ActorOf(pc))
<1>2. /\ fault' = f /\ pc' = x.pc /\ reg' = x.reg /\ mode' = x.mode
      /\ spec' = s /\ mem' = m /\ perm' = w /\ sub' = b
      /\ phase' = CASE Stops \/ f # "none" -> "stopped"
                    [] ~Stops /\ f = "none" /\ execute /\ x.pc = pc -> "execute"
                    [] OTHER -> "hook"
    BY <1>1 DEF Outcome
<1>3. ~spec.in_speculation => ~Stops
    BY DEF Stops
<1> HIDE DEF x, f
<1> QED
    BY <1>2, <1>3 DEF x, f

LEMMA HookSummary ==
    ASSUME ModelInv, StoresOK, phase = "hook", pc # ExitAddr(test), NEW k, SpeculateInstruction(k)
    PROVE  /\ fault' = SoftFault(test, InsnOf(test, pc), ActorOf(pc))
           /\ \E next : \E r \in [Regs -> Values] :
                 LET x == Interpret(test, InsnOf(test, pc), [pc |-> next, reg |-> r, mode |-> mode])
                 IN mode' = x.mode
           /\ phase' = "execute" =>
                 pc' = pc /\ SoftFault(test, InsnOf(test, pc), ActorOf(pc)) = "none"
           /\ ~spec.in_speculation =>
                 \/ PlainHook
                 \/ test.contract = "cond" /\ BranchHook
                 \/ test.contract \in {"bpas", "cond-bpas"} /\ ComesBackTo(pc, reg)
<1> DEFINE insn == InsnOf(test, pc)
           f == SoftFault(test, insn, ActorOf(pc))
           x(next, r) == Interpret(test, insn, [pc |-> next, reg |-> r, mode |-> mode])
           Hooked == /\ fault' = f
                     /\ \E next : \E r \in [Regs -> Values] : mode' = x(next, r).mode
                     /\ phase' = "execute" => pc' = pc /\ f = "none"
<1>0. /\ reg \in [Regs -> Values] /\ mem \in [Cells -> Values] /\ test \in Tests
      /\ pc \in AddressesOf(test) /\ InsnAt(pc) = insn
    BY Layout DEF ModelInv, Scalars, Flow
<1>1. /\ WithWindow \in SpecState /\ WithWindow.ckpts = spec.ckpts /\ WithWindow.logs = spec.logs
      /\ WithWindow.in_speculation = spec.in_speculation
    BY WithWindowFacts DEF SpecOK
<1>2. ASSUME NEW w, NEW b, NEW j, Outcome(pc, TRUE, WithWindow, reg, mem, w, b, j)
      PROVE  Hooked /\ (~spec.in_speculation => PlainHook)
    <2>1. /\ fault' = f /\ pc' = x(pc, reg).pc /\ reg' = x(pc, reg).reg
          /\ mode' = x(pc, reg).mode /\ spec' = WithWindow /\ mem' = mem
          /\ phase' = "execute" => f = "none" /\ pc' = pc
          /\ ~spec.in_speculation =>
                 phase' = IF f # "none" THEN "stopped"
                          ELSE IF x(pc, reg).pc = pc THEN "execute" ELSE "hook"
        BY <1>2, OutcomeFacts
    <2>2. Hooked
        BY <1>0, <2>1
    <2> QED
        BY <1>1, <2>1, <2>2 DEF PlainHook
<1>3. ASSUME NEW next, NEW execute \in BOOLEAN, NEW s, NEW r \in [Regs -> Values], NEW m, NEW w, NEW b, NEW j,
             Outcome(next, execute, s, r, m, w, b, j)
      PROVE  Hooked /\ spec' = s
    <2>1. /\ fault' = f /\ mode' = x(next, r).mode /\ spec' = s
          /\ phase' = "execute" => f = "none" /\ pc' = pc
        BY <1>3, OutcomeFacts
    <2> QED
        BY <2>1
<1>4. CASE NoSpeculation(k)
    BY <1>2, <1>4 DEF NoSpeculation
<1>5. CASE test.contract = "cond"
    <2> DEFINE r == IF insn = "loop" THEN Decremented(reg) ELSE reg
               jumps == WillJump(insn, reg)
               target == Target(test, pc)
               next == IF jumps THEN pc + 1 ELSE target
               back == IF jumps THEN target ELSE pc + 1
               u == Checkpointed(WithWindow, r, back)
    <2>1. Mispredict(k)
        BY <1>5 DEF SpeculateInstruction, NullSpeculators
    <2>2. CASE ~NoSpeculation(k)
        <3>1. /\ insn \in Branches
              /\ Outcome(next, FALSE, u, r, mem, perm, sub, TrackerCheckpoint(k, TRUE))
            BY <1>0, <2>1, <2>2 DEF Mispredict
        <3>2. r \in [Regs -> Values]
            BY <1>0, DecrementedType
        <3>3. r = RegsAfter(insn, reg, mem) /\ back = PcAfter(test, pc, reg)
            BY <3>1 DEF RegsAfter, PcAfter, Branches
        <3> HIDE DEF r, jumps, target, next, back
        <3>4. ~spec.in_speculation =>
                  /\ u.in_speculation /\ u.ckpts[1].next = back /\ u.ckpts[1].reg = r
                  /\ u.ckpts[1].base = mode.base
            BY <1>1, FirstCheckpoint
        <3> HIDE DEF u
        <3>5. Hooked /\ spec' = u
            BY <1>3, <3>1, <3>2
        <3>6. ~spec.in_speculation => BranchHook
            BY <3>1, <3>3, <3>4, <3>5 DEF BranchHook, ComesBackTo
        <3> QED
            BY <1>5, <3>5, <3>6
    <2> QED
        BY <1>4, <2>2
<1>6. CASE test.contract \in {"bpas", "cond-bpas"}
    <2> DEFINE cleared == [sub EXCEPT !.store = <<>>]
               u == Checkpointed(WithWindow, reg, pc)
               l == Logged(u, sub.store[1], sub.store[3])
               m == [mem EXCEPT ![sub.store[1]] = sub.store[2]]
               j == TrackerCheckpoint(k, FALSE)
    <2>0. BypassStore(k)
        BY <1>6 DEF SpeculateInstruction, NullSpeculators
    <2>1. CASE Outcome(pc, TRUE, WithWindow, reg, mem, perm, cleared, k)
        BY <1>2, <2>1
    <2>2. CASE Outcome(pc, TRUE, l, reg, m, perm, cleared, j)
        <3>1. ~spec.in_speculation =>
                  /\ l.in_speculation /\ l.ckpts[1].next = pc /\ l.ckpts[1].reg = reg
                  /\ l.ckpts[1].base = mode.base
            <4>1. ~spec.in_speculation =>
                      /\ u.in_speculation /\ u.ckpts[1].next = pc /\ u.ckpts[1].reg = reg
                      /\ u.ckpts[1].base = mode.base
                      /\ l.in_speculation = u.in_speculation /\ l.ckpts = u.ckpts
                BY <1>1, FirstCheckpoint
            <4> HIDE DEF u, l
            <4> QED
                BY <4>1
        <3> HIDE DEF l, m, j, cleared
        <3>2. Hooked /\ spec' = l
            BY <1>0, <1>3, <2>2
        <3>3. ~spec.in_speculation => ComesBackTo(pc, reg)
            BY <3>1, <3>2 DEF ComesBackTo
        <3> QED
            BY <1>6, <3>2, <3>3
    <2> QED
        BY <2>0, <2>1, <2>2 DEF BypassStore
<1>7. CASE test.contract = "deh"
    <2>0. SkipDependent(k)
        BY <1>7 DEF SpeculateInstruction, NullSpeculators
    <2>1. CASE spec.in_speculation
        <3>1. ASSUME NEW next, NEW execute \in BOOLEAN, NEW b,
                     Outcome(next, execute, WithWindow, reg, mem, perm, b, k)
              PROVE  Hooked
            BY <1>0, <1>3, <3>1
        <3> HIDE DEF Hooked
        <3> QED
            BY <1>4, <2>0, <2>1, <3>1 DEF SkipDependent, Hooked
    <2>2. CASE ~spec.in_speculation
        BY <1>4, <2>0, <2>2 DEF SkipDependent
    <2> QED
        BY <2>1, <2>2
<1>8. CASE test.contract \in NullSpeculators
    <2> DEFINE w == IF sub.restore /\ ~sub.re_execute THEN PagePermissions(test) ELSE perm
               b == [sub EXCEPT !.re_execute = FALSE, !.restore = sub.re_execute, !.load = <<>>]
    <2>1. RestoreProtection(k)
        BY <1>8 DEF SpeculateInstruction, NullSpeculators
    <2>2. Outcome(pc, TRUE, WithWindow, reg, mem, w, b, k)
        BY <2>1 DEF RestoreProtection
    <2> HIDE DEF b, w
    <2> QED
        BY <1>2, <2>2
<1>9. CASE test.contract \notin {"cond", "bpas", "cond-bpas", "deh"} \cup NullSpeculators
    BY <1>4, <1>9 DEF SpeculateInstruction
<1> QED
    BY <1>5, <1>6, <1>7, <1>8, <1>9

-----------------------------------------------------------------------------
(* What the steps do to targets, permissions and faults.                   *)

LEMMA SameTest ==
    ASSUME [Next]_vars
    PROVE  test' = test /\ (Tame' <=> Tame)
<1>1. test' = test
    BY DEF Next, LoadInput, Enter, RecordTrace, InstructionHook, ReachExit, Execute,
       SpeculateOnFault, SquashFault, ArchitecturalFault, Stopped, Terminated, Rollback,
       Unprotect, InjectZero, DelayFault, Resume, vars
<1> QED
    BY <1>1 DEF Tame, RedoesFaultingStore

SameTargets(m, n) == n.k2u = m.k2u /\ n.h2g = m.h2g /\ n.g2h = m.g2h /\ n.lstar = m.lstar

LEMMA SameTargetsFacts ==
    ASSUME NEW t, NEW m, NEW n, SameTargets(m, n)
    PROVE  MoreSet(t, m, n) /\ (Determined(t, m) => Determined(t, n))
  BY DEF SameTargets, MoreSet, Determined

LEMMA RollbackTargets ==
    ASSUME ModelInv, Rollback
    PROVE  SameTargets(mode, mode') /\ mode'.base = Last(spec.ckpts).base
<1>1. mode \in ModeState
    BY DEF ModelInv, ModeOK
<1> QED
    BY <1>1 DEF Rollback, ModeAt, ModeState, SameTargets

LEMMA TargetsStep ==
    ASSUME ModelInv, StoresOK, OneEntry(test), Determined(test, mode), [Next]_vars
    PROVE  test' = test /\ MoreSet(test, mode, mode') /\ Determined(test, mode')
<1>0. mode \in ModeState
    BY DEF ModelInv, ModeOK
<1>1. /\ SameTargets(mode, mode)
      /\ \A a : SameTargets(mode, ModeAt(mode, a))
      /\ SameTargets(mode, ModeAfterLoad(mode))
    BY <1>0 DEF SameTargets, ModeAt, ModeAfterLoad, ModeState
<1>2. CASE ~InstructionHook
    <2>1. test' = test
        BY SameTest
    <2>2. CASE Rollback
        BY <2>1, <2>2, RollbackTargets, SameTargetsFacts
    <2>3. CASE ~Rollback
        <3>1. mode' = mode \/ mode' = ModeAfterLoad(mode) \/ mode' = ModeAt(mode, pc)
            BY <1>2, <2>3 DEF Next, LoadInput, Enter, RecordTrace, ReachExit, Execute,
               SpeculateOnFault, SquashFault, ArchitecturalFault, Stopped, Terminated, Unprotect,
               InjectZero, DelayFault, Resume, vars, machine
        <3> QED
            BY <1>1, <2>1, <3>1, SameTargetsFacts
    <2> QED
        BY <2>2, <2>3
<1>3. CASE InstructionHook
    <2>1. /\ phase = "hook" /\ pc # ExitAddr(test) /\ \E k : SpeculateInstruction(k)
          /\ test' = test /\ test \in Tests /\ pc \in AddressesOf(test) /\ ModeOK(test, mode)
          /\ mode.actor = ActorOf(pc) /\ Prepared(test, mode, pc)
        BY <1>3, Layout DEF InstructionHook, ModelInv, Flow, Scalars
    <2>2. PICK next : \E r \in [Regs -> Values] :
              mode' = Interpret(test, InsnOf(test, pc), [pc |-> next, reg |-> r, mode |-> mode]).mode
        BY <2>1, HookSummary
    <2>3. PICK r \in [Regs -> Values] :
              mode' = Interpret(test, InsnOf(test, pc), [pc |-> next, reg |-> r, mode |-> mode]).mode
        BY <2>2
    <2>4. MoreSet(test, mode, mode')
        BY <2>1, <2>3, InterpretFacts
    <2>5. Determined(test, mode')
        BY <2>1, <2>3, InterpretExactly
    <2> QED
        BY <2>1, <2>4, <2>5
<1> QED
    BY <1>2, <1>3

\* The handler is one instruction, which does nothing.
LEMMA InHandler ==
    ASSUME NEW t \in Tests, NEW a \in HandlerOf(t)..ExitAddr(t), a # ExitAddr(t)
    PROVE  /\ a \in AddressesOf(t) /\ InsnOf(t, a) = "measurement_end" /\ a + 1 = ExitAddr(t)
           /\ ~(a >= OtherStart)
           /\ \A r : PcAfter(t, a, r) = a + 1
           /\ \A x : Interpret(t, InsnOf(t, a), x) = x
           /\ \A r, m, w : FaultOf(InsnOf(t, a), r, m, w) = "none"
<1>1. a = EndAddr(t) /\ a + 1 = ExitAddr(t) /\ a \in AddressesOf(t) /\ ~(a >= OtherStart)
    <2> DEFINE m == Len(t.body)
    <2>1. /\ m \in Nat /\ EndAddr(t) = m + 2 /\ ExitAddr(t) = m + 3 /\ m + 3 < 20
          /\ HandlerOf(t) \in {m + 2, m + 3} /\ OtherStart = 20
          /\ 1..(m + 3) \subseteq AddressesOf(t)
        BY TestType DEF AddressesOf, CodeStart, OtherStart, HandlerOf
    <2> HIDE DEF m
    <2>2. a = m + 2
        BY <2>1
    <2> QED
        BY <2>1, <2>2
<1>2. InsnOf(t, a) = "measurement_end" /\ "measurement_end" \in Macros
    BY <1>1, CodeAt DEF Macros
<1>3. \A r : PcAfter(t, a, r) = a + 1
    BY <1>2 DEF PcAfter, Branches
<1>4. \A x : Interpret(t, "measurement_end", x) = x
    BY DEF Interpret, InterpretMacro
<1>5. \A r, m, w : FaultOf("measurement_end", r, m, w) = "none"
    BY <1>2, MacroFacts
<1> QED
    BY <1>1, <1>2, <1>3, <1>4, <1>5

\* A soft fault stops the interpreter before it does anything.
LEMMA SoftFaultStays ==
    ASSUME NEW t, NEW insn, NEW x, SoftFault(t, insn, x.mode.actor) # "none"
    PROVE  Interpret(t, insn, x) = x
  BY DEF Interpret

LEMMA FaultsStep ==
    ASSUME ModelInv, ModelInv', StoresOK, FaultsOK, [Next]_vars
    PROVE  FaultsOK'
<1>0. phase' # "error"
    BY DEF ModelInv, Scalars, Phases
<1>1. CASE UNCHANGED vars
    BY <1>1 DEF vars, machine, FaultsOK
<1>2. CASE LoadInput \/ RecordTrace
    <2>1. phase' \in {"enter", "load", "done"}
        BY <1>2 DEF LoadInput, RecordTrace
    <2> QED
        BY <2>1 DEF FaultsOK
<1>3. CASE Rollback
    BY <1>3 DEF Rollback, FaultsOK
<1>4. CASE Enter /\ ~Rollback
    <2>1. phase' = IF pc = Exit THEN "finished" ELSE "hook"
        BY <1>4 DEF Enter
    <2>2. pc' = pc /\ test' = test
        BY <1>4 DEF Enter
    <2> QED
        BY <2>1, <2>2, Layout DEF FaultsOK
<1>5. CASE InstructionHook
    <2>1. /\ phase = "hook" /\ pc # ExitAddr(test) /\ test' = test /\ mode.actor = ActorOf(pc)
        BY <1>5, Layout DEF InstructionHook, ModelInv, Flow
    <2>2. PICK k : SpeculateInstruction(k)
        BY <1>5 DEF InstructionHook
    <2>3. Keeps(spec', mem') /\ phase' \in {"stopped", "execute", "hook"}
        BY <2>1, <2>2, HookKeeps
    <2> DEFINE f == SoftFault(test, InsnOf(test, pc), ActorOf(pc))
               x == [pc |-> pc, reg |-> reg, mode |-> mode]
    <2>4. /\ fault' = f
          /\ phase' = "execute" => pc' = pc /\ f = "none"
          /\ ~spec.in_speculation /\ ~spec'.in_speculation => PlainHook
        BY <2>1, <2>2, HookSummary DEF BranchHook, ComesBackTo
    <2>5. phase' = "stopped" /\ ~spec'.in_speculation =>
              /\ fault' = f /\ f # "none" /\ pc' = pc /\ mode'.actor = ActorOf(pc)
        <3> SUFFICES ASSUME phase' = "stopped", ~spec'.in_speculation
                     PROVE  f # "none" /\ pc' = pc /\ mode'.actor = ActorOf(pc)
            BY <2>4
        <3>1. PlainHook
            BY <2>3, <2>4 DEF Keeps
        <3>2. f # "none" /\ pc' = Interpret(test, InsnOf(test, pc), x).pc
              /\ mode' = Interpret(test, InsnOf(test, pc), x).mode
            BY <3>1 DEF PlainHook
        <3>3. Interpret(test, InsnOf(test, pc), x) = x
            BY <2>1, <3>2, SoftFaultStays
        <3> QED
            BY <2>1, <3>2, <3>3
    <2> HIDE DEF f
    <2>6. pc' = pc => SoftFault(test', InsnOf(test', pc'), ActorOf(pc')) = f
        BY <2>1 DEF f
    <2> QED
        BY <2>3, <2>4, <2>5, <2>6 DEF FaultsOK
<1>6. CASE ReachExit
    <2>1. fault' = "none" /\ pc' = ExitAddr(test') /\ phase' = "stopped"
        BY <1>6, Layout DEF ReachExit, machine, ModelInv, Flow
    <2> QED
        BY <2>1 DEF FaultsOK
<1>7. CASE Execute
    <2> DEFINE f == FaultOf(InsnOf(test, pc), reg, mem, perm)
    <2>1. /\ fault' = f /\ test' = test /\ perm' = perm /\ mode' = mode
          /\ f = "none" => phase' = "hook"
          /\ f # "none" => phase' = "stopped" /\ pc' = pc /\ reg' = reg /\ mem' = mem
        BY <1>0, <1>7, Layout DEF Execute
    <2>2. mode.actor = ActorOf(pc)
        BY <1>7 DEF Execute, ModelInv, Flow
    <2> HIDE DEF f
    <2>3. f # "none" => f = FaultOf(InsnOf(test', pc'), reg', mem', perm')
        BY <2>1 DEF f
    <2> QED
        BY <2>1, <2>2, <2>3 DEF FaultsOK
<1>8. CASE SpeculateOnFault
    BY <1>8 DEF SpeculateOnFault, Unprotect, InjectZero, DelayFault, Resume, FaultsOK
<1>9. CASE SquashFault
    BY <1>9 DEF SquashFault, FaultsOK
<1>10. CASE ArchitecturalFault
    <2>1. had_arch_fault = FALSE
        BY <1>10, FirstFault DEF ArchitecturalFault
    <2>2. phase' = IF Handler = Exit THEN "finished" ELSE "enter"
        BY <1>10, <2>1 DEF ArchitecturalFault
    <2>3. pc' = Handler /\ test' = test
        BY <1>10, <2>1 DEF ArchitecturalFault
    <2> QED
        BY <2>2, <2>3, Layout DEF FaultsOK
<1>11. CASE Stopped /\ ~Rollback
    <2>1. /\ phase = "stopped" /\ fault = "none" /\ ~spec.in_speculation /\ phase' = "finished"
          /\ pc' = pc /\ test' = test
        BY <1>11 DEF Stopped, machine
    <2> QED
        BY <2>1 DEF FaultsOK
<1> QED
    BY <1>1, <1>2, <1>3, <1>4, <1>5, <1>6, <1>7, <1>8, <1>9, <1>10, <1>11 DEF Next, Terminated

\* What a fault begins, from outside of speculation.
LEMMA FaultSummary ==
    ASSUME ModelInv, SpeculateOnFault
    PROVE  /\ phase' = "enter" /\ reg' = reg /\ mode' = mode /\ test' = test /\ input' = input
           /\ test.contract = "deh" => perm' = perm
           /\ test.contract # "deh" => perm' = "rw"
           /\ test.contract \in NullSpeculators \cup {"seq-assist", "meltdown", "deh"}
           /\ ~spec.in_speculation =>
                 \/ test.contract = "seq-assist" /\ spec' = spec /\ mem' = mem /\ pc' = pc
                 \/ test.contract = "nullinj-assist" /\ ComesBackTo(pc, reg)
                 \/ test.contract \in Opening \cup {"deh"} /\ ComesBackTo(HandlerOf(test), reg)
<1>0. spec \in SpecState /\ Handler = HandlerOf(test)
    BY Layout DEF ModelInv, SpecOK
<1>1. CASE Unprotect
    <2>1. /\ phase' = "enter" /\ reg' = reg /\ mode' = mode /\ test' = test /\ input' = input
          /\ perm' = "rw" /\ test.contract \in {"seq-assist", "meltdown"}
          /\ test.contract = "seq-assist" => spec' = spec /\ mem' = mem /\ pc' = pc
          /\ test.contract = "meltdown" => spec' = Checkpointed(spec, reg, HandlerOf(test))
        BY <1>0, <1>1 DEF Unprotect, Resume
    <2>2. ~spec.in_speculation /\ test.contract = "meltdown" => ComesBackTo(HandlerOf(test), reg)
        BY <1>0, <2>1, FirstCheckpoint DEF ComesBackTo
    <2> QED
        BY <2>1, <2>2 DEF Opening, NullSpeculators
<1>2. CASE InjectZero
    <2> DEFINE back == IF test.contract = "nullinj-assist" THEN pc ELSE Handler
               s == Checkpointed(spec, reg, back)
    <2>1. /\ phase' = "enter" /\ reg' = reg /\ mode' = mode /\ test' = test /\ input' = input
          /\ perm' = "rw" /\ test.contract \in NullSpeculators
          /\ spec' = s \/ spec' = Logged(s, sub.load[1], mem[sub.load[1]])
        BY <1>2 DEF InjectZero, Resume
    <2> HIDE DEF back
    <2>2. ~spec.in_speculation =>
              /\ s.in_speculation /\ s.ckpts[1].next = back /\ s.ckpts[1].reg = reg
              /\ s.ckpts[1].base = mode.base
              /\ \A c, v : LET l == Logged(s, c, v)
                           IN l.in_speculation = s.in_speculation /\ l.ckpts = s.ckpts
        BY <1>0, FirstCheckpoint
    <2> HIDE DEF s
    <2>3. ~spec.in_speculation => ComesBackTo(back, reg)
        BY <2>1, <2>2 DEF ComesBackTo
    <2> QED
        BY <1>0, <2>1, <2>3 DEF Opening, NullSpeculators, back
<1>3. CASE DelayFault
    <2>1. /\ phase' = "enter" /\ reg' = reg /\ mode' = mode /\ test' = test /\ input' = input
          /\ perm' = perm /\ test.contract = "deh"
          /\ spec' = Checkpointed(spec, reg, HandlerOf(test))
        BY <1>0, <1>3 DEF DelayFault, Resume
    <2>2. ~spec.in_speculation => ComesBackTo(HandlerOf(test), reg)
        BY <1>0, <2>1, FirstCheckpoint DEF ComesBackTo
    <2> QED
        BY <2>1, <2>2 DEF Opening, NullSpeculators
<1> QED
    BY <1>1, <1>2, <1>3 DEF SpeculateOnFault

\* One instruction of the program, by its hook or its execution, in the handler.
LEMMA HandlerStep ==
    ASSUME ModelInv, ModelInv', StoresOK, [Next]_vars, phase \in Running, ~spec.in_speculation,
           ~spec'.in_speculation, pc \in HandlerOf(test)..ExitAddr(test)
    PROVE  pc' \in HandlerOf(test)..ExitAddr(test)
<1>0. phase' # "error" /\ test \in Tests /\ Handler = HandlerOf(test) /\ Exit = ExitAddr(test)
    BY Layout DEF ModelInv, Scalars, Phases
<1>1. HandlerOf(test) \in HandlerOf(test)..ExitAddr(test)
      /\ ExitAddr(test) \in HandlerOf(test)..ExitAddr(test)
    <2> DEFINE m == Len(test.body)
    <2>1. m \in Nat /\ ExitAddr(test) = m + 3 /\ HandlerOf(test) \in {m + 3, m + 2}
        BY <1>0, TestType
    <2> HIDE DEF m
    <2> QED
        BY <2>1
<1>2. CASE InstructionHook
    <2>1. phase = "hook" /\ pc # ExitAddr(test) /\ \E k : SpeculateInstruction(k)
        BY <1>0, <1>2 DEF InstructionHook
    <2>2. PlainHook
        BY <2>1, HookSummary DEF BranchHook, ComesBackTo
    <2>3. pc' = pc
        BY <1>0, <2>1, <2>2, InHandler DEF PlainHook
    <2> QED
        BY <2>3
<1>3. CASE Execute
    <2>1. pc' = pc \/ pc' = PcAfter(test, pc, reg)
        BY <1>3 DEF Execute
    <2>2. pc # ExitAddr(test)
        BY <1>3 DEF Execute, ModelInv, Flow
    <2>3. PcAfter(test, pc, reg) = ExitAddr(test)
        BY <1>0, <2>2, InHandler
    <2> QED
        BY <1>1, <2>1, <2>3
<1>4. CASE SpeculateOnFault
    BY <1>4, FaultSummary DEF ComesBackTo
<1>5. CASE ArchitecturalFault
    BY <1>0, <1>1, <1>5 DEF ArchitecturalFault
<1>6. CASE UNCHANGED vars \/ Enter \/ RecordTrace \/ ReachExit \/ SquashFault \/ Stopped \/ Terminated
    <2>1. pc' = pc
        BY <1>6 DEF vars, machine, Enter, RecordTrace, ReachExit, SquashFault, Stopped, Terminated
    <2> QED
        BY <2>1
<1>7. CASE LoadInput
    BY <1>7 DEF LoadInput, Running
<1> QED
    BY <1>2, <1>3, <1>4, <1>5, <1>6, <1>7 DEF Next

\* Speculation begins in a hook or on a fault.
LEMMA PermStep ==
    ASSUME ModelInv, ModelInv', StoresOK, PermOK, [Next]_vars
    PROVE  PermOK'
<1> DEFINE P == PagePermissions(test)
<1>0. test' = test /\ ComesBack /\ test \in Tests
    BY SameTest, BackStep DEF ModelInv, Scalars
<1>1. CASE LoadInput
    <2>1. perm' = P /\ spec'.in_speculation = FALSE
        BY <1>1 DEF LoadInput, PermAfterLoad, StoresOK, FreshSpec
    <2> QED
        BY <1>0, <2>1 DEF PermOK
<1>2. CASE ~LoadInput
    <2>1. phase' \in Running => phase \in Running
        BY <1>2 DEF Next, Enter, RecordTrace, InstructionHook, ReachExit, Execute,
           SpeculateOnFault, SquashFault, ArchitecturalFault, Stopped, Terminated, vars, Running
    <2>2. \/ perm' \in {perm, P}
          \/ perm' = "rw" /\ test.contract \in AssistSpeculators \cup Opening
        <3>1. CASE InstructionHook
            BY <3>1, HookKeeps DEF InstructionHook
        <3>2. CASE SpeculateOnFault
            BY <3>2, FaultSummary DEF AssistSpeculators, Opening, NullSpeculators
        <3>3. CASE Rollback
            BY <3>3 DEF Rollback, AssistSpeculators, Opening, NullSpeculators
        <3>4. CASE ~(InstructionHook \/ SpeculateOnFault \/ Rollback)
            BY <1>2, <3>4 DEF Next, Enter, RecordTrace, ReachExit, Execute,
               SquashFault, ArchitecturalFault, Stopped, Terminated, vars, machine
        <3> QED
            BY <3>1, <3>2, <3>3, <3>4
    <2>3. ~spec.in_speculation /\ ~spec'.in_speculation /\ test.contract \in Opening =>
              perm' \in {perm, P}
        <3>1. CASE InstructionHook
            BY <3>1, HookKeeps DEF InstructionHook
        <3>2. CASE SpeculateOnFault
            BY <3>2, FaultSummary DEF ComesBackTo, Opening
        <3>3. CASE ~(InstructionHook \/ SpeculateOnFault)
            BY <1>2, <3>3 DEF Next, Enter, RecordTrace, ReachExit, Execute,
               SquashFault, ArchitecturalFault, Stopped, Terminated, vars, machine
        <3> QED
            BY <3>1, <3>2, <3>3
    <2>4. ~spec.in_speculation /\ spec'.in_speculation /\ test.contract \in Opening =>
              spec'.ckpts[1].next = HandlerOf(test)
        <3>1. CASE InstructionHook
            <4>1. phase = "hook" /\ pc # ExitAddr(test) /\ \E k : SpeculateInstruction(k)
                BY <3>1, Layout DEF InstructionHook
            <4> QED
                BY <4>1, HookSummary DEF Opening, PlainHook
        <3>2. CASE SpeculateOnFault
            BY <3>2, FaultSummary DEF ComesBackTo, Opening
        <3>3. CASE Execute
            <4>1. MemAccess /\ pc # ExitAddr(test) /\ UNCHANGED <<test, run, mode, had_arch_fault>>
                <5>1. phase' # "error"
                    BY DEF ModelInv, Scalars, Phases
                <5> QED
                    BY <3>3, <5>1 DEF Execute, ModelInv, Flow
            <4> QED
                BY <4>1, MemAccessFacts
        <3>4. CASE ~(InstructionHook \/ SpeculateOnFault \/ Execute)
            BY <1>2, <3>4 DEF Next, Enter, RecordTrace, ReachExit,
               SquashFault, ArchitecturalFault, Stopped, Terminated, vars, machine
        <3> QED
            BY <3>1, <3>2, <3>3, <3>4
    <2>5. ASSUME phase' \in Running, test.contract \in Opening
          PROVE  IF spec'.in_speculation THEN spec'.ckpts[1].next = HandlerOf(test)
                 ELSE perm' = P \/ pc' \in HandlerOf(test)..ExitAddr(test)
        <3>1. CASE spec.in_speculation
            <4>1. spec.ckpts[1].next = HandlerOf(test)
                BY <2>1, <2>5, <3>1 DEF PermOK
            <4>2. HandlerOf(test) \in HandlerOf(test)..ExitAddr(test)
                <5> DEFINE m == Len(test.body)
                <5>1. m \in Nat /\ ExitAddr(test) = m + 3 /\ HandlerOf(test) \in {m + 3, m + 2}
                    BY <1>0, TestType
                <5> HIDE DEF m
                <5> QED
                    BY <5>1
            <4> QED
                BY <1>0, <3>1, <4>1, <4>2 DEF ComesBack
        <3>2. CASE ~spec.in_speculation
            <4>1. perm = P \/ pc \in HandlerOf(test)..ExitAddr(test)
                BY <2>1, <2>5, <3>2 DEF PermOK
            <4> QED
                BY <2>1, <2>3, <2>4, <2>5, <3>2, <4>1, HandlerStep
        <3> QED
            BY <3>1, <3>2
    <2> HIDE DEF P
    <2>6. perm' \in {P, "rw"} /\ P' = P
        BY <1>0, <2>2 DEF PermOK, P
    <2>7. phase' \in Running /\ test.contract \notin AssistSpeculators \cup Opening => perm' = P
        BY <2>1, <2>2 DEF PermOK, P
    <2> QED
        BY <1>0, <2>5, <2>6, <2>7 DEF PermOK, P
<1> QED
    BY <1>1, <1>2

-----------------------------------------------------------------------------
(* Every step, of execution or of speculation, stays on the path.          *)

LEMMA MoreSetTrans ==
    ASSUME NEW t, NEW l, NEW m, NEW n, MoreSet(t, l, m), MoreSet(t, m, n)
    PROVE  MoreSet(t, l, n)
  BY DEF MoreSet

\* Memory is as it will be when nothing is logged.
LEMMA ArchEmpty ==
    ASSUME NEW m \in [Cells -> Values]
    PROVE  Arch(<<>>, m) = m
<1>1. \A c : {k \in DOMAIN <<>> : Entries(<<>>[k], c) # {}} = {}
    OBVIOUS
<1> QED
    BY <1>1 DEF Arch

LEMMA NoLogs ==
    ASSUME ModelInv, ~spec.in_speculation
    PROVE  ArchMem = mem /\ spec.logs = <<>>
<1>1. spec.ckpts = <<>> /\ spec.logs \in Logs /\ Len(spec.logs) = Len(spec.ckpts)
      /\ mem \in [Cells -> Values]
    BY NoCheckpoints DEF ModelInv, Scalars, SpecOK, SpecState, Logs
<1>2. spec.logs = <<>>
    BY <1>1 DEF Logs
<1> QED
    BY <1>1, <1>2, ArchEmpty, KeepsComesBack

\* A state of the run without speculation that the step leads to.
LEMMA PathAt ==
    ASSUME test' = test, input' = input, NEW s, Reached(test, Allowed(test), input, s),
           ArchMem' = s.mem, NEW y,
           y = IF phase' = "execute" /\ ~spec'.in_speculation
               THEN Interpret(test, InsnOf(test, s.x.pc), s.x) ELSE s.x,
           MoreSet(test, y.mode, mode'),
           phase' = "execute" /\ ~spec'.in_speculation => s.x.pc = pc',
           spec'.in_speculation => /\ spec'.ckpts[1].next = y.pc /\ spec'.ckpts[1].reg = y.reg
                                   /\ spec'.ckpts[1].base = y.mode.base,
           ~spec'.in_speculation => pc' = y.pc /\ reg' = y.reg /\ mode'.base = y.mode.base
    PROVE  PathOK'
<1>1. Pending(s)' = y
    BY DEF Pending
<1>2. Agrees(y)'
    BY DEF Agrees
<1>3. Agrees(Pending(s))'
    BY <1>1, <1>2 DEF Agrees
<1>4. Matches(s)'
    BY <1>1, <1>3 DEF Matches
<1> QED
    BY <1>4 DEF PathOK

\* The faults of the page are those of the run without speculation, or begin it.
LEMMA FaultAgrees ==
    ASSUME ModelInv, PermOK, phase \in Running, ~spec.in_speculation, pc # ExitAddr(test),
           NEW r, NEW m, NEW insn, insn = InsnOf(test, pc)
    PROVE  /\ FaultOf(insn, r, m, perm) = "none" => FaultOf(insn, r, m, Allowed(test)) = "none"
           /\ FaultOf(insn, r, m, perm) # "none"
              /\ (test.contract \in AssistSpeculators => FaultOf(insn, r, m, perm) # "PF")
              => FaultOf(insn, r, m, Allowed(test)) # "none"
<1>1. CASE test.contract \in AssistSpeculators
    <2>1. Allowed(test) = "rw"
        BY <1>1 DEF Allowed
    <2> QED
        BY <1>1, <2>1 DEF FaultOf
<1>2. CASE test.contract \notin AssistSpeculators
    <2>1. Allowed(test) = PagePermissions(test)
        BY <1>2 DEF Allowed
    <2>2. perm = PagePermissions(test) \/ pc \in HandlerOf(test)..ExitAddr(test)
        BY <1>2 DEF PermOK
    <2>3. pc \in HandlerOf(test)..ExitAddr(test) => \A w : FaultOf(insn, r, m, w) = "none"
        BY InHandler DEF ModelInv, Scalars
    <2> QED
        BY <2>1, <2>2, <2>3
<1> QED
    BY <1>1, <1>2

\* In speculation, and out of it.
LEMMA SpeculatingPath ==
    ASSUME ModelInv, StoresOK, Tame, PathInv, [Next]_vars, spec.in_speculation, phase \in Running,
           phase' \in Running
    PROVE  PathOK'
<1>1. PICK s : Reached(test, Allowed(test), input, s) /\ Matches(s)
    BY DEF PathInv, PathOK
<1>2. /\ ArchMem = s.mem /\ MoreSet(test, s.x.mode, mode)
      /\ spec.ckpts[1].next = s.x.pc /\ spec.ckpts[1].reg = s.x.reg
      /\ spec.ckpts[1].base = s.x.mode.base
    BY <1>1 DEF Matches, Pending, Agrees
<1>3. test' = test /\ MoreSet(test, mode, mode') /\ ComesBack /\ ~RedoesFaultingStore
    BY TargetsStep, BackStep DEF Tame, PathInv
<1>4. input' = input
    BY DEF Next, LoadInput, Enter, RecordTrace, InstructionHook, ReachExit, Execute,
       SpeculateOnFault, SquashFault, ArchitecturalFault, Stopped, Terminated, Rollback,
       Unprotect, InjectZero, DelayFault, Resume, vars, Running
<1>5. ASSUME ~spec'.in_speculation
      PROVE  phase' = "enter" /\ mode'.base = spec.ckpts[1].base
    <2>1. Rollback
        <3>1. CASE InstructionHook
            BY <1>5, <3>1, HookKeeps DEF InstructionHook, Keeps
        <3>2. CASE Execute
            <4>1. spec' = spec \/ \E c, v : spec' = Logged(spec, c, v)
                BY <3>2 DEF Execute, MemAccess, LoggedAccess
            <4>2. \A c, v : Logged(spec, c, v).in_speculation = spec.in_speculation
                BY DEF Logged, ModelInv, SpecOK, SpecState
            <4> QED
                BY <1>5, <4>1, <4>2
        <3>3. CASE SpeculateOnFault
            <4>1. \A r, next : Checkpointed(spec, r, next).in_speculation
                BY DEF Checkpointed, ModelInv, SpecOK, SpecState
            <4>2. \A r, next, c, v : Logged(Checkpointed(spec, r, next), c, v).in_speculation
                BY DEF Checkpointed, Logged, ModelInv, SpecOK, SpecState
            <4>3. \/ spec' = spec \/ \E r, next : spec' = Checkpointed(spec, r, next)
                  \/ \E r, next, c, v : spec' = Logged(Checkpointed(spec, r, next), c, v)
                <5>1. CASE Unprotect
                    BY <5>1 DEF Unprotect
                <5>2. CASE InjectZero
                    BY <5>2, Zenon DEF InjectZero
                <5>3. CASE DelayFault
                    BY <5>3 DEF DelayFault
                <5> QED
                    BY <3>3, <5>1, <5>2, <5>3 DEF SpeculateOnFault
            <4> QED
                BY <1>5, <4>1, <4>2, <4>3
        <3>4. CASE ~(InstructionHook \/ Execute \/ SpeculateOnFault)
            BY <1>5, <3>4 DEF Next, LoadInput, Enter, RecordTrace, ReachExit, SquashFault,
               ArchitecturalFault, Stopped, Terminated, vars, machine, Running
        <3> QED
            BY <3>1, <3>2, <3>3, <3>4
    <2> DEFINE n == Len(spec.ckpts)
    <2>2. n \in Nat /\ n > 0 /\ spec'.in_speculation = (n > 1) /\ Last(spec.ckpts) = spec.ckpts[n]
        BY <2>1 DEF Rollback, ModelInv, SpecOK, SpecState, Last
    <2> HIDE DEF n
    <2>3. ~(n > 1)
        BY <1>5, <2>2
    <2>4. n = 1
        BY <2>2, <2>3
    <2> QED
        BY <2>1, <2>2, <2>4, RollbackTargets DEF Rollback
<1>6. MoreSet(test, s.x.mode, mode')
    BY <1>2, <1>3, MoreSetTrans
<1>7. ArchMem' = s.mem
    BY <1>2, <1>3 DEF ComesBack
<1>8. /\ ~(phase' = "execute" /\ ~spec'.in_speculation)
      /\ spec'.in_speculation => spec'.ckpts[1] = spec.ckpts[1]
      /\ ~spec'.in_speculation => reg' = spec.ckpts[1].reg /\ pc' = spec.ckpts[1].next
    BY <1>3, <1>5 DEF ComesBack
<1> QED
    BY <1>1, <1>2, <1>3, <1>4, <1>5, <1>6, <1>7, <1>8, PathAt

\* Where the run without speculation is, when there is none.
LEMMA HerePath ==
    ASSUME ModelInv, Tame, PathInv, ~spec.in_speculation, phase \in Running
    PROVE  \E s : /\ Reached(test, Allowed(test), input, s) /\ SeqOK(test, s) /\ Matches(s)
                  /\ s.mem = mem /\ s.x = [pc |-> s.x.pc, reg |-> s.x.reg, mode |-> s.x.mode]
                  /\ s.x.pc = pc
                  /\ phase # "execute" =>
                        /\ s.x.reg = reg /\ s.x.mode.base = mode.base
                        /\ MoreSet(test, s.x.mode, mode)
<1>1. PICK s : Reached(test, Allowed(test), input, s) /\ Matches(s)
    BY DEF PathInv, PathOK
<1>2. SeqOK(test, s)
    BY <1>1 DEF Reached
<1>3. s.mem = mem /\ s.x = [pc |-> s.x.pc, reg |-> s.x.reg, mode |-> s.x.mode]
    BY <1>1, <1>2, NoLogs, MachineFields DEF Matches, SeqOK
<1> QED
    BY <1>1, <1>2, <1>3 DEF Matches, Pending, Agrees

LEMMA HookPath ==
    ASSUME ModelInv, ModelInv', StoresOK, Tame, PathInv, InstructionHook, ~spec.in_speculation
    PROVE  PathOK'
<1> DEFINE insn == InsnOf(test, pc)
           x == [pc |-> pc, reg |-> reg, mode |-> mode]
           z == Interpret(test, insn, x)
           f == SoftFault(test, insn, ActorOf(pc))
<1>0. /\ phase = "hook" /\ pc # ExitAddr(test) /\ \E k : SpeculateInstruction(k)
      /\ test' = test /\ input' = input /\ test \in Tests /\ pc \in AddressesOf(test)
      /\ mode.actor = ActorOf(pc) /\ ModeOK(test, mode) /\ reg \in [Regs -> Values]
      /\ mem \in [Cells -> Values]
    BY Layout DEF InstructionHook, ModelInv, Flow, Scalars
<1>1. PICK s : /\ Reached(test, Allowed(test), input, s) /\ SeqOK(test, s)
               /\ s.mem = mem /\ s.x = [pc |-> pc, reg |-> reg, mode |-> s.x.mode]
               /\ s.x.pc = pc /\ s.x.reg = reg
               /\ s.x.mode.base = mode.base /\ MoreSet(test, s.x.mode, mode)
    BY <1>0, HerePath DEF Running
<1> DEFINE y == Interpret(test, insn, s.x)
           n == SequentialStep(test, HandlerOf(test), Allowed(test), s)
<1>2. /\ ModeOK(test, s.x.mode) /\ Determined(test, s.x.mode) /\ s.x.mode.actor = ActorOf(pc)
      /\ Prepared(test, s.x.mode, pc) /\ s \in Machines
    BY <1>1 DEF SeqOK
<1>3. OneEntry(test) /\ Determined(test, mode) /\ ~RedoesFaultingStore
    BY DEF Tame, PathInv
<1>4. y.pc = z.pc /\ y.reg = z.reg /\ y.mode.base = z.mode.base /\ MoreSet(test, y.mode, z.mode)
    BY <1>0, <1>1, <1>2, <1>3, InterpretAgrees
<1>5. Reached(test, Allowed(test), input, n)
    BY <1>0, <1>1, <1>3, ReachedStep
<1>6. /\ SeqFault(test, Allowed(test), s) =>
             /\ n.mem = mem
             /\ n.x = [pc |-> HandlerOf(test), reg |-> reg,
                       mode |-> ModeAt(s.x.mode, HandlerOf(test))]
      /\ ~SeqFault(test, Allowed(test), s) =>
             /\ n.mem = MemAfter(insn, reg, mem)
             /\ y.pc # pc => n.x = y
             /\ y.pc = pc => n.x = [pc |-> PcAfter(test, pc, reg), mode |-> y.mode,
                                    reg |-> RegsAfter(insn, y.reg, mem)]
    BY <1>0, <1>1, <1>2, SequentialStepShape
<1>7. /\ test' = test /\ MoreSet(test, mode, mode') /\ ComesBack
    BY <1>3, TargetsStep, BackStep DEF Next
<1>8. spec'.in_speculation => ArchMem' = mem
    BY <1>3, <1>7, NoLogs DEF ComesBack
<1>9. MoreSet(test, s.x.mode, mode')
    BY <1>1, <1>7, MoreSetTrans
<1>10. SeqFault(test, Allowed(test), s) <=> FaultOf(insn, reg, mem, Allowed(test)) # "none" \/ f # "none"
    BY <1>1, <1>2 DEF SeqFault
<1>11. insn \in Instructions
    BY <1>0, CodeAt
<1> HIDE DEF z, f, n, insn
<1>20. CASE PlainHook
    <2>1. /\ ~spec'.in_speculation /\ mem' = mem /\ spec'.logs = spec.logs
          /\ pc' = z.pc /\ reg' = z.reg /\ mode' = z.mode
          /\ phase' = IF f # "none" THEN "stopped" ELSE IF z.pc = pc THEN "execute" ELSE "hook"
        BY <1>20 DEF PlainHook, z, f, insn
    <2>2. ArchMem' = mem
        BY <2>1, NoLogs, KeepsComesBack
    <2>3. CASE f # "none"
        <3>1. z = x /\ y = s.x
            BY <1>0, <1>1, <1>2, <2>3, SoftFaultStays DEF z, f
        <3>2. phase' = "stopped" /\ pc' = pc /\ reg' = reg /\ mode'.base = mode.base
            BY <2>1, <2>3, <3>1
        <3> HIDE DEF y
        <3> QED
            BY <1>0, <1>1, <1>9, <2>1, <2>2, <3>2, PathAt
    <2>4. CASE f = "none" /\ z.pc = pc
        <3>1. phase' = "execute"
            BY <2>1, <2>4
        <3>2. y = Interpret(test, InsnOf(test, s.x.pc), s.x)
            BY <1>1 DEF insn
        <3> HIDE DEF y
        <3> QED
            BY <1>0, <1>1, <1>4, <2>1, <2>2, <2>4, <3>1, <3>2, PathAt
    <2>5. CASE f = "none" /\ z.pc # pc
        <3>1. insn \in Leaving
            BY <1>0, <2>5, InterpretFacts DEF z, insn, ModelInv, Flow
        <3>2. insn \in Macros
            BY <3>1 DEF Leaving, Macros
        <3>3. MemAfter(insn, reg, mem) = mem /\ FaultOf(insn, reg, mem, Allowed(test)) = "none"
            BY <3>2, MacroFacts
        <3>4. n.x = y /\ n.mem = mem
            BY <1>4, <1>6, <1>10, <2>5, <3>3
        <3>5. phase' = "hook"
            BY <2>1, <2>5
        <3> HIDE DEF y
        <3> QED
            BY <1>0, <1>4, <1>5, <2>1, <2>2, <3>4, <3>5, PathAt
    <2> QED
        BY <2>3, <2>4, <2>5
<1>21. CASE BranchHook
    <2>1. insn \in Branches /\ ComesBackTo(PcAfter(test, pc, reg), RegsAfter(insn, reg, mem))
        BY <1>21 DEF BranchHook, insn
    <2>2. /\ FaultOf(insn, reg, mem, Allowed(test)) = "none" /\ MemAfter(insn, reg, mem) = mem
        BY <1>11, <2>1 DEF Branches, FaultOf, MemAfter, Insn, Op, Instructions
    <2>3. f = "none"
        BY <2>1 DEF f, Branches, SoftFault, MacroFaults, ExitsToHost
    <2>4. y = s.x
        BY <2>1 DEF Interpret, InterpretMacro, Branches
    <2>5. n.mem = mem /\ n.x = [pc |-> PcAfter(test, pc, reg), mode |-> s.x.mode,
                                reg |-> RegsAfter(insn, reg, mem)]
        BY <1>1, <1>6, <1>10, <2>2, <2>3, <2>4
    <2> QED
        BY <1>0, <1>1, <1>5, <1>8, <1>9, <2>1, <2>5, PathAt DEF ComesBackTo
<1>22. CASE ComesBackTo(pc, reg)
    BY <1>0, <1>1, <1>8, <1>9, <1>22, PathAt DEF ComesBackTo
<1> QED
    BY <1>0, <1>20, <1>21, <1>22, HookSummary

\* A step without speculation on a fault, and on an instruction that does not switch.
LEMMA SequentialFault ==
    ASSUME NEW t, NEW h, NEW w, NEW s, s.x.pc # ExitAddr(t), SeqFault(t, w, s)
    PROVE  LET n == SequentialStep(t, h, w, s)
           IN /\ n.mem = s.mem /\ n.x.pc = h /\ n.x.reg = s.x.reg
              /\ n.x.mode = ModeAt(s.x.mode, h)
  BY DEF SequentialStep, SeqFault

LEMMA SequentialAdvance ==
    ASSUME NEW t, NEW h, NEW w, NEW s, s.x.pc # ExitAddr(t), ~SeqFault(t, w, s),
           Interpret(t, InsnOf(t, s.x.pc), s.x).pc = s.x.pc
    PROVE  LET n == SequentialStep(t, h, w, s)
               y == Interpret(t, InsnOf(t, s.x.pc), s.x)
           IN /\ n.mem = MemAfter(InsnOf(t, s.x.pc), s.x.reg, s.mem)
              /\ n.x.pc = PcAfter(t, s.x.pc, s.x.reg) /\ n.x.mode = y.mode
              /\ n.x.reg = RegsAfter(InsnOf(t, s.x.pc), y.reg, s.mem)
  BY DEF SequentialStep, SeqFault

LEMMA ExecutePath ==
    ASSUME ModelInv, ModelInv', StoresOK, Tame, PathInv, Execute, ~spec.in_speculation
    PROVE  PathOK'
<1> DEFINE insn == InsnOf(test, pc)
           f == FaultOf(insn, reg, mem, perm)
<1>0. /\ phase = "execute" /\ pc # ExitAddr(test) /\ insn \notin Leaving /\ phase' # "error"
      /\ test' = test /\ input' = input /\ test \in Tests /\ pc \in AddressesOf(test)
      /\ mem \in [Cells -> Values] /\ insn = InsnAt(pc)
      /\ SoftFault(test, insn, ActorOf(pc)) = "none"
    BY Layout DEF Execute, ModelInv, Flow, Scalars, Phases, PathInv, FaultsOK
<1>1. PICK s : /\ Reached(test, Allowed(test), input, s) /\ SeqOK(test, s) /\ Matches(s)
               /\ s.mem = mem /\ s.x = [pc |-> pc, reg |-> s.x.reg, mode |-> s.x.mode]
               /\ s.x.pc = pc
    BY <1>0, HerePath DEF Running
<1> DEFINE y == Interpret(test, insn, s.x)
           n == SequentialStep(test, HandlerOf(test), Allowed(test), s)
           r == s.x.reg
           m == s.x.mode
<1>2. y.pc = pc /\ y.reg = reg /\ y.mode.base = mode.base /\ MoreSet(test, y.mode, mode)
    BY <1>0, <1>1 DEF Matches, Pending, Agrees
<1>3. /\ ModeOK(test, m) /\ Determined(test, m) /\ m.actor = ActorOf(pc)
      /\ Prepared(test, m, pc) /\ s \in Machines /\ r \in [Regs -> Values]
    BY <1>1, MachineFields DEF SeqOK
<1>4. OneEntry(test) /\ PermOK
    BY DEF Tame, PathInv
<1>5. y.reg = AfterReg(test, insn, r)
    BY <1>0, <1>1, <1>3, <1>4, InterpretExactly
<1>6. MoreSet(test, m, y.mode) /\ y.mode.base = m.base
    BY <1>0, <1>1, <1>3, InterpretFacts
<1>7. Reached(test, Allowed(test), input, n)
    BY <1>0, <1>1, <1>4, ReachedStep
<1>8. ~SeqFault(test, Allowed(test), s) =>
          /\ n.mem = MemAfter(insn, r, mem) /\ n.x.pc = PcAfter(test, pc, r)
          /\ n.x.mode = y.mode /\ n.x.reg = RegsAfter(insn, y.reg, mem)
    BY <1>0, <1>1, <1>2, SequentialAdvance
<1>9. SeqFault(test, Allowed(test), s) <=> FaultOf(insn, r, mem, Allowed(test)) # "none"
    BY <1>0, <1>1, <1>3 DEF SeqFault
<1>10. insn \notin Macros => r = reg
    BY <1>2, <1>5, MacrosOnly
<1>11. insn \in Macros =>
          /\ f = "none" /\ FaultOf(insn, r, mem, Allowed(test)) = "none"
          /\ MemAfter(insn, r, mem) = mem /\ MemAfter(insn, reg, mem) = mem
          /\ PcAfter(test, pc, r) = PcAfter(test, pc, reg)
    <2>1. insn \in Macros => insn \notin Branches
        BY DEF Macros, Branches
    <2> QED
        BY <2>1, MacroFacts DEF PcAfter
<1>12. f = "none" => FaultOf(insn, reg, mem, Allowed(test)) = "none"
    BY <1>0, <1>4, FaultAgrees DEF Running
<1>13. /\ MemAccess /\ fault' = f /\ mode' = mode
       /\ f = "none" => /\ phase' = "hook" /\ pc' = PcAfter(test, pc, reg)
                        /\ reg' = RegsAfter(insn, reg, mem) /\ mem' = MemAfter(insn, reg, mem)
       /\ f # "none" => phase' = "stopped" /\ pc' = pc /\ reg' = reg /\ mem' = mem
    BY <1>0 DEF Execute
<1>14. ~spec'.in_speculation
    <2>1. UNCHANGED <<test, run, mode, had_arch_fault>>
        BY DEF Execute
    <2> QED
        BY <1>0, <1>13, <2>1, MemAccessFacts
<1>15. ArchMem' = mem'
    <2>1. spec.logs = <<>>
        BY NoLogs
    <2>2. spec' = spec
        BY <1>13, <2>1 DEF MemAccess, LoggedAccess
    <2>3. mem' \in [Cells -> Values]
        BY DEF ModelInv, Scalars
    <2> QED
        BY <2>1, <2>2, <2>3, ArchEmpty, KeepsComesBack
<1> HIDE DEF insn, f, y, n
<1>16. CASE f = "none"
    <2>1. n.mem = mem' /\ n.x.pc = pc' /\ n.x.reg = reg' /\ n.x.mode = y.mode
        <3>1. CASE insn \in Macros
            BY <1>2, <1>8, <1>9, <1>11, <1>13, <1>16, <3>1
        <3>2. CASE insn \notin Macros
            BY <1>2, <1>8, <1>9, <1>10, <1>12, <1>13, <1>16, <3>2
        <3> QED
            BY <3>1, <3>2
    <2>2. phase' = "hook" /\ mode' = mode
        BY <1>13, <1>16
    <2> QED
        BY <1>0, <1>2, <1>7, <1>14, <1>15, <2>1, <2>2, PathAt
<1>17. CASE f # "none"
    <2>1. r = reg
        BY <1>10, <1>11, <1>17
    <2>2. MoreSet(test, m, mode)
        BY <1>2, <1>6, MoreSetTrans
    <2>3. /\ phase' = "stopped" /\ pc' = pc /\ reg' = reg /\ mem' = mem /\ mode' = mode
          /\ m.base = mode.base
        BY <1>2, <1>6, <1>13, <1>17
    <2> QED
        BY <1>0, <1>1, <1>14, <1>15, <2>1, <2>2, <2>3, PathAt
<1> QED
    BY <1>16, <1>17

\* A fault, in the run without speculation, too.
LEMMA FaultPath ==
    ASSUME ModelInv, StoresOK, Tame, PathInv, phase = "stopped", fault # "none",
           ~spec.in_speculation
    PROVE  \E s : /\ Reached(test, Allowed(test), input, s)
                  /\ s.mem = mem /\ s.x.pc = pc /\ s.x.reg = reg /\ s.x.mode.base = mode.base
                  /\ MoreSet(test, s.x.mode, mode)
                  /\ (test.contract \in AssistSpeculators => fault # "PF") =>
                        \E n : /\ Reached(test, Allowed(test), input, n)
                               /\ n.mem = mem /\ n.x.pc = HandlerOf(test) /\ n.x.reg = reg
                               /\ n.x.mode.base = mode.base /\ MoreSet(test, n.x.mode, mode)
<1> DEFINE insn == InsnOf(test, pc)
<1>0. test \in Tests /\ pc # ExitAddr(test) /\ phase \in Running
    BY DEF ModelInv, Scalars, Flow, Running
<1>1. PICK s : /\ Reached(test, Allowed(test), input, s) /\ SeqOK(test, s)
               /\ s.mem = mem /\ s.x.pc = pc /\ s.x.reg = reg
               /\ s.x.mode.base = mode.base /\ MoreSet(test, s.x.mode, mode)
    BY <1>0, HerePath
<1>2. SUFFICES ASSUME test.contract \in AssistSpeculators => fault # "PF"
               PROVE  \E n : /\ Reached(test, Allowed(test), input, n)
                             /\ n.mem = mem /\ n.x.pc = HandlerOf(test) /\ n.x.reg = reg
                             /\ n.x.mode.base = mode.base /\ MoreSet(test, n.x.mode, mode)
    BY <1>1
<1>3. \/ fault = SoftFault(test, insn, ActorOf(pc)) \/ fault = FaultOf(insn, reg, mem, perm)
    BY DEF PathInv, FaultsOK
<1>4. fault = FaultOf(insn, reg, mem, perm) => FaultOf(insn, reg, mem, Allowed(test)) # "none"
    BY <1>0, <1>2, FaultAgrees DEF PathInv
<1>5. SeqFault(test, Allowed(test), s)
    <2>1. s.x.mode.actor = ActorOf(pc)
        BY <1>1 DEF SeqOK
    <2> QED
        BY <1>1, <1>3, <1>4, <2>1 DEF SeqFault
<1> DEFINE n == SequentialStep(test, HandlerOf(test), Allowed(test), s)
<1>6. Reached(test, Allowed(test), input, n)
    BY <1>0, <1>1, ReachedStep DEF Tame
<1>7. /\ n.mem = mem /\ n.x.pc = HandlerOf(test) /\ n.x.reg = reg
      /\ n.x.mode = ModeAt(s.x.mode, HandlerOf(test))
    BY <1>0, <1>1, <1>5, SequentialFault
<1>8. s.x.mode \in ModeState
    BY <1>1 DEF SeqOK, ModeOK
<1>9. /\ ModeAt(s.x.mode, HandlerOf(test)).base = mode.base
      /\ MoreSet(test, ModeAt(s.x.mode, HandlerOf(test)), mode)
    BY <1>1, <1>8 DEF ModeAt, ModeState, MoreSet
<1> HIDE DEF n
<1> QED
    BY <1>6, <1>7, <1>9

LEMMA SpeculateOnFaultPath ==
    ASSUME ModelInv, StoresOK, Tame, PathInv, SpeculateOnFault, ~spec.in_speculation
    PROVE  PathOK'
<1>1. phase = "stopped" /\ fault # "none"
    BY DEF SpeculateOnFault, SpeculatesOn
<1>2. PICK s : /\ Reached(test, Allowed(test), input, s)
               /\ s.mem = mem /\ s.x.pc = pc /\ s.x.reg = reg /\ s.x.mode.base = mode.base
               /\ MoreSet(test, s.x.mode, mode)
               /\ (test.contract \in AssistSpeculators => fault # "PF") =>
                     \E n : /\ Reached(test, Allowed(test), input, n)
                            /\ n.mem = mem /\ n.x.pc = HandlerOf(test) /\ n.x.reg = reg
                            /\ n.x.mode.base = mode.base /\ MoreSet(test, n.x.mode, mode)
    BY <1>1, FaultPath
<1>3. /\ phase' = "enter" /\ reg' = reg /\ mode' = mode /\ test' = test /\ input' = input
    BY FaultSummary
<1>4. /\ spec'.in_speculation => ArchMem' = mem
      /\ spec' = spec /\ mem' = mem => ArchMem' = mem
    BY BackStep, NoLogs, KeepsComesBack DEF Next, ComesBack, Tame
<1>5. CASE test.contract = "seq-assist" /\ spec' = spec /\ mem' = mem /\ pc' = pc
    BY <1>2, <1>3, <1>4, <1>5, PathAt
<1>6. CASE test.contract = "nullinj-assist" /\ ComesBackTo(pc, reg)
    BY <1>2, <1>3, <1>4, <1>6, PathAt DEF ComesBackTo
<1>7. CASE test.contract \in Opening \cup {"deh"} /\ ComesBackTo(HandlerOf(test), reg)
    <2>1. test.contract \notin AssistSpeculators
        BY <1>7 DEF Opening, AssistSpeculators
    <2>2. PICK n : /\ Reached(test, Allowed(test), input, n)
                   /\ n.mem = mem /\ n.x.pc = HandlerOf(test) /\ n.x.reg = reg
                   /\ n.x.mode.base = mode.base /\ MoreSet(test, n.x.mode, mode)
        BY <1>2, <2>1
    <2> QED
        BY <1>3, <1>4, <1>7, <2>2, PathAt DEF ComesBackTo
<1> QED
    BY <1>5, <1>6, <1>7, FaultSummary

LEMMA ArchitecturalFaultPath ==
    ASSUME ModelInv, StoresOK, Tame, PathInv, ArchitecturalFault
    PROVE  PathOK'
<1>1. phase = "stopped" /\ fault # "none" /\ ~spec.in_speculation /\ ~SpeculatesOn(fault)
    BY DEF ArchitecturalFault
<1>2. had_arch_fault = FALSE
    BY <1>1, FirstFault
<1>3. test.contract \in AssistSpeculators => fault # "PF"
    <2>1. Len(spec.ckpts) = 0
        BY <1>1, NoCheckpoints
    <2>2. test.contract \in AssistSpeculators => ~MaxNestingReached
        BY <2>1, ModelAssumption DEF MaxNestingReached, Tame
    <2> QED
        BY <1>1, <2>2 DEF SpeculatesOn, AssistSpeculators, NullSpeculators
<1>4. PICK n : /\ Reached(test, Allowed(test), input, n)
               /\ n.mem = mem /\ n.x.pc = HandlerOf(test) /\ n.x.reg = reg
               /\ n.x.mode.base = mode.base /\ MoreSet(test, n.x.mode, mode)
    BY <1>1, <1>3, FaultPath
<1>5. /\ phase' \in {"finished", "enter"} /\ pc' = HandlerOf(test) /\ reg' = reg /\ mem' = mem
      /\ mode' = mode /\ spec' = spec /\ test' = test /\ input' = input
    BY <1>2, Layout DEF ArchitecturalFault
<1>6. ArchMem' = mem
    BY <1>1, <1>5, NoLogs, KeepsComesBack
<1> QED
    BY <1>1, <1>4, <1>5, <1>6, PathAt

LEMMA LoadPath ==
    ASSUME ModelInv, ModelInv', LoadInput
    PROVE  PathOK'
<1> DEFINE s == StartOf(test, input)
<1>1. Reached(test, Allowed(test), input, s)
    BY ReachedStart DEF ModelInv, Scalars
<1>2. /\ s.mem = input.mem /\ s.x.pc = CodeStart /\ s.x.reg = input.reg
      /\ s.x.mode.base = 0 /\ MoreSet(test, s.x.mode, mode')
    BY DEF StartOf, FreshMode, MoreSet
<1>3. /\ phase' = "enter" /\ pc' = CodeStart /\ reg' = input.reg /\ mem' = input.mem
      /\ mode'.base = 0 /\ spec'.logs = <<>> /\ spec'.in_speculation = FALSE
      /\ test' = test /\ input' = input
    BY DEF LoadInput, FreshSpec, ModeAfterLoad, ModelInv, ModeOK, ModeState
<1>4. ArchMem' = input.mem
    <2>1. mem' \in [Cells -> Values]
        BY DEF ModelInv, Scalars
    <2> QED
        BY <1>3, <2>1, ArchEmpty, KeepsComesBack
<1> HIDE DEF s
<1> QED
    BY <1>1, <1>2, <1>3, <1>4, PathAt

\* The other steps execute nothing.
LEMMA StutterPath ==
    ASSUME ModelInv, Tame, PathInv, Enter \/ ReachExit \/ Stopped, ~spec.in_speculation
    PROVE  PathOK'
<1>1. /\ phase \in Running /\ phase # "execute" /\ phase' # "execute"
      /\ test' = test /\ input' = input /\ pc' = pc /\ reg' = reg /\ mem' = mem /\ spec' = spec
    BY DEF Enter, ReachExit, Stopped, machine, Running
<1>2. mode'.base = mode.base /\ MoreSet(test, mode, mode')
    <2>1. mode \in ModeState
        BY DEF ModelInv, ModeOK
    <2>2. mode' = mode \/ mode' = ModeAt(mode, pc)
        BY DEF Enter, ReachExit, Stopped, machine
    <2> QED
        BY <2>1, <2>2 DEF ModeAt, ModeState, MoreSet
<1>3. PICK s : /\ Reached(test, Allowed(test), input, s)
               /\ s.mem = mem /\ s.x.pc = pc /\ s.x.reg = reg
               /\ s.x.mode.base = mode.base /\ MoreSet(test, s.x.mode, mode)
    BY <1>1, HerePath
<1>4. MoreSet(test, s.x.mode, mode')
    BY <1>2, <1>3, MoreSetTrans
<1>5. ArchMem' = mem
    BY <1>1, NoLogs, KeepsComesBack
<1> QED
    BY <1>1, <1>2, <1>3, <1>4, <1>5, PathAt

LEMMA PathStep ==
    ASSUME ModelInv, ModelInv', StoresOK, Tame, PathInv, [Next]_vars
    PROVE  PathInv'
<1>1. Determined(test, mode)' /\ PermOK' /\ FaultsOK'
    BY TargetsStep, PermStep, FaultsStep DEF PathInv, Tame
<1>2. PathOK'
    <2>1. CASE UNCHANGED vars
        <3>1. PathOK' = PathOK
            BY <2>1 DEF vars, machine, PathOK, Matches, Pending, Agrees, ArchMem
        <3> QED
            BY <3>1 DEF PathInv
    <2>2. CASE phase' \notin Running
        BY <2>2 DEF PathOK
    <2>3. CASE LoadInput
        BY <2>3, LoadPath
    <2>4. CASE Next /\ phase' \in Running /\ ~LoadInput
        <3>1. phase \in Running
            BY <2>4 DEF Next, Enter, RecordTrace, InstructionHook, ReachExit, Execute,
               SpeculateOnFault, SquashFault, ArchitecturalFault, Stopped, Terminated, vars, Running
        <3>2. CASE spec.in_speculation
            BY <2>4, <3>1, <3>2, SpeculatingPath
        <3>3. CASE ~spec.in_speculation
            <4>1. ~SquashFault /\ ~RecordTrace
                BY <2>4, <3>3 DEF SquashFault, RecordTrace, Running
            <4> QED
                BY <2>1, <2>4, <3>3, <4>1, HookPath, ExecutePath, SpeculateOnFaultPath,
                   ArchitecturalFaultPath, StutterPath DEF Next, Terminated
        <3> QED
            BY <3>2, <3>3
    <2> QED
        BY <2>1, <2>2, <2>3, <2>4
<1> QED
    BY <1>1, <1>2 DEF PathInv

LEMMA InitPath == Init => PathInv
<1> SUFFICES ASSUME Init PROVE PathInv
    OBVIOUS
<1>1. phase = "load" /\ perm = "rw" /\ mode = FreshMode(test)
    BY DEF Init
<1>2. Determined(test, mode)
    BY <1>1 DEF Determined, FreshMode
<1>3. PermOK /\ FaultsOK /\ PathOK
    BY <1>1 DEF PermOK, FaultsOK, PathOK, Running
<1> QED
    BY <1>2, <1>3 DEF PathInv

LEMMA NoState ==
    ASSUME ModelInv, PathInv, Tame
    PROVE  SpeculationLeavesNoState
<1> SUFFICES ASSUME phase = "finished"
             PROVE  LET expected == SequentialResult(test, HandlerOf(test), Allowed(test), input)
                    IN reg = expected.x.reg /\ mem = expected.mem
    BY Layout DEF SpeculationLeavesNoState, Allowed
<1>1. ~spec.in_speculation /\ pc = ExitAddr(test) /\ test \in Tests
    BY NotSpeculating DEF ModelInv, Flow, Scalars, PathInv, FaultsOK
<1>2. PICK s : /\ Reached(test, Allowed(test), input, s)
               /\ s.mem = mem /\ s.x.pc = pc /\ s.x.reg = reg
    BY <1>1, HerePath DEF Running
<1>3. SequentialResult(test, HandlerOf(test), Allowed(test), input) = s
    BY <1>1, <1>2, ReachedEnd
<1> QED
    BY <1>2, <1>3

(* No speculation, of any speculator, at any depth, over any test case, is *)
(* visible in the end: registers and memory are what the same code leaves  *)
(* without any speculation (_execute_test_case_with_inputs, rollback).     *)
(* Tame leaves out three things that the code does not promise: the store  *)
(* that bpas redoes although it faulted; a test case that enters the user  *)
(* now at one function and then at another, since the targets of switches  *)
(* are not rolled back (_curr_targets of the interpreter); and assists     *)
(* with no nesting to begin in, where they fault instead.                  *)
THEOREM SpeculationNeverLeavesState == Spec => [](Tame => SpeculationLeavesNoState)
<1> DEFINE Inv == ModelInv /\ StoresOK /\ (Tame => PathInv)
<1>1. Init => Inv
    BY InitStep, InitStores, InitPath
<1>2. Inv /\ [Next]_vars => Inv'
    <2> SUFFICES ASSUME Inv, [Next]_vars PROVE Inv'
        OBVIOUS
    <2>1. ModelInv' /\ StoresOK'
        BY ModelInvStep, BackStep
    <2>2. Tame' => PathInv'
        BY <2>1, SameTest, PathStep
    <2> QED
        BY <2>1, <2>2
<1>3. Inv => (Tame => SpeculationLeavesNoState)
    BY NoState
<1> QED
    BY <1>1, <1>2, <1>3, PTL DEF Spec

=============================================================================
