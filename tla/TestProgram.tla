---------------------------- MODULE TestProgram ----------------------------
(***************************************************************************)
(* What a test case is to the contract model: code with two registers, A   *)
(* for data and C for addresses and branch conditions, a sandbox of two    *)
(* cells, the second one on the faulty page, and the Unicorn emulator that *)
(* executes the code.  Branches go forward, as in every generated test     *)
(* case, and skip one instruction.  A test case t has the code t.body of   *)
(* the main actor and t.other of a second one, a user or a guest, which    *)
(* makes no access to memory; t.other is empty if there is one actor.      *)
(***************************************************************************)
EXTENDS Naturals, Sequences

Values == 0..1
Regs == {"A", "C"}
Cells == 0..1
FaultyCell == 1

Inputs == [reg : [Regs -> Values], mem : [Cells -> Values]]

(* The static operands of an instruction: the registers (and RIP) it reads *)
(* and writes, the register in the address of its memory operand (none for *)
(* the fixed address of cell 0), whether that operand is read or written,  *)
(* and whether the old value of the destination is lost (a 64-bit MOV).    *)
Op(src, dst, addr, access, overwrites) ==
    [src |-> src, dst |-> dst, addr |-> addr, access |-> access, overwrites |-> overwrites]

Macros ==
    {"measurement_start", "measurement_end", "switch", "set_k2u_target", "set_k2u_target_f2",
     "set_u2k_target", "switch_k2u", "switch_u2k", "landing_k2u", "landing_u2k",
     "set_h2g_target", "set_g2h_target", "switch_h2g", "switch_g2h", "landing_h2g", "landing_g2h"}

Instructions ==
    {"movCA", "loadA", "loadC", "addA", "storeA", "storeC", "store0", "load0", "div",
     "jcxz", "loop", "fence", "wbinvd"} \cup Macros

Insn ==
    [i \in Instructions |->
        CASE i = "movCA" -> Op({"A"}, {"C"}, {}, "none", TRUE)            \* mov C, A
          [] i = "loadA" -> Op({}, {"A"}, {"C"}, "read", TRUE)            \* mov A, [C]
          [] i = "loadC" -> Op({}, {"C"}, {"C"}, "read", TRUE)            \* mov C, [C]
          [] i = "addA" -> Op({"A"}, {"A"}, {"C"}, "read", FALSE)         \* add A, [C]
          [] i = "storeA" -> Op({"A"}, {}, {"C"}, "write", FALSE)         \* mov [C], A
          [] i = "storeC" -> Op({"C"}, {}, {"A"}, "write", FALSE)         \* mov [A], C
          [] i = "store0" -> Op({"A"}, {}, {}, "write", FALSE)            \* mov [0], A
          [] i = "load0" -> Op({}, {"C"}, {}, "read", TRUE)               \* mov C, [0]
          [] i = "div" -> Op({"A"}, {"A"}, {"C"}, "read", FALSE)          \* div [C]
          [] i = "jcxz" -> Op({"C", "RIP"}, {"RIP"}, {}, "none", FALSE)
          [] i = "loop" -> Op({"C", "RIP"}, {"C", "RIP"}, {}, "none", FALSE)
          [] OTHER -> Op({}, {}, {}, "none", FALSE)]   \* fence, wbinvd (privileged), macros

Branches == {"jcxz", "loop"}

-----------------------------------------------------------------------------
(* The layout of the code: in the section of main measurement_start at     *)
(* code_start, the body, measurement_end and the exit; in the section of   *)
(* the second actor its code, with a function at each of its first two     *)
(* instructions.                                                           *)
CodeStart == 1
EndAddr(t) == Len(t.body) + 2
ExitAddr(t) == Len(t.body) + 3
OtherStart == 20

ActorOf(a) == IF a >= OtherStart THEN 1 ELSE 0
InsnOf(t, a) ==
    CASE a = CodeStart -> "measurement_start"
      [] a = EndAddr(t) -> "measurement_end"
      [] a >= OtherStart -> t.other[a - OtherStart + 1]
      [] OTHER -> t.body[a - CodeStart]
LastAddr(t, actor) == IF actor = 1 THEN OtherStart + Len(t.other) - 1 ELSE EndAddr(t)

Target(t, pc) == IF pc + 2 <= LastAddr(t, ActorOf(pc)) THEN pc + 2 ELSE LastAddr(t, ActorOf(pc))

(* JCXZ jumps if C is 0, LOOP if C is not 0 after its decrement. *)
WillJump(insn, reg) == IF insn = "jcxz" THEN reg["C"] = 0 ELSE reg["C"] # 1

Decremented(reg) == [reg EXCEPT !["C"] = (@ + 1) % 2]

-----------------------------------------------------------------------------
(* The emulator. *)

Address(insn, reg) ==
    IF Insn[insn].addr = {} THEN 0 ELSE reg[CHOOSE r \in Insn[insn].addr : TRUE]

Stored(insn, reg) == reg[CHOOSE r \in Insn[insn].src : TRUE]

(* The registers after an instruction that does not fault. *)
RegsAfter(insn, reg, mem) ==
    CASE insn = "movCA" -> [reg EXCEPT !["C"] = reg["A"]]
      [] insn = "loadA" -> [reg EXCEPT !["A"] = mem[Address(insn, reg)]]
      [] insn \in {"loadC", "load0"} -> [reg EXCEPT !["C"] = mem[Address(insn, reg)]]
      [] insn = "addA" -> [reg EXCEPT !["A"] = (@ + mem[Address(insn, reg)]) % 2]
      [] insn = "div" -> [reg EXCEPT !["A"] = @ \div mem[Address(insn, reg)]]
      [] insn = "loop" -> Decremented(reg)
      [] OTHER -> reg

MemAfter(insn, reg, mem) ==
    IF Insn[insn].access = "write"
    THEN [mem EXCEPT ![Address(insn, reg)] = Stored(insn, reg)]
    ELSE mem

PcAfter(t, pc, reg) ==
    LET insn == InsnOf(t, pc)
    IN IF insn \in Branches /\ WillJump(insn, reg) THEN Target(t, pc) ELSE pc + 1

(* The fault of an instruction, with the permissions perm of the faulty    *)
(* page: a page fault, a division error, or none.                          *)
FaultOf(insn, reg, mem, perm) ==
    CASE /\ Insn[insn].access # "none" /\ Address(insn, reg) = FaultyCell
         /\ perm = "none" \/ (perm = "ro" /\ Insn[insn].access = "write") -> "PF"
      [] insn = "div" /\ mem[Address(insn, reg)] = 0 -> "DE"
      [] OTHER -> "none"

=============================================================================
