----------------------------- MODULE X86Sandbox -----------------------------
(***************************************************************************)
(* The passes of src/rvzr/arch/x86/generator.py that keep a block from     *)
(* faulting (X86SandboxPass, X86PatchUndefinedResultPass), and those that  *)
(* make it fault on purpose (X86NonCanonicalAddressPass, X86U2KAccessPass, *)
(* X86PatchOpcodesPass).                                                   *)
(*                                                                         *)
(* All instrumentation is inserted next to its instruction, so a pass maps *)
(* every instruction to the lines that replace it.  zero and overflow of   *)
(* the configuration are the division faults that are allowed.             *)
(***************************************************************************)
EXTENDS X86Passes

\* every instruction i of b replaced by the instructions with(i)
Expand(b, with(_)) == FlattenSeq([k \in DOMAIN b |-> with(b[k])])

Part(before, i, after) == [before |-> before, i |-> i, after |-> after]

-----------------------------------------------------------------------------
(* Memory accesses.                                                        *)

\* mutant: one bit too many
AddressMaskWide(i, conf) == 2 * BoxMask + 1

\* units of memory that one access takes (width of the memory operand)
Width(i) == IF i.op = "vload" THEN 4 ELSE IF i.small \/ i.op = "setc" THEN 1 ELSE 2

\* wide accesses, and locked ones on demand
IsAligned(i, conf) == i.op = "vload" \/ (conf.align /\ i.op = "xchg")

\* only where an access starts is masked; aligned ones lose the lowest bits
AddressMask(i, conf) == IF IsAligned(i, conf) THEN BoxMask - (Width(i) - 1) ELSE BoxMask

\* _sandbox_memory_access: [reg] becomes [r14 + reg] with reg masked; the
\* registers of implicit accesses are masked and moved into the sandbox for
\* the time of the instruction
SandboxMemory(i, conf) ==
    LET mask(r) == Tagged("and", <<Reg(r), Imm(AddressMask(i, conf))>>)
        base(op, r) == Tagged(op, <<Reg(r), Reg("r14")>>)
        uniq == SelectSeq([k \in DOMAIN i.im |-> k],
                          LAMBDA k : \A j \in 1 .. k - 1 : i.im[j] # i.im[k])
    IN  IF ~HasMem(i) THEN Part(<<>>, i, <<>>)
        ELSE IF i.im = <<>>
        THEN LET k == CHOOSE k \in MemAt(i) : TRUE
             IN  Part(<<mask(i.o[k].v)>>, [i EXCEPT !.o[k].base = TRUE], <<>>)
        ELSE Part(FlattenSeq([k \in DOMAIN uniq |->
                      <<mask(i.im[uniq[k]]), base("add", i.im[uniq[k]])>>]),
                  i,
                  Reverse([k \in DOMAIN uniq |-> base("sub", i.im[uniq[k]])]))

-----------------------------------------------------------------------------
(* Divisions.                                                              *)

\* the divisor is made non-zero and, for a signed division that must not
\* overflow, at least 8 away from zero
DivisorGuard(i, conf) ==
    IF conf.zero THEN <<>>
    ELSE IF i.op = "div" \/ conf.overflow THEN <<Tagged("or", <<i.o[1], Imm(1)>>)>>
    ELSE <<Tagged("or", <<i.o[1], Imm(8)>>), Tagged("and", <<i.o[1], Imm(248)>>)>>

\* mutant: one bit more is left of the upper half of the dividend
DividendGuardLoose(i) ==
    IF i.small THEN <<Tagged("mov", <<Reg("a"), Imm(1)>>)>>
    ELSE IF i.op = "idiv" THEN <<Tagged("and", <<Reg("d"), Imm(7)>>)>>
    ELSE <<Tagged("and", <<Reg("d"), i.o[1]>>)>>

\* the upper half of the dividend is made smaller than the divisor
DividendGuard(i) ==
    IF i.small THEN <<Tagged("mov", <<Reg("a"), Imm(1)>>)>>
    ELSE IF i.op = "idiv" THEN <<Tagged("and", <<Reg("d"), Imm(3)>>)>>
    ELSE <<Tagged("and", <<Reg("d"), i.o[1]>>), Tagged("shr", <<Reg("d"), Imm(1)>>)>>

\* divisions that cannot be instrumented: by D, through D, or 8 bits through A
IsHopeless(i) == i.o[1].v = "d" \/ (i.small /\ i.o[1].t = "mem" /\ i.o[1].v = "a")

\* _sandbox_division: what comes before the division, and whether it is kept
SandboxDivision(i, conf) ==
    IF ~i.small /\ conf.no_div64 THEN [before |-> <<>>, kept |-> FALSE]
    ELSE IF conf.overflow THEN [before |-> DivisorGuard(i, conf), kept |-> TRUE]
    ELSE IF IsHopeless(i) THEN [before |-> DivisorGuard(i, conf), kept |-> FALSE]
    ELSE [before |-> DivisorGuard(i, conf) \o DividendGuard(i), kept |-> TRUE]

-----------------------------------------------------------------------------
(* The other kinds of instructions.  rnd is the random number drawn.       *)

EncluLeaves == {0, 1, 4, 5, 6, 7}

\* _sandbox_bit_test: the offset stays within a byte.  The address has
\* already become r14 + reg, so it never equals the offset.
SandboxBitTest(i, rnd) ==
    IF i.o[1].t = "reg" THEN Part(<<>>, i, <<>>)
    ELSE IF i.o[2].t = "imm" THEN Part(<<>>, [i EXCEPT !.o[2].n = rnd], <<>>)
    ELSE Part(<<Tagged("and", <<i.o[2], Imm(7)>>)>>, i, <<>>)

\* 0xff, scaled so that the repetitions of the widest string instruction take
\* half a page, as they do in the code
RepMask == 1

\* _sandbox_repeated_instruction: between 1 and RepMask + 1 repetitions
SandboxRepeated(i) ==
    Part(<<Tagged("and", <<Reg("c"), Imm(RepMask)>>), Tagged("add", <<Reg("c"), Imm(1)>>)>>, i,
         <<>>)

SandboxOther(i, rnd) ==
    CASE i.op = "bt" -> SandboxBitTest(i, rnd)
      [] i.op = "rep" -> SandboxRepeated(i)
      [] i.op = "shl" -> Part(<<>>, i, <<Tagged("stc", <<>>)>>)
      [] i.op = "enclu" -> Part(<<Tagged("mov", <<Reg("a"), Imm(rnd)>>)>>, i, <<>>)
      [] OTHER -> Part(<<>>, i, <<>>)

\* X86SandboxPass: memory first, then the divisions and the rest; what a later
\* step inserts after the instruction comes before what is already there
Sandbox(b, conf, rnd) ==
    LET one(i) ==
          LET m == SandboxMemory(i, conf)
              d == SandboxDivision(m.i, conf)
              t == SandboxOther(m.i, rnd)
          IN  IF ~IsFree(i) THEN <<i>>
              ELSE IF IsDivision(i)
              THEN m.before \o d.before \o (IF d.kept THEN <<m.i>> ELSE <<>>) \o m.after
              ELSE m.before \o t.before \o <<t.i>> \o t.after \o m.after
    IN  Expand(b, one)

\* X86PatchUndefinedResultPass: the highest bit of what is scanned is set
PatchResult(b) ==
    Expand(b, LAMBDA i : IF IsFree(i) /\ i.op = "bsf"
                         THEN <<Tagged("or", <<i.o[2], Imm(128)>>), i>> ELSE <<i>>)

-----------------------------------------------------------------------------
(* Deliberate faults.                                                      *)

IsSource(i, k) == i.o[k].t = "reg" /\ ~(k = 1 /\ i.op \in {"mov", "vload", "bsf"})
MaskRegister(i) == IF \E k \in DOMAIN i.o : IsSource(i, k) /\ i.o[k].v = "a" THEN "b" ELSE "a"
OffsetRegister(i) == IF \E k \in DOMAIN i.o : i.o[k].t = "reg" /\ i.o[k].v = "c" THEN "d" ELSE "c"

\* candidates of X86NonCanonicalAddressPass, and of X86U2KAccessPass
MayBeFar(i) == IsFree(i) /\ ~IsDivision(i) /\ HasMem(i)
MayBeRedirected(i) == IsFree(i) /\ ~IsDivision(i) /\ MemAt(i) # {}

\* X86NonCanonicalAddressPass._instrument at place k of the block
MakeFar(b, k, mask) ==
    LET i == b[k]
        at == CHOOSE j \in MemAt(i) : TRUE
        off == OffsetRegister(i)
        new == <<Tagged("lea", <<Reg(off), i.o[at]>>),
                 Tagged("mov", <<Reg(MaskRegister(i)), Imm(mask)>>),
                 Tagged("xor", <<Reg(off), Reg(MaskRegister(i))>>),
                 [i EXCEPT !.o[at] = Mem(off), !.far = TRUE]>>
    IN  IF MemAt(i) = {} \/ i.im # <<>> THEN b
        ELSE SubSeq(b, 1, k - 1) \o new \o SubSeq(b, k + 1, Len(b))

\* an immediate larger than a page is cut down to it
SmallImm(i) == [i EXCEPT !.o = [j \in DOMAIN @ |->
                  IF @[j].t = "imm" /\ @[j].n > PageSize
                  THEN [@[j] EXCEPT !.n = @ % PageSize] ELSE @[j]]]

\* X86U2KAccessPass._instrument at the places ks of the block: the offset is
\* subtracted once more, and the masks right before it are cut to a page
Redirect(b, ks) ==
    LET own(j) == \E k \in ks : j < k /\ \A l \in j .. k - 1 : b[l].tag
        less(i) == [i EXCEPT !.o = [j \in DOMAIN @ |->
                       IF @[j].t = "mem" THEN [@[j] EXCEPT !.minus = @ + 1] ELSE @[j]]]
    IN  [j \in DOMAIN b |-> IF j \in ks THEN less(b[j])
                            ELSE IF own(j) THEN SmallImm(b[j]) ELSE b[j]]

\* X86PatchOpcodesPass: undefined instructions are written as bytes
PatchOpcodes(b) ==
    [k \in DOMAIN b |-> IF IsFree(b[k]) /\ b[k].op = "ud2"
                        THEN [b[k] EXCEPT !.op = "byte"] ELSE b[k]]
=============================================================================
