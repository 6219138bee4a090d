------------------------------ MODULE X86Passes ------------------------------
(***************************************************************************)
(* Instruction pools and instrumentation passes of the x86 code generator: *)
(* src/rvzr/isa_spec.py and src/rvzr/arch/x86/generator.py.  The passes    *)
(* rewrite one basic block, a sequence of instructions, so that it cannot  *)
(* fault and does not depend on undefined values.                          *)
(*                                                                         *)
(* Numbers are scaled: registers have 8 bits, addresses of which the upper *)
(* half is non-canonical, and a page has a few units of memory, of which   *)
(* an access takes one, two or four.  Of the flags, c, z, o and a (AF) are *)
(* told apart; SF and PF are like ZF.                                      *)
(***************************************************************************)
EXTENDS Integers, Bitwise, SequencesExt

CONSTANTS
    BoxMask,    \* the sandbox mask: the data area has BoxMask + 1 units
    PageSize,   \* units in the MAIN and in the FAULTY area
    U2kOffset   \* user_main_start - kernel_faulty_start

ASSUME PassesAssumption ==
    /\ PageSize \in Nat \ {0} /\ BoxMask = 2 * PageSize - 1
    /\ U2kOffset \in Nat \ {0}

-----------------------------------------------------------------------------
(* Instructions and operands.  A memory operand is [v], or [r14 + v] with  *)
(* base, less minus times the offset to the kernel's memory.               *)

Operand(t, v, n) == [t |-> t, v |-> v, n |-> n, base |-> FALSE, minus |-> 0]
Reg(r) == Operand("reg", r, 0)
Mem(r) == Operand("mem", r, 0)
Imm(n) == Operand("imm", "", n)

\* o explicit operands, im implicit memory operands; small is an 8-bit
\* division, far an access that was made non-canonical
Inst(op, o) == [op |-> op, o |-> o, im |-> <<>>, tag |-> FALSE, tmpl |-> FALSE,
                small |-> FALSE, far |-> FALSE]
Tagged(op, o) == [Inst(op, o) EXCEPT !.tag = TRUE]

MemAt(i) == {k \in DOMAIN i.o : i.o[k].t = "mem"}
HasMem(i) == MemAt(i) # {} \/ i.im # <<>>
\* instrumentation and the code of a template are left alone
IsFree(i) == ~i.tag /\ ~i.tmpl
IsDivision(i) == i.op \in {"div", "idiv"}

Flags == {"c", "z", "o", "a"}

\* flags that an instruction reads, writes and leaves undefined; bitwise
\* operations, among them every mask, leave AF undefined
FlagsOf(op) ==
    LET f(r, w, u) == [r |-> r, w |-> w, u |-> u]
    IN  CASE op \in {"add", "sub"} -> f({}, Flags, {})
          [] op \in {"and", "or", "xor"} -> f({}, {"c", "z", "o"}, {"a"})
          [] op \in {"shl", "shr"} -> f({}, {"c", "z"}, {"o", "a"})
          [] op = "imul" -> f({}, {"c", "o"}, {"z", "a"})
          [] op = "bsf" -> f({}, {"z"}, {"c", "o", "a"})
          [] op = "bt" -> f({}, {"c"}, {"o", "a"})
          [] op \in {"div", "idiv"} -> f({}, {}, Flags)
          [] op = "stc" -> f({}, {"c"}, {})
          [] op = "lahf" -> f({"c", "z", "a"}, {}, {})
          [] op = "setc" -> f({"c"}, {}, {})
          [] op \in {"cmovz", "jz"} -> f({"z"}, {}, {})
          [] op = "jo" -> f({"o"}, {}, {})
          [] OTHER -> f({}, {}, {})

-----------------------------------------------------------------------------
(* The instruction set.  A specification has operands with their possible  *)
(* registers; conf has the block and allow lists.                          *)

Blocked(conf) == conf.reg_block \ conf.reg_allow

\* is_supported: the allowlist is asked first, then categories, blocklist and
\* the registers of memory and implicit operands
IsSupported(spec, conf) ==
    \/ spec.name \in conf.allow
    \/ /\ spec.cat \in conf.categories
       /\ spec.name \notin conf.block
       /\ \A k \in DOMAIN spec.o :
             spec.o[k].t = "mem" /\ Cardinality(spec.o[k].vals) = 1
                => spec.o[k].vals \cap Blocked(conf) = {}
       /\ \A r \in spec.imp \cup ToSet(spec.im) : r \notin Blocked(conf)

\* blocked registers are taken from register operands
WithoutBlocked(spec, conf) ==
    [spec EXCEPT !.o = [k \in DOMAIN @ |->
        IF @[k].t = "reg" THEN [@[k] EXCEPT !.vals = @ \ Blocked(conf)] ELSE @[k]]]

\* _reduce: an instruction without any register left for an operand is gone
Reduced(specs, conf) ==
    {s \in {WithoutBlocked(s, conf) : s \in {t \in specs : IsSupported(t, conf)}} :
        \A k \in DOMAIN s.o : s.o[k].t = "reg" => s.o[k].vals # {}}

SpecHasMem(s) == s.im # <<>> \/ \E k \in DOMAIN s.o : s.o[k].t = "mem"
SpecHasWrite(s) == s.im # <<>> \/ \E k \in DOMAIN s.o : s.o[k].t = "mem" /\ s.o[k].dest

\* _set_categories
CondBranches(isa) == {s \in isa : s.cf /\ s.name # "jmp"}
NonMemory(isa) == {s \in isa : ~s.cf /\ ~SpecHasMem(s)}
Loads(isa) == {s \in isa : ~s.cf /\ SpecHasMem(s) /\ ~SpecHasWrite(s)}
Stores(isa) == {s \in isa : ~s.cf /\ SpecHasMem(s) /\ SpecHasWrite(s)}

\* the operand generator: every register of the specification, or every
\* index register for a memory operand without a list
OperandsOf(o, index) ==
    CASE o.t = "reg" -> {Reg(r) : r \in o.vals}
      [] o.t = "mem" -> {Mem(r) : r \in IF o.vals = {} THEN index ELSE o.vals}
      [] o.t = "imm" -> {Imm(n) : n \in o.imms}

\* the instructions that generate() may return for a specification
InstancesOf(s, index) ==
    LET all == UNION {OperandsOf(s.o[k], index) : k \in DOMAIN s.o}
    IN  {[Inst(s.name, o) EXCEPT !.im = s.im, !.small = s.small] :
            o \in {p \in [DOMAIN s.o -> all] :
                      \A k \in DOMAIN s.o : p[k] \in OperandsOf(s.o[k], index)}}

-----------------------------------------------------------------------------
(* X86PatchUndefinedFlagsPass.                                             *)

\* requires_sandbox
RequiresSandbox(i) == HasMem(i) \/ i.op \in {"div", "bt", "shl"}

\* the instructions of the pool that may be inserted, in the order of the
\* instruction set
PatchCandidates(order, pool) ==
    SelectSeq(order, LAMBDA i : /\ ~RequiresSandbox(i) /\ \E s \in pool : s.name = i.op
                                /\ FlagsOf(i.op).r = {} /\ FlagsOf(i.op).w # {})

\* mutant: what a patch leaves undefined itself is not looked at
FindFlagsPatchBlind(undef, toSet, cands) ==
    LET pick[k \in 0 .. Len(cands)] ==
            IF k = 0 THEN [undef |-> undef, patches |-> <<>>]
            ELSE LET p == pick[k - 1]
                     f == FlagsOf(cands[k].op)
                 IN  IF f.w \cap p.undef # {}
                     THEN [undef |-> p.undef \ f.w, patches |-> Append(p.patches, cands[k])]
                     ELSE p
    IN  pick[Len(cands)]

\* _find_flags_patch: candidates are taken in order if they set a flag that is
\* still undefined and leave none undefined that is needed and was not
FindFlagsPatch(undef, toSet, cands) ==
    LET pick[k \in 0 .. Len(cands)] ==
            IF k = 0 THEN [undef |-> undef, patches |-> <<>>]
            ELSE LET p == pick[k - 1]
                     f == FlagsOf(cands[k].op)
                 IN  IF (f.u \ p.undef) \cap toSet = {} /\ f.w \cap p.undef # {}
                     THEN [undef |-> p.undef \ f.w, patches |-> Append(p.patches, cands[k])]
                     ELSE p
    IN  pick[Len(cands)]

AsPatches(p) == [k \in DOMAIN p.patches |-> [p.patches[k] EXCEPT !.tag = TRUE]]
WrittenBy(is) == UNION {FlagsOf(is[k].op).w : k \in DOMAIN is}

\* _patch_flags_in_bb: from the last instruction to the first with the set of
\* flags that are read later.  Every patch is put right after the instruction,
\* so that a second one comes before the first.  Patches at the entry keep
\* their order, and need an instruction to stand before.
PatchFlags(body, terms, cands) ==
    LET start == [need |-> UNION {FlagsOf(terms[k].op).r : k \in DOMAIN terms},
                  out |-> <<>>, ok |-> TRUE, two |-> FALSE]
        walk[k \in 1 .. Len(body) + 1] ==
            IF k > Len(body) THEN start
            ELSE LET later == walk[k + 1]
                     f == FlagsOf(body[k].op)
                     p == FindFlagsPatch(f.u \cap later.need, later.need, cands)
                     ps == Reverse(AsPatches(p))
                 IN  IF body[k].tmpl THEN [later EXCEPT !.out = <<body[k]>> \o @]
                     ELSE [need |-> (((later.need \ WrittenBy(ps)) \ f.w) \cup f.r),
                           out |-> <<body[k]>> \o ps \o later.out,
                           ok |-> later.ok /\ p.undef = {},
                           two |-> later.two \/ Len(ps) > 1]
        all == walk[1]
        entry == FindFlagsPatch(all.need, all.need, cands)
        at == SelectInSeq(all.out, LAMBDA i : i.op # "macro")
    IN  IF all.need = {} THEN all
        ELSE IF at = 0 THEN [all EXCEPT !.ok = FALSE]
        ELSE [all EXCEPT !.ok = @ /\ entry.undef = {},
                         !.out = SubSeq(@, 1, at - 1) \o AsPatches(entry)
                                 \o SubSeq(@, at, Len(@))]
=============================================================================
