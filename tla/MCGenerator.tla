---------------------------- MODULE MCGenerator ----------------------------
(* The generator with a small instruction set, eight-bit registers, a data *)
(* area of two pages of 8 units at 64, and the kernel's FAULTY page at 32. *)
EXTENDS Generator

R(rs) == [t |-> "reg", vals |-> rs, dest |-> TRUE, imms |-> {}]
M(dest) == [t |-> "mem", vals |-> {}, dest |-> dest, imms |-> {}]
I(ns) == [t |-> "imm", vals |-> {}, dest |-> FALSE, imms |-> ns]
S(name, cat, o) == [name |-> name, cat |-> cat, cf |-> FALSE, o |-> o,
                    imp |-> {}, im |-> <<>>, small |-> FALSE]

MCSpecs ==
    {S("add", "alu", <<R({"b", "r14"}), R({"c"})>>),
     S("imul", "alu", <<R({"a"}), R({"b"})>>),
     S("shl", "shift", <<R({"a"})>>),
     S("stc", "flagop", <<>>), S("lahf", "flagop", <<>>),
     S("setc", "set", <<R({"b"})>>),
     S("cmovz", "set", <<R({"r14", "d"}), R({"b"})>>),
     S("mov", "mem", <<R({"a", "c"}), M(FALSE)>>),
     S("xchg", "mem", <<M(TRUE), R({"b"})>>),
     S("vload", "wide", <<R({"d"}), M(FALSE)>>),
     S("setc", "wide", <<M(TRUE)>>),
     S("bsf", "bits", <<R({"c"}), M(TRUE)>>),
     S("bsf", "bits", <<R({"c"}), R({"a"})>>),
     S("bt", "bits", <<M(TRUE), R({"b"})>>),
     S("bt", "bits", <<M(TRUE), I({0, 200})>>),
     S("div", "div", <<R({"a", "b", "d"})>>),
     S("div", "div", <<M(FALSE)>>),
     S("idiv", "div", <<R({"b"})>>),
     S("idiv", "div", <<M(FALSE)>>),
     [S("div", "div", <<M(FALSE)>>) EXCEPT !.small = TRUE],
     [S("idiv", "div", <<R({"a", "b"})>>) EXCEPT !.small = TRUE],
     [S("rep", "string", <<>>) EXCEPT !.imp = {"c"}, !.im = <<"si", "di", "si">>],
     [S("push", "string", <<>>) EXCEPT !.im = <<"rsp">>],
     S("enclu", "sgx", <<>>), S("ud2", "sgx", <<>>),
     [S("jz", "branch", <<>>) EXCEPT !.cf = TRUE],
     [S("jo", "branch", <<>>) EXCEPT !.cf = TRUE],
     [S("jmp", "branch", <<>>) EXCEPT !.cf = TRUE]}

Base == [reg_block |-> {"r14", "rsp"}, reg_allow |-> {}, allow |-> {}, block |-> {},
         categories |-> {}, align |-> FALSE, zero |-> FALSE, overflow |-> FALSE,
         no_div64 |-> FALSE, template |-> FALSE, blocks |-> {1}, min_succ |-> 1,
         max_succ |-> 2, size |-> 2, memory |-> TRUE, far |-> FALSE, u2k |-> FALSE,
         actor_block |-> {}]

MCConfigs ==
    {[Base EXCEPT !.categories = {"alu", "shift", "set", "mem", "bits", "wide", "flagop"}],
     [Base EXCEPT !.categories = {"alu", "shift", "set", "flagop"}, !.size = 3],
     [Base EXCEPT !.categories = {"string", "sgx", "mem"}, !.align = TRUE, !.block = {"setc"}],
     [Base EXCEPT !.categories = {"alu", "shift", "set", "branch"}, !.blocks = {2}],
     [Base EXCEPT !.categories = {"branch"}, !.allow = {"add", "setc"}, !.memory = FALSE,
                  !.blocks = {2, 3}, !.size = 3],
     [Base EXCEPT !.categories = {"mem", "bits"}, !.far = TRUE, !.u2k = TRUE],
     [Base EXCEPT !.categories = {"mem", "bits", "wide", "flagop"}, !.allow = {"add"},
                  !.template = TRUE, !.u2k = TRUE, !.actor_block = {"vload"}]}
    \cup {[Base EXCEPT !.categories = {"div", "mem"}, !.zero = z, !.overflow = o] :
             z \in BOOLEAN, o \in BOOLEAN}
    \cup {[Base EXCEPT !.categories = {"div"}, !.no_div64 = TRUE]}

\* candidates for patches: imul comes first and leaves z undefined
MCOrder == <<Inst("stc", <<>>), Inst("imul", <<Reg("a"), Reg("b")>>),
             Inst("add", <<Reg("b"), Reg("c")>>), Inst("shl", <<Reg("a")>>)>>

RandomMacro == Inst("random_instructions", <<Imm(1)>>)
MCTemplate ==
    [owner |-> "user", exit |-> <<>>,
     blocks |-> <<[body |-> <<Inst("mov", <<Reg("d"), Imm(0)>>), RandomMacro>>,
                   terms |-> <<>>, succ |-> <<2>>],
                  [body |-> <<RandomMacro>>, terms |-> <<>>, succ |-> <<3>>]>>]

MCInitRegs ==
    {[a |-> v[1], b |-> v[2], c |-> v[3], d |-> v[4], si |-> v[2], di |-> v[3],
      r14 |-> SandboxBase, m0 |-> v[5]] :
        v \in {<<0, 0, 0, 0, 0>>, <<255, 255, 255, 255, 255>>, <<16, 1, 200, 255, 8>>,
               <<255, 8, 31, 127, 1>>, <<128, 247, 15, 3, 248>>, <<31, 128, 16, 1, 127>>}}

MCActorConf == (Main :> [mode |-> "host", pl |-> "kernel"])
MCSectionOrder == <<Main>>
MCIndexRegs == {"a", "b", "d"}
=============================================================================
