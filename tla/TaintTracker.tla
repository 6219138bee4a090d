---------------------------- MODULE TaintTracker ----------------------------
(***************************************************************************)
(* UnicornTaintTracker: which locations of the input the contract trace    *)
(* depends on.  A tracker is a record:                                     *)
(*   on       _enable_tracking                                             *)
(*   deps     _dependencies: for every label (register or cell) the input  *)
(*            locations that its value may depend on.  A label without an  *)
(*            entry in the code's dictionaries depends on itself           *)
(*   cks      _checkpoints                                                 *)
(*   tainted  _tainted_labels                                              *)
(*   pend     _pending_taint                                               *)
(*   insn     _instruction, "none" between two instructions                *)
(*   reads, writes  the cells it accessed: src_mems and dest_mems          *)
(* Flags follow the rules of registers and are left out: the branches here *)
(* test a register.                                                        *)
(***************************************************************************)
EXTENDS Interpreter

CellLabel(c) == <<"m0", "m1">>[c + 1]
CellLabels == {CellLabel(c) : c \in Cells}
Labels == Regs \cup {"RIP"} \cup CellLabels

Trackers ==
    [on : BOOLEAN, deps : [Labels -> SUBSET Labels],
     cks : Seq([Labels -> SUBSET Labels]), tainted : SUBSET Labels, pend : SUBSET Labels,
     insn : Instructions \cup {"none"}, reads : SUBSET CellLabels, writes : SUBSET CellLabels]

(* reset, after set_enable_tracking(on).  The labels in initial are        *)
(* observed whatever the code does (_initial_observations).                *)
FreshTracker(on, initial) ==
    [on |-> on, deps |-> [l \in Labels |-> {l}], cks |-> <<>>, tainted |-> initial,
     pend |-> {}, insn |-> "none", reads |-> {}, writes |-> {}]

(* The registers, under the clauses that expose them. *)
InitialObservations(obs) == IF obs = "arch" THEN Regs ELSE {}

(* The dependencies of the source operands of the tracked instruction. *)
SourceDeps(t) == UNION {t.deps[l] : l \in Insn[t.insn].src \cup t.reads}

(* add_dependencies: every destination also keeps what it had. *)
Propagated(t) ==
    [l \in Labels |-> IF l \in Insn[t.insn].dst \cup t.writes
                      THEN t.deps[l] \cup SourceDeps(t)
                      ELSE t.deps[l]]

(* remove_overwritten_dependencies, on what add_dependencies made. *)
WithoutOverwritten(t, deps) ==
    [l \in Labels |-> IF Insn[t.insn].overwrites /\ l \in Insn[t.insn].dst
                      THEN deps[l] \cap SourceDeps(t)
                      ELSE deps[l]]

(* Mutant of Finalized: the overwritten dependencies go first. *)
FinalizedLate(t) ==
    LET deps == WithoutOverwritten(t, Propagated(t))
    IN [t EXCEPT !.tainted = @ \cup UNION {deps[l] : l \in t.pend},
                 !.deps = deps,
                 !.insn = "none"]

(* _finalize_instruction: the taints are taken before the overwritten      *)
(* dependencies go.                                                        *)
Finalized(t) ==
    LET deps == Propagated(t)
    IN [t EXCEPT !.tainted = @ \cup UNION {deps[l] : l \in t.pend},
                 !.deps = WithoutOverwritten(t, deps),
                 !.insn = "none"]

FinalizedIfAny(t) == IF t.insn = "none" THEN t ELSE Finalized(t)

(* track_instruction *)
TrackInstruction(t, insn) ==
    IF ~t.on THEN t
    ELSE [FinalizedIfAny(t) EXCEPT !.insn = insn, !.pend = {}, !.reads = {}, !.writes = {}]

(* track_memory_access; the assertion in it is TrackingStarted. *)
TrackMemoryAccess(t, c, is_write) ==
    IF ~t.on THEN t
    ELSE IF is_write THEN [t EXCEPT !.writes = @ \cup {CellLabel(c)}]
    ELSE [t EXCEPT !.reads = @ \cup {CellLabel(c)}]

TrackingStarted(t) == t.on => t.insn # "none"

(* taint("pc"), taint("mem") and taint("ld_val") *)
TaintPc(t) ==
    IF t.on /\ t.insn \in Branches THEN [t EXCEPT !.pend = @ \cup {"RIP"}] ELSE t

TaintMem(t) ==
    IF t.on /\ t.insn # "none" THEN [t EXCEPT !.pend = @ \cup Insn[t.insn].addr] ELSE t

TaintLoaded(t) ==
    IF t.on /\ t.insn # "none" THEN [t EXCEPT !.pend = @ \cup t.reads] ELSE t

(* Mutant of TrackerCheckpoint: none for a speculation that the previous   *)
(* instruction has triggered.                                              *)
TrackerCheckpointCurrent(t, include_current_inst) ==
    IF ~t.on \/ ~include_current_inst THEN t
    ELSE [FinalizedIfAny(t) EXCEPT !.cks = Append(@, FinalizedIfAny(t).deps)]

(* checkpoint and rollback; the assertion in rollback is Len(t.cks) > 0. *)
TrackerCheckpoint(t, include_current_inst) ==
    IF ~t.on THEN t
    ELSE LET u == IF include_current_inst THEN FinalizedIfAny(t) ELSE t
         IN [u EXCEPT !.cks = Append(@, u.deps)]

TrackerRollback(t) ==
    IF ~t.on THEN t
    ELSE [FinalizedIfAny(t) EXCEPT !.deps = t.cks[Len(t.cks)],
                                   !.cks = SubSeq(@, 1, Len(@) - 1)]

(* get_taint: the input locations whose value is kept by boosting. *)
GetTaint(t) == FinalizedIfAny(t).tainted \ {"RIP"}

(* generate_boosted: tainted values are copied, all others are random. *)
Boosted(input, taint) ==
    {i \in Inputs : /\ \A r \in Regs \cap taint : i.reg[r] = input.reg[r]
                    /\ \A c \in Cells : CellLabel(c) \in taint => i.mem[c] = input.mem[c]}

=============================================================================
