----------------------------- MODULE HostState -----------------------------
(***************************************************************************)
(* The state of the host CPU around one measurement of the kernel module.  *)
(*                                                                         *)
(* trace_test_case (measurement.c) pins the CPU, installs its own IDT, and *)
(* runs run_experiment inside this "bubble".  run_experiment reprograms    *)
(* page tables, control registers, MSRs and the virtualization state, runs *)
(* the test case once per input under a second IDT, and calls              *)
(* recover_orig_state.  An exception at any point of the bubble jumps to   *)
(* the handlers of fault_handlers.S, which call recover_orig_state too     *)
(* unless they are already handling an exception; an NMI jumps out.        *)
(*                                                                         *)
(* A register is the set of its bits, so that 0 - which the code uses as   *)
(* "nothing was saved" - is the empty set.  Registers the module saves and *)
(* restores without changing them (FS, GS, GDTR, SYSCFG) are left out.     *)
(***************************************************************************)
EXTENDS Naturals

CONSTANTS
    Vendors,     \* the vendors to consider: "intel", "amd"
    HostMasks,   \* the values the host may have in the two maskable MSRs
    MaxIters,    \* bound: executions of the test case in one measurement
    Continue     \* bound: whether to measure again after an NMI or a nested
                 \* exception left the host in an unknown state

ASSUME VendorAssumption == Vendors \subseteq {"intel", "amd"}
ASSUME MasksAssumption == HostMasks \subseteq SUBSET {"mask", "other"}
ASSUME BoundsAssumption == MaxIters \in Nat /\ Continue \in BOOLEAN

VARIABLES
    vendor,      \* cpuinfo->x86_vendor
    pc,          \* the call that executes next; "idle" outside trace_test_case
    tc,          \* features of the loaded test case, and the MSR switches that are set
    pinned,      \* FPU claimed, preemption and interrupts off (pre_run)
    idt,         \* the IDT in force: "os", "bubble" or "tc"
    orig_idtr,   \* the IDT saved by set_outer_fault_handlers
    is_nested_fault,
    reg,         \* control registers and MSRs
    saved,       \* orig_special_registers_state
    pte,         \* PTEs of the sandbox: the faulty page, and all the others
    orig_ptes,   \* saved by store_orig_host_permissions
    faulty_pte,  \* saved by set_faulty_page_host_permissions
    vmxon,       \* the CPU is in VMX root operation
    vmcs,        \* the current VMCS
    is_on,       \* vmx_is_on / svm_is_on
    orig_vmxon,  \* orig_vmxon_state
    orig_vmcs,   \* orig_vmcs_ptr
    orig_hsave,  \* orig_host_ssa_hpa
    err,         \* err of run_experiment
    caller,      \* who called recover_orig_state
    iter,        \* executions of the test case so far
    orig,        \* history: the host state when the measurement started
    done         \* history: the set of what this and earlier measurements went through

hw == <<reg, pte, vmxon, vmcs>>
vm == <<is_on, orig_vmxon, orig_vmcs, orig_hsave>>
saves == <<saved, orig_ptes, faulty_pte, vm>>
vars == <<vendor, pc, tc, pinned, idt, orig_idtr, is_nested_fault, reg, saved, pte,
          orig_ptes, faulty_pte, vmxon, vmcs, is_on, orig_vmxon, orig_vmcs, orig_hsave, err, caller,
          iter, orig, done>>

Registers == {"cr", "efer", "lstar", "spec", "pref", "hsave"}
SavedRegisters == Registers \ {"hsave"}
Pages == {"faulty", "rest"}
PteValues == {"host", "user", "fault", "zero", "junk", "null"}
Bits == {"other", "mask", "PCE", "VMXE", "SVME", "os", "handler", "host", "km"}
Zero == {}                                   \* the integer 0 of a register

\* What test_case_store and the sysfs switches can leave behind: the parser
\* sets at most one of the two actor features (test_case_parser.c:183-192).
TestCases == {t \in SUBSET {"user", "vm", "ssbp", "pref"} : ~({"user", "vm"} \subseteq t)}


\* Steps of the bubble, in the order of the code; an exception in one of them
\* is taken by a handler of fault_handlers.S.
SetupSteps == {"page_tables", "store_regs", "ssbp", "prefetcher", "control",
               "actor_regs", "vm_start", "vm_store", "vm_set"}
LoopSteps == {"faulty", "inner", "execute", "uninner", "unfaulty"}
RecoverSteps == {"rec_vm", "rec_faulty", "rec_regs", "rec_pt"}
Bubble == SetupSteps \cup LoopSteps \cup RecoverSteps
PCs == {"idle", "outer", "exit", "post"} \cup Bubble

ControlTypeOK ==
    /\ pc \in PCs /\ tc \in TestCases /\ pinned \in BOOLEAN
    /\ idt \in {"os", "bubble", "tc"} /\ orig_idtr \in {"null", "os"}
    /\ is_nested_fault \in BOOLEAN /\ err \in BOOLEAN
    /\ caller \in {"cleanup", "handler"} /\ iter \in Nat
    /\ done \in SUBSET {"nmi", "nested", "ptes", "vm_start", "vm_store"}

RegTypeOK ==
    /\ reg \in [Registers -> SUBSET Bits]
    /\ saved \in [SavedRegisters -> SUBSET Bits]
    /\ orig_hsave \in SUBSET Bits

PteTypeOK ==
    /\ pte \in [Pages -> PteValues] /\ orig_ptes \in [Pages -> PteValues]
    /\ faulty_pte \in PteValues

VmTypeOK ==
    /\ vmxon \in BOOLEAN /\ vmcs \in {"none", "host", "km"}
    /\ is_on \in BOOLEAN /\ orig_vmxon \in BOOLEAN
    /\ orig_vmcs \in {"null", "none", "host", "km"}

TypeOK ==
    /\ vendor \in Vendors /\ ControlTypeOK /\ RegTypeOK /\ PteTypeOK /\ VmTypeOK
    /\ orig \in [reg : [Registers -> SUBSET Bits], pte : [Pages -> PteValues],
                 vmxon : BOOLEAN, vmcs : {"none", "host", "km"}]

\* Which virtualization state the host can own on this vendor.
HostVmx == IF vendor = "intel" THEN BOOLEAN ELSE {FALSE}
HostSaveAreas == IF vendor = "amd" THEN {Zero, {"host"}} ELSE {Zero}

\* Freshly loaded module: the allocations of init_special_register_manager,
\* init_page_table_manager and init_vmx/init_svm are zeroed.  The host may be
\* using VMX itself (KVM), which shows in CR4.VMXE.
Init ==
    /\ vendor \in Vendors
    /\ pc = "idle" /\ pinned = FALSE
    /\ tc = {}
    /\ idt = "os" /\ orig_idtr = "null" /\ is_nested_fault = FALSE
    /\ vmxon \in HostVmx
    /\ vmcs \in (IF vmxon THEN {"none", "host"} ELSE {"none"})
    /\ \E spec, pref \in HostMasks, hsave \in HostSaveAreas :
          reg = [r \in Registers |->
                    CASE r = "cr" -> {"other"} \cup (IF vmxon THEN {"VMXE"} ELSE {})
                      [] r = "efer" -> {"other"}
                      [] r = "lstar" -> {"os"}
                      [] r = "spec" -> spec
                      [] r = "pref" -> pref
                      [] OTHER -> hsave]
    /\ saved = [r \in SavedRegisters |-> Zero]
    /\ pte = [p \in Pages |-> "host"]
    /\ orig_ptes = [p \in Pages |-> "zero"] /\ faulty_pte = "zero"
    /\ is_on = FALSE /\ orig_vmxon = FALSE /\ orig_vmcs = "null" /\ orig_hsave = Zero
    /\ err = FALSE /\ caller = "cleanup" /\ iter = 0
    /\ orig = [reg |-> reg, pte |-> pte, vmxon |-> vmxon, vmcs |-> vmcs]
    /\ done = {}

\* Nothing has gone wrong that the handlers do not claim to recover from: an
\* NMI, or an exception during the recovery from an exception ("Revizor
\* currently does not support handling of multiple faults", fault_handlers.S).
Clean == done \cap {"nmi", "nested"} = {}

-----------------------------------------------------------------------------
(* Entering the bubble.                                                    *)

\* trace_test_case up to run_experiment_outer, with whatever test case and MSR
\* switches were stored since the last measurement.  The early returns of
\* pre_run precede every change of the host and are not steps.
PreRun ==
    /\ pc = "idle" /\ (Clean \/ Continue)
    /\ tc' \in TestCases
    /\ pinned' = TRUE /\ pc' = "outer"
    /\ orig' = [reg |-> reg, pte |-> pte, vmxon |-> vmxon, vmcs |-> vmcs]
    /\ done' = done \ {"ptes", "vm_start", "vm_store"}
    /\ UNCHANGED <<idt, orig_idtr, is_nested_fault, hw, saves, err, caller, iter>>

\* set_outer_fault_handlers
SetOuterFaultHandlers ==
    /\ pc = "outer" /\ pc' = "page_tables"
    /\ orig_idtr' = idt /\ idt' = "bubble" /\ is_nested_fault' = FALSE
    /\ UNCHANGED <<tc, pinned, hw, saves, err, caller, iter, orig, done>>

\* run_experiment jumps to its cleanup label with err set.
Fail ==
    /\ err' = TRUE /\ caller' = "cleanup" /\ pc' = "rec_vm"

-----------------------------------------------------------------------------
(* run_experiment: setting up the environment.                             *)

\* Faulty variant: the permissions are recorded after they were changed.
SetSandboxPageTablesRecordsLate ==
    /\ pc = "page_tables" /\ pc' = "store_regs"
    /\ pte' = IF "user" \in tc THEN [p \in Pages |-> "user"] ELSE pte
    /\ orig_ptes' = pte'
    /\ done' = done \cup {"ptes"}
    /\ UNCHANGED <<tc, pinned, idt, orig_idtr, is_nested_fault, reg, saved, faulty_pte, vmxon,
                   vmcs, vm, err, caller, iter, orig>>

\* set_sandbox_page_tables = store_orig_host_permissions + set_user_pages
SetSandboxPageTables ==
    /\ pc = "page_tables" /\ pc' = "store_regs"
    /\ orig_ptes' = pte
    /\ pte' = IF "user" \in tc THEN [p \in Pages |-> "user"] ELSE pte
    /\ done' = done \cup {"ptes"}
    /\ UNCHANGED <<tc, pinned, idt, orig_idtr, is_nested_fault, reg, saved, faulty_pte, vmxon,
                   vmcs, vm, err, caller, iter, orig>>

\* store_orig_host_permissions cannot grow its arrays for more actors: they are
\* gone, and faulty_ptes is shorter than the loops over the actors.
SetSandboxPageTablesFails ==
    /\ pc = "page_tables" /\ Fail
    /\ orig_ptes' = [p \in Pages |-> "null"] /\ faulty_pte' = "junk"
    /\ UNCHANGED <<tc, pinned, idt, orig_idtr, is_nested_fault, hw, saved, vm, iter, orig, done>>

\* store_orig_msr_state
StoreOrigMsrState ==
    /\ pc = "store_regs" /\ pc' = "ssbp"
    /\ saved' = [saved EXCEPT !["cr"] = reg["cr"], !["efer"] = reg["efer"],
                              !["lstar"] = reg["lstar"]]
    /\ UNCHANGED <<tc, pinned, idt, orig_idtr, is_nested_fault, hw, orig_ptes, faulty_pte, vm,
                   err, caller, iter, orig, done>>

\* apply_msr_mask: the value it writes; an MSR that does not take it is an error.
apply_msr_mask(value, enable) ==
    IF enable THEN value \cup {"mask"} ELSE value \ {"mask"}

\* Faulty variant: the MSR is saved after the mask was applied.
SetMaskedMsrSavesLate(step, r, enable, next) ==
    /\ pc = step /\ pc' = next
    /\ reg' = [reg EXCEPT ![r] = apply_msr_mask(reg[r], enable)]
    /\ saved' = [saved EXCEPT ![r] = reg'[r]]
    /\ UNCHANGED <<tc, pinned, idt, orig_idtr, is_nested_fault, pte, orig_ptes, faulty_pte, vmxon,
                   vmcs, vm, err, caller, iter, orig, done>>

\* The SSBP and the prefetcher part of set_special_registers.
SetMaskedMsr(step, r, enable, next) ==
    /\ pc = step
    /\ saved' = [saved EXCEPT ![r] = reg[r]]
    /\ \/ /\ reg' = [reg EXCEPT ![r] = apply_msr_mask(reg[r], enable)]
          /\ pc' = next
          /\ UNCHANGED <<err, caller>>
       \/ apply_msr_mask(reg[r], enable) # reg[r] /\ Fail /\ UNCHANGED reg
    /\ UNCHANGED <<tc, pinned, idt, orig_idtr, is_nested_fault, pte, orig_ptes, faulty_pte, vmxon,
                   vmcs, vm, iter, orig, done>>

SetSsbpPatch == SetMaskedMsr("ssbp", "spec", "ssbp" \in tc, "prefetcher")
SetPrefetchers == SetMaskedMsr("prefetcher", "pref", "pref" \notin tc, "control")

\* get_ssbp_patch_msr_ctrls knows no SSBP control for this CPU: the value that
\* is saved and later written back is that of MSR 0, not of the SSBP control.
NoSsbpPatch ==
    /\ pc = "ssbp" /\ Fail
    /\ UNCHANGED <<tc, pinned, idt, orig_idtr, is_nested_fault, hw, saves, iter, orig, done>>

\* CR0.CD cleared (it is clear on a running kernel), CR4.PCE set
SetControlRegisters ==
    /\ pc = "control" /\ pc' = "actor_regs"
    /\ reg' = [reg EXCEPT !["cr"] = @ \cup {"PCE"}]
    /\ UNCHANGED <<tc, pinned, idt, orig_idtr, is_nested_fault, pte, vmxon, vmcs, saves, err,
                   caller, iter, orig, done>>

\* Faulty variant: CR4.VMXE is left to the host.
SetMsrsForActorsWithoutVmxe ==
    /\ pc = "actor_regs"
    /\ reg' = [reg EXCEPT !["lstar"] = IF "user" \in tc THEN {"handler"} ELSE @]
    /\ pc' = IF "vm" \in tc THEN "vm_start" ELSE "faulty"
    /\ UNCHANGED <<tc, pinned, idt, orig_idtr, is_nested_fault, pte, vmxon, vmcs, saves, err,
                   caller, iter, orig, done>>

\* set_msrs_for_user_actors, set_msrs_for_vmx, set_msrs_for_svm; the last one
\* fails when the BIOS locked SVM.
SetMsrsForActors ==
    /\ pc = "actor_regs"
    /\ \/ /\ reg' = [reg EXCEPT
                       !["lstar"] = IF "user" \in tc THEN {"handler"} ELSE @,
                       !["cr"] = IF "vm" \in tc /\ vendor = "intel" THEN @ \cup {"VMXE"} ELSE @,
                       !["efer"] = IF "vm" \in tc /\ vendor = "amd" THEN @ \cup {"SVME"} ELSE @]
          /\ pc' = IF "vm" \in tc THEN "vm_start" ELSE "faulty"
          /\ UNCHANGED <<err, caller>>
       \/ "vm" \in tc /\ vendor = "amd" /\ Fail /\ UNCHANGED reg
    /\ UNCHANGED <<tc, pinned, idt, orig_idtr, is_nested_fault, pte, vmxon, vmcs, saves, iter,
                   orig, done>>

\* start_vmx_operation / start_svm_operation
StartVmx ==
    /\ pc = "vm_start" /\ vendor = "intel"
    /\ LET on == "VMXE" \in saved["cr"] IN
          \/ /\ orig_vmxon' = on /\ is_on' = TRUE
             /\ vmxon' = IF on THEN vmxon ELSE TRUE
             /\ vmcs' = IF on THEN vmcs ELSE "none"
             /\ pc' = "vm_store"
             /\ done' = done \cup {"vm_start"}
             /\ UNCHANGED <<err, caller>>
          \/ /\ ~on /\ Fail                                    \* VMXON failed
             /\ orig_vmxon' = on
             /\ UNCHANGED <<is_on, vmxon, vmcs, done>>
    /\ UNCHANGED <<tc, pinned, idt, orig_idtr, is_nested_fault, reg, pte, saved, orig_ptes,
                   faulty_pte, orig_vmcs, orig_hsave, iter, orig>>

StartSvm ==
    /\ pc = "vm_start" /\ vendor = "amd" /\ pc' = "vm_store"
    /\ orig_hsave' = reg["hsave"] /\ is_on' = TRUE
    /\ reg' = [reg EXCEPT !["hsave"] = {"km"}]
    /\ done' = done \cup {"vm_start"}
    /\ UNCHANGED <<tc, pinned, idt, orig_idtr, is_nested_fault, pte, vmxon, vmcs, saved,
                   orig_ptes, faulty_pte, orig_vmxon, orig_vmcs, err, caller, iter, orig>>

\* store_orig_vmcs_state / store_orig_vmcb_state
StoreOrigVmState ==
    /\ pc = "vm_store"
    /\ \/ /\ orig_vmcs' = IF vendor = "intel" /\ orig_vmxon THEN vmcs ELSE orig_vmcs
          /\ pc' = "vm_set"
          /\ done' = done \cup {"vm_store"}
          /\ UNCHANGED <<err, caller>>
       \/ vendor = "intel" /\ orig_vmxon /\ Fail /\ UNCHANGED <<orig_vmcs, done>>
    /\ UNCHANGED <<tc, pinned, idt, orig_idtr, is_nested_fault, hw, saved, orig_ptes, faulty_pte,
                   is_on, orig_vmxon, orig_hsave, iter, orig>>

\* set_vmcs_state / set_vmcb_state: may fail before or after the VMPTRLD
SetVmState ==
    /\ pc = "vm_set"
    /\ \/ /\ vmcs' = IF vendor = "intel" THEN "km" ELSE vmcs
          /\ pc' = "faulty"
          /\ UNCHANGED <<err, caller>>
       \/ vmcs' \in (IF vendor = "intel" THEN {vmcs, "km"} ELSE {vmcs}) /\ Fail
    /\ UNCHANGED <<tc, pinned, idt, orig_idtr, is_nested_fault, reg, pte, vmxon, saves, iter,
                   orig, done>>
-----------------------------------------------------------------------------
(* run_experiment: the loop over the inputs.                               *)

\* load_sandbox_data, then set_faulty_page_permissions: the PTE is written only
\* when the permissions of the actors ask for a different value.
SetFaultyPagePermissions ==
    /\ pc = "faulty" /\ pc' = "inner"
    /\ faulty_pte' = pte["faulty"]
    /\ pte' \in {pte, [pte EXCEPT !["faulty"] = "fault"]}
    /\ UNCHANGED <<tc, pinned, idt, orig_idtr, is_nested_fault, reg, vmxon, vmcs, saved,
                   orig_ptes, vm, err, caller, iter, orig, done>>

\* set_inner_fault_handlers
SetInnerFaultHandlers ==
    /\ pc = "inner" /\ pc' = "execute"
    /\ idt' = "tc" /\ is_nested_fault' = FALSE
    /\ UNCHANGED <<tc, pinned, orig_idtr, hw, saves, err, caller, iter, orig, done>>

\* The call of loaded_test_case_entry returns, possibly with an error.
ExecuteTestCase ==
    /\ pc = "execute" /\ pc' = "uninner"
    /\ err' \in BOOLEAN
    /\ UNCHANGED <<tc, pinned, idt, orig_idtr, is_nested_fault, hw, saves, caller, iter, orig,
                   done>>

\* unset_inner_fault_handlers
UnsetInnerFaultHandlers ==
    /\ pc = "uninner" /\ pc' = "unfaulty"
    /\ idt' = "bubble"
    /\ UNCHANGED <<tc, pinned, orig_idtr, is_nested_fault, hw, saves, err, caller, iter, orig,
                   done>>

\* restore_faulty_page_permissions, then the next input, or cleanup after an
\* error, a corrupted measurement or the last input
RestoreFaultyPagePermissions ==
    /\ pc = "unfaulty"
    /\ pte' = [pte EXCEPT !["faulty"] = faulty_pte]
    /\ iter' = iter + 1
    /\ \/ ~err /\ iter + 1 < MaxIters /\ pc' = "faulty" /\ UNCHANGED caller
       \/ pc' = "rec_vm" /\ caller' = "cleanup"
    /\ UNCHANGED <<tc, pinned, idt, orig_idtr, is_nested_fault, reg, vmxon, vmcs, saves, err,
                   orig, done>>

-----------------------------------------------------------------------------
(* recover_orig_state, called by run_experiment and by the fault handlers. *)

\* Faulty variant: VMX is switched off whoever switched it on.
RecoverVmAlwaysOff ==
    /\ pc = "rec_vm" /\ pc' = "rec_faulty"
    /\ LET off == "vm" \in tc /\ is_on /\ vendor = "intel" IN
          /\ vmcs' = IF off THEN "none" ELSE vmcs
          /\ vmxon' = (vmxon /\ ~off)
          /\ is_on' = (is_on /\ "vm" \notin tc)
    /\ UNCHANGED <<tc, pinned, idt, orig_idtr, is_nested_fault, reg, pte, saved, orig_ptes,
                   faulty_pte, orig_vmxon, orig_vmcs, orig_hsave, err, caller, iter, orig, done>>

\* restore_orig_vmcs_state, stop_vmx_operation / stop_svm_operation
RecoverVm ==
    /\ pc = "rec_vm" /\ pc' = "rec_faulty"
    /\ IF "vm" \notin tc THEN UNCHANGED <<reg, vmxon, vmcs, is_on>>
       ELSE IF vendor = "intel"
       THEN LET reload == orig_vmxon /\ is_on /\ orig_vmcs \notin {"null", "none"}
                off == is_on /\ ~orig_vmxon
            IN /\ vmcs' = IF off THEN "none" ELSE IF reload THEN orig_vmcs ELSE vmcs
               /\ vmxon' = (vmxon /\ ~off)
               /\ is_on' = FALSE
               /\ UNCHANGED reg
       ELSE /\ reg' = [reg EXCEPT !["hsave"] = orig_hsave]
            /\ is_on' = FALSE
            /\ UNCHANGED <<vmxon, vmcs>>
    /\ UNCHANGED <<tc, pinned, idt, orig_idtr, is_nested_fault, pte, saved, orig_ptes, faulty_pte,
                   orig_vmxon, orig_vmcs, orig_hsave, err, caller, iter, orig, done>>

\* restore_faulty_page_host_permissions: unconditional
RecoverFaultyPage ==
    /\ pc = "rec_faulty" /\ pc' = "rec_regs"
    /\ pte' = [pte EXCEPT !["faulty"] = faulty_pte]
    /\ UNCHANGED <<tc, pinned, idt, orig_idtr, is_nested_fault, reg, vmxon, vmcs, saves, err,
                   caller, iter, orig, done>>

\* restore_special_registers: what was saved as 0 is not written back
RestoreSpecialRegisters ==
    /\ pc = "rec_regs" /\ pc' = "rec_pt"
    /\ reg' = [r \in Registers |->
                 IF r \in SavedRegisters /\ saved[r] # Zero THEN saved[r] ELSE reg[r]]
    /\ saved' = [r \in SavedRegisters |-> Zero]
    /\ UNCHANGED <<tc, pinned, idt, orig_idtr, is_nested_fault, pte, vmxon, vmcs, orig_ptes,
                   faulty_pte, vm, err, caller, iter, orig, done>>

\* restore_orig_host_permissions; without its arrays it can only fault.  Then
\* run_experiment returns, or the handler enters .run_experiment_recovery,
\* which returns error code 1 in its place.
RestoreOrigPageTables ==
    /\ pc = "rec_pt" /\ pc' = "exit"
    /\ orig_ptes["rest"] # "null"
    /\ pte' = orig_ptes
    /\ err' = (err \/ caller = "handler")
    /\ UNCHANGED <<tc, pinned, idt, orig_idtr, is_nested_fault, reg, vmxon, vmcs, saves, caller,
                   iter, orig, done>>

-----------------------------------------------------------------------------
(* fault_handlers.S                                                        *)

\* Faulty variant: the handlers do not notice that they handle an exception.
ExceptionAlwaysRecovers ==
    /\ pc \in Bubble
    /\ pc' = "rec_vm" /\ caller' = "handler"
    /\ UNCHANGED <<tc, pinned, idt, orig_idtr, is_nested_fault, hw, saves, err, iter, orig, done>>

\* test_case_handler and bubble_handler: the first exception is recovered
\* from, one more during that leaves at once.
Exception ==
    /\ pc \in Bubble
    /\ IF is_nested_fault
       THEN /\ pc' = "exit" /\ err' = TRUE
            /\ done' = done \cup {"nested"}
            /\ UNCHANGED <<is_nested_fault, caller>>
       ELSE /\ is_nested_fault' = TRUE
            /\ pc' = "rec_vm" /\ caller' = "handler"
            /\ UNCHANGED <<err, done>>
    /\ UNCHANGED <<tc, pinned, idt, orig_idtr, hw, saves, iter, orig>>

\* Faulty variant: the handler returns past unset_outer_fault_handlers.
NmiSkipsIdt ==
    /\ pc \in Bubble \cup {"exit"}
    /\ pc' = "post" /\ err' = TRUE /\ is_nested_fault' = TRUE
    /\ done' = done \cup {"nmi"}
    /\ UNCHANGED <<tc, pinned, idt, orig_idtr, hw, saves, caller, iter, orig>>

\* nmi_handler: to .run_experiment_recovery, from anywhere under our IDTs
Nmi ==
    /\ pc \in Bubble \cup {"exit"}
    /\ pc' = "exit" /\ err' = TRUE /\ is_nested_fault' = TRUE
    /\ done' = done \cup {"nmi"}
    /\ UNCHANGED <<tc, pinned, idt, orig_idtr, hw, saves, caller, iter, orig>>

\* .run_experiment_normal_exit: unset_outer_fault_handlers
UnsetOuterFaultHandlers ==
    /\ pc = "exit" /\ pc' = "post"
    /\ idt' = IF orig_idtr # "null" THEN orig_idtr ELSE idt
    /\ UNCHANGED <<tc, pinned, orig_idtr, is_nested_fault, hw, saves, err, caller, iter, orig,
                   done>>

\* post_run, and the return of trace_test_case, whose locals are gone
PostRun ==
    /\ pc = "post" /\ pc' = "idle"
    /\ pinned' = FALSE /\ err' = FALSE /\ caller' = "cleanup" /\ iter' = 0
    /\ UNCHANGED <<tc, idt, orig_idtr, is_nested_fault, hw, saves, orig, done>>

-----------------------------------------------------------------------------
\* Between measurements the host may start or stop using virtualization.
HostActivity ==
    /\ pc = "idle"
    /\ vmxon' \in HostVmx
    /\ vmcs' \in (IF vmxon' THEN {"none", "host"} ELSE {"none"})
    /\ \E hsave \in HostSaveAreas :
          reg' = [reg EXCEPT !["hsave"] = hsave,
                             !["cr"] = IF vmxon' THEN @ \cup {"VMXE"} ELSE @ \ {"VMXE"}]
    /\ UNCHANGED <<pc, tc, pinned, idt, orig_idtr, is_nested_fault, pte, saves, err, caller, iter,
                   orig, done>>

\* The straight-line code of the module.
Step ==
    \/ SetOuterFaultHandlers \/ SetSandboxPageTables \/ SetSandboxPageTablesFails
    \/ StoreOrigMsrState \/ SetSsbpPatch \/ NoSsbpPatch \/ SetPrefetchers
    \/ SetControlRegisters \/ SetMsrsForActors
    \/ StartVmx \/ StartSvm \/ StoreOrigVmState \/ SetVmState
    \/ SetFaultyPagePermissions \/ SetInnerFaultHandlers \/ ExecuteTestCase
    \/ UnsetInnerFaultHandlers \/ RestoreFaultyPagePermissions
    \/ RecoverVm \/ RecoverFaultyPage \/ RestoreSpecialRegisters \/ RestoreOrigPageTables
    \/ UnsetOuterFaultHandlers \/ PostRun

Next == (PreRun \/ Step \/ Exception \/ Nmi \/ HostActivity) /\ UNCHANGED vendor

\* The CPU runs the module's code with interrupts off, so an enabled step is
\* executed; a NULL dereference is an exception the CPU does raise.
Spec ==
    /\ Init /\ [][Next]_vars
    /\ WF_vars(/\ Step \/ (pc = "rec_pt" /\ orig_ptes["rest"] = "null" /\ Exception)
               /\ UNCHANGED vendor)

-----------------------------------------------------------------------------
(* Properties.                                                             *)

\* Whatever exceptions and NMIs hit the bubble, and wherever they hit it, the
\* host's own IDT is back before run_experiment_outer returns, and code of the
\* measurement never runs under it.  Every variable has its type.
IdtRestored ==
    /\ TypeOK
    /\ pc \in {"idle", "outer", "post"} <=> idt = "os"
    /\ pc = "execute" => idt = "tc"

\* After a measurement that ended normally, with an error at any step of the
\* setup, or with an exception anywhere, every register that recover_orig_state
\* handles has the value the host had in it, unless that value was 0.
RegistersRestored ==
    pc = "post" /\ Clean =>
        \A r \in SavedRegisters : orig.reg[r] # Zero => reg[r] = orig.reg[r]

\* Once the original PTEs were recorded, all sandbox pages get them back, even
\* when recovery starts before the faulty page was ever changed, where
\* restore_faulty_page_host_permissions writes a stale or zero entry.
PageTablesRestored ==
    pc = "post" /\ Clean /\ "ptes" \in done => pte = orig.pte

\* VMX root operation is left iff the module entered it, and a VMCS or host
\* save area of another hypervisor is current again once it was recorded.
VmRestored ==
    pc = "post" /\ Clean =>
        /\ vmxon = orig.vmxon
        /\ ("vm" \in tc => "vm_store" \in done) /\ orig.vmcs # "none" => vmcs = orig.vmcs
        /\ ("vm" \in tc => "vm_start" \in done) => reg["hsave"] = orig.reg["hsave"]

\* CR4.VMXE is never cleared while the CPU is in VMX root operation (the write
\* would fault inside the recovery): recover_orig_state leaves VMX before it
\* restores CR4, and set_special_registers sets VMXE before VMXON.
VmxeWhileVmxOn == Clean /\ vmxon => "VMXE" \in reg["cr"]

\* A measurement ends, whatever happens in it: no handler loops or waits.
MeasurementEnds == pc = "outer" ~> pc = "idle"

=============================================================================
