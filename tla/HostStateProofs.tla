-------------------------- MODULE HostStateProofs --------------------------
(***************************************************************************)
(* Proofs about HostState, for every vendor, every set of host values and  *)
(* any number of measurements, exceptions and NMIs.                        *)
(***************************************************************************)
EXTENDS HostState, TLAPS

-----------------------------------------------------------------------------
(* The IDT.                                                                *)

\* Inductive: inside the bubble the saved IDT is the host's own, which is what
\* unset_outer_fault_handlers relies on.
IdtInv ==
    /\ pc \in PCs
    /\ pc \in {"idle", "outer", "post"} => idt = "os"
    /\ pc \in Bubble \cup {"exit"} => orig_idtr = "os" /\ idt \in {"bubble", "tc"}
    /\ pc = "execute" => idt = "tc"

LEMMA IdtInit == Init => IdtInv
  BY DEF Init, IdtInv, PCs, Bubble, SetupSteps, LoopSteps, RecoverSteps

\* No step of the module, and no exception or NMI, loses track of the host's
\* IDT.
LEMMA IdtStep == IdtInv /\ [Next]_vars => IdtInv'
<1> SUFFICES ASSUME IdtInv, [Next]_vars PROVE IdtInv'
    OBVIOUS
<1> USE DEF IdtInv, PCs, Bubble, SetupSteps, LoopSteps, RecoverSteps
<1>1. CASE PreRun
    BY <1>1 DEF PreRun
<1>2. CASE SetOuterFaultHandlers
    BY <1>2 DEF SetOuterFaultHandlers
<1>3. CASE SetSandboxPageTables \/ SetSandboxPageTablesFails \/ StoreOrigMsrState \/ NoSsbpPatch
    BY <1>3
    DEF SetSandboxPageTables, SetSandboxPageTablesFails, StoreOrigMsrState, NoSsbpPatch, Fail
<1>4. CASE SetSsbpPatch
    BY <1>4 DEF SetSsbpPatch, SetMaskedMsr, Fail
<1>5. CASE SetPrefetchers
    BY <1>5 DEF SetPrefetchers, SetMaskedMsr, Fail
<1>6. CASE SetControlRegisters \/ SetMsrsForActors
    BY <1>6 DEF SetControlRegisters, SetMsrsForActors, Fail
<1>7. CASE StartVmx
    BY <1>7 DEF StartVmx, Fail
<1>8. CASE StartSvm \/ StoreOrigVmState \/ SetVmState
    BY <1>8 DEF StartSvm, StoreOrigVmState, SetVmState, Fail
<1>9. CASE SetFaultyPagePermissions \/ SetInnerFaultHandlers \/ ExecuteTestCase
    BY <1>9 DEF SetFaultyPagePermissions, SetInnerFaultHandlers, ExecuteTestCase
<1>10. CASE UnsetInnerFaultHandlers \/ RestoreFaultyPagePermissions
    BY <1>10 DEF UnsetInnerFaultHandlers, RestoreFaultyPagePermissions
<1>11. CASE RecoverVm
    BY <1>11 DEF RecoverVm
<1>12. CASE RecoverFaultyPage \/ RestoreSpecialRegisters \/ RestoreOrigPageTables
    BY <1>12 DEF RecoverFaultyPage, RestoreSpecialRegisters, RestoreOrigPageTables
<1>13. CASE Exception \/ Nmi
    BY <1>13 DEF Exception, Nmi
<1>14. CASE UnsetOuterFaultHandlers \/ PostRun
    BY <1>14 DEF UnsetOuterFaultHandlers, PostRun
<1>15. CASE HostActivity
    BY <1>15 DEF HostActivity
<1>16. CASE UNCHANGED vars
    BY <1>16 DEF vars
<1> QED
    BY <1>1, <1>2, <1>3, <1>4, <1>5, <1>6, <1>7, <1>8, <1>9, <1>10, <1>11, <1>12, <1>13, <1>14,
       <1>15, <1>16 DEF Next, Step

-----------------------------------------------------------------------------
(* Types.                                                                  *)

LEMMA TypeInit == Init => TypeOK
<1> SUFFICES ASSUME Init PROVE TypeOK
    OBVIOUS
<1>1. ControlTypeOK
    BY DEF Init, ControlTypeOK, PCs, TestCases
<1>2. RegTypeOK
    BY MasksAssumption DEF Init, RegTypeOK, Registers, SavedRegisters, Bits, Zero, HostSaveAreas
<1>3. PteTypeOK
    BY DEF Init, PteTypeOK, PteValues
<1>4. VmTypeOK
    BY DEF Init, VmTypeOK, HostVmx
<1> QED
    BY <1>1, <1>2, <1>3, <1>4 DEF Init, TypeOK, RegTypeOK, PteTypeOK, VmTypeOK

\* One lemma per group of variables; most actions leave most groups alone.
LEMMA ControlTypeStep == ControlTypeOK /\ IdtInv /\ [Next]_vars => ControlTypeOK'
<1> SUFFICES ASSUME ControlTypeOK, IdtInv, [Next]_vars PROVE ControlTypeOK'
    OBVIOUS
<1> USE DEF ControlTypeOK, IdtInv, PCs, Bubble, SetupSteps, LoopSteps, RecoverSteps
<1>1. CASE PreRun \/ SetOuterFaultHandlers
    BY <1>1 DEF PreRun, SetOuterFaultHandlers
<1>2. CASE SetSandboxPageTables \/ SetSandboxPageTablesFails \/ StoreOrigMsrState \/ NoSsbpPatch
    BY <1>2
    DEF SetSandboxPageTables, SetSandboxPageTablesFails, StoreOrigMsrState, NoSsbpPatch, Fail
<1>3. CASE SetSsbpPatch \/ SetPrefetchers
    BY <1>3 DEF SetSsbpPatch, SetPrefetchers, SetMaskedMsr, Fail
<1>4. CASE SetControlRegisters \/ SetMsrsForActors
    BY <1>4 DEF SetControlRegisters, SetMsrsForActors, Fail
<1>5. CASE StartVmx
    BY <1>5 DEF StartVmx, Fail
<1>6. CASE StartSvm \/ StoreOrigVmState \/ SetVmState
    BY <1>6 DEF StartSvm, StoreOrigVmState, SetVmState, Fail
<1>7. CASE SetFaultyPagePermissions \/ SetInnerFaultHandlers \/ ExecuteTestCase
    BY <1>7 DEF SetFaultyPagePermissions, SetInnerFaultHandlers, ExecuteTestCase
<1>8. CASE UnsetInnerFaultHandlers \/ RestoreFaultyPagePermissions
    <2>1. iter' \in Nat
        BY <1>8 DEF UnsetInnerFaultHandlers, RestoreFaultyPagePermissions
    <2>2. pc' \in PCs /\ caller' \in {"cleanup", "handler"} /\ idt' \in {"os", "bubble", "tc"}
        BY <1>8, Zenon DEF UnsetInnerFaultHandlers, RestoreFaultyPagePermissions
    <2>3. UNCHANGED <<tc, pinned, orig_idtr, is_nested_fault, err, done>>
        BY <1>8, Zenon DEF UnsetInnerFaultHandlers, RestoreFaultyPagePermissions
    <2> QED
        BY <2>1, <2>2, <2>3
<1>9. CASE RecoverVm \/ RecoverFaultyPage \/ RestoreSpecialRegisters \/ RestoreOrigPageTables
    BY <1>9 DEF RecoverVm, RecoverFaultyPage, RestoreSpecialRegisters, RestoreOrigPageTables
<1>10. CASE Exception \/ Nmi
    BY <1>10 DEF Exception, Nmi
<1>11. CASE UnsetOuterFaultHandlers
    BY <1>11 DEF UnsetOuterFaultHandlers
<1>14. CASE PostRun
    BY <1>14 DEF PostRun
<1>12. CASE HostActivity
    <2>1. UNCHANGED <<pc, tc, pinned, idt, orig_idtr, is_nested_fault, err, caller, iter, done>>
        BY <1>12 DEF HostActivity
    <2> QED
        BY <2>1
<1>13. CASE UNCHANGED vars
    BY <1>13 DEF vars
<1> QED
    BY <1>1, <1>2, <1>3, <1>4, <1>5, <1>6, <1>7, <1>8, <1>9, <1>10, <1>11, <1>12, <1>13, <1>14
    DEF Next, Step

LEMMA RegTypeStep == RegTypeOK /\ [Next]_vars => RegTypeOK'
<1> SUFFICES ASSUME RegTypeOK, [Next]_vars PROVE RegTypeOK'
    OBVIOUS
<1> USE DEF RegTypeOK, hw, saves, vm
<1>1. CASE PreRun \/ SetOuterFaultHandlers \/ SetSandboxPageTables \/ SetSandboxPageTablesFails
              \/ NoSsbpPatch
    BY <1>1 DEF PreRun, SetOuterFaultHandlers, SetSandboxPageTables, SetSandboxPageTablesFails,
                NoSsbpPatch
<1>2. CASE StoreOrigMsrState
    BY <1>2 DEF StoreOrigMsrState, Registers, SavedRegisters
<1>3. CASE SetSsbpPatch
    BY <1>3 DEF SetSsbpPatch, SetMaskedMsr, apply_msr_mask, Registers, SavedRegisters, Bits
<1>4. CASE SetPrefetchers
    BY <1>4 DEF SetPrefetchers, SetMaskedMsr, apply_msr_mask, Registers, SavedRegisters, Bits
<1>5. CASE SetControlRegisters
    BY <1>5 DEF SetControlRegisters, Registers, Bits
<1>6. CASE SetMsrsForActors
    BY <1>6 DEF SetMsrsForActors, Registers, Bits
<1>7. CASE StartVmx \/ StoreOrigVmState \/ SetVmState
    BY <1>7 DEF StartVmx, StoreOrigVmState, SetVmState
<1>8. CASE StartSvm
    BY <1>8 DEF StartSvm, Registers, Bits
<1>9. CASE SetFaultyPagePermissions \/ SetInnerFaultHandlers \/ ExecuteTestCase
              \/ UnsetInnerFaultHandlers \/ RestoreFaultyPagePermissions
    BY <1>9 DEF SetFaultyPagePermissions, SetInnerFaultHandlers, ExecuteTestCase,
                UnsetInnerFaultHandlers, RestoreFaultyPagePermissions
<1>10. CASE RecoverVm
    BY <1>10 DEF RecoverVm, Registers
<1>11. CASE RecoverFaultyPage \/ RestoreOrigPageTables
    BY <1>11 DEF RecoverFaultyPage, RestoreOrigPageTables
<1>12. CASE RestoreSpecialRegisters
    BY <1>12 DEF RestoreSpecialRegisters, Zero
<1>13. CASE Exception \/ Nmi \/ UnsetOuterFaultHandlers \/ PostRun
    BY <1>13 DEF Exception, Nmi, UnsetOuterFaultHandlers, PostRun
<1>14. CASE HostActivity
    BY <1>14 DEF HostActivity, HostSaveAreas, Zero, Registers, Bits
<1>15. CASE UNCHANGED vars
    BY <1>15 DEF vars
<1> QED
    BY <1>1, <1>2, <1>3, <1>4, <1>5, <1>6, <1>7, <1>8, <1>9, <1>10, <1>11, <1>12, <1>13, <1>14,
       <1>15 DEF Next, Step

LEMMA PteTypeStep == PteTypeOK /\ [Next]_vars => PteTypeOK'
<1> SUFFICES ASSUME PteTypeOK, [Next]_vars PROVE PteTypeOK'
    OBVIOUS
<1> USE DEF PteTypeOK, PteValues, Pages, hw, saves
<1>1. CASE PreRun \/ SetOuterFaultHandlers \/ StoreOrigMsrState \/ NoSsbpPatch
    BY <1>1 DEF PreRun, SetOuterFaultHandlers, StoreOrigMsrState, NoSsbpPatch
<1>2. CASE SetSandboxPageTables \/ SetSandboxPageTablesFails
    BY <1>2 DEF SetSandboxPageTables, SetSandboxPageTablesFails
<1>3. CASE SetSsbpPatch \/ SetPrefetchers
    BY <1>3 DEF SetSsbpPatch, SetPrefetchers, SetMaskedMsr
<1>4. CASE SetControlRegisters \/ SetMsrsForActors
    BY <1>4 DEF SetControlRegisters, SetMsrsForActors
<1>5. CASE StartVmx \/ StartSvm \/ StoreOrigVmState \/ SetVmState
    BY <1>5 DEF StartVmx, StartSvm, StoreOrigVmState, SetVmState
<1>6. CASE SetFaultyPagePermissions
    BY <1>6 DEF SetFaultyPagePermissions
<1>7. CASE SetInnerFaultHandlers \/ ExecuteTestCase \/ UnsetInnerFaultHandlers
    BY <1>7 DEF SetInnerFaultHandlers, ExecuteTestCase, UnsetInnerFaultHandlers
<1>8. CASE RestoreFaultyPagePermissions \/ RecoverFaultyPage
    BY <1>8 DEF RestoreFaultyPagePermissions, RecoverFaultyPage
<1>9. CASE RecoverVm \/ RestoreSpecialRegisters \/ RestoreOrigPageTables
    BY <1>9 DEF RecoverVm, RestoreSpecialRegisters, RestoreOrigPageTables
<1>10. CASE Exception \/ Nmi \/ UnsetOuterFaultHandlers \/ PostRun \/ HostActivity
    BY <1>10 DEF Exception, Nmi, UnsetOuterFaultHandlers, PostRun, HostActivity
<1>11. CASE UNCHANGED vars
    BY <1>11 DEF vars
<1> QED
    BY <1>1, <1>2, <1>3, <1>4, <1>5, <1>6, <1>7, <1>8, <1>9, <1>10, <1>11 DEF Next, Step

LEMMA VmTypeStep == VmTypeOK /\ [Next]_vars => VmTypeOK'
<1> SUFFICES ASSUME VmTypeOK, [Next]_vars PROVE VmTypeOK'
    OBVIOUS
<1> USE DEF VmTypeOK, hw, saves, vm
<1>1. CASE PreRun \/ SetOuterFaultHandlers \/ SetSandboxPageTables \/ SetSandboxPageTablesFails
              \/ StoreOrigMsrState \/ NoSsbpPatch
    BY <1>1 DEF PreRun, SetOuterFaultHandlers, SetSandboxPageTables, SetSandboxPageTablesFails,
                StoreOrigMsrState, NoSsbpPatch
<1>2. CASE SetSsbpPatch \/ SetPrefetchers
    BY <1>2 DEF SetSsbpPatch, SetPrefetchers, SetMaskedMsr
<1>3. CASE SetControlRegisters \/ SetMsrsForActors
    BY <1>3 DEF SetControlRegisters, SetMsrsForActors
<1>4. CASE StartVmx
    <2>1. vmxon' \in BOOLEAN /\ is_on' \in BOOLEAN
        BY <1>4, Zenon DEF StartVmx
    <2>2. orig_vmxon' \in BOOLEAN
        <3>1. orig_vmxon' = ("VMXE" \in saved["cr"])
            BY <1>4, Zenon DEF StartVmx
        <3> QED
            BY <3>1
    <2>3. vmcs' \in {"none", "host", "km"} /\ orig_vmcs' = orig_vmcs
        BY <1>4, Zenon DEF StartVmx
    <2> QED
        BY <2>1, <2>2, <2>3
<1>5. CASE StartSvm \/ StoreOrigVmState \/ SetVmState
    BY <1>5 DEF StartSvm, StoreOrigVmState, SetVmState
<1>6. CASE SetFaultyPagePermissions \/ SetInnerFaultHandlers \/ ExecuteTestCase
              \/ UnsetInnerFaultHandlers \/ RestoreFaultyPagePermissions
    BY <1>6 DEF SetFaultyPagePermissions, SetInnerFaultHandlers, ExecuteTestCase,
                UnsetInnerFaultHandlers, RestoreFaultyPagePermissions
<1>7. CASE RecoverVm
    BY <1>7 DEF RecoverVm
<1>8. CASE RecoverFaultyPage \/ RestoreSpecialRegisters \/ RestoreOrigPageTables
    BY <1>8 DEF RecoverFaultyPage, RestoreSpecialRegisters, RestoreOrigPageTables
<1>9. CASE Exception \/ Nmi \/ UnsetOuterFaultHandlers \/ PostRun
    BY <1>9 DEF Exception, Nmi, UnsetOuterFaultHandlers, PostRun
<1>10. CASE HostActivity
    BY <1>10 DEF HostActivity, HostVmx
<1>11. CASE UNCHANGED vars
    BY <1>11 DEF vars
<1> QED
    BY <1>1, <1>2, <1>3, <1>4, <1>5, <1>6, <1>7, <1>8, <1>9, <1>10, <1>11 DEF Next, Step

\* Only pre_run records what the host looked like.
LEMMA OrigStep == [Next]_vars /\ ~PreRun => orig' = orig
<1> SUFFICES ASSUME [Next]_vars, ~PreRun PROVE orig' = orig
    OBVIOUS
<1> QED
    BY DEF Next, Step, vars, SetOuterFaultHandlers, SetSandboxPageTables,
           SetSandboxPageTablesFails, StoreOrigMsrState, NoSsbpPatch, SetSsbpPatch, SetPrefetchers, SetMaskedMsr,
           SetControlRegisters, SetMsrsForActors, StartVmx, StartSvm, StoreOrigVmState, SetVmState,
           SetFaultyPagePermissions, SetInnerFaultHandlers, ExecuteTestCase,
           UnsetInnerFaultHandlers, RestoreFaultyPagePermissions, RecoverVm, RecoverFaultyPage,
           RestoreSpecialRegisters, RestoreOrigPageTables, Exception, Nmi,
           UnsetOuterFaultHandlers, PostRun, HostActivity

LEMMA TypeStep == TypeOK /\ IdtInv /\ [Next]_vars => TypeOK'
<1> SUFFICES ASSUME TypeOK, IdtInv, [Next]_vars PROVE TypeOK'
    OBVIOUS
<1>0. vendor' = vendor
    BY DEF Next, vars
<1>1. ControlTypeOK' /\ RegTypeOK' /\ PteTypeOK' /\ VmTypeOK'
    BY ControlTypeStep, RegTypeStep, PteTypeStep, VmTypeStep DEF TypeOK
<1>2. CASE PreRun
    BY <1>0, <1>1, <1>2 DEF PreRun, TypeOK, RegTypeOK, PteTypeOK, VmTypeOK
<1>3. CASE ~PreRun
    BY <1>0, <1>1, <1>3, OrigStep DEF TypeOK
<1> QED
    BY <1>2, <1>3

LEMMA IdtInvAlways == Spec => []IdtInv
  BY IdtInit, IdtStep, PTL DEF Spec

\* Every variable of the model keeps its type.
THEOREM TypeCorrect == Spec => []TypeOK
  BY TypeInit, TypeStep, IdtInvAlways, PTL DEF Spec

LEMMA IdtInvImplies == IdtInv /\ TypeOK => IdtRestored
  BY DEF IdtInv, IdtRestored, PCs, Bubble, SetupSteps, LoopSteps, RecoverSteps

\* run_experiment_outer always hands the host its own IDT back, and never runs
\* its own code under it, after any mix of exceptions and NMIs.
THEOREM IdtAlwaysRestored == Spec => []IdtRestored
  BY IdtInvAlways, IdtInvImplies, TypeCorrect, PTL

-----------------------------------------------------------------------------
(* The registers.                                                          *)

\* Places where orig_special_registers_state holds nothing.
NothingSaved == {"idle", "outer", "page_tables", "store_regs", "rec_pt", "exit", "post"}

\* A register has the host's value, or the host's value is in saved.
Recoverable(r) ==
    orig.reg[r] # Zero =>
        saved[r] = orig.reg[r] \/ (saved[r] = Zero /\ reg[r] = orig.reg[r])

\* Inductive: nothing is overwritten before it is saved, nothing is saved
\* twice, and nothing that was saved is forgotten before it is written back.
RegInv ==
    Clean =>
        /\ pc \in NothingSaved => \A r \in SavedRegisters : saved[r] = Zero
        /\ pc = "ssbp" => saved["spec"] = Zero
        /\ pc \in {"ssbp", "prefetcher"} => saved["pref"] = Zero
        /\ pc \in (SetupSteps \cup LoopSteps) \ {"page_tables", "store_regs"} =>
              \A r \in {"cr", "efer", "lstar"} : orig.reg[r] # Zero => saved[r] = orig.reg[r]
        /\ pc # "idle" => \A r \in SavedRegisters : Recoverable(r)


LEMMA RegInit == Init => RegInv
<1> SUFFICES ASSUME Init PROVE RegInv
    OBVIOUS
<1>1. pc = "idle" /\ \A r \in SavedRegisters : saved[r] = Zero
    BY DEF Init
<1> QED
    BY <1>1 DEF RegInv, SetupSteps, LoopSteps

\* The steps that touch neither the registers nor what was saved of them, and
\* do not enter a place that asks for more than the place they leave.
LEMMA RegUnchanged ==
    ASSUME RegInv, UNCHANGED <<reg, saved, orig>>, done \subseteq done',
           pc' # pc => \/ pc' \in RecoverSteps \ {"rec_pt"}
                       \/ pc' \in NothingSaved /\ pc \in NothingSaved \ {"idle"}
                       \/ pc' \in LoopSteps \cup {"vm_set", "vm_store"}
                             /\ pc \in LoopSteps \cup {"vm_set", "vm_store", "vm_start"},
           pc \in PCs, pc = "idle" => pc' = "idle"
    PROVE  RegInv'
<1>1. Clean' => Clean
    BY DEF Clean
<1>2. \A r \in SavedRegisters : Recoverable(r)' <=> Recoverable(r)
    BY DEF Recoverable, Zero
<1> QED
    BY <1>1, <1>2 DEF RegInv, Zero, PCs, Bubble, NothingSaved, SetupSteps, LoopSteps, RecoverSteps

LEMMA RegStep == RegInv /\ ControlTypeOK /\ RegTypeOK /\ [Next]_vars => RegInv'
<1> SUFFICES ASSUME RegInv, ControlTypeOK, RegTypeOK, [Next]_vars PROVE RegInv'
    OBVIOUS
<1>0. pc \in PCs
    BY DEF ControlTypeOK
<1> USE DEF PCs, Bubble, SetupSteps, LoopSteps, RecoverSteps, NothingSaved
<1>1. CASE PreRun
    <2>1. saved' = saved /\ pc = "idle" /\ pc' = "outer" /\ orig'.reg = reg /\ reg' = reg
        BY <1>1 DEF PreRun, hw, saves
    <2>2. Clean' => Clean
        BY <1>1 DEF PreRun, Clean
    <2> QED
        BY <2>1, <2>2 DEF RegInv, Recoverable, Zero
<1>2. CASE SetOuterFaultHandlers
    BY <1>0, <1>2, RegUnchanged DEF SetOuterFaultHandlers, hw, saves
<1>3. CASE SetSandboxPageTables
    BY <1>0, <1>3, RegUnchanged DEF SetSandboxPageTables
<1>4. CASE SetSandboxPageTablesFails
    BY <1>0, <1>4, RegUnchanged DEF SetSandboxPageTablesFails, Fail, hw
<1>5. CASE StoreOrigMsrState
    <2>1. /\ pc = "store_regs" /\ pc' = "ssbp" /\ UNCHANGED <<reg, orig, done>>
          /\ \A r \in SavedRegisters :
                saved'[r] = IF r \in {"cr", "efer", "lstar"} THEN reg[r] ELSE saved[r]
        BY <1>5 DEF StoreOrigMsrState, hw, RegTypeOK, SavedRegisters, Registers
    <2>2. Clean' => Clean
        BY <2>1 DEF Clean
    <2> QED
        BY <2>1, <2>2 DEF RegInv, Recoverable, Zero, SavedRegisters, Registers
<1>6. CASE SetSsbpPatch
    <2>1. /\ pc = "ssbp" /\ pc' \in {"prefetcher", "rec_vm"} /\ UNCHANGED <<orig, done>>
          /\ \A r \in SavedRegisters : saved'[r] = IF r = "spec" THEN reg[r] ELSE saved[r]
          /\ \A r \in SavedRegisters \ {"spec"} : reg'[r] = reg[r]
        BY <1>6 DEF SetSsbpPatch, SetMaskedMsr, Fail, RegTypeOK, SavedRegisters, Registers
    <2>2. Clean' => Clean
        BY <2>1 DEF Clean
    <2> QED
        BY <2>1, <2>2 DEF RegInv, Recoverable, Zero, SavedRegisters, Registers
<1>7. CASE SetPrefetchers
    <2>1. /\ pc = "prefetcher" /\ pc' \in {"control", "rec_vm"} /\ UNCHANGED <<orig, done>>
          /\ \A r \in SavedRegisters : saved'[r] = IF r = "pref" THEN reg[r] ELSE saved[r]
          /\ \A r \in SavedRegisters \ {"pref"} : reg'[r] = reg[r]
        BY <1>7 DEF SetPrefetchers, SetMaskedMsr, Fail, RegTypeOK, SavedRegisters, Registers
    <2>2. Clean' => Clean
        BY <2>1 DEF Clean
    <2> QED
        BY <2>1, <2>2 DEF RegInv, Recoverable, Zero, SavedRegisters, Registers
<1>8. CASE NoSsbpPatch
    BY <1>0, <1>8, RegUnchanged DEF NoSsbpPatch, Fail, hw, saves
<1>9. CASE SetControlRegisters \/ SetMsrsForActors
    <2>1. /\ pc \in {"control", "actor_regs"} /\ UNCHANGED <<saved, orig, done>>
          /\ pc' \in {"actor_regs", "vm_start", "faulty", "rec_vm"}
          /\ \A r \in SavedRegisters \ {"cr", "efer", "lstar"} : reg'[r] = reg[r]
        <3>1. CASE SetControlRegisters
            BY <3>1 DEF SetControlRegisters, saves, RegTypeOK, SavedRegisters, Registers
        <3>2. CASE SetMsrsForActors
            BY <3>2 DEF SetMsrsForActors, Fail, saves, RegTypeOK, SavedRegisters, Registers
        <3> QED
            BY <1>9, <3>1, <3>2
    <2>2. Clean' => Clean
        BY <2>1 DEF Clean
    <2> QED
        BY <2>1, <2>2 DEF RegInv, Recoverable, Zero, SavedRegisters, Registers
<1>10. CASE StartVmx
    BY <1>0, <1>10, RegUnchanged DEF StartVmx, Fail
<1>11. CASE StartSvm
    <2>1. /\ pc = "vm_start" /\ pc' = "vm_store" /\ UNCHANGED <<saved, orig>>
          /\ done \subseteq done'
          /\ \A r \in SavedRegisters : reg'[r] = reg[r]
        BY <1>11 DEF StartSvm, RegTypeOK, SavedRegisters, Registers
    <2>2. Clean' => Clean
        BY <2>1 DEF Clean
    <2> QED
        BY <2>1, <2>2 DEF RegInv, Recoverable, Zero
<1>12. CASE StoreOrigVmState \/ SetVmState
    BY <1>0, <1>12, RegUnchanged DEF StoreOrigVmState, SetVmState, Fail, hw, saves
<1>13. CASE SetFaultyPagePermissions \/ SetInnerFaultHandlers \/ ExecuteTestCase
    BY <1>0, <1>13, RegUnchanged
    DEF SetFaultyPagePermissions, SetInnerFaultHandlers, ExecuteTestCase, hw, saves
<1>14. CASE UnsetInnerFaultHandlers \/ RestoreFaultyPagePermissions
    BY <1>0, <1>14, RegUnchanged
    DEF UnsetInnerFaultHandlers, RestoreFaultyPagePermissions, hw, saves
<1>15. CASE RecoverVm
    <2>1. /\ pc = "rec_vm" /\ pc' = "rec_faulty" /\ UNCHANGED <<saved, orig, done>>
          /\ \A r \in SavedRegisters : reg'[r] = reg[r]
        BY <1>15 DEF RecoverVm, RegTypeOK, SavedRegisters, Registers
    <2>2. Clean' => Clean
        BY <2>1 DEF Clean
    <2> QED
        BY <2>1, <2>2 DEF RegInv, Recoverable, Zero
<1>16. CASE RecoverFaultyPage
    BY <1>0, <1>16, RegUnchanged DEF RecoverFaultyPage, saves
<1>17. CASE RestoreSpecialRegisters
    <2>1. /\ pc = "rec_regs" /\ pc' = "rec_pt" /\ UNCHANGED <<orig, done>>
          /\ \A r \in SavedRegisters :
                saved'[r] = Zero /\ reg'[r] = IF saved[r] # Zero THEN saved[r] ELSE reg[r]
        BY <1>17 DEF RestoreSpecialRegisters, SavedRegisters, Registers, Zero
    <2>2. Clean' => Clean
        BY <2>1 DEF Clean
    <2> QED
        BY <2>1, <2>2 DEF RegInv, Recoverable, Zero
<1>18. CASE RestoreOrigPageTables
    BY <1>0, <1>18, RegUnchanged DEF RestoreOrigPageTables, saves
<1>19. CASE Exception
    <2>1. CASE is_nested_fault
        BY <1>19, <2>1 DEF Exception, RegInv, Clean
    <2>2. CASE ~is_nested_fault
        BY <1>0, <1>19, <2>2, RegUnchanged DEF Exception, hw, saves
    <2> QED
        BY <2>1, <2>2
<1>20. CASE Nmi
    BY <1>20 DEF Nmi, RegInv, Clean
<1>21. CASE UnsetOuterFaultHandlers
    BY <1>0, <1>21, RegUnchanged DEF UnsetOuterFaultHandlers, hw, saves
<1>22. CASE PostRun
    BY <1>22 DEF PostRun, hw, saves, RegInv, Clean, Zero
<1>23. CASE HostActivity
    <2>1. pc = "idle" /\ UNCHANGED <<pc, saved, orig, done>>
        BY <1>23 DEF HostActivity, saves
    <2> QED
        BY <2>1 DEF RegInv, Clean, Zero
<1>24. CASE UNCHANGED vars
    BY <1>24 DEF vars, RegInv, Clean, Recoverable, Zero
<1> QED
    BY <1>1, <1>2, <1>3, <1>4, <1>5, <1>6, <1>7, <1>8, <1>9, <1>10, <1>11, <1>12, <1>13, <1>14,
       <1>15, <1>16, <1>17, <1>18, <1>19, <1>20, <1>21, <1>22, <1>23, <1>24 DEF Next, Step

LEMMA RegInvImplies == RegInv => RegistersRestored
  BY DEF RegInv, RegistersRestored, Recoverable, NothingSaved

\* After a measurement, however it ended short of an NMI or a fault within the
\* recovery, every control register and MSR the module changed has the host's
\* value again, unless that value was 0.
THEOREM RegistersAlwaysRestored == Spec => []RegistersRestored
<1>1. TypeOK => ControlTypeOK /\ RegTypeOK
    BY DEF TypeOK
<1>2. Spec => []RegInv
    BY <1>1, RegInit, RegStep, TypeCorrect, PTL DEF Spec
<1> QED
    BY <1>2, RegInvImplies, PTL

-----------------------------------------------------------------------------
(* The page tables.                                                        *)

\* Inductive: what store_orig_host_permissions recorded is what the host had,
\* since nothing writes a PTE before it, and the recovery ends with it, after
\* whatever restore_faulty_page_host_permissions wrote.
PteInv ==
    Clean =>
        /\ "ptes" \in done => orig_ptes = orig.pte
        /\ pc \in {"outer", "page_tables"} => pte = orig.pte /\ "ptes" \notin done
        /\ pc \in {"exit", "post"} /\ "ptes" \in done => pte = orig.pte

LEMMA PteInit == Init => PteInv
  BY DEF Init, PteInv

\* The steps that leave the record alone and do not end the recovery.
LEMMA PteUnchanged ==
    ASSUME PteInv, UNCHANGED <<orig_ptes, orig>>, done \subseteq done',
           "ptes" \in done' => "ptes" \in done,
           pc' \notin {"outer", "page_tables", "exit", "post"}
    PROVE  PteInv'
<1>1. Clean' => Clean
    BY DEF Clean
<1> QED
    BY <1>1 DEF PteInv

LEMMA PteStep == PteInv /\ [Next]_vars => PteInv'
<1> SUFFICES ASSUME PteInv, [Next]_vars PROVE PteInv'
    OBVIOUS
<1>1. CASE PreRun
    <2>1. /\ pc' = "outer" /\ pte' = pte /\ orig'.pte = pte
          /\ "ptes" \notin done' /\ (Clean' => Clean)
        BY <1>1 DEF PreRun, hw, Clean
    <2> QED
        BY <2>1 DEF PteInv
<1>2. CASE SetOuterFaultHandlers
    BY <1>2 DEF SetOuterFaultHandlers, hw, saves, PteInv, Clean
<1>3. CASE SetSandboxPageTables
    <2>1. /\ pc = "page_tables" /\ pc' = "store_regs" /\ orig_ptes' = pte /\ orig' = orig
          /\ Clean' => Clean
        BY <1>3 DEF SetSandboxPageTables, Clean
    <2> QED
        BY <2>1 DEF PteInv
<1>4. CASE SetSandboxPageTablesFails
    BY <1>4 DEF SetSandboxPageTablesFails, Fail, PteInv, Clean
<1>5. CASE StoreOrigMsrState \/ NoSsbpPatch \/ SetControlRegisters \/ SetMsrsForActors
    BY <1>5, PteUnchanged
    DEF StoreOrigMsrState, NoSsbpPatch, SetControlRegisters, SetMsrsForActors, Fail, saves
<1>6. CASE SetSsbpPatch \/ SetPrefetchers
    BY <1>6, PteUnchanged DEF SetSsbpPatch, SetPrefetchers, SetMaskedMsr, Fail
<1>7. CASE StartVmx
    BY <1>7, PteUnchanged DEF StartVmx, Fail
<1>8. CASE StartSvm \/ StoreOrigVmState \/ SetVmState
    BY <1>8, PteUnchanged DEF StartSvm, StoreOrigVmState, SetVmState, Fail, saves
<1>9. CASE SetFaultyPagePermissions \/ SetInnerFaultHandlers \/ ExecuteTestCase
              \/ UnsetInnerFaultHandlers \/ RestoreFaultyPagePermissions
    BY <1>9, PteUnchanged
    DEF SetFaultyPagePermissions, SetInnerFaultHandlers, ExecuteTestCase,
        UnsetInnerFaultHandlers, RestoreFaultyPagePermissions, saves
<1>10. CASE RecoverVm \/ RecoverFaultyPage \/ RestoreSpecialRegisters
    BY <1>10, PteUnchanged DEF RecoverVm, RecoverFaultyPage, RestoreSpecialRegisters, saves
<1>11. CASE RestoreOrigPageTables
    BY <1>11 DEF RestoreOrigPageTables, saves, PteInv, Clean
<1>12. CASE Exception
    <2>1. CASE is_nested_fault
        BY <1>12, <2>1 DEF Exception, PteInv, Clean
    <2>2. CASE ~is_nested_fault
        BY <1>12, <2>2, PteUnchanged DEF Exception, saves
    <2> QED
        BY <2>1, <2>2
<1>13. CASE Nmi
    BY <1>13 DEF Nmi, PteInv, Clean
<1>14. CASE UnsetOuterFaultHandlers \/ PostRun
    BY <1>14 DEF UnsetOuterFaultHandlers, PostRun, hw, saves, PteInv, Clean
<1>15. CASE HostActivity
    BY <1>15 DEF HostActivity, saves, PteInv, Clean
<1>16. CASE UNCHANGED vars
    BY <1>16 DEF vars, PteInv, Clean
<1> QED
    BY <1>1, <1>2, <1>3, <1>4, <1>5, <1>6, <1>7, <1>8, <1>9, <1>10, <1>11, <1>12, <1>13, <1>14,
       <1>15, <1>16 DEF Next, Step

\* Once the original PTEs were recorded, every measurement that ends short of
\* an NMI or a fault within the recovery leaves the host's PTEs behind.
THEOREM PageTablesAlwaysRestored == Spec => []PageTablesRestored
<1>1. PteInv => PageTablesRestored
    BY DEF PteInv, PageTablesRestored
<1> QED
    BY <1>1, PteInit, PteStep, PTL DEF Spec

-----------------------------------------------------------------------------
(* Virtualization.                                                         *)

BeforeVm == {"outer"} \cup (SetupSteps \ {"vm_store", "vm_set"})
OnlyVm == {"vm_start", "vm_store", "vm_set"}
AfterVm == RecoverSteps \cup {"exit", "post"}

\* CR4 is never 0: a value of 0 would be taken for "nothing was saved".
CrInv ==
    /\ "other" \in reg["cr"]
    /\ saved["cr"] # Zero => "other" \in saved["cr"]
    /\ pc # "idle" => "other" \in orig.reg["cr"]

\* is_on is set from the start of the virtualization to the recovery, and the
\* two history marks say how far the start came.
PhaseInv ==
    Clean =>
        /\ is_on => "vm" \in tc /\ pc \in {"vm_store", "vm_set", "rec_vm"} \cup LoopSteps
        /\ pc \in OnlyVm => "vm" \in tc
        /\ pc \in {"vm_store", "vm_set"} \/ (pc \in LoopSteps /\ "vm" \in tc) => is_on
        /\ pc \in BeforeVm => "vm_start" \notin done
        /\ pc \in BeforeVm \cup {"vm_store"} => "vm_store" \notin done

LEMMA CrInit == Init => CrInv
  BY DEF Init, CrInv, Registers, SavedRegisters, Zero

LEMMA CrStep == CrInv /\ RegTypeOK /\ [Next]_vars => CrInv'
<1> SUFFICES ASSUME CrInv, RegTypeOK, [Next]_vars PROVE CrInv'
    OBVIOUS
<1> USE DEF CrInv, RegTypeOK, Registers, SavedRegisters, Zero
<1>1. CASE PreRun
    BY <1>1 DEF PreRun, hw, saves
<1>2. CASE SetOuterFaultHandlers \/ SetSandboxPageTables \/ SetSandboxPageTablesFails
              \/ NoSsbpPatch
    BY <1>2 DEF SetOuterFaultHandlers, SetSandboxPageTables, SetSandboxPageTablesFails,
                NoSsbpPatch, Fail, hw, saves
<1>3. CASE StoreOrigMsrState
    BY <1>3 DEF StoreOrigMsrState, hw
<1>4. CASE SetSsbpPatch \/ SetPrefetchers
    BY <1>4 DEF SetSsbpPatch, SetPrefetchers, SetMaskedMsr, Fail
<1>5. CASE SetControlRegisters
    BY <1>5 DEF SetControlRegisters, saves
<1>6. CASE SetMsrsForActors
    BY <1>6 DEF SetMsrsForActors, Fail, saves
<1>7. CASE StartVmx
    BY <1>7 DEF StartVmx, Fail
<1>8. CASE StartSvm
    BY <1>8 DEF StartSvm
<1>9. CASE StoreOrigVmState \/ SetVmState
    BY <1>9 DEF StoreOrigVmState, SetVmState, Fail, hw, saves
<1>10. CASE SetFaultyPagePermissions \/ SetInnerFaultHandlers \/ ExecuteTestCase
              \/ UnsetInnerFaultHandlers \/ RestoreFaultyPagePermissions
    BY <1>10 DEF SetFaultyPagePermissions, SetInnerFaultHandlers, ExecuteTestCase,
                 UnsetInnerFaultHandlers, RestoreFaultyPagePermissions, hw, saves
<1>11. CASE RecoverVm
    BY <1>11 DEF RecoverVm
<1>12. CASE RecoverFaultyPage \/ RestoreOrigPageTables
    BY <1>12 DEF RecoverFaultyPage, RestoreOrigPageTables, saves
<1>13. CASE RestoreSpecialRegisters
    BY <1>13 DEF RestoreSpecialRegisters
<1>14. CASE Exception \/ Nmi
    BY <1>14 DEF Exception, Nmi, hw, saves, Bubble, SetupSteps, LoopSteps, RecoverSteps
<1>15. CASE UnsetOuterFaultHandlers \/ PostRun
    BY <1>15 DEF UnsetOuterFaultHandlers, PostRun, hw, saves
<1>16. CASE HostActivity
    BY <1>16 DEF HostActivity, saves
<1>17. CASE UNCHANGED vars
    BY <1>17 DEF vars
<1> QED
    BY <1>1, <1>2, <1>3, <1>4, <1>5, <1>6, <1>7, <1>8, <1>9, <1>10, <1>11, <1>12, <1>13, <1>14,
       <1>15, <1>16, <1>17 DEF Next, Step

LEMMA PhaseInit == Init => PhaseInv
  BY DEF Init, PhaseInv, BeforeVm, OnlyVm, SetupSteps, LoopSteps

\* What a measurement went through is not forgotten before the next one.
LEMMA DoneGrows == [Next]_vars /\ ~PreRun => done \subseteq done'
<1> SUFFICES ASSUME [Next]_vars, ~PreRun PROVE done \subseteq done'
    OBVIOUS
<1> QED
    BY DEF Next, Step, vars, SetOuterFaultHandlers, SetSandboxPageTables,
           SetSandboxPageTablesFails, StoreOrigMsrState, NoSsbpPatch, SetSsbpPatch,
           SetPrefetchers, SetMaskedMsr, SetControlRegisters, SetMsrsForActors, StartVmx,
           StartSvm, StoreOrigVmState, SetVmState, SetFaultyPagePermissions,
           SetInnerFaultHandlers, ExecuteTestCase, UnsetInnerFaultHandlers,
           RestoreFaultyPagePermissions, RecoverVm, RecoverFaultyPage,
           RestoreSpecialRegisters, RestoreOrigPageTables, Exception, Nmi,
           UnsetOuterFaultHandlers, PostRun, HostActivity

LEMMA StaysUnclean == [Next]_vars => (Clean' => Clean)
<1> SUFFICES ASSUME [Next]_vars PROVE Clean' => Clean
    OBVIOUS
<1>1. CASE PreRun
    BY <1>1 DEF PreRun, Clean
<1>2. CASE ~PreRun
    BY <1>2, DoneGrows DEF Clean
<1> QED
    BY <1>1, <1>2

LEMMA PhaseStep == PhaseInv /\ ControlTypeOK /\ [Next]_vars => PhaseInv'
<1> SUFFICES ASSUME PhaseInv, ControlTypeOK, [Next]_vars, Clean' PROVE PhaseInv'
    BY DEF PhaseInv
<1>0. Clean /\ pc \in PCs
    BY StaysUnclean DEF ControlTypeOK
<1> USE <1>0 DEF PhaseInv, BeforeVm, OnlyVm, PCs, Bubble, SetupSteps, LoopSteps, RecoverSteps
<1>1. CASE PreRun
    BY <1>1 DEF PreRun, hw, saves, vm
<1>2. CASE SetOuterFaultHandlers \/ SetSandboxPageTables \/ SetSandboxPageTablesFails
              \/ StoreOrigMsrState \/ NoSsbpPatch
    BY <1>2 DEF SetOuterFaultHandlers, SetSandboxPageTables, SetSandboxPageTablesFails,
                StoreOrigMsrState, NoSsbpPatch, Fail, hw, saves, vm
<1>3. CASE SetSsbpPatch \/ SetPrefetchers
    BY <1>3 DEF SetSsbpPatch, SetPrefetchers, SetMaskedMsr, Fail, vm
<1>4. CASE SetControlRegisters \/ SetMsrsForActors
    BY <1>4 DEF SetControlRegisters, SetMsrsForActors, Fail, saves, vm
<1>5. CASE StartVmx
    BY <1>5 DEF StartVmx, Fail
<1>6. CASE StartSvm
    BY <1>6 DEF StartSvm
<1>7. CASE StoreOrigVmState \/ SetVmState
    BY <1>7 DEF StoreOrigVmState, SetVmState, Fail, saves, vm
<1>8. CASE SetFaultyPagePermissions \/ SetInnerFaultHandlers \/ ExecuteTestCase
    BY <1>8 DEF SetFaultyPagePermissions, SetInnerFaultHandlers, ExecuteTestCase, saves, vm
<1>9. CASE UnsetInnerFaultHandlers \/ RestoreFaultyPagePermissions
    BY <1>9 DEF UnsetInnerFaultHandlers, RestoreFaultyPagePermissions, saves, vm
<1>10. CASE RecoverVm
    BY <1>10 DEF RecoverVm
<1>11. CASE RecoverFaultyPage \/ RestoreSpecialRegisters \/ RestoreOrigPageTables
    BY <1>11 DEF RecoverFaultyPage, RestoreSpecialRegisters, RestoreOrigPageTables, saves, vm
<1>12. CASE Exception \/ Nmi
    BY <1>12 DEF Exception, Nmi, saves, vm, Clean
<1>13. CASE UnsetOuterFaultHandlers \/ PostRun \/ HostActivity
    BY <1>13 DEF UnsetOuterFaultHandlers, PostRun, HostActivity, saves, vm
<1>14. CASE UNCHANGED vars
    BY <1>14 DEF vars
<1> QED
    BY <1>1, <1>2, <1>3, <1>4, <1>5, <1>6, <1>7, <1>8, <1>9, <1>10, <1>11, <1>12, <1>13, <1>14
    DEF Next, Step

\* Inductive: CR4.VMXE and VMX root operation go together in the host; the
\* module adds to them, remembers in orig_vmxon which of them it added, and
\* loads its VMCS only after that of the host was recorded.
VmxInv ==
    Clean =>
        /\ ~vmxon => vmcs = "none"
        /\ pc = "idle" => (vmxon <=> "VMXE" \in reg["cr"])
        /\ pc # "idle" =>
              /\ orig.vmxon <=> "VMXE" \in orig.reg["cr"]
              /\ orig.vmxon => "VMXE" \in reg["cr"]
              /\ ~orig.vmxon => orig.vmcs = "none"
              /\ ~is_on \/ vendor # "intel" => vmxon = orig.vmxon
              /\ pc = "vm_start" /\ vendor = "intel" => "VMXE" \in reg["cr"]
              /\ is_on /\ vendor = "intel" =>
                    /\ vmxon /\ "VMXE" \in reg["cr"]
                    /\ orig_vmxon = orig.vmxon
                    /\ "vm_store" \in done /\ orig.vmxon => orig_vmcs = orig.vmcs
              /\ pc \in BeforeVm \cup {"vm_store", "vm_set"} => vmcs = orig.vmcs
              /\ \/ "vm" \notin tc \/ vendor # "intel"
                 \/ pc \in AfterVm /\ ~is_on /\ "vm_store" \in done
                 => orig.vmcs = "none" \/ vmcs = orig.vmcs

LEMMA VmxInit == Init => VmxInv
<1> SUFFICES ASSUME Init PROVE VmxInv
    OBVIOUS
<1>1. pc = "idle" /\ (~vmxon => vmcs = "none")
    BY DEF Init
<1>2. vmxon <=> "VMXE" \in reg["cr"]
    BY DEF Init, Registers, HostVmx
<1> QED
    BY <1>1, <1>2 DEF VmxInv

LEMMA VmxStep ==
    VmxInv /\ PhaseInv /\ CrInv /\ RegInv /\ TypeOK /\ [Next]_vars => VmxInv'
<1> SUFFICES ASSUME VmxInv, PhaseInv, CrInv, RegInv, TypeOK, [Next]_vars, Clean' PROVE VmxInv'
    BY DEF VmxInv
<1>0. Clean /\ pc \in PCs /\ vendor' = vendor /\ VmTypeOK /\ RegTypeOK /\ orig.vmxon \in BOOLEAN
    BY StaysUnclean DEF TypeOK, ControlTypeOK, Next, vars
<1> USE <1>0
    DEF VmxInv, BeforeVm, OnlyVm, AfterVm, PCs, Bubble, SetupSteps, LoopSteps, RecoverSteps
<1>1. CASE PreRun
    BY <1>1 DEF PreRun, hw, saves, vm, PhaseInv
<1>2. CASE SetOuterFaultHandlers \/ SetSandboxPageTables \/ SetSandboxPageTablesFails
              \/ StoreOrigMsrState \/ NoSsbpPatch
    BY <1>2 DEF SetOuterFaultHandlers, SetSandboxPageTables, SetSandboxPageTablesFails,
                StoreOrigMsrState, NoSsbpPatch, Fail, hw, saves, vm, PhaseInv
<1>3. CASE SetSsbpPatch \/ SetPrefetchers
    BY <1>3
    DEF SetSsbpPatch, SetPrefetchers, SetMaskedMsr, Fail, vm, PhaseInv, RegTypeOK, Registers
<1>4. CASE SetControlRegisters \/ SetMsrsForActors
    BY <1>4
    DEF SetControlRegisters, SetMsrsForActors, Fail, saves, vm, PhaseInv, RegTypeOK, Registers
<1>5. CASE StartVmx
    <2>1. pc = "vm_start" /\ vendor = "intel" /\ saved["cr"] = orig.reg["cr"]
        BY <1>5 DEF StartVmx, CrInv, RegInv, Zero
    <2>2. UNCHANGED <<reg, orig, tc, orig_vmcs>>
        BY <1>5 DEF StartVmx
    <2>3. orig_vmxon' = ("VMXE" \in saved["cr"])
        BY <1>5, Zenon DEF StartVmx
    <2>4. orig_vmxon' = orig.vmxon
        BY <2>1, <2>3
    <2>5. vmxon = orig.vmxon /\ ~is_on /\ vmcs = orig.vmcs
        BY <2>1 DEF PhaseInv, VmTypeOK
    <2>6. \/ /\ is_on' = TRUE /\ pc' = "vm_store" /\ done' = done \cup {"vm_start"}
             /\ vmxon' = (IF orig.vmxon THEN vmxon ELSE TRUE)
             /\ vmcs' = (IF orig.vmxon THEN vmcs ELSE "none")
          \/ /\ pc' = "rec_vm" /\ UNCHANGED <<is_on, vmxon, vmcs, done>>
        BY <1>5, <2>1 DEF StartVmx, Fail
    <2>7. "vm_store" \notin done /\ "vm_store" \notin done' /\ "vm" \in tc
        BY <2>1, <2>6 DEF PhaseInv
    <2> QED
        BY <2>1, <2>2, <2>4, <2>5, <2>6, <2>7
<1>6. CASE StartSvm
    BY <1>6 DEF StartSvm, RegTypeOK, Registers
<1>7. CASE StoreOrigVmState
    <2>1. pc = "vm_store" /\ is_on /\ "vm" \in tc /\ "vm_store" \notin done
        BY <1>7 DEF StoreOrigVmState, PhaseInv
    <2>2. UNCHANGED <<reg, vmxon, vmcs, orig, tc, is_on, orig_vmxon>>
        BY <1>7 DEF StoreOrigVmState, hw
    <2>3. \/ /\ pc' = "vm_set"
             /\ orig_vmcs' = IF vendor = "intel" /\ orig_vmxon THEN vmcs ELSE orig_vmcs
          \/ pc' = "rec_vm" /\ orig_vmcs' = orig_vmcs /\ done' = done
        BY <1>7 DEF StoreOrigVmState, Fail
    <2> QED
        BY <2>1, <2>2, <2>3 DEF VmTypeOK
<1>8. CASE SetVmState
    BY <1>8 DEF SetVmState, Fail, saves, vm, PhaseInv
<1>9. CASE SetFaultyPagePermissions \/ SetInnerFaultHandlers \/ ExecuteTestCase
    BY <1>9
    DEF SetFaultyPagePermissions, SetInnerFaultHandlers, ExecuteTestCase, hw, saves, vm,
        PhaseInv
<1>10. CASE UnsetInnerFaultHandlers \/ RestoreFaultyPagePermissions
    BY <1>10 DEF UnsetInnerFaultHandlers, RestoreFaultyPagePermissions, hw, saves, vm, PhaseInv
<1>11. CASE RecoverVm
    <2>1. /\ pc = "rec_vm" /\ pc' = "rec_faulty" /\ reg'["cr"] = reg["cr"]
          /\ UNCHANGED <<orig, tc, done, orig_vmxon, orig_vmcs>>
        BY <1>11 DEF RecoverVm, RegTypeOK, Registers
    <2>2. ~is_on'
        BY <1>11 DEF RecoverVm, PhaseInv
    <2>3. CASE "vm" \notin tc \/ vendor # "intel" \/ ~is_on
        <3>1. UNCHANGED <<vmxon, vmcs>>
            BY <1>11, <2>3 DEF RecoverVm, VmTypeOK
        <3>2. vmxon = orig.vmxon
            BY <2>1, <2>3 DEF PhaseInv
        <3> QED
            BY <2>1, <2>2, <2>3, <3>1, <3>2
    <2>4. CASE "vm" \in tc /\ vendor = "intel" /\ is_on /\ orig.vmxon
        <3>1. orig_vmxon /\ vmxon
            BY <2>1, <2>4
        <3>2. vmxon' /\ vmcs' = IF orig_vmcs \notin {"null", "none"} THEN orig_vmcs ELSE vmcs
            BY <1>11, <2>4, <3>1 DEF RecoverVm
        <3> QED
            BY <2>1, <2>2, <2>4, <3>1, <3>2 DEF VmTypeOK, TypeOK
    <2>5. CASE "vm" \in tc /\ vendor = "intel" /\ is_on /\ ~orig.vmxon
        <3>1. vmcs' = "none" /\ ~vmxon' /\ vmxon' \in BOOLEAN
            BY <1>11, <2>1, <2>5 DEF RecoverVm, VmTypeOK
        <3> QED
            BY <2>1, <2>2, <2>5, <3>1
    <2> QED
        BY <2>3, <2>4, <2>5
<1>12. CASE RecoverFaultyPage \/ RestoreOrigPageTables
    BY <1>12 DEF RecoverFaultyPage, RestoreOrigPageTables, saves, vm, PhaseInv
<1>13. CASE RestoreSpecialRegisters
    BY <1>13
    DEF RestoreSpecialRegisters, vm, PhaseInv, RegInv, Recoverable, SavedRegisters, Registers,
        CrInv, Zero
<1>14. CASE Exception \/ Nmi
    BY <1>14 DEF Exception, Nmi, hw, saves, vm, Clean, PhaseInv
<1>15. CASE UnsetOuterFaultHandlers
    BY <1>15 DEF UnsetOuterFaultHandlers, hw, saves, vm
<1>16. CASE PostRun
    BY <1>16
    DEF PostRun, hw, saves, vm, PhaseInv, RegInv, Recoverable, SavedRegisters, Registers,
        CrInv, Zero, NothingSaved
<1>17. CASE HostActivity
    BY <1>17 DEF HostActivity, saves, vm, RegTypeOK, Registers, HostVmx
<1>18. CASE UNCHANGED vars
    BY <1>18 DEF vars
<1> QED
    BY <1>1, <1>2, <1>3, <1>4, <1>5, <1>6, <1>7, <1>8, <1>9, <1>10, <1>11, <1>12, <1>13, <1>14,
       <1>15, <1>16, <1>17, <1>18 DEF Next, Step

\* Inductive: the host save area has the host's value before SVM is started
\* and after the recovery, and in between that value is in orig_host_ssa_hpa.
SvmInv ==
    Clean /\ pc # "idle" =>
        /\ vendor = "intel" \/ "vm" \notin tc \/ pc \in BeforeVm =>
              reg["hsave"] = orig.reg["hsave"]
        /\ vendor = "amd" /\ "vm_start" \in done => orig_hsave = orig.reg["hsave"]
        /\ pc \in AfterVm \ {"rec_vm"} /\ "vm_start" \in done => reg["hsave"] = orig.reg["hsave"]

LEMMA SvmInit == Init => SvmInv
  BY DEF Init, SvmInv

LEMMA SvmStep == SvmInv /\ PhaseInv /\ TypeOK /\ [Next]_vars => SvmInv'
<1> SUFFICES ASSUME SvmInv, PhaseInv, TypeOK, [Next]_vars, Clean' PROVE SvmInv'
    BY DEF SvmInv
<1>0. /\ Clean /\ pc \in PCs /\ vendor' = vendor /\ RegTypeOK
      /\ vendor \in {"intel", "amd"}
    BY StaysUnclean, VendorAssumption DEF TypeOK, ControlTypeOK, Next, vars
<1> USE <1>0 DEF SvmInv, BeforeVm, AfterVm, PCs, Bubble, SetupSteps, LoopSteps, RecoverSteps
<1>1. CASE PreRun
    BY <1>1 DEF PreRun, hw, saves, vm, PhaseInv
<1>2. CASE SetOuterFaultHandlers \/ SetSandboxPageTables \/ SetSandboxPageTablesFails
              \/ StoreOrigMsrState \/ NoSsbpPatch
    BY <1>2 DEF SetOuterFaultHandlers, SetSandboxPageTables, SetSandboxPageTablesFails,
                StoreOrigMsrState, NoSsbpPatch, Fail, hw, saves, vm, PhaseInv
<1>3. CASE SetSsbpPatch \/ SetPrefetchers
    BY <1>3
    DEF SetSsbpPatch, SetPrefetchers, SetMaskedMsr, Fail, vm, PhaseInv, RegTypeOK, Registers
<1>4. CASE SetControlRegisters \/ SetMsrsForActors
    BY <1>4
    DEF SetControlRegisters, SetMsrsForActors, Fail, saves, vm, PhaseInv, RegTypeOK, Registers
<1>5. CASE StartVmx
    BY <1>5 DEF StartVmx, Fail, PhaseInv
<1>6. CASE StartSvm
    BY <1>6 DEF StartSvm, RegTypeOK, Registers, PhaseInv, OnlyVm
<1>7. CASE StoreOrigVmState \/ SetVmState
    BY <1>7 DEF StoreOrigVmState, SetVmState, Fail, hw, saves, vm, PhaseInv
<1>8. CASE SetFaultyPagePermissions \/ SetInnerFaultHandlers \/ ExecuteTestCase
    BY <1>8 DEF SetFaultyPagePermissions, SetInnerFaultHandlers, ExecuteTestCase, hw, saves, vm
<1>9. CASE UnsetInnerFaultHandlers \/ RestoreFaultyPagePermissions
    BY <1>9 DEF UnsetInnerFaultHandlers, RestoreFaultyPagePermissions, hw, saves, vm
<1>10. CASE RecoverVm
    BY <1>10 DEF RecoverVm, RegTypeOK, Registers
<1>11. CASE RecoverFaultyPage \/ RestoreOrigPageTables
    BY <1>11 DEF RecoverFaultyPage, RestoreOrigPageTables, saves, vm
<1>12. CASE RestoreSpecialRegisters
    BY <1>12 DEF RestoreSpecialRegisters, vm, SavedRegisters, Registers
<1>13. CASE Exception \/ Nmi
    BY <1>13 DEF Exception, Nmi, hw, saves, vm, Clean
<1>14. CASE UnsetOuterFaultHandlers \/ PostRun \/ HostActivity
    BY <1>14 DEF UnsetOuterFaultHandlers, PostRun, HostActivity, hw, saves, vm
<1>15. CASE UNCHANGED vars
    BY <1>15 DEF vars
<1> QED
    BY <1>1, <1>2, <1>3, <1>4, <1>5, <1>6, <1>7, <1>8, <1>9, <1>10, <1>11, <1>12, <1>13, <1>14,
       <1>15 DEF Next, Step

LEMMA VmAlways == Spec => [](TypeOK /\ CrInv /\ RegInv /\ PhaseInv /\ VmxInv /\ SvmInv)
<1>1. TypeOK => ControlTypeOK /\ RegTypeOK
    BY DEF TypeOK
<1>2. Spec => [](RegInv /\ CrInv /\ PhaseInv)
    BY <1>1, RegInit, RegStep, CrInit, CrStep, PhaseInit, PhaseStep, TypeCorrect, PTL DEF Spec
<1>3. Spec => [](VmxInv /\ SvmInv)
    BY <1>2, VmxInit, VmxStep, SvmInit, SvmStep, TypeCorrect, PTL DEF Spec
<1> QED
    BY <1>2, <1>3, TypeCorrect, PTL

\* The recovery leaves VMX exactly when the measurement entered it, and gives
\* another hypervisor its VMCS or host save area back, wherever the start of
\* the virtualization failed or an exception interrupted it.
THEOREM VmAlwaysRestored == Spec => []VmRestored
<1>1. ASSUME TypeOK, PhaseInv, VmxInv, SvmInv, pc = "post", Clean
      PROVE  /\ vmxon = orig.vmxon
             /\ ("vm" \in tc => "vm_store" \in done) /\ orig.vmcs # "none" => vmcs = orig.vmcs
             /\ ("vm" \in tc => "vm_start" \in done) => reg["hsave"] = orig.reg["hsave"]
    <2>1. ~is_on /\ pc \in AfterVm \ {"rec_vm"}
        BY <1>1 DEF PhaseInv, AfterVm, RecoverSteps, LoopSteps
    <2> QED
        BY <1>1, <2>1 DEF VmxInv, SvmInv
<1>2. TypeOK /\ PhaseInv /\ VmxInv /\ SvmInv => VmRestored
    BY <1>1 DEF VmRestored
<1> QED
    BY <1>2, VmAlways, PTL

\* In no state of a measurement is the CPU in VMX root operation with CR4.VMXE
\* clear: the order of the setup and that of the recovery are right, also when
\* the recovery starts in the middle of the setup or is started again.
THEOREM VmxeAlwaysWhileVmxOn == Spec => []VmxeWhileVmxOn
<1>1. TypeOK /\ PhaseInv /\ VmxInv => VmxeWhileVmxOn
    BY DEF TypeOK, VmTypeOK, VmxInv, VmxeWhileVmxOn
<1> QED
    BY <1>1, VmAlways, PTL

=============================================================================
