# A verification project for Revizor (side-channel-fuzzer)

Revizor tests CPUs against *speculation contracts*. It generates random test
cases, predicts with a contract model which inputs must be indistinguishable,
measures the test case with all inputs on the real CPU inside a kernel module,
and reports two inputs that the contract calls equal and the CPU tells apart.
A wrong report, a missed step or a host that crashes all cost days of fuzzing,
and most of what can go wrong sits between the parts: in a kernel module that
outlives the processes that use it, and in a round of stages that reuse each
other's results.

The project holds TLA+ modules of these parts, TLC configurations that check
them on small instances, and TLAPS proofs of their invariants for all instances.
Paths below are relative to `src/rvzr/`, and `executor_km/` is the kernel module.

## 1. Inventory

| component | state it keeps | operations | interacts with |
|---|---|---|---|
| measurement bubble (`measurement.c`, `x86/idt.c`, `x86/fault_handlers.S`) | IDT in force and saved, nesting of faults, original state | `trace_test_case`, `run_experiment`, `recover_orig_state`, the three handlers | everything it reprograms and must undo |
| special registers (`x86/special_registers.c`) | saved MSRs and control registers, 0 = not saved | store, set, restore | bubble |
| host page tables (`page_tables_host.c`) | cached PTE pointers, original PTEs, faulty PTEs | cache, store, set and restore permissions | sandbox manager, bubble |
| VMX and SVM (`x86/vmx.c`, `x86/svm.c`) | whether we entered, original VMCS or host save area | start, store, set, restore, stop | bubble, CR4 |
| input parser (`input_parser.c`) | position, buffers and the counts they were sized for | `parse_input_buffer`, `inputs_store` | data loader, test case parser (`n_actors`) |
| test case parser (`test_case_parser.c`) | position, section counter, tables, feature flags | `parse_test_case_buffer`, `test_case_store` | sandbox manager, code loader |
| sandbox manager (`sandbox_manager.c`, `x86/page_tables_guest.c`) | areas, pointers into them, per-actor arrays, counters of their sizes | allocate, resize, map, free | both parsers, page tables |
| trace interface (`main.c`) | `next_measurement_id`, `unfinished_call`, ready flags | `trace_show` | executor |
| mode switches (`main.c`) | measurement mode, fast mode, register mode | sysfs stores | executor, code loader |
| executor (`executor.py`) | loaded test case, batch of inputs | `load_test_case`, `trace_test_case`, `_read_trace` | trace interface, round |
| fuzzing round (`fuzzer.py`) | boosted inputs, contract and hardware traces, ignore list, violations | the stages of `_RoundManager` | model, executor, analyser, generator |
| fuzzing loop and filters (`fuzzer.py`, `arch/x86/fuzzer.py`) | counters, deadline, two executors on one module | `start`, `_filter`, the `fuzzing_round` of three fuzzers | all of the above |
| Unicorn contract model (`model_unicorn/`) | emulator, checkpoints and store logs, pending faults and stores, page protection, current actor, switch targets, trace | `trace_test_case`, the hooks, `_run_state_machine`, the speculators, the macros, the tracers | round, taint tracker, Unicorn |
| taint tracker (`model_unicorn/taint_tracker.py`) | dependencies, checkpoints of them, tainted labels | `track_instruction`, `track_memory_access`, `taint`, `checkpoint`, `rollback` | contract model, data generator |
| DynamoRIO contract model (`model_dynamorio/`) | speculation state of the backend, traces | `trace_test_case` | round |
| code generator (`code_generator.py`, `arch/x86/generator.py`, `isa_spec.py`) | the reduced instruction set, the program being built, the cached template | graph, terminators, instructions, templates, six passes, printing | parsers, loop |
| assembly and ELF parsers (`asm_parser.py`, `elf_parser.py`, `tc_components/`) | patched file, code map, instruction map, symbol table | `parse_file`, `populate_elf_data`, `save_rcbf` | generator, minimizer, model, kernel module |
| minimizer (`postprocessing/`) | the violation at hand, inputs, lines, ignore list | `run`, input, instruction and analysis passes | round, parsers |
| configuration, command line, logs | options | parse, print | all |

### What is hard here

* **Asynchronous control**: exceptions hit any instruction of the bubble, also
  the recovery, and NMIs hit the handlers too.
* **Undoing what was never done**: `recover_orig_state` is called after an error
  at any step of the setup, and undoes all of them.
* **State that survives**: static variables of the parsers, buffers, counters,
  modes and unread results survive the process that was killed between two calls.
* **Streams cut anywhere**: both files and the results cross sysfs in pieces
  that neither side chooses; position is a counter on each side.
* **Failing allocations** that leave one of several buffers gone.
* **Corrupted measurements** (SMIs): the rest of a batch is stale.
* **Speculation in the model**: registers, memory, taints and dependencies are
  checkpointed in different classes, stores are undone from a log, and one-shot
  flags are set by one hook and consumed by the next one.
* **Two actors**: a switch changes the program counter, the data base, the
  stack and the current actor, a rollback restores the first three and recomputes
  the fourth, and the targets of switches are never undone.
* **Code about code**: the generator must make programs that cannot leave the
  sandbox or fault, whatever the values; the parsers pair lines, instructions,
  addresses and symbols by counting; the minimizer edits text by line number and
  must never report what it did not measure.
* **Reuse between stages**: whether contract traces, boosts and samples are
  recomputed depends on flags set by earlier stages.

`PROJECT.json` lists these as hazards, each at its line, with the properties
that would catch it going wrong.

## 2. Modules

Each module names what its variables and actions stand for; `map` in
`PROJECT.json` gives the source lines of every definition.

### HostState (MCHostState, HostStateProofs)

One measurement. `pc` is the call that executes next, so an exception or an NMI
can come between any two calls. `Step` collects the calls of `trace_test_case`
and `run_experiment`; `Exception` and `Nmi` are the handlers. A register is the
set of its bits that matter; 0 is the empty set, since the code takes a saved 0
for "not saved". Page table entries are symbolic: the host's, the ones of the
module, a zero entry, junk read past an array, a NULL array. `HostActivity` lets the
host change its own registers and start or stop using VMX between measurements.
`orig` records what the host had before, `done` which steps were made.
The vendor is chosen initially and never changes.

### SandboxManager (SandboxManagerProofs)

`test_case_store` after the parser: the resizing of all areas and per-actor
arrays, one action per function that allocates, each of which can fail. There
are five counters called `old_n_actors`. They mean different things: the last
number of actors (`allocate_sandbox`, `cache_host_pteps`,
`store_orig_host_permissions`, `set_guest_page_tables`) or the largest one ever
tried (`allocate_guest_page_tables`, which updates it *before* it allocates). Sizes
are counted in actors; pointers are current or stale, which needs no addresses.
`oops` is an access outside of an array or through NULL, and is final.

### InputParser (InputParserProofs), TestCaseParser (MCTestCaseParser, TestCaseParserProofs)

The two incremental parsers with the process that writes the file. A write hands
over any number of units; a call handles one phase and says how much it consumed.
Contents are numbers of units in the file, so that the final buffers can be
compared with what should be in them. The writer may be killed anywhere
(`Abort` in InputParser), and the next writer meets whatever position is left.
Allocations may fail. What is misread as a header holds any counts: the check of
InputParser looks at the low half of a count as a signed `int` (`AsInt`), and the size of the data
wraps around (`DataSize`), as in the code. In TestCaseParser the files are records chosen by
MCTestCaseParser; the result of the integrity check is a choice where
the code reads the uninitialised `has_start`. `header` is the file whose header the
module has read, `func_cursor` is unsigned as in the code, and `stale` marks a file that met the section
count of another one: nothing is promised about it, and both properties say so. A
header that is read from the middle of a file counts as rejected, and a writer that is killed
during the upload of a test case is not modelled.

### TraceService and TraceProtocol (TraceProtocolProofs)

TraceService is the abstract promise to the fuzzer: a call ends, with one reading
per input and repetition, all made in this call for this input, or with an
error. TraceProtocol is how the module and `executor.py` keep it: pages of
lines in descending order, batches of repeated inputs, counting of lines,
rewinding after an error, sessions that die. SMIs corrupt measurements.

### FuzzerRound (MCFuzzerRound, FuzzerProofs)

`fuzzing_round` with its stages. The hardware decides which traces differ and
which measurements fail; contract traces are a function of nesting and input,
chosen initially. What is modelled exactly is what flows from stage to
stage: boosted inputs, contract traces, samples and their merging, the
ignore list, and the flags that decide what is recomputed.

### FuzzLoop (FuzzerProofs)

`Fuzzer.start` with the x86 filters and the check for an architectural mismatch, and
the rounds of `ArchitecturalFuzzer` and `ArchDiffFuzzer`, as users of the modes of
one kernel module. `linked` is what `load_sandbox_code` last produced: the test
case, whether fenced, and the modes at that time. A session chooses its
configuration, so that one fuzzer meets what another kind left behind.

### TestProgram, Interpreter, TaintTracker, Tracers and ContractModel (MCContractModel, ContractModelProofs)

The contract model on Unicorn. TestProgram is a small machine in the place of the
emulator (marked external): two registers, two cells, the second on the faulty
page, thirteen instructions that between them load, store, branch, divide,
overwrite, serialize and are privileged, and the macros. The code of a test case
is that of main and that of a second actor, a user or a guest.
Interpreter is `interpreter.py`: what each macro does to the program counter, the
registers and the mode (current actor, data base, switch targets), which
instructions fault outside of the kernel, and the permissions that a page table
entry gives. It also has the reference `SequentialResult`, what the code
does without speculation. TaintTracker is `UnicornTaintTracker` as operators on a
record, Tracers what each observation clause records and taints.
ContractModel is `UnicornModel` with the state machine of `_run_state_machine` as
`phase`: one action per hook (`InstructionHook`, `Execute` with the memory
hook), per way out of the emulator (`SpeculateOnFault`, `SquashFault`,
`ArchitecturalFault`, `Stopped`) and per re-entry (`Enter`). `spec` is the state of
`UnicornSpeculator`, `sub` that of its subclasses; what a subclass overrides is a
definition of its own (`Mispredict`, `BypassStore`, `SkipDependent`, `RestoreProtection`,
`InjectZero`, `Unprotect`, `DelayFault`). The first input is traced with taints and
the second one, boosted from it, without, which is how the fuzzer uses the model.
Faults are assumed to be in the list of handled ones.

### AsmProgram, ElfParser and AsmParser (MCAsmParser)

From an assembly file to what the executor is sent. A line is a record of its kind
and names, never text. AsmProgram has the patcher (`_AsmPatcher`), the
renumbering, the code map (`_CodeMapBuilder`) and the control flow. ElfParser has
the assembler's layout (external), the symbol table, the macro checks, the walk
that pairs instructions with addresses, and the RCBF table. AsmParser is the
process: an author writes a file line by line, `parse_file` goes through its steps, each
of which may reject, and the stored file is parsed a second time, as the
minimizer and the reproducer do.

### X86Passes, X86Sandbox and Generator (MCGenerator)

X86Passes has instructions and operands, the reduction of the instruction set
and the search for instructions that define flags. X86Sandbox has the passes
that rewrite instructions: address masks, guards of divisions, bit
tests, repeated instructions, undefined results, noncanonical addresses,
accesses from user to kernel, opcodes. Generator is the process: graph,
terminators, random instructions or a template, the passes in their order, symbols.
The processor (external) executes the blocks that come out, from several states, to say
what a good test case is. An access takes as many units of memory as it is wide, and a repeated
one goes on from there, up or down (`Starts`, `Accessed`). AF is one of the flags, read by `lahf`
and left undefined by the masks. Everything random is a choice.

### Minimizer (MCMinimizer, MinimizerProofs)

`Minimizer.run` with all passes. What really leaks is fixed initially: the word of
the input, and how much of each line is needed (gone, a NOP, simplified, as it
is). A round reports only real violations, as FuzzerRound shows, but may miss
some (`noise`). A line of instrumentation stands `before` some instruction, be it the one it
protects (masks, guards), or any that follows what it protects (`sub`, `stc`, patches of flags).
The simplification passes differ only in which
lines they change and how often, and are one action.

### How they fit together

The modules meet at interfaces that each side states on its own: TraceProtocol
takes the inputs as uploaded (which InputParser shows), SandboxManager starts
where TestCaseParser says "finished", HostState refines "a measurement" of
TraceProtocol, FuzzerRound relies on TraceService and on traces that ContractModel makes, FuzzLoop on FuzzerRound ending.
Generator EXTENDS AsmProgram, so that `PrintedFlow` compares what was drawn with
what the modelled parser reads; ContractModel relies on
`InstructionMapExact` (`InsnOf` looks up the instruction at an address), and Minimizer on
`StoredProgramStable` (each pass parses what the last one stored) and on `ReportedConfirmed`.
TraceProtocol => TraceService is a checked refinement.

## 3. Runs

| run | what it checks | distinct states |
|---|---|---|
| `host_recovery` | IDT, registers, PTEs and virtualization state come back; CR4.VMXE stays while VMX is on; measurements end | 671 thousand |
| `inputs_upload` | buffer sizes are known and writes stay inside, but after a misread count beyond the limit; fragments land where the loader reads them, uploads end | 506 thousand |
| `tc_upload` | code lands in its section and is complete, success means ready and checked, uploads end | 3.6 thousand |
| `sandbox_sizes` | a ready test case has a consistent sandbox; no array is overrun unless an allocation failed | 2.5 million |
| `trace_service` | refinement of TraceService, line counts, nothing left between calls, calls end | 395 thousand |
| `round_stages` | what is reported was confirmed with consistent traces; only traces of equal size are compared | 259 thousand |
| `contract_trace` | speculation is rolled back completely, also across switches of actors; nothing inside it changes what its end brings back; checkpoints, trackers and the current actor agree; boosted inputs have the trace they were boosted for under every clause; tracing ends | 915 thousand |
| `loop_modes` | rounds of all three fuzzers, filters and checks measure the code and mode they mean to | 29 thousand |
| `asm_parse` | instruction map and symbols are those of the binary, the graph covers the code, a stored program parses to itself | 630 thousand |
| `minimize` | results are what was measured and still leak, differing words matter, instrumentation goes after the instruction it was put before, minimization ends | 136 thousand |
| `generate` | generated accesses start in the sandbox and leave it by no more than their width and repetitions; no forbidden fault, no undefined flag read but AF, prints as drawn | 56 thousand |
| `minimize_inputs` | a violation, see section 6 | |

`TypeOK` is the first conjunct of a main invariant in every module that defines it
(`IdtRestored` in HostState). AsmParser, Generator and Minimizer
state no type invariant: their properties relate whole programs.

### Bounds and why they are enough

* `MaxIters = 2` executions: the first and a later one differ (the inner IDT is
  installed again), a third repeats the second. `Continue = FALSE` stops after an NMI or a nested
  exception: the code promises nothing about registers then (section 6).
* `HostMasks`: a bit that the fuzzer does not touch, since what was 0 is not
  restored (section 6); the theorem covers all masks.
* `MaxActors = 2`, `MAX_INPUTS = 3`: batches that grow in one count and shrink in
  the other, the case where counts and product disagree, and one above the limit.
  `IntRange = 16`, `SizeRange = 32` and `AnyCounts` stand for the widths: a misread count
  whose low half is negative, one with high bits only, one whose product wraps to a small size, and one
  where it wraps to 0, which cannot be allocated.
* `MaxWrite = 3`: writes shorter, equal to and longer than a phase.
* Three actors in SandboxManager: growing twice, and growing again after shrinking.
* Two batch sizes, `RepCounts = {1, 4}`, `BatchFactor = 2`, `BatchLimit = 3`:
  with and without batching, with a last partial batch; pages of any
  length from one line.
* Two original inputs in classes of two, two contract traces, two nesting depths: the smallest
  round in which boosting, nesting and ignoring are all visible.
* Programs of two to four instructions with every contract and every input, with and
  without protection and with both kinds of handlers: two instructions are enough for one
  kind of speculation inside another, three for a store between them, four
  for a value that leaves a register through memory. `MaxNesting = 2` nests once,
  `MaxSpecWindow = 3` ends some speculations by the window and others by a fence,
  a fault or the exit. `Observed` tries the other clauses, with a cache line of two
  instructions, `Protected` the other bits that protect a page, `TwoActors` every
  kind of switch, there and back, with speculation or a fault before it, in the
  second actor and behind it. `Divergent` leaves out what section 6 describes.
* Files of up to four lines between the first section and the exit, two actors and
  macros of three words: a reopened section, a label before any code, a
  block without code and a macro at an edge all fit, and two of them at once.
* Eight-bit words, a sandbox of two pages of eight units, accesses of one, two and four units, repetitions
  that take half a page as in the code, one to three blocks, two
  or three instructions, six register states, twelve configurations: each pass is on
  and off, and the masks, the dividend and the divisor meet zero, the largest value and
  the sign bit.
* Two missed rounds (`MaxNoise`), two retries, two attempts, up to four inputs of two
  regions: enough for a pass to fail where a later one succeeds, for an
  odd block, and for a class whose first members are not the violating ones.
* Two test cases, three sessions, three modes and three kinds of fuzzers in FuzzLoop: a session that
  inherits what a killed one left, of the same or another mode and kind.

The modules with `CHECK_DEADLOCK FALSE` really stop: a round is over, the loop
used its sessions, an oops ended the run, a file was rejected or parsed twice, a
violation was minimized, or the generator raised an error.

### Fairness

Weak fairness only, and only of a process that is executing: `Step` in HostState
(the CPU runs the module with interrupts off, and a NULL dereference does raise
an exception); writing and closing in the parsers; `InCall` in
TraceProtocol; all of ContractModel and of Minimizer, each of which is one thread. Nothing is assumed of opening files, starting calls, dying, SMIs, exceptions or NMIs.
FuzzerRound, FuzzLoop, SandboxManager, AsmParser and Generator are safety specifications.

### Mutants

Each property of each passing run has a mutant: a variant of a mapped definition with
a plausible slip (saved after it was overwritten, a counter
compared off by one, a cache reused too long), defined before the
original. Put in its place it violates the property under the same configuration.

## 4. Proofs

All for arbitrary values of the constants, under the named assumptions of the
modules. None of the invariants that the runs check is inductive as it stands; the
second column names what is proved by induction, and the text below says why it
takes that.

| theorem | inductive invariant | property |
|---|---|---|
| `HostStateProofs!TypeCorrect` | `TypeOK` with `IdtInv` | first conjunct of `IdtRestored` |
| `HostStateProofs!IdtAlwaysRestored` | `IdtInv` | `IdtRestored` |
| `HostStateProofs!RegistersAlwaysRestored` | `RegInv` | `RegistersRestored` |
| `HostStateProofs!PageTablesAlwaysRestored` | `PteInv` | `PageTablesRestored` |
| `HostStateProofs!VmxeAlwaysWhileVmxOn` | `PhaseInv`, `CrInv`, `VmxInv` | `VmxeWhileVmxOn` |
| `HostStateProofs!VmAlwaysRestored` | the same and `SvmInv` | `VmRestored` |
| `InputParserProofs!CapacityAlwaysKnown` | `SizeInv` with `UploadInv` | `CapacityKnown` |
| `InputParserProofs!WritesAlwaysInBounds` | `SizeInv` | `WritesInBounds` |
| `InputParserProofs!UploadAlwaysCorrect` | `UploadInv` | `UploadedCorrectly` |
| `TestCaseParserProofs!CodeAlwaysComplete`, `UploadedAlwaysReady` | `UploadInv` | `CodeComplete`, `UploadedTestCaseReady` |
| `SandboxManagerProofs!SandboxAlwaysReady` | `ReadyInv` | `SandboxReady` |
| `SandboxManagerProofs!NoOopsWithoutFailure` | `NoOopsInv` | `OopsOnlyAfterFailure` |
| `TraceProtocolProofs!AlwaysAtBoundary`, `CountsAlwaysAgree` | `KmInv`, `LinesInv` | `AtBoundary`, `CountsAgree` |
| `TraceProtocolProofs!TracesLikeService` | the same, `ReadingsInv`, `AnswerInv` | safety part of `ImplementsService` |
| `FuzzerProofs!ReportedAlwaysConfirmed`, `AlwaysEqualSampleSizes` | `RoundInv` | `ReportedConfirmed`, `EqualSampleSizes` |
| `FuzzerProofs!AlwaysMeasuresRightCode` | `ModesInv` | `MeasuresRightCode` |
| `MinimizerProofs!DifferenceAlwaysLeaked` | `InputInv` | `DifferenceIsLeaked` |
| `MinimizerProofs!ResultAlwaysVerified`, `StoredAlwaysLeaks` | `ProgramInv` | `ResultIsVerified`, `StoredStillLeaks` |
| `MinimizerProofs!InstrumentationAlwaysLast` | `ShapeInv` with `ProgramInv` | `InstrumentationLast` |
| `ContractModelProofs!ServicesAlwaysInSync` | `ModelInv` | `ServicesInSync` |
| `ContractModelProofs!SpeculationAlwaysComesBack` | `ModelInv` with `StoresOK` | `SpeculationComesBack` |
| `ContractModelProofs!SpeculationNeverLeavesState` | the same with `PathInv` | `SpeculationLeavesNoState`, where `Tame` |

### Along which arguments

* **HostState.** Leaving the bubble loads whatever `orig_idtr` holds, so `IdtInv` says that
  inside it is the host's. Recovery may start anywhere, so `RegInv` says that
  at each point every register is `Recoverable`: its host value is saved, or
  nothing is saved and the register still has it. That needs where nothing may be saved
  yet (`NothingSaved`: a second save would overwrite the first). `PteInv` says the
  same of page table entries. For the virtualization the invariant goes by phases: before
  VM setup nothing of VMX or SVM is ours; in it only the flags of what was
  really done are set; behind it they are undone in the opposite order,
  which is why CR4.VMXE outlives VMX operation (`CrInv` with `VmxInv`).
* **InputParser.** The remembered counts describe the buffers as long as they
  exist (`BuffersKnown`), and a batch being received fits, as long as the remembered count of inputs is within
  the limit. The core is the arithmetic lemma
  `ProductFits`: counts each within the remembered ones have a product within
  the remembered product, which does not wrap for counts within the limits (`DataSizeBounds`). A count beyond
  the limit is only accepted from a misread header: what a file says is small enough for the cast to change nothing
  (`FileCountsChecked`), so `UploadInv` has the count within the limit until an upload is
  interrupted. It also says that every fragment before the position
  is where the loader reads it.
* **TestCaseParser.** `UploadInv` follows the parser through the file: in the tables no
  section has begun; in the code the position is inside the section that is
  counted, all sections before it are full and within the limit, and it holds its own
  bytes so far.
* **SandboxManager.** The five counters of old sizes are wrong after a failed allocation, so the
  proof has two invariants. `NoOopsInv` relates them to the real sizes as long as
  nothing failed. `ReadyInv` says, for each step of the resizing, which arrays and
  pointers are already right, whatever failed before.
* **TraceProtocol.** What was read, what is printed and what the module still
  has to print are together whole measurements, all of them wanted (`LinesInv`), so
  that a count of lines tells the reader where the module is. For the refinement each
  line that is filed must be the reading of its input and repetition
  (`ReadingsInv`). Then each step is a step of TraceService or a stutter.
* **FuzzerRound.** `RoundInv` says which inputs and which nesting the traces in the
  hands of the round are of, that inputs of a class are ignored together, and
  that each input that is not ignored has at least the samples of the first one, from
  which the missing repetitions are computed.
* **FuzzLoop.** The modes of the module at each point of a session; nothing is known
  about them between sessions.
* **Minimizer, inputs.** `InputInv` follows the differential pass through the words: in what is
  settled the two inputs differ only where making them equal hid the violation. The same input object
  may be in several lists, and every write reaches all of them.
* **Minimizer, programs.** Each pass edits a program in place and collects line numbers, from
  which `Replay` builds its result anew. `ReplayFollowsLoop` is the
  heart: at any point, the loop's program is what `Replay` makes of
  the lines decided so far, followed by the lines not yet visited, so that the result is
  the program of the last successful check. It is a fact about concatenations of pieces,
  proved by induction over the number of pieces (`ReplaySplit`). Label removal is a
  selection of lines (`WithoutLabelsFacts`).
* **Minimizer, instrumentation.** A pass takes the tag from the line before a modified one, and a line
  without a tag is tried in the next pass. `Shape` says that an instrumentation line is tagged, and right before
  more of it or the instruction it was put before (or a fence that came in between), unless that instruction is gone or
  a NOP. It is kept because two neighbours stay neighbours in the result (`ReplayOrigins`) as long
  as that instruction survives (`NextSurvives`). For masks and guards it is the instruction they
  protect; for instrumentation behind what it protects the theorem says nothing of that (section 6).
* **ContractModel, services.** `ModelInv` says where execution can be (`Flow`), as which actor (`ModeOK`),
  and that the stacks of the speculator, its subclass and the taint tracker are of one height
  (`SpecOK`, `SubOK`, `TrackerOK`). A switch goes to whatever target is set, so the invariant needs that
  who is at an address came by the setters that no branch skips (`Prepared`).
* **ContractModel, memory.** `Arch` is the memory that the logs of all levels lead back to. A rollback
  undoes a log from its end, so of several stores to a cell the oldest one decides (`UndoneByLoop`),
  and the oldest level with an entry decides among the levels. `StoresOK` adds the store that `bpas`
  took back and has yet to redo.
* **ContractModel, path.** `PathInv` says that execution, or during speculation the place that the end brings it back to,
  is always a state of the run without speculation (`Reached`), at an index below its place in the order of code (`Rank`), so
  that the reference run, which is cut at a fixed length, is long enough. Targets of switches may be
  set where the other run has none yet, hence `InterpretAgrees`: a macro then leads both the same way.
  `PermOK` says that the page is open only in speculation on a fault and in the handler behind it,
  `FaultsOK` that a fault outside of speculation is the one of the instruction that is next.

Inductions over numbers (lines, words, pieces, bytes) are made without the library's
induction rules: a least counterexample exists since `<` is well-founded on `Nat`
(`LeastNumber`), or the set of numbers up to which a fact holds is all of them (`UpTo`).

### From which assumptions

* InputParser: the widths of the counts leave room for batches within the limits (`SizesAssumption`); with
  32 and 64 bits and the limits of the code they do.
* TraceProtocol: there is a largest batch (`CountsAssumption`).
* TestCaseParser: the offsets of a file are those of its sections, one behind the other,
  as `save_rcbf` writes them.
* FuzzerRound: sample sizes ascend (`docs/ref/config.md:753`). `ReportedAlwaysConfirmed` has
  `AnalyserIsStable` as a hypothesis, the same answer for the same traces. Without it
  the theorem is false: the analysis after the last enlargement may report a
  class that was ignored before and has fewer samples. `round_stages` makes the same choice.
* Minimizer: regions end in ascending order; inputs are words; programs are sequences of lines; labels
  are not needed for the leak; instrumentation is tagged and stands right before some instruction, which it was put
  before or behind, as the passes insert and print it (`Instrumented`); nothing is said of instrumentation with a label
  behind it (`before = 0`).
* ContractModel: test cases are `WellFormed` as `docs/ref/macros.md` asks: the second actor ends in a switch
  back, and a switch has its target, and the target of the way back, set in front of it.
  `SpeculationAlwaysComesBack` excepts memory where `RedoesFaultingStore`. `SpeculationNeverLeavesState` has
  the hypothesis `Tame`, of three parts: not `RedoesFaultingStore`; `OneEntry`, since the targets of switches are
  neither rolled back nor reset (without it the property is false, see section 6);
  and assist contracts have nesting to begin an assist in, as otherwise it faults.
  Every test case of `contract_trace` satisfies `Tame`.

### What is only model-checked

* Liveness (`MeasurementEnds`, `UploadEnds`, `TestCaseUploadEnds`, `CallEnds`, `TracingEnds`,
  `MinimizationEnds`) and the fairness part of `ImplementsService`: TLAPS has no rules for
  liveness under fairness here.
* AsmParser (a recursive operator for reachability) and Generator (bitwise operations on
  words): both keep the prover from its SMT solver, and their properties are about what
  walks over whole programs compute, which takes induction over data.
* `BoostedSameTrace` of ContractModel compares the traces of two runs of different inputs. An
  inductive invariant would need the whole history of the first run and how far the second one follows it.

## 5. Not modelled

* Kernel module: machine code generated from macros and its effect on caches;
  performance counters; contents of VMCS, VMCB and guest page tables; the page walk;
  the ARM64 port; failed module initialisation and debugging dumps; two processes that use
  the module at the same time (the tool never does).
* Contract model: flags, memory accesses of the second actor (so also
  `induce_user_faults`), extended page tables, the noncanonical speculator, the
  `ct-ni` tracer, SIMD and REP in the taint tracker, and the hook that Unicorn calls a second time
  after a change of protection. The `vspec` speculators cannot be constructed: their
  constructor raises NotImplementedError.
* Kernel module, details: the write to MSR_FEATURE_CONTROL before VMXON, and the check of the number of
  symbols in the header of a test case.
* Parsers and generator: the text of one instruction, operand widths other than those that decide about masks
  and guards (512-bit accesses, aligned to 32 bytes only, are left out), the packing of macro arguments into 16 bits,
  everything for ARM64, the download and the file format of the instruction set. Seeds and
  probabilities are choices.
* Minimizer: the text that the analysis pass writes.
* The DynamoRIO model: its dispatcher is C++ that runs inside DynamoRIO; the
  Python side starts a process and decodes a file.
* Statistical tests of the analyser; values of random data; configuration, command
  line and logs, which keep no state the properties are about.

## 6. Where code and documentation disagree

Shown by a run with `expect: violation`:

* `minimize_inputs` - after the input passes `Minimizer.run`
  (`postprocessing/minimizer.py:131`) checks the old inputs and then uses the new ones, though the
  comment above says "Check if the violation can be reproduced with the new inputs". If the
  passes end with inputs that show nothing, the instruction passes run
  on them.

Noticed while modelling, part of the models, not run on their own.

Kernel module, rounds and loop:

* The section counter of the test case parser (`test_case_parser.c:283`) survives a
  file that is rejected for its size, and the next file starts in the middle.
* A filtered test case skips the check of the timeout (`fuzzer.py:518`);
  `fuzzer.py:493` calls it the maximum time to run.
* `restore_special_registers` (`x86/special_registers.c:327`) does not write back
  a saved 0, so an MSR that was 0 on the host keeps the fuzzer's value;
  `docs/executor_km_code_analysis.md:260` says every change is undone.
* `_read_trace` (`executor.py:177`) rejects only a trace that is 0, so a corrupted
  one with other bits, and the stale ones behind it, are accepted; hence `smi` in `Service`.
* In the noise stage (`fuzzer.py:271`) the zero sample of an ignored input is
  merged with earlier samples, and the input is analysed again; `analyser.py:101`
  says that ignored traces are filtered out.
* `nmi_handler` (`x86/fault_handlers.S:212`) leaves without `recover_orig_state`;
  `docs/executor_km_code_analysis.md:587` says it restores the state.
* `stop_svm_operation` (`x86/svm.c:156`) writes the saved host save area even if
  it was not saved in this measurement; hence the condition in `VmRestored`.
* `trace_show` (`main.c:273`) returns an error without clearing
  `unfinished_call`, after which `executor_exit` refuses to free anything.
* `test_case_store` (`main.c:351`) goes on with a test case that the integrity check rejected,
  though the writer gets an error; `has_start` (`test_case_parser.c:129`) is uninitialised.
* The loop over actors (`test_case_parser.c:183`) stops at the first guest or user actor.
* `fp_early_priming` is never incremented (`fuzzer.py:613`), an IOError in the
  architectural check confirms the violation (`fuzzer.py:394`), and one in the priming check
  ends the session (`fuzzer.py:349`).
* After a failed allocation, a test case with fewer actors makes the
  sandbox manager clear memory that is gone (`sandbox_manager.c:228`), or the
  guest code clear tables that are gone (`x86/page_tables_guest.c:809`).

* `start_batch_input_parsing` (`input_parser.c:64`) compares `(int)new_n_inputs` with the limit, and the size of the
  data (`input_parser.c:72`) wraps around, while the whole count is remembered. The comment at
  `input_parser.c:74` says that buffers grow with the counts. After an interrupted upload, data that is misread as a header
  may have a count whose low half is small: it is accepted with a wrapped size, and later batches
  neither reallocate nor fit. TLC finds both properties violated without their conditions on
  `highest_n_inputs`. Without an interrupted upload this cannot happen (third part of `CapacityKnown`).

Contract model:

* Under `bpas`, `_previous_store` (`speculators_basic.py:383`) keeps a store that
  faulted. If the fault goes to a handler with code, its first
  instruction bypasses that store, and the rollback writes the value that was
  never stored. TLC finds it; `Divergent` in MCContractModel leaves these tests out.
* Taints do not cover two cases (`ImperfectTaint`; the fuzzer's slow path catches
  them): whether a division faults depends on a divisor that is not tainted,
  and after a delayed fault a register that was not written counts as overwritten.
* `X86CondSpeculator.decode` reads a short displacement as unsigned
  (`speculators_basic.py:206`), so a short jump backwards would go forward;
  generated code only jumps forward.
* `cond-bpas` mispredicts no branch and bypasses no store: both `super(...)`
  calls (`speculators_basic.py:413` and `416`) go past the method that was meant.
* Under `nullinj-assist` a division by an injected zero faults forever:
  `_pending_restore_permissions` (`speculators_fault.py:443`) survives the rollback and
  protects the page again before the instruction is repeated. The same happens to a load
  with a switch behind it: the rollback (`speculators_fault.py:391`) opens the page of
  the actor that is current, not of the one that faulted. `Divergent` leaves both out.
* The targets of switches (`interpreter.py:308`) are neither rolled back nor reset for an input, though
  `rollback` (`speculator_abc.py:97`) says "Rollback the model and its service modules to the last
  checkpoint". With a body of `set_u2k_target`, `set_k2u_target`, `jcxz`, `set_k2u_target_f2`, `switch_k2u`
  and a user of `movCA`, `switch_u2k`, the second target is set behind the mispredicted branch, and TLC finds
  `SpeculationLeavesNoState` violated under `cond`: the architectural switch enters the wrong function. The tests of
  `contract_trace` set one target each. A target that was never set is address 0.
* A fault in the second actor enters main's handler with the data base and the stack of the
  faulting actor.
* `load_input` (`interpreter.py:579`) does not reset a page that has all permissions.
* `tcto` (`tracer.py:224`) compares offsets of start and end of an access, which always
  differ, so that every access counts as crossing a line.
* The clauses `pc`, `memory` and `ct-nonspecstore` taint only what they observe, so that
  a boosted input may take another path (`ImperfectTaint`).

Parsers:

* Each parse of a stored file adds another `.section` line before the exit
  (`asm_parser.py:318`); harmless, but the file grows.
* Code before the first label of a section that is not the first one, or is reopened, has no function
  symbol in the binary (`asm_parser.py:111`).
* Macros and directives behind the exit are ignored by the parser and assembled all the same.
* A function whose name is a prefix of another one gets a second `measurement_start`.
* Line numbers of `nop` lines may be wrong after the first parse (`asm_parser.py:683`
  says so), and right after the second.
* `_validate_macros` (`elf_parser.py:451`) combines with `and` what was meant as `or`.

Generator:

* Patches of flags behind an instruction are inserted in reverse order
  (`arch/x86/generator.py:786`), so that a patch can undo the one it was chosen after;
  `FlagsDefined` leaves such programs out (`two`).
* Only the start of an access is masked (`arch/x86/generator.py:378`): one of several bytes at the last offset runs
  out of FAULTY by all but one byte, and a repeated one (`arch/x86/generator.py:649`, 256 times 8 bytes) by half a page,
  into the areas of the registers and the pads, though `docs/ref/sandbox.md:41` says that the generator "instruments all
  memory accesses to ensure that they fall within these regions". `AccessesContained` states what
  holds: where accesses start, how far they run out, and that they stay within the actor and its pads.
* The sandbox pass runs after the flags pass, and its masks leave AF undefined (`arch/x86/generator.py:406`), which `lahf`
  reads: the mismatch that `_X86PatchUndefinedFlagsPass` (`arch/x86/generator.py:698`) is there "to prevent".
  `FlagsDefined` therefore leaves AF out at the end, and only there.
* A block that is empty and ends in a conditional branch raises ValueError.
* In the pass for accesses from user to kernel the list is not reset per block
  (`arch/x86/generator.py:243`), so that an access of any block but the last may be redirected twice and goes astray
  (`AccessesContained` says where this can happen); it also cuts the mask of a bit scan.
* A signed division may overflow where division by zero is allowed and overflow is not.

Minimizer:

* `test_case == old_tc` (`postprocessing/minimizer.py:155`) compares objects and is never true, so
  that all attempts are made.
* `stc` and patches of flags stand behind what they protect (`arch/x86/generator.py:666` and `787`). When the unrelated
  line behind them goes, they lose their tag (`postprocessing/instruction_passes.py:143`), and the next pass
  may remove them while the instruction they protect stays. (`sub` of the base register is always skipped.)
* The label pass also removes lines that are not labels (`.byte`), unverified (`dropped`).
* The differential pass changes the inputs of its caller in place, and takes the first two
  members of a class whichever of them differ. The sequence pass never removes the first input.

## 7. Plan

Done: HostState, InputParser, TestCaseParser, TraceProtocol with TraceService,
SandboxManager, FuzzerRound, FuzzLoop, ContractModel with Interpreter, Tracers and
TaintTracker, AsmParser with ElfParser, Generator with its passes, Minimizer, and the
theorems of section 4. In this order next:

1. **CodeLoader**: template, sections, macro slots and jumps between them
   (`code_loader.c`, `macro_expansion.c`), against a reference layout;
   base addresses that the fuzzer reads once (`fuzzer.py:476`) while the sandbox can move.
2. **ContractModel**, the rest: memory of the second actor, extended page tables,
   the noncanonical speculator and `ct-ni`.
3. **DynamoRIO adapter**: reading and decoding of traces.
4. **Composition**: TestCaseParser and SandboxManager as one upload that ends ready,
   TraceService under FuzzerRound.
