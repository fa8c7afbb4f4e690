# TLA+ models of CUDA-for-AMD-Windows

This directory holds the formal models of the repository: TLA+ modules of its
stateful parts, TLC configurations that check them on small instances, and
TLAPS proofs of the main safety properties for every instance. `PROJECT.json`
lists components, runs, mutants, the source lines each definition stands for,
hazards, findings and theorems.

## 1. Inventory of the system

The repository lets CUDA programs run on AMD GPUs under Windows. ZLUDA (external)
translates the driver API; this repository adds two native DLLs, scripts that
stage and launch them, probe programs that exercise a driver build, scripts that
decide from the probes whether the build is good enough to promote, and a launch
trace with its readers for crashes.

| Part | State it keeps | Operations | Talks to | Hard about it | Modelled |
|---|---|---|---|---|---|
| cuDNN bridge, convolutions (`native/cudnn_bridge/cudnn_bridge.c`) | locals of a call: four MIOpen descriptors, solution records, selected solution | algorithm query, workspace query, execution, in three directions | MIOpen through function pointers | every MIOpen call may fail; MIOpen's list may differ between two calls | `BridgeConv` |
| cuDNN bridge, statuses and families | none | five mapping switches | callers above | several families share one cuDNN algorithm; one status is mapped to SUCCESS | `ConvAlgorithms` |
| cuDNN bridge, loading and handles | `g_miopen`, `g_miopen_once`, `g_miopen_ready`, handles | load once, create, destroy, set stream, optional calls | Windows loader, environment, MIOpen | concurrent first calls, partial tables, changing environment | `MiopenBackend` |
| cuDNN bridge, descriptors and shapes | descriptor structs | setters, getters, validation | convolutions | `int` overflow, truncating division | validation: `ConvGeometry`; setters and getters planned |
| cuDNN bridge, tensor operations | none | fill, scale, add, transform, activation, softmax, pooling | MIOpen optional functions | scalar conversion, overlap test | planned (one call stands for them in `MiopenBackend`) |
| cuSOLVER proxy (`native/cusolver_proxy`) | lazily loaded library | more than a hundred forwarders, owned parameters | hipSOLVER | unsynchronised first load, leak on a missing function | planned |
| Staging scripts (`stage-cudnn-bridge.ps1`, `stage-cusolver-proxy.ps1`) | target DLL, backup DLL, state file | Stage, Restore | file system | failure and kill between any two file operations, overlapping runs, vendor updates | `DllStaging` |
| Probe runners (`test-capabilities.ps1`, `test-functional.ps1`) | the running probe, the report | spawn, poll, kill, judge, retry | probe processes | timeouts racing answers, crash after a result | `Promotion` |
| Promotion gate (`promotion_gate.py`, `loaded_driver_identity.py`) | none | `evaluate` | reports, staged DLL | evidence about another driver than the one promoted | `PromotionGate` |
| Launcher and set-up (`run-zluda.ps1`, `setup.ps1`, `install.ps1`, `stage-runtime.ps1`) | runtime directory, environment of the shell | set up, stage, launch | everything above | interrupted extraction, inherited environment | planned |
| Probe programs (`capability_probe.py`, `functional_probe.py`) | driver objects, host and device buffers, return codes, the device's queue | one runner per test: calls, checks, cleanup, result line | driver API, NVML, PyTorch | any call may fail, lie or drop work; the device runs on while the host unwinds | `ProbeMachine` with `DriverProbes`, `TorchProbes` |
| cuDNN qualification scripts (`test-cudnn-*.py`) | cuDNN descriptors, handle, buffers | one mode after another, each compared with a CPU reference | HIP, cuDNN, PyTorch | exceptions in the middle of a mode; NaN | `ProbeMachine` with `CudnnQualification` |
| Warm-up (`training_warmup.py`) | tensors | a fixed set of training steps | PyTorch | little | `TorchProbes` |
| Launch trace: the launch-blocking patch, `run-llama-zluda-safe.ps1`, `summarize-zluda-trace.py` | launch numbers, the trace file | number, record, launch, wait, record; read back | ZLUDA, the application's threads | threads interleave, lines merge, records get lost, the process dies, files are reused | `LaunchTrace` |
| Builds, the rest of the patch series, diagnosis, benchmarks, PyTorch hook, CI | none or another repository's tree | straight-line scripts | compilers, git, hipInfo | little: no concurrent state | no |

What makes each modelled part correct:

* convolutions: balanced descriptors on every path, no launch that does not fit
  the request, no SUCCESS without work, query and execution agree;
* loading: one consistent function table, no call through NULL, a configured
  path is binding, no handle lost;
* staging: a vendor DLL always survives, failures roll back, Restore is exact;
* promotion: eligible only with clean evidence about the promoted DLL, and not
  so strict that clean evidence fails;
* probes: a pass is evidence and a failure is earned; whatever goes wrong, the
  cleanup uses only objects that exist, waits for the device before it frees
  what a kernel uses, and leaves nothing behind;
* launch trace: from the file alone, the launches in flight when a process died
  are the unmatched ones, the culprit is among them, and a run is accepted only
  if every launch that took a number completed. The trace knows nothing of
  launches that were refused before that.

## 2. Modules

| Module | What it is |
|---|---|
| `ConvAlgorithms` | the status and family switches as functions |
| `ConvGeometry` | descriptors, shape validation, a convolution's output by definition |
| `ConvContract` | abstract specification: what a convolution call promises |
| `BridgeConv` | the nine entry points, refines `ConvContract` |
| `BridgeConv_proofs` | theorems about `BridgeConv`: types, descriptors, launches, the refinement |
| `ConvAdverts_proofs` | theorems about what its queries publish |
| `ConvGeometry_proofs` | theorems about the shape checks, and what they mean for its calls |
| `MCBridgeConv` | solution lists and requests for TLC |
| `MiopenBackend`, `MCMiopenBackend` | loading and handles; its instance |
| `MiopenBackend_proofs` | theorems about `MiopenBackend` |
| `DllStaging`, `DllStaging_proofs` | staging scripts; theorems |
| `PromotionGate` | `evaluate` and the shape of report entries |
| `Promotion`, `MCPromotion` | runners, probe processes, gate; its instances |
| `Promotion_proofs` | theorems about `Promotion` |
| `ProbeSteps` | the vocabulary of probe programs: calls, effects, checks, try |
| `ProbePrograms` | what a program is, and the discipline the programs are written in |
| `ProbeMachine` | the host that runs a program, the device, the backend's faults, the verdict |
| `ProbeMachine_proofs` | theorems about `ProbeMachine`, for any programs |
| `DriverProbes` | the probes that call the driver API and NVML directly |
| `TorchProbes` | the probes that go through PyTorch, and the warm-up |
| `CudnnQualification` | the qualification scripts of the cuDNN bridge |
| `MCProbes` | all programs together, what each probe cannot see |
| `LaunchTrace`, `MCLaunchTrace` | writer threads, trace file, both readers; its instance |
| `LaunchTrace_proofs` | theorems about `LaunchTrace` and its readers |

Operators named `X_Y` with the comment "Mutant" are wrong variants of operator
`X`. No action uses them. Each is paired with a property in `PROJECT.json`:
replacing `X` by it must violate that property, which shows that the property
depends on the code it is about.

### BridgeConv

A thread's call is a program counter over the steps of the C function:
`Call`/`Reject` (prologue checks), `Create`/`SetUp`/`FilterTooWide` for each of
the four descriptors in argument order, `Count`, `Get`, the scan of the records
(`PassOver`, `Unusable`, `Publish`, `Select`, `EndScan`), `CheckWorkspace`,
`Launch`, `Cleanup` (the `done:` label). The variables are the function's
locals; `made` (non-NULL pointers) and `live` (existing MIOpen objects) are kept
apart so that a leak and a double destroy are both visible. `list` is what
MIOpen holds; `BackendChanges` replaces it at any time.

The three directions share their steps and differ in `Serves`, `Unmap`,
`FilterSlot` and `PickRefusal`, as in the code. A request carries its descriptors
(`g`), which `ConvGeometry` validates, and what the code makes of its other
pointers (`bad`) and scalars (`plain`). The 32-bit limit is the constant `IntMax`,
small in TLC's instance. Not in the state: tensor data and strides, times, the
determinism and math type fields. The checks `handle->cuda_stream` and `bridge_backend_ready()` are
left out because `MiopenBackend!HandleIsUsable` shows they cannot fail for a
valid handle. `disturbed` and `advert` are history variables.

### MiopenBackend

`InitOnceExecuteOnce` is external: `Elect` picks one caller, the others are not
enabled until `LoaderReturns`. `FindLibrary`, `BindRequired` (one required
symbol at a time) and `BindOptional` are `bridge_load_miopen_once`;
`CreateBacking`/`AttachStream` are `cudnnCreate` after its check;
`CallOptional` is `cudnnSetTensor` and stands for every entry point that tests
an optional pointer. The application uses handles correctly: it does not
destroy a handle another thread is using (`Unused`).

### DllStaging

A file is its content, so equal content is equal hash. Each file operation is a
step with its failing outcomes; the checks at the head of Stage and of Restore
are one step each. `Kill` ends a script between operations, or inside a copy or
a write, leaving a partial file. `Install` is any other software putting a
vendor DLL in place, between script runs. `displaced` and `scarred` are history.
`Stage` and `Restore` of the cuSOLVER twin are the same operations in the same
order.

### PromotionGate and Promotion

A report entry keeps the fields the gate reads. Counters of the reports matter
only as zero or not. The probe process is an actor of its own: it may answer,
hang, crash with or without an answer, or answer while it is being killed.
`TimeOut` may strike at any time while the process lives. `Change` stages
another DLL or checks out another commit; a DLL mapped by a live process cannot
be replaced. `witnessed`, `spoiled` and `flawless` record what really happened.
A probe process of `Promotion` is what `ProbeMachine` shows from inside: the
outcomes of the one are the statuses of the other.

### ProbeMachine and the probe programs

A probe is straight-line Python: calls into a driver, comparisons, and try
statements that release what was made. `ProbeSteps` writes such a program as the
sequence of its steps and `ProbeMachine` runs it; `ProbePrograms` states, as assumptions
about the text of the programs, what their order has in common. What a call does with its
return code is its `mode`:

| Mode | Source |
|---|---|
| `ck` | `ck(f(...), name)`: anything but 0 raises |
| `ask` | `rc = int(f(...))`, judged at the end; a chained call is made only after a 0 |
| `must` | a call that has to be refused |
| `torch` | a PyTorch operation, which raises |
| `hush` | a release inside `try: ... except Exception: pass` |

A call may make, adopt or release an object, store a value, queue a kernel or
wait for a stream. `todo` holds the steps still to run, `frames` the finally
blocks entered; an exception empties `todo` and the blocks run from the inside
out. The device takes kernels from `queue` in stream order (`RunKernel`). The
backend may misbehave `MaxFaults` times: fail a call, answer it wrongly, throw,
store a bad value, lose a kernel or run it out of order. `seen` and `missed`
record what it did; the properties compare this with the verdict.

A value is a label: the name of what the source expects, or "junk" (never
written; `cuMemAlloc` clears nothing), "wrong", "nan", "imag" (right but for its
imaginary part) or "factors" (factors that fit but are not the factorisation). A
result computed from a bad input is bad.

Choices made here, each where the source leaves room:

* `cuMemcpyHtoD` and `cuMemcpyDtoH` are synchronous; `hipFree` waits for the
  device; a wait that fails reports the device lost, with all it had queued;
* devices advertise sm 80 or sm 90, the two sides of the PDL and PTX choices;
* loops over data types are over real and complex; products made on the device
  only to check another result are part of the operation they check;
* the `--only` modes of the direct script, and the blocks of its half mode, are
  programs of their own, since one process runs them one after another on
  buffers of their own.

`Catching` are the programs whose `main()` turns an exception into a result line,
`Recognises` those that turn a refusal into `unsupported`. `MCProbes` names what
each probe is known not to see (`Unseen`) and what it makes outside the try that
would free it (`Outside`), so that the properties say: nothing else gets
through, nothing else leaks.

| Not seen | By | Because |
|---|---|---|
| a lost launch | `driver_launch_ex`, `driver_ptx_selection` | the kernel of the first does nothing; the word of the second is read from memory that was never cleared and may hold the expected value |
| a copy that does nothing | `driver_buffer_clear`, `driver_launch_blocking`, `driver_pdl_semantics` | the host buffer still holds the result of the case before; the words the PDL test clears are not read back before they are used |
| the imaginary part | `matmul`, `linalg_solve`, `linalg_cholesky`, `linalg_qr` | `tensor_metrics` goes through `.float()` |
| other factors | `linalg_svd`, `linalg_eigh` | only a product or a residual is compared |
| a wrong value | `random`, `amp` | only its range, or that it is finite, is tested |
| a wrong value, the last update | `optimizer_sgd`, `optimizer_adam` | the losses only have to be finite and fall, and the parameters after the last step are not looked at |
| NaN | qualification scripts | `err > tolerance` is false of NaN (finding 6) |
| any value | `training_warmup` | it compares nothing |

Three consequences of the source that the programs keep: after a PDL attempt that
was seen to be wrong, a refusal (801) still ends in `unsupported`;
`batch_norm` with cuDNN disabled reports `incorrect`; a `ck` in a finally
block that raises leaves the releases after it undone.

### LaunchTrace

A thread of the application takes a launch number (`NextLaunchId`), writes a
begin record, launches, waits if `CUDA_LAUNCH_BLOCKING` is set, and writes a
terminal record. A record is two writes, text and newline (`WriteText`,
`EndLine`), so the records of two threads can share a line. Errors of the file
are ignored: the whole record may be lost (`LoseRecord`), or only its newline
(`LoseNewline`), and then the next record joins its line. A launch with an `extra`
argument is refused before all this (`Refuse`, `launch-blocking-candidate.patch:77`):
the call returns an error without a number and without a record, and only
`zluda_trace` logs it. The history variable `refused` counts these launches. `Crash` ends the process
at any point, by a launch that was issued, by one that is running, or by
something else; `Exit` ends it with 0 whatever other threads do. The file may
hold records of earlier processes, whose numbers also start at 1. `GetFunction`
binds a handle to a kernel, and `zluda_trace` logs that call and the launches in
a file of its own.

The readers are folds over the lines: `Blocking` for the records (numbers for
the summary, counts for the launcher), `Functions` for the names. `Accepted` is
the launcher's final test. Tails, PTX file names and console output are left out.

## 3. Runs

| Run | Instance and bounds | Result |
|---|---|---|
| `conv` | one thread; 2 forward lists, 2 backward-data lists (one empty), 1 backward-filter list of up to five records; `QueryCap` 4 for 64, so that one list is cut; one list change; 19 requests, and 18 more with shapes at the edge of what fits, other types, ranks and groups; `IntMax` 40; the creation statuses SUCCESS, one error and GPU_OPERATIONS_SKIPPED; one query error, one launch error | nine properties hold, 365 546 states |
| `conv_skipped` | the same with GPU_OPERATIONS_SKIPPED as a query answer | `LaunchIsSelected` violated |
| `backend` | two threads, two handles, 3 required and 1 optional symbol, six machines (missing, complete, truncated, older libraries), three values of the variable, changing at any time | seven properties hold |
| `staging` | one script at a time, two vendor DLLs, unboundedly many runs, failures, kills and updates | five properties hold |
| `staging_wedge`, `staging_modified` | the same | violated, see section 6 |
| `staging_two` | two overlapping script runs | `OriginalKept` violated |
| `promotion` | one required probe per suite (the driver probe traced), two drivers, two commits, one change at any moment, retry on | five properties hold |
| `promotion_documented` | the documented `-Tests` against the full `DRIVER_REQUIRED` | `FlawlessIsEligible` violated |
| `probes` | every program, loops at the length of the source, two devices, two faults in one process, 194 133 states | eight properties hold |
| `probes_nan` | the qualification scripts, one fault | `PassMeansMatch` violated |
| `launch_trace` | two threads, one handle, two kernels, two launches, two look-ups, one refused launch, one failing write (a record or a newline), two possible leftovers; symmetric in threads and kernels; 7 172 020 states | six properties hold |

Why the bounds suffice. Threads of `BridgeConv` share nothing but MIOpen's
list, which also changes without them, so one thread meets all interleavings
that matter to it; the proofs cover any number. The lists hold the cases the
scan tells apart: a record whose listed workspace differs from the queried one,
two families with one backward name, an unusable first record, an unknown
family, one record beyond the cap. The shapes are one row high, since the two
spatial dimensions go through the same formula, and lie on both sides of the edges: the
filter just fits, leaves a rest under the stride, overhangs the padded input by
less than the stride, by the stride or more. Two threads are the smallest number that race for the
loader, and a third would only wait as the second does; three required symbols
let a load fail at the start, in the middle and never. The staging state is
finite without bounds. In `promotion` one change is enough to put any two
observations of the driver on different sides of it; the probes are judged by
the same code one after another, so one per suite, run twice at most, shows
every way an entry can come about. In `probes` one fault reaches every step of
every program; a second is needed for a cleanup that fails while another failure
is unwinding, and for a bad value hidden by another; the theorems of `ProbeMachine_proofs` cover
any number, for all safety properties but `PassIsWitnessed` (see section 4). In `launch_trace` two threads are what it takes for
records to interleave or merge and for a bystander to be in flight beside the
culprit; two launches number a file's records apart from those left behind; one handle
bound twice is the reuse the names must survive.

Statuses: an instance names one error per kind of call because the code treats
all errors of that call alike, apart from the value it returns.

Deadlock is checked in every run.

### Fairness

* `BridgeConv`, `MiopenBackend`: weak fairness of each thread's steps inside a
  call. The code is straight-line C with bounded loops; it is assumed that MIOpen's
  functions and the loader return and that Windows schedules the thread. Nothing
  is assumed of callers. A waiting thread in `InitOnceExecuteOnce` is not enabled,
  so its return rests on the loader's, which is what `CallsReturn` is about.
* `Promotion`: weak fairness of the scripts' steps only (`Run`). The polling
  loop has a deadline, so `TimeOut` is part of `Run`. No fairness for probe
  processes: they may hang for ever.
* `DllStaging`: none; a script may stop at any point.
* `ProbeMachine`: weak fairness of the host and of the device. A device that
  never finishes a kernel makes the probe hang, which is what the runner's
  timeout is for (`Promotion`); `Terminates` is about the probe's own code.
* `LaunchTrace`: none; its properties are about files a process leaves behind,
  at whatever point it ends.

## 4. Proofs

Each proof has an initial step, one step per action, and a temporal step that
combines them. Every theorem holds for all values of the constants that satisfy
the assumptions named in its module.

| Module | Assumptions on the constants | Further hypotheses |
|---|---|---|
| `BridgeConv_proofs`, `ConvAdverts_proofs`, `ConvGeometry_proofs` | `ConstantsAssumption`: requests the setters allow, a catalog of sequences of solutions, statuses of MIOpen; `IntMaxAssumption` | no query answers GPU_OPERATIONS_SKIPPED, for three theorems |
| `MiopenBackend_proofs` | `BackendAssumption` | none |
| `DllStaging_proofs` | `StagingAssumption` | `Procs = {p}`: script runs do not overlap |
| `Promotion_proofs` | `PromotionAssumption`: lists of tests that are not empty | `Covering`, for `FlawlessSessionsPass` |
| `ProbeMachine_proofs` | `ProgramsAreWellFormed`, `FaultsAreBounded`; besides, `ProgramsGiveBack` for `MadeIsGivenBack` and `PassHidesOnlyValues`, `ProgramsUseWhatExists` and `ProgramsWait` for `ObjectsExist` and `NothingDangles`, and these two with `ProgramsCheckWhatTheyMade` for `CorrectIsNotBlamed` | none |
| `LaunchTrace_proofs` | `BoundsAreNatural`, `FinitelyManyThreads`, `LeftoversAreLines`: what is left in the file are lines of records | none |

`BridgeConv_proofs`:

* `TypeCorrect`: `Spec => []TypeOK`.
* `BalancedAlways`: `Spec => []DescriptorsBalanced`. The property only asks
  `made \subseteq live`, which is not inductive: a cleanup would leave behind an
  object without a pointer. The invariant `Balance` is the equality
  `live = made`, with both empty in an idle thread.
* `LaunchesHonourRequests`, `LaunchesAreSelected`, `SuccessAlwaysEarned`: with
  the hypothesis that no query answers GPU_OPERATIONS_SKIPPED. The invariant is
  `Bound(t) /\ Earned(t)` for every thread: `Bound` says what a call has gone
  through when it reaches "check" and "launch" (all four descriptors, a record
  that serves the request, later the workspace test), `Earned` that SUCCESS in
  "cleanup" or on return stands for a launch, a result or a selection. A step of
  one thread leaves the other calls alone (`OthersKept`), so one step per action
  of the moving thread is enough. The hypothesis is necessary: run
  `conv_skipped` is the counterexample without it. GPU_OPERATIONS_SKIPPED is
  allowed in the answers to create and set calls: there the pickers' NULL checks catch it.
* `ContractKept`: the refinement `Spec => KeepsContract`, without that
  hypothesis. `Faithful(t)` says where a call stands towards its launch; each
  action is then shown to be one step of `ConvContract` (`Refuse`, `Open`,
  `Launch`, `Answer`, an object acquired or given back) or a stutter. A skipped
  selection does not break the contract, which promises a launch, not of what.

`ConvAdverts_proofs` proves `AdvertsAreWellFormed` (from `Distinct`: a query
publishes distinct names, each of the direction's table, so there are no more
than the table has) and `AdvertisementsHold`, for any catalog. The latter relates
two scans in different code and needs both halves of `Promised(t)`: an
undisturbed query publishes for each name the workspace of the first usable
record that serves it (`Publishing`, `Kept`), and an undisturbed picker stops at
that very record (`Scanned`, `Settled`), since both read the same prefix of the
list (`Reading`).

`ConvGeometry_proofs` proves of shapes of any size that an accepted output
dimension is the number of positions of the filter (`AcceptedSize`): the
positions are in one-to-one correspondence with the quotients 0 up to
`room / stride`, and where the padded input is too small C's truncation leaves 1
exactly under `Overhangs`. `AcceptedAreConvolutions` carries this to the calls.

`MiopenBackend_proofs` proves all safety properties of the module from one
invariant: `LoadedOnce` (one thread is in the routine of `InitOnceExecuteOnce`,
nothing is loaded before, a growing prefix of the required symbols is bound
during, all of them if `ready` is set), `Backed` (calls past
`bridge_backend_ready` stand on such a table), `Held` (no two calls share a
handle) and `Owned` (every MIOpen handle belongs to a valid handle or to the
create that attaches its stream). `NoNullCall` alone is not inductive: without
`LoadedOnce` a second load could replace the table under a call.

`DllStaging_proofs` proves `TypeCorrect`, `OriginalAlwaysKept`,
`NeverHalfStaged`, `RecordedTargetAlwaysKept` and `RestoreAlwaysExact` for any
vendor DLLs and any sequence of failures, kills and updates, under
`Procs = {p}`. The invariant is `TypeOK /\ Safe(p) /\ Orderly(p)`: `Safe` says for each step of a script which of
target and backup holds the vendor DLL and what the backup is; `Orderly` says
what the unscarred directory looks like at each step. Run `staging_two` shows
why the hypothesis is needed.

`Promotion_proofs` proves, for any lists of tests, drivers and commits:

* `PassesAreWitnessed`: the invariant `Witness` says it already of the process
  that has answered and ended but is not judged yet.
* `EligibilityIsEarned`: `Marked` says where a misbehaviour is recorded from the
  moment it happens until the gate reads it: in the live process, in the step
  that judges it, in the attempt number of a retry, in the entry. `Retrying` is
  needed because the functional suite has no `retried` field to carry it.
* `FlawlessSessionsPass`, under `Covering` (the selected tests name every required
  one, and none twice): `FlawlessSoFar` says what both reports look like while
  nothing has gone wrong. `Covering` is necessary: run `promotion_documented` is
  a selection that does not cover.

`ProbeMachine_proofs` proves `TypeCorrect` and `FailuresAreNoticed`
(`Spec => []NoCallFailsUnnoticed`) for any programs made of well-formed steps
and any number of faults; nothing about the programs of
this repository is used, so the theorem also holds of probes yet to be written
in this vocabulary. `NoCallFailsUnnoticed` speaks of the end of a process only.
The invariant `Traced` adds what a failure leaves behind until then: once a
failed, thrown or wrongly answered call was seen, either `good` is false or an
exception is unwinding, and no step of a cleanup undoes either. `Shape` says that
what is in `todo` and `frames` are steps of the programs and that cleanups are
calls, without which the cases of a step could not be told apart.

`MadeIsGivenBack` (`Spec => []ReleasedAtExit`) needs more of the programs: a
program that frees nothing leaks. `ProgramsGiveBack` is the discipline the probes are
written in, a condition on the text of a program that mentions no state:

* an object is made inside a try whose finally block gives it back, or by the step
  right before such a try (`Sheltered`; the objects of `Unguarded` are exempt);
* a block gives an object back when its release comes after steps that cannot
  raise except by a failed release or wait (`GivesBack`): swallowed releases and
  waits, or a checked release;
* a finally block makes nothing, and what a program adopts it does not also make;
* a release in `except Exception: pass` expects success, and a call that has to be
  refused makes no object.

TLC evaluates the assumption on every program of this repository in the runs
`probes` and `probes_nan`; the theorem adds that a program
so written cannot leak, whatever call fails, how often, and at which nesting of
try statements. The invariant is `Returning`: what was made and still exists is
`Covered` by a cleanup that is running, entered or about to be entered; what
remains to be run is itself disciplined (`Ahead`), because otherwise a step could make
an object that nothing covers; and cleanups make nothing (`Quiet`). Leaving a try
puts its cleanup in front of the rest (`AheadOfCleanup`), unwinding drops the rest and
keeps the cleanups, and the release of an object is the one step after
which nothing has to cover it.

`ObjectsExist` (`Spec => []CallsUseLiveObjects`) and `NothingDangles`
(`Spec => []DeviceNeverDangles`) are about the order of a program. Two more
conditions on its text say what the probes do:

* `ProgramsUseWhatExists`. What a step uses is made by an earlier one, or the step is
  not made: it is chained to a code that was not 0, or a return comes before it
  (`Makes`, `Hangs`, `Equipped`). A step of a cleanup is made for an object, and only if
  that was made; it uses that object and what the object was made with (`MadeFor`).
  Nothing is used after its release in any order in which the rest of the
  block, the cleanups entered and the block after them can follow one another
  (`InOrder`). A call that throws inside a cleanup leaves out steps of that
  cleanup only (`SkipsInside`).
* `ProgramsWait`. A kernel that uses objects is followed by the wait for its stream; or
  that wait is the first step of the innermost cleanup, and the block itself waits
  before it releases, enters or leaves anything (`Awaited`).

TLC evaluates both on every program, and each is needed: a cleanup that destroys
the stream of the PDL probe before waiting for it does not satisfy the first, and one
that does not wait at all not the second. What the theorems add is that programs so
written stay safe however many calls fail, whichever of them do, at which
nesting, and in whatever order the device takes its kernels.

The invariant of `ObjectsExist` is `Usable`. `Fits` carries the discipline from the text
of a program to what is left of it: `todo` followed by the cleanups in `frames` is in
order and made of calls that fit together. A step off the front, an exception that
drops the block, a try entered and a try left all keep it (`FitRest`, `FitUnwound`,
`FitTry`, `FitLeave`). `Stocked` says that what a step to come uses
exists, or is made before it, or the step will not be made because a recorded code is
not 0 (`going` is false and the step hangs on it). `Ready` says that the objects a
cleanup asks about still exist together with what they were made with. The invariant of
`NothingDangles` is `Drained`, `Usable` with `Waited`: whatever a queued
kernel uses exists, and the wait for its stream comes next, or is first in the
innermost cleanup with nothing in between that could release, enter or leave (`Soon`).
The property alone is not inductive, since it does not say that what comes
next waits. A wait that throws takes the kernel out of the host's sight for good,
which is why the property excepts it.

`Opened`, the cleanups entered before each step of a program, is a recursive function.
That it exists and is unique is proved with `SetInduction`'s argument again
(`OpenedIsNested`).

`CorrectIsNotBlamed` (`Spec => []BlameIsEarned`) is about values: what a probe checks is
what its calls and kernels put there, if these did as they were told. The condition
on the text is `ProgramsCheckWhatTheyMade`. Along every program runs an outline which says,
between two steps and as long as the backend did nothing wrong, which codes may have
been recorded last (`going`), which kernels may be queued (`queue`), and what names
hold once those have run (`known`). `After` says how a step changes an outline,
`Follows` that one is kept along a program, and `Justified` what a step relies on:

* a check compares a name whose expected value is known and that nothing queued may
  still overwrite;
* where the probe returns early on a code that is not 0, no such code can have been
  recorded, and a call that has to fail is not allowed to succeed;
* a call that may be made does not change what a queued kernel reads or writes,
  and a kernel is queued behind those it concerns, on the same stream or one it waits for,
  with all it needs known (`Apposite`).

An outline is chosen, not run: `Outline` reads it off the text (a value is known from the
step that brings it to the next that may change it), and the assumption says that it
is justified. TLC evaluates it on every program; it is false, for instance, of the stream
probe when the second stream does not wait for the producer of its input. What the
theorem adds is that an outline read off the text is right of every run: under every order
of the device, with cleanups that fail or throw on the way, and with codes that
are recorded and not looked at until the end.

The invariant is `Sane`, that is `Usable` with `Clean`: while the backend did nothing
worse than fail a release, nothing unwinds and nothing was found wrong, and some
outline of what is left to run holds of the state (`Foreseen`). `Holds` reads a known value
through the queue: it is `Due`, in memory already and left alone by what is queued, or written
by a queued kernel and not by one behind it. `Lined` says the same of what each queued
kernel needs, at its own place, and that kernels which concern each other keep their order.
A kernel that has run moves what was due from the queue to the memory and disturbs
nothing else (`RunsRight`, `DueBehind`); a cleanup left out or thrown out
of loses knowledge only (`OptionalPasses`, `CleanupFollows`). `BlameIsEarned` alone
would say nothing before the end.

`PassHidesOnlyValues` is the part of the converse, `PassIsWitnessed`, that holds of
programs in general: a pass hides no failed call, no refusal, no missing device and no
probe that gave up, so that only wrong values and failed releases are left
(`Noted` extends `Traced` to refusals). That these are seen too, up to `Blind`, is
left to TLC.

`LaunchTrace_proofs` has two layers. The first is about the readers alone:
`ReaderComputes` says what `Blocking` folded over a file of any length returns, in
terms of its lines; the folds of the names and of the records are functions
defined by recursion, whose existence and uniqueness are proved by induction. The
library's induction theorems take an operator as a parameter, so the induction is
stated for a set (`SetInduction`) and rests on the well-foundedness of `<`.
The second layer is the invariant `Base /\ Counted /\ Named /\ Records /\ Told`
(`Counted`: bounds of two counters):

* `Base`: the file consists of lines (`Filed`), a launch has one thread that
  still works on it (`Owners`), with launch blocking somebody waits for every
  queued launch (`Awaited`), and the culprit's thread has not come back (`Caught`).
* `Named`: the log read so far resolves every handle to what the driver has it
  stand for.
* `Records`: a visible record is true of its launch (`HeadsAreTrue`), there is at
  most one begin and then at most one terminal of a launch (`HeadsAreSole`), and while no
  two records share a line and at most one is lost, that one is all that is missing
  (`OnlyLostAreMissing`).
* `Told`: while no launch was refused, every launch that failed in the log has a
  number whose fate is an error, and no thread works on it any more, so that this
  stays so (`Failed_Stays`). An accepted run has no such number, hence no failed launch.

The properties speak of processes that have ended; `Records` is what they rest on
at every moment before. A step either leaves the visible records alone (`Quiet`)
or adds, hides or loses one; each case is a lemma. From `Inv` follow
`TypeCorrect`, `NamesAreResolved`, `UnmatchedWereInFlight`,
`CulpritsAreSuspected`, `ReadersDoAgree` and `AcceptanceIsEarned`.

The invariants of `LaunchTrace_proofs` were checked by TLC on the instance of
run `launch_trace` before they were proved.

Only model-checked:

* liveness (`CallsReturn`, `VerdictComes`, `Terminates`), which rests on
  fairness and ENABLED and is outside what the prover does;
* `PassIsWitnessed` of `ProbeMachine`, the converse of `BlameIsEarned`, as far as it
  goes beyond `PassHidesOnlyValues`. It depends on which wrong values a check tells
  from which, and on a bad value not being hidden by another, and no discipline of the text says that yet (section 7). TLC runs through
  them with every placement of two faults; it was also tried, and holds, with
  up to six (about four million states);
* the counterexamples of section 6.

## 5. Properties and what would break them

`DescriptorsBalanced` breaks when a make helper forgets to reset its pointer;
`LaunchHonoursRequest` when the NULL-workspace check is dropped;
`SuccessIsEarned` when a scan without results keeps the initial SUCCESS;
`AdvertsWellFormed` without the duplicate test; `AdvertisedRuns` when a query
publishes the record's workspace instead of the queried one;
`AcceptedIsConvolution` when the dilation is applied to the whole filter; `KeepsContract`
when an execution returns after its selection; `HandleIsUsable` when any stream
is accepted; `NoNullCall` without the test of the optional pointer;
`ConfiguredPathBinds` with a fall-through to PATH; `BackendFixed` when the
routine runs again; `BackingReachable` when `cudnnCreate` forgets the destroy;
`OriginalKept` without the backup test; `NoHalfStage` without the roll-back;
`RecordedTargetIsKept` with a weaker hash test; `RestoreIsExact` when the backup
is copied; `EligibleIsEarned` when retries leave no trace; `PassIsWitnessed`
without the comparison of exit codes; `FlawlessIsEligible` with a gate that no
run satisfies; `VerdictComes` when the poll waits for a result.

`CallsUseLiveObjects` breaks when a cleanup does not ask whether its object was
made; `DeviceNeverDangles` when a cleanup that an exception led to does not wait; `ReleasedAtExit` when
a finally block is skipped by an exception; `PassIsWitnessed` when the buffer is not
refilled between variants; `BlameIsEarned` when an exception in a cleanup
gets out of it; `NoCallFailsUnnoticed` when a recorded code is not judged;
`Terminates` when an exception in a finally block enters it again.
`UnmatchedIsInFlight` breaks when only `done` closes a launch;
`CulpritIsSuspected` when `done` is written before the wait; `ReadersAgree` when
the summary counts only `done` as a terminal; `AcceptedIsComplete` when begins
and terminals are not counted against each other; `NamesResolve` when a failed
look-up binds a name.

Premises worth knowing. `AcceptedIsConvolution` has one exception, which the code
really has: C divides towards zero, so a filter that overhangs the padded input by
less than the stride is accepted with an output of one element (`cudnn_bridge.c:901`).
`AcceptedIsComplete` speaks of launches that took a number. One that `launch_kernel`
refused for its `extra` argument has no record: if the application ignores the
error and exits with 0, the launcher accepts the run although that launch never
happened. Only without such a refusal (`refused = 0`) does acceptance mean that every
launch call succeeded, which is the second half of the property. It also assumes a file of one process, no
merged lines, at most one lost record and no thread in the middle of a launch:
two losses can cancel out (a begin of one launch and the terminal of another are
both missing from the counts), and a merged line hides its second record.
`CulpritIsSuspected` names the last unmatched launch only when no other thread
was launching and the file was new. `PassIsWitnessed` and `ReleasedAtExit` are
up to the sets of the table in section 2.

## 6. Where code and documents disagree

1. `conv_skipped` (`cudnn_bridge.c:517`): a query answered with
   GPU_OPERATIONS_SKIPPED counts as a successful selection; the convolution is
   launched with solution id 0, and a workspace query returns SUCCESS with its
   output unwritten.
2. `staging_wedge` (`stage-cudnn-bridge.ps1:24`): a Restore that ends between
   moving the backup and deleting the state file leaves a directory in which
   Stage demands a Restore and Restore refuses.
3. `staging_modified` (`stage-cudnn-bridge.ps1:26`): without a readable state
   file Restore replaces an updated vendor DLL, which `docs/CUDNN_BRIDGE.md`
   says it refuses.
4. `staging_two` (`stage-cudnn-bridge.ps1:32`): two overlapping runs can lose
   the vendor DLL.
5. `promotion_documented` (`promotion_gate.py:22`): the command line of
   `docs/PROMOTION_POLICY.md` omits a probe the gate requires.
6. `probes_nan` (`test-cudnn-direct-hip-gpu.py:157`): the qualification scripts
   test `err > tolerance`, so an output that is NaN passes, though each output is
   said to be checked against a CPU reference.

## 7. Not modelled, and the plan

Order of further work:

1. `Descriptors`: setters and getters as operations on descriptors that live
   between calls, with 32-bit strides; `bad` of `BridgeConv!Request` becomes derived.
2. `TensorOps`: checks and scalar conversion of the tensor, activation, softmax
   and pooling calls; the overlap test as a function against its definition.
3. `SolverProxy`: lazy loading, owned parameters, shutdown.
4. `Launcher`: set-up, staging, restore and launches of several programs from
   one shell (composes `DllStaging`).
5. Proofs: a discipline of checks from which `PassIsWitnessed` would follow: which bad
   values reach a comparison that tells them from the good one.

Abstract specifications worth stating for these: a directory that is either
original or staged, atomically (for `DllStaging` without kills); a library that is
loaded at most once (for `MiopenBackend` and `SolverProxy`).

Hazards of parts that are not modelled, or are modelled without the detail they
are about (`PROJECT.json` lists the others):

| Where | What |
|---|---|
| `cudnn_bridge.c:940` | `miopenDestroy` fails: the cuDNN handle is freed all the same |
| `cudnn_bridge.c:1001` | `c * h * w` in `int` overflows for very large tensors |
| `cudnn_bridge.c:1423` | a workspace query fails once: query and execution may select different solvers of a family |
| `cusolver_proxy.c:93`, `:261` | unsynchronised first load; parameters made for a call are lost when the function is missing |
| `stage-cudnn-bridge.ps1:51` | minutes pass between hashing the original and moving it |
| `test-capabilities.ps1:283` | an incorrect result followed by a crash counts as the crash, and `no_silent_corruption` stays true |
| `loaded_driver_identity.py:44` | a loaded DLL is hashed through its path, also after it was renamed away and replaced |
| `run-zluda.ps1:50`, `setup.ps1:60` | a MIOpen path inherited from an earlier launch wins over the program's state file; an interrupted extraction passes for a complete one |
| `apply-zluda-patches.ps1:53` | a series applied half way |
| `test-functional.ps1:158` | both visible-device variables are set, so the two suites may test different GPUs |

Left out for good: numerical contents of the probes, the other patches to other
repositories, builds, benchmarks, diagnosis and console output.
