# onnxcraft in TLA+

onnxcraft is a Go binding for the ONNX Runtime (ORT) C API.  It loads the ORT
shared library at run time, loads models from it, and runs inferences on Go
memory without copying inputs.  What is hard in it is not the arithmetic but the
lifetimes: native objects freed by `Close` while other goroutines call `Run`,
context callbacks that touch native options from goroutines of their own, Go
pointers that native code may see only while they are pinned, and a library that
may be unloaded only after everything that came from it.  Each function of the C
bridge has one cleanup path for a dozen possible failures, and the few pieces of
arithmetic decide how much memory is read and written.  This directory models
these, checks them with TLC, and proves the safety part and some of the liveness
with TLAPS.

## Inventory

| Component | Source | State | Operations | Interacts with |
|---|---|---|---|---|
| Session | `session.go` | `mu` (RWMutex), `gate` (channel of capacity 1, only with explicit providers), `native`, `runtime` | `Run`, `RunInto`, `Close`, `Inputs`, `Outputs` | the runtime it holds a reference on, the descriptor pool, the bridge |
| Cancellation | `session.go` `watchContext` | run options, `done` channel, `context.AfterFunc` callback | `watchContext`, the callback, `finish` | a call and its context; ORT's terminate flag |
| Descriptor pool | `session.go` `runDescriptors` | a process-wide `sync.Pool` of slices | `Get`, `clear`, `Put` | every call of every session |
| Runtime | `runtime.go` | `mu`, `native`, `refs`, `closed` | `Open`, `Load`, `LoadBytes`, `Close`, `release` | sessions, which call `release` under `r.mu` |
| Load options | `runtime.go` `load`, `addProvider` | one `OrtSessionOptions`, C strings | defaults, validation, configuration entries, providers | the bridge |
| Bridge: library | `bridge.c` `oc_open`, `oc_close` | library handle, API table, environment, memory info | open with a single cleanup path, close | the dynamic loader, ORT |
| Bridge: model | `bridge.c` `oc_options_new`, `oc_provider`, `oc_load`, `oc_session_free` | session handle, ports, names | load with a single cleanup path, free | ORT |
| Bridge: run | `bridge.c` `run`, `oc_run`, `oc_run_into`, `oc_outputs_free` | `OrtValue`s of one call | wrap inputs, run, hand outputs over | ORT, the descriptors |
| Tensor | `tensor.go` | none (values) | `NewTensor`, `Data`, `Shape`, `tensorSize` | descriptors of a call |
| Errors | `runtime.go` `nativeError`, `bridge.c` `oc_error_*` | none | status to `NativeError`, status released | every native call |

Not part of the program's logic: the vendored ORT headers (`internal/ort`), the
example (`examples/basic`), the test data generator, the CI files.

**How the parts meet.**  A session owns one reference on its runtime.  `Run`
holds `s.mu` for reading from its first check to its return, so `Close`, which
takes the write side, frees nothing a call uses.  Because the session keeps its
runtime alive, `Run` may read `s.runtime.native` without `r.mu`.  `Close` takes
`r.mu` inside `s.mu`; `load` holds `r.mu` for its whole duration and takes no
session lock.  A cancelable call creates run options and registers a callback;
its deferred `finish` either stops the callback or waits for it before freeing
the options.  Deferred functions run last-in first-out: outputs, `finish`,
unpin, clear and `Put`, gate, `RUnlock`.

**What is hard**, per component, and the properties that make it correct:

* Session: calls, callbacks and closers interleave freely.  Nothing is used
  after it was freed (`NoUseAfterFree`, `TerminateLive`); inferences of a session
  with providers exclude each other (`RunsSerialized`); descriptor slices are
  private and clean (`DescriptorsPrivate`) and hold pinned pointers whenever C can
  see them (`PointersPinned`); every one of the many early returns gives
  everything back (`ReturnsClean`); a cancellation is reported as such
  (`CancellationReported`); nobody waits in a circle
  (`NoDeadlock`), and calls and `Close` return (`RunReturns`, `CloseReturns`,
  `CanceledReturns`).
* Runtime: `refs` counts exactly the holders (`RefsCounted`) although loads fail
  half-way, sessions are closed twice and the runtime is closed first or last;
  so the library is mapped during native calls (`LibraryInUse`), goes after the
  objects created from it (`ReleasedBeforeUnload`), does go (`Unloads`), and a
  load that waited for `r.mu` while the runtime was closed adds nothing
  (`ClosedAddsNothing`); no lock order deadlocks (`NoDeadlock`,
  `OperationsReturn`).
* Descriptors and the bridge's run: each native value is released once whichever
  of C's cleanup, C's call of `oc_outputs_free` and Go's deferred call of it
  applies (`ReleasedOnce`), the descriptors native code reads are the call's own
  although the pool is shared by sessions of different arity (`DescriptorsOwn`,
  `PoolZeroed`), and a run hands over all its outputs, which Go then copies, or none
  (`ImplementsNativeRun`).
* Opening the library: an `Open` that fails anywhere leaves nothing behind and an
  open runtime has all its parts (`AllOrNothing`); the dynamic loader, which counts
  the users of a file, unmaps it neither early nor never although another runtime
  fails to open it meanwhile (`MapCounted`), and not under memory that is still
  used, by an object it made or by `Version` (`MappedWhileUsed`).
* Loading a model: no path through `load`, `addProvider` and `oc_load` loses an
  object or keeps a pointer to a released one (`Tracked`); a load yields a whole
  session or nothing (`LoadsAllOrNothing`), whose tables did not wrap around
  (`TablesFit`); ORT gets the options that were asked for (`OptionsExact`); and the
  load keeps to what `Runtime` assumes of it (`ImplementsContract`).
* Tensors: the size computation is exact although every step may overflow
  (`SizeExact`); copies and views stay inside their storage (`CopyFits`, `ViewsFit`)
  and Go and ORT agree on the width of a copied element (`CopyFits`).  The overlap check
  is strict enough that no result damages an input or another result (`InputsKept`,
  `ResultsIntact`) and not stricter (`RefusalJustified`).

## Modules

| Module | What it is |
|---|---|
| `SessionService` | abstract: what a session promises its callers |
| `Session` | one session: calls, callbacks, closers; implements `SessionService` |
| `SharedLibrary` | abstract: a library and the set of its holders |
| `Runtime` | one runtime and its sessions; implements `SharedLibrary` |
| `NativeRun` | abstract: what Go relies on when it calls `oc_run`, `oc_run_into` |
| `Inference` | descriptors and `OrtValue`s of concurrent runs; implements `NativeRun` |
| `SessionLease` | abstract: the life of the sessions of a runtime; implemented by both `Session` and `Runtime` |
| `LibraryOpen` | `Open`, `oc_open`, `oc_close` of several runtimes, call by call |
| `LoadContract` | abstract: what a load promises the runtime |
| `ModelLoad` | `load`, `addProvider`, `oc_load`, `oc_session_free`, call by call; implements `LoadContract` |
| `TensorSize` | element types, sizes, storage and views of tensors, with a small `int` |
| `TensorOverlap` | the overlap check, and the writes it guards |
| `MCSession`, `MCRuntime`, `MCInference`, `MCLibraryOpen`, `MCModelLoad`, `MCTensorSize` | symmetry sets and data for TLC |
| `SessionProofs`, `SessionRefinement`, `RuntimeProofs`, `InferenceProofs`, `LibraryOpenProofs`, `ModelLoadProofs`, `TensorSizeProofs`, `TensorOverlapProofs` | the proofs |

`Session` looks at one session in detail and `Runtime` at many in outline.
`SessionLease` is where they meet: used only while open and unannounced, freed
once and only when unused, and released on the runtime after that.  Both are shown
to implement it, so what `Runtime` says of its `users` and `closer` is no more than
`Session`'s `RWMutex` delivers.  Of the two other contracts only one side is shown:
`Inference` implements `NativeRun` and `ModelLoad` implements `LoadContract`.  That
`Session` (`NativeReturn`, `OutputsFree`) and `Runtime` (`LoadCreate`, `CloseFree`)
rely on no more than these is seen by comparing the definitions.

Names like `Drained_Unawaited` are faulty variants of the definition that
follows them (`Drained`), kept to show that a property notices the fault; no
definition of a model uses one.

### `Session`

`pc[c]` is the statement group of `Session.run` caller `c` is about to execute:

| steps | code (`session.go`) |
|---|---|
| `idle` → `rlock` → (`parked`) → `open` | 89-97: context check, `RLock`, `s.native` |
| `gate`, `queued`, `gated` | 98-108: the `select` and the second look at the context |
| `prepare` | 109-157: argument checks, descriptors, pins |
| `watch` | 158-168, 211-220: run options and callback |
| `native` | 169-177: inside `oc_run` or `oc_run_into` |
| `settle` | 178-206: which error or result is returned |
| `outputs`, `finish`, `unoptions`, `unpin`, `release`, `ungate`, `runlock` | the deferred functions of 176, 167 (221-227, in two steps), 139, 134-137, 101, 94 |

`readers` and `writer` are `s.mu` with Go's rule that a pending writer parks new
readers and its `Unlock` admits all parked ones.  `gate` and `queue` are the
channel: a receive hands the slot to the longest-waiting sender, which is why
`Ungate` moves the head of the queue; a `select` with both cases ready picks
either.  `watcher[c]` is the callback, started by `Cancel` at any later moment in
a goroutine of its own.  The callback asks ORT to end the run, and ORT may refuse:
`oc_terminate` drops the status (`bridge.c:296-299`), so `SetTerminate` either
terminates the options or leaves them, and a call in the second case is
`Unterminated`.  `stored` records which call's pointers are in which
slice, so that a slice that comes back from the pool with somebody's pointers is
a visible fault.  Tensor contents, shapes and native error texts are left out: a
call's result is one of the outcomes a caller can tell apart.

The native library is external.  It may return at any time, succeed or fail,
and report a termination only if its options were terminated.

### `Runtime`

`mu`, `native`, `refs` and `closed` are the fields of `Runtime`.  `handles` are
the live native sessions, `known` those that `Load` has returned, `options` the
loads that own an `OrtSessionOptions`.  A thread performs any operation on any
session: `LoadLock` .. `LoadUnlock` follow `load` from lock to unlock, including
the rollback of a load whose model has an unsupported port; `CloseLock` ..
`CloseUnlock` follow `Session.Close`, with the nested `r.mu`; `CloseRuntime` is
`Runtime.Close`.  `users` and `closer` abstract each session's `s.mu`: its
queueing is `Session`'s subject.  The initial state is that after a successful
`Open`.  Configuration entries, providers and `oc_load` are one step that
succeeds or fails, since a failure of any of them leaves the same way.

### `Inference`

The steps of one inference that `Session` takes at once, with the data they
move: `Get` and `Fill` build the descriptors tensor by tensor, `Alloc` .. `Discard`
follow `run` in `bridge.c`, `Return` .. `Clear` are the rest of `Session.run`.
`slots[b]` is slice `b` (its length is the Go slice's capacity), `values[c]` the
entries of C's array that are not `NULL`, `live` the `OrtValue`s not yet released.
An `OrtValue` is named by its call and its port, so that a descriptor or an array
entry that holds one names who made it.  Every native call may fail; `OrtApi.Run`
may fail after it has made some outputs, which is more than it is known to do.
The four queries about one delivered output are one step, because a failure of any
of them leaves the same values in the same places.  `FreeOutputs` is
`oc_outputs_free`, called by `run` after a failure (`Discard`) and again by Go's
`defer` (`OutputsFree`).  `NativeRun` is the contract `Session` relies on in
`NativeReturn` and `OutputsFree`: all outputs or none.

### `LibraryOpen`

`pc[r]` is the next call that `Open` makes for runtime `r` (`alloc` .. `opened`),
or the next release of `oc_close` (`closeMemory`, `closeEnv`, `closeLibrary`).
`live` has an element for every allocation: the C strings, the `oc_runtime` and
its fields, a status.  Every call may fail; a failure goes where the code's `goto`
or `return` goes.  `mapped` is the loader's count, shared by runtimes that open the
same file.  The refusals of a path before the first allocation (an empty one, one
with a NUL, one that `filepath.Abs` rejects) change nothing and are left out.  `Windows` chooses between the two bodies of `oc_open`: only one of them
widens the path.  A closed runtime is opened again instead of being replaced by a
new one, which keeps the number of runtimes finite.

### `ModelLoad`

One load at a time, as `r.mu` has it, while sessions of earlier loads are freed.
An object is `<<kind, session, index>>`.  `live` has the objects that exist, `ptrs`
those to which a variable or a structure of the program still points: cleanup
follows pointers, so an assignment that a path forgets separates the two, and
`Tracked` says that they never part.  Numbers of ports and dimensions come from
the model file and range over `Counts` and `Ranks`; a `size_t` has the values below
`Word` and wraps around.  The contents of names, keys and values are left out,
except that some are refused.

### `TensorSize` and `TensorOverlap`

`TensorSize` has one tensor, made by `NewTensor` or by the copy of an output in
`Session.run`, and the views and addresses taken of it.  Its arithmetic is that
of an `int` with `MaxInt` as the largest value.  The element type of an output is
any type of the C enumeration, as the vendored header has it.

`TensorOverlap` has the bytes of a small memory.  `RunInto` performs the check
(`Overlap`, `Others`) on tensors that lie anywhere in it; if it accepts them, ORT
writes the bytes of the results one by one in any order, and may stop.  Each byte
remembers which output was written to it last.

## Runs

| Run | Instance and properties | Result |
|---|---|---|
| `session_gated` | 3 callers, 1 closer, 2 slices, gate: `RunsSerialized`, `ReturnsClean`, `NoDeadlock` | holds |
| `session_cpu` | 2 callers, 2 closers, 2 slices, no gate: `NoUseAfterFree`, `TerminateLive`, `DescriptorsPrivate`, `PointersPinned`, `CancellationReported`, `ImplementsLease` | holds |
| `session_live` | 2 callers, 1 closer, gate, native runs end: `CloseReturns`, `RunReturns`, `ImplementsService` | holds |
| `session_cancel` | the same, native runs end only when terminated: `CanceledReturns` | holds |
| `session_queued` | the same without gate: `CancellationNeverQueues` | **violated** |
| `runtime_safe` | 4 threads, 3 sessions: `RefsCounted`, `LibraryInUse`, `ReleasedBeforeUnload`, `NoDeadlock`, `ClosedAddsNothing`, `ImplementsLibrary`, `ImplementsLease` | holds |
| `runtime_live` | 3 threads, 2 sessions: `Unloads`, `OperationsReturn` | holds |
| `inference` | 2 calls, 2 slices, sessions with 1+1, 0+2 and 1+2 ports: `ReleasedOnce`, `DescriptorsOwn`, `PoolZeroed`, `ImplementsNativeRun` | holds |
| `library_open` | 3 runtimes, Windows: `MappedWhileUsed`, `MapCounted`, `AllOrNothing` | holds |
| `model_load` | 2 sessions, Windows, a `size_t` below 16: `Tracked`, `LoadsAllOrNothing`, `TablesFit`, `OptionsExact`, `ImplementsContract` | holds |
| `tensor_size` | an `int` up to 127, rank up to 3: `SizeExact`, `CopyFits`, `ViewsFit` | holds |
| `tensor_overlap` | 4 bytes, up to 1 input and 3 outputs: `InputsKept`, `ResultsIntact`, `RefusalJustified` | holds |

**Bounds.**  Callers, threads and runtimes repeat operations for ever; only their
number is bounded.  Three callers let one hold the gate with two queued behind it,
so that the queue is left from its head and from its middle; a further caller is
one more element of the queue.  Two callers and two closers cover a repeated
`Close` and one racing a call that is racing another.  With a gate two slices
suffice (one in use, one pooled); without one each caller may have its own.  Three
sessions and four threads let a load, a run, a `Session.Close` and a
`Runtime.Close` overlap with a session left over that keeps the library.  Callers,
closers, slices, threads, sessions and runtimes are interchangeable, in the
abstract specifications as well, and the runs without liveness use that symmetry.

Two calls of three arities make every port an input of one session and an output
of another, let a long slice serve a short call between two long ones, and leave
a partly delivered run with an output on either side of the failure.  `LocalSize`
is 2 instead of 16, so that calls on both sides of it are checked.

Three runtimes let one fail at any call while another opens and a third closes.
Both `library_open` and `model_load` set `Windows`, whose paths have one more thing
to free; a POSIX
load is step by step like that of a model from bytes, which `model_load` has too,
and the theorems about `LibraryOpen` hold on either platform.

In `model_load`, `Word` is 16 and an `oc_port` 5 bytes: at most three ports fit, so
the counts 0, 1, 2 and 15 give tables that fit, that are just small enough (1 + 2),
one port too long (2 + 2) or far too long, and sums that wrap around to a small
number; the ranks 1 and 15 give a buffer that fits and one whose size wraps around.
Thread counts lie around both ends of a four-bit C int.
`MaxPairs` is 2, so that a provider option is refused with and without strings of
an earlier one.  Two sessions: one is loaded while the other is freed.

In `tensor_size`, `MCDims` has factors of 127 and of its neighbours (3 * 43 = 129,
2 * 64 = 128, 127), a dimension larger than an `int`, zero and a negative one, in
every order up to rank 3: a product that overflows before a zero or a negative
dimension, after it, or only when multiplied by the width.  The deadlock check is
off, because a tensor is made once and a failed call leaves nothing to do.

In `tensor_overlap`, four bytes are enough for two tensors that are equal, nested,
staggered, adjacent or apart, and for empty ones inside, at the edge of and outside
another; a third output is compared with two earlier ones.

**Fairness.**  A goroutine that can run does, hence weak fairness of `Run`,
`Callback` and `Close` (and `Proceed` in `Runtime`).  A closer competing with
others for the writer's side, or a thread competing for `r.mu`, is enabled again
and again rather than for ever; `sync.Mutex` hands itself over to a waiter that
has waited for a millisecond, hence strong fairness of `Announce` and `Acquire`.
Callers are never obliged to call, contexts to be canceled or closers to close.
`FairSpec` adds that native runs end; `HangingSpec` only that terminated ones do,
which is what the comment on `Run` promises and depends on.

Fairness of an action says nothing while the action is disabled.  `NeverStuck`
lists when those of `Session` are enabled: a call always, unless it is parked by a
writer, in the queue with a live context, inside the native library, or waiting in
`finish` for a callback that has started (`Runnable`); a callback as soon as its
context is done (`Pending`); a closer whenever `s.mu` has no writer, and past its
announcement as soon as the readers have left (`Closable`).  That of `Runtime` says the same of threads: a thread
inside an operation waits for `r.mu`, or in `Close` for runs, or can go on
(`Ready`), in particular never for a lock it holds; and one that waits for `r.mu`
(`Waiting`) can have it whenever it is free.  `NeverStuck` is the guards of those
actions over again, hence true in every state of the right types: it is not among
the properties of a run but the hypothesis with which the proofs of liveness start.
That nobody waits in a circle is a different matter and depends on all steps:
`NoDeadlock` says that whoever waits, for the gate, for `s.mu`, for `r.mu`, for
readers or for a callback, waits for somebody who can go on.

**The violated run.**  `TestQueuedProviderCancellation` insists that a canceled
call does not wait for another inference (`session_test.go:439`), which holds for
a call queued at the gate.  It does not for a call that arrives after `Close`: a
pending writer parks it in `s.mu.RLock()` (`session.go:93`), where it does not see
its context until the calls `Close` is waiting for have ended.  TLC's
counterexample: one call runs without end, `Close` waits for it, a second call
parks, its context is canceled, and nothing more happens.  Past `RLock` the
promise holds, unless ORT refused to terminate the call's own run
(`CanceledReturns`).

## Proofs

All proofs are for arbitrary sets of callers, closers, calls, slices and threads,
for arbitrary finite sets of sessions and runtimes, for sessions with or without a
gate and with any numbers of ports, either platform, integers of any width, shapes
of any rank, and memories and numbers of tensors of any size.  The only assumptions are the
constants' (`SessionAssumption`, `RuntimeAssumption`, `InferenceAssumption`,
`LibraryOpenAssumption`, `ModelLoadAssumption`, `TensorSizeAssumption`,
`TensorOverlapAssumption`: `None`
and `Owner` are not members of the other sets; sets whose cardinality is taken are
finite; numbers are natural; a model has an output; its counts and ranks are values
of a `size_t`, and so is the size of one port and of one dimension).

* `SessionProofs`: `TypeOK` and all the safety invariants of `Session`.  None is
  inductive alone.  `Inv` adds what ties the steps of a call to what it owns:
  `Locked` (the readers are exactly the calls between `RLock` and `RUnlock`, and
  past its `Lock` a closer has no readers), `InUse` (whoever has passed the check
  of `s.native` still finds it), `Watched` (a callback lives inside the life of its
  options), `Queued` (the queue has each blocked call once), `GateHeld`, `Slices`
  and `Owned`.  Each part has a lemma with one step per action.  Even types need
  the rest: that a slice and not `None` returns to the pool is `Slices`.
* `SessionProofs` also has liveness: `HangingSpec /\ []NeverStuck =>
  CanceledReturns`, and from `FairSpec /\ []NeverStuck` that a call returns if it
  has the gate, or if there is none and Close did not park it
  (`AdmittedCallsReturn`).  `NeverStuck` is a hypothesis because the prover does not
  evaluate `ENABLED`.  `Onward` is the safety part: whoever
  steps, a call past `RLock` stays or goes on to one of the steps `After` its own,
  done contexts stay done, callbacks only move on and a termination is not taken
  back.  `Listening` is the inductive
  fact behind the promise: a call whose context can be done has a callback whenever
  it is in the native library.  So that callback fires, and the options are terminated
  or the call is `Unterminated`.  Each step then leads to the ones after it by the fairness of the call,
  of its callback (`armed`, `running`, `fired`, `closed`) or of the library, and
  `Leaves` takes the deferred functions to their end.
* `SessionProofs` has `NobodyDeadlocks`, `Spec => []NoDeadlock`, without fairness and
  without `NeverStuck`.  `Locked` and `Listening` leave a reader outside the queue
  nobody to wait for but its callback, and `Blocked` says that the gate has a holder
  while somebody is queued.
* `SessionProofs` ends with the two waits for others, from `[]Fair` (goroutines are
  scheduled and native runs end, as in `FairSpec`), `[]NeverStuck` and `[]Rules`.
  `QueueFalls`: a call in the queue of the gate has a number of calls ahead of it,
  the gate has a holder meanwhile (`Blocked`), the holder returns
  (`AdmittedReturns`), and on its way out it moves everybody up; a canceled call that
  leaves from the middle moves the later ones up, and new calls line up behind
  (`QueueStep`).  So every reader returns (`ReadersReturn`).  `DrainFalls`: a closer
  waits for a number of readers, finite since calls start one by one (`Bounded`);
  each returns, and nobody becomes a reader while a closer has announced itself
  (`DrainStep`).  So closers give `s.mu` back, it is without a writer again and again
  (`WriterLeaves`), and strong fairness lets every closer in and parked calls go on.
  `CloseCallsReturn` is `CloseReturns`, `CallsReturn` is `RunReturns`, for any number
  of callers and closers.  `Rules` are instances of the Lattice rule, see below.
* `SessionRefinement`: `Spec => ImplementsService`.  The mapping (`Phase`, `Shown`)
  hides locks, gate, callbacks and cleanups; most steps are stutters, and the
  others are instances of four lemmas (refused, declined, executed, completed).
  `LeaseKept` is `Spec => ImplementsLease`, with one more inductive fact,
  `Released`: a closer that has freed the session still has to release the runtime.
* `RuntimeProofs`: `TypeOK`, `RefsCounted`, `LibraryInUse`,
  `ReleasedBeforeUnload`, `ClosedAddsNothing`, `FreedWhenUnused` and
  `ImplementsLibrary`.  The count is relational: `NextAccounted` shows that every
  step keeps the holders, adds a session while the runtime is open, or drops one
  holder; `AccountedCounted` turns that into the invariant with the library's facts
  about finite sets, and the refinement of `SharedLibrary` follows from the same
  lemma.  `Control` (who holds `r.mu` and `s.mu`, which session a load has to
  itself) is what makes each step account correctly.  `LeaseKept` is
  `Spec => ImplementsLease`: with `Freed` (past the release nothing native is left)
  each step moves one session along its life or leaves all where they are.
* `RuntimeProofs` has `NobodyDeadlocks` for `s.mu` and `r.mu` together, also without
  fairness: `Control` says that the holder of `r.mu` can go on, and `Writers` that who
  has a session's `s.mu` waits for its runs, waits for `r.mu`, or can go on.
* `RuntimeProofs` also has liveness, from `Spec /\ []Scheduled /\ []NeverStuck`
  (`[]Scheduled` says at every moment what `Scheduled`, the fairness of `FairSpec`,
  says at the start; the two are equivalent, since fairness is about what happens
  again and again, but the prover cannot show it for all threads at once). `Leaves`:
  by weak fairness a thread in a step that waits for nobody ends its operation. A
  holder of `r.mu` is in such a step and nobody else can take `r.mu` from it
  (`Onward`), so it is released (`HolderReleases`) and free again and again
  (`MutexFree`); strong fairness then serves every waiter (`WaitersServed`). This
  takes no induction over the threads, as all wait for the same mutex. The number of
  runs that a `Session.Close` waits for falls (`DrainFalls`): each run ends and no new
  one begins. With the Lattice rule, `DrainRule`, this is `OperationsReturn`
  (`OperationsEnd`). The number of references left after everything was closed falls
  too (`LeftoverFalls`): as long as the library is there, one of them belongs to a
  `Close` that has yet to release it, and `WaitersReturn` takes that to its end. With
  `LeftoverRule`, this is `Unloads` (`LibraryGoes`).
* `InferenceProofs`: `TypeOK`, `ReleasedOnce`, `DescriptorsOwn`, `PoolZeroed` and
  `ImplementsNativeRun`.  `Inv` has, besides types, that slices are private
  (`Distinct`) and clean in the pool (`Clean`), and for each call what it holds
  (`Holding`, `Private`), how far its descriptors are filled (`Described`), where its
  values are (`Owned`) and which outputs it has (`Delivered`).  A step concerns one
  call and its slice: for each action a lemma ending in `Local` shows what it does
  there, and `Unmoved` and `Handed` conclude that all else stays true.  For the
  refinement each action keeps, enters, leaves or ends a phase of its call (`Moves`).
* `ModelLoadProofs`: `TypeOK`, `Tracked`, `LoadsAllOrNothing`, `TablesFit`,
  `OptionsExact` and `ImplementsContract`.  `Justified` says for every object that
  exists at which steps it may (`Temporary` for what a load gives back, `Part` for
  what stays in the session), and `Built` what a session has by each step, so that at
  `idle` only whole sessions are left; `Sized` is the arithmetic of the tables.  One
  lemma per action.
* `LibraryOpenProofs`: `TypeOK`, `MapCounted`, `MappedWhileUsed`, `AllOrNothing`.
  `Parts` and `Nested` say for every step what is allocated, what may be and what is
  not.  `StepLocal` shows that a step keeps this for its runtime, leaves the others
  alone, and changes the loader's count by what it loads or unloads.
* `TensorSizeProofs`: `TypeOK`, `SizeExact`, `CopyFits`, `ViewsFit`.
  `tensorSize` loops over a shape and the true size is a product, both recursive
  functions; their equations are proved first.  Induction over a shape takes the
  form of a least position that is not in a set (`Induction`).  `QuotientBound` is
  the test of the loop, `d <= MaxInt \div k` exactly if `k * d <= MaxInt`, and
  `CountsExact` what follows for all positions if no dimension is negative or zero:
  the count is the product if that fits an `int` and `Bad` otherwise, and no `Wrap`
  ever changes a value.  Copies and views then reduce to whole words (`WordsRoundUp`)
  and to the two tables of widths (`WidthsAgree`).
* `TensorOverlapProofs`: `InputsKept`, `ResultsIntact`, `RefusalJustified`.
  `OverlapExact` is the heart: the four comparisons are true exactly if the two
  ranges of bytes meet.  What is written and what is still to be written are
  disjoint from the inputs and from other outputs.

**The Lattice rule.**  If `P(n)` always leads to `Q` or to some `P(m)` with `m < n`,
then `P(n)` for any natural number `n` leads to `Q`.  It is a rule of TLA, true of
every behaviour of any system, and needs induction over temporal formulas, which the
prover does not have.  `QueueRule`, `DrainRule` and `LeftoverRule` are its instances
for the numbers above, premise and all: `(\A n \in Nat : P(n) ~> Q \/ ...) =>
((\E n \in Nat : P(n)) ~> Q)`.  As hypotheses they exclude no behaviour; that the
numbers fall, which is what the code has to do with it, is proved.

**Taken as hypotheses.**  Every property of a passing run is a theorem.  The liveness
theorems start, beside fairness, from `[]NeverStuck`, since it states what is
`ENABLED`, and from the instances of the Lattice rule.  The first is not a property of
any run (see *Fairness*), but TLC finds it true when it is added as an `INVARIANT` to
`Session_cancel.cfg` or to `Runtime_live.cfg`.

## Not modelled

* The vendored ORT headers (`internal/ort`, some 12000 lines) are declarations of an
  external library.  They have no behaviour to model; of their contents the
  program's logic depends on the element types only
  (`onnxruntime_c_api.h:193-226`), which `TensorSize` has.  A count of modelled lines
  over all C files therefore stays small although `bridge.c` is covered from
  `oc_close` to `oc_run_into`.
* `Inputs`, `Outputs`, `cloneInfo`, `Shape`, `Type`, `String` copy or format immutable
  values and change nothing.
* Error codes and messages.  That every status is released once, and `Open`'s and
  `load`'s choice between kinds of failure, are in `LibraryOpen` and `ModelLoad`.
* Contents of names, paths, keys and tensors; memory exhaustion in Go, which ends
  the program.
* ORT itself, the dynamic loader, Go's scheduler and garbage collector, beyond what
  the code relies on.
* Callers that break the documented rules (mutating a tensor during a call,
  copying a `Runtime`).
* The example, the test data, the tests and CI.

## Plan

1. Done: `Session`, `SessionService`, `Runtime`, `SharedLibrary`, `SessionLease` and
   their proofs.
2. Done: `Inference` and `NativeRun`, with proofs.
3. Done: `LibraryOpen`, `ModelLoad` and `LoadContract`, with proofs.
4. Done: `TensorOverlap` and `TensorSize`, with proofs.
5. Done: liveness of a single call of a session, proved from `NeverStuck`.
6. Done: every thread that waits for `r.mu` gets it, proved in the same way.
7. Done: the waits for a number to fall, in the queue of the gate, in `Close` of
   a session (`Session` and `Runtime`) and for the library's last references; with them `CloseReturns`,
   `RunReturns`, `OperationsReturn` and `Unloads` are theorems.

What remains outside is listed under *Not modelled*.
