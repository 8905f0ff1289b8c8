------------------------------- MODULE Session -------------------------------
(***************************************************************************)
(* One Session of session.go: any number of goroutines calling Run and     *)
(* RunInto on it, the callbacks that watch their contexts, and goroutines  *)
(* calling Close.  A caller is one goroutine that makes one call after     *)
(* another; pc[c] is the point its current call has reached.               *)
(*                                                                         *)
(* The deferred cleanups of run are the steps "outputs" to "runlock",      *)
(* taken last-in first-out; an early return enters them at the first one   *)
(* that had been deferred.                                                 *)
(*                                                                         *)
(* A name such as Drained_Unawaited is not part of the model: it is a      *)
(* faulty variant of the definition after it, with which a property that   *)
(* the README names fails.                                                 *)
(***************************************************************************)
EXTENDS Naturals, Sequences

CONSTANTS
  Callers,  \* goroutines calling Run or RunInto
  Closers,  \* goroutines calling Close
  Buffers,  \* descriptor slices, pooled or not
  Gated,    \* the session was loaded with explicit execution providers
  None      \* no caller, closer or buffer

ASSUME SessionAssumption ==
  /\ Gated \in BOOLEAN
  /\ None \notin Callers \cup Closers \cup Buffers

VARIABLES
  pc,       \* what a caller's current call does next
  ctx,      \* its context: never cancelable, live or done
  into,     \* it is RunInto, not Run
  out,      \* what it will return, once known
  watcher,  \* its context.AfterFunc callback
  options,  \* its OrtRunOptions
  held,     \* the descriptor slice it uses
  values,   \* calls that own OrtValues for their outputs
  pinned,   \* calls whose tensors are pinned
  pool,     \* runDescriptors
  stored,   \* <<c, b>>: slice b has pointers that call c put there
  readers,  \* calls holding s.mu for reading
  writer,   \* the closer that announced itself to s.mu
  gate,     \* the call whose token is in s.gate
  queue,    \* calls blocked sending to s.gate, in arrival order
  closing,  \* what a closer does next
  native,   \* s.native is not nil
  leased    \* the session's reference on its runtime is not released

callVars == <<ctx, into, out, watcher, options, held, values, pinned>>
poolVars == <<pool, stored>>
lockVars == <<readers, writer, gate, queue>>
closeVars == <<closing, native, leased>>
vars == <<pc, callVars, poolVars, lockVars, closeVars>>

Results == {"none", "ok", "ctx", "closed", "invalid", "failed", "terminated"}

\* Steps in which the call uses the session's or the runtime's native handle.
NativeSteps == {"watch", "native", "settle", "outputs", "finish", "unoptions"}
\* Steps between the acquisition of the gate and its release.
GatedSteps == {"gated", "prepare", "unpin", "release", "ungate"} \cup NativeSteps
\* Steps between RLock and RUnlock.
ReadSteps == {"open", "gate", "queued", "runlock"} \cup GatedSteps
Steps == {"idle", "rlock", "parked"} \cup ReadSteps

TypeOK ==
  /\ pc \in [Callers -> Steps]
  /\ ctx \in [Callers -> {"background", "live", "done"}]
  /\ into \in [Callers -> BOOLEAN]
  /\ out \in [Callers -> Results]
  /\ watcher \in [Callers -> {"none", "armed", "running", "fired", "closed"}]
  /\ options \in [Callers -> {"none", "live", "terminated"}]
  /\ held \in [Callers -> Buffers \cup {None}]
  /\ values \subseteq Callers
  /\ pinned \subseteq Callers
  /\ pool \subseteq Buffers
  /\ stored \subseteq Callers \X Buffers
  /\ readers \subseteq Callers
  /\ writer \in Closers \cup {None}
  /\ gate \in Callers \cup {None}
  /\ queue \in Seq(Callers)
  /\ closing \in [Closers -> {"idle", "lock", "draining", "release", "unlock"}]
  /\ native \in BOOLEAN
  /\ leased \in BOOLEAN

Init ==
  /\ pc = [c \in Callers |-> "idle"]
  /\ ctx = [c \in Callers |-> "background"]
  /\ into = [c \in Callers |-> FALSE]
  /\ out = [c \in Callers |-> "none"]
  /\ watcher = [c \in Callers |-> "none"]
  /\ options = [c \in Callers |-> "none"]
  /\ held = [c \in Callers |-> None]
  /\ values = {} /\ pinned = {} /\ pool = {} /\ stored = {}
  /\ readers = {} /\ writer = None
  /\ gate = None /\ queue = <<>>
  /\ closing = [k \in Closers |-> "idle"]
  /\ native = TRUE /\ leased = TRUE

At(c, step) == pc[c] = step
Goto(c, step) == pc' = [pc EXCEPT ![c] = step]
Outcome(c, r) == out' = [out EXCEPT ![c] = r]
Done(c) == ctx[c] = "done"

-----------------------------------------------------------------------------
(* The read side of s.mu and the gate.                                     *)

\* Run and RunInto are called with a context of any kind; a context that is
\* already done ends the call at once.
RunStart(c) ==
  /\ At(c, "idle")
  /\ \/ Outcome(c, "ctx") /\ UNCHANGED <<pc, ctx, into>>
     \/ /\ \E kind \in {"background", "live"}, i \in BOOLEAN :
             ctx' = [ctx EXCEPT ![c] = kind] /\ into' = [into EXCEPT ![c] = i]
        /\ Outcome(c, "none") /\ Goto(c, "rlock")
  /\ UNCHANGED <<watcher, options, held, values, pinned, poolVars, lockVars, closeVars>>

\* The caller's context is canceled, or its deadline passes.
Cancel(c) ==
  /\ ~At(c, "idle") /\ ctx[c] = "live"
  /\ ctx' = [ctx EXCEPT ![c] = "done"]
  /\ UNCHANGED <<pc, into, out, watcher, options, held, values, pinned,
                 poolVars, lockVars, closeVars>>

\* RWMutex.RLock parks a reader while a writer has announced itself.
MayRead == writer = None
RLock(c) ==
  /\ At(c, "rlock")
  /\ IF MayRead THEN readers' = readers \cup {c} /\ Goto(c, "open")
                ELSE Goto(c, "parked") /\ UNCHANGED readers
  /\ UNCHANGED <<callVars, poolVars, writer, gate, queue, closeVars>>

RunOpen_Unchecked(c) ==
  /\ At(c, "open")
  /\ Goto(c, IF Gated THEN "gate" ELSE "prepare")
  /\ UNCHANGED <<callVars, poolVars, lockVars, closeVars>>
RunOpen_Locked(c) ==
  /\ At(c, "open")
  /\ IF ~native THEN Outcome(c, "closed") /\ Goto(c, "idle")
                ELSE UNCHANGED out /\ Goto(c, IF Gated THEN "gate" ELSE "prepare")
  /\ UNCHANGED <<ctx, into, watcher, options, held, values, pinned,
                 poolVars, lockVars, closeVars>>
RunOpen(c) ==
  /\ At(c, "open")
  /\ IF ~native THEN Outcome(c, "closed") /\ Goto(c, "runlock")
                ELSE UNCHANGED out /\ Goto(c, IF Gated THEN "gate" ELSE "prepare")
  /\ UNCHANGED <<ctx, into, watcher, options, held, values, pinned,
                 poolVars, lockVars, closeVars>>

\* The select of run: take the gate, give up because the context is done (a
\* random choice if both are possible), or block behind earlier callers.
GateFree_Unbounded == TRUE
GateFree == gate = None
RunGate(c) ==
  /\ At(c, "gate")
  /\ \/ GateFree /\ gate' = c /\ Goto(c, "gated") /\ UNCHANGED <<out, queue>>
     \/ Done(c) /\ Outcome(c, "ctx") /\ Goto(c, "runlock") /\ UNCHANGED <<gate, queue>>
     \/ /\ ~GateFree /\ ~Done(c)
        /\ queue' = Append(queue, c) /\ Goto(c, "queued") /\ UNCHANGED <<gate, out>>
  /\ UNCHANGED <<ctx, into, watcher, options, held, values, pinned,
                 poolVars, readers, writer, closeVars>>

Without(c) == LET p == CHOOSE i \in DOMAIN queue : queue[i] = c IN
              [i \in 1 .. Len(queue) - 1 |-> queue[IF i < p THEN i ELSE i + 1]]
RunQueued_Deaf(c) == At(c, "queued") /\ FALSE
RunQueued(c) ==
  /\ At(c, "queued") /\ Done(c)
  /\ queue' = Without(c)
  /\ Outcome(c, "ctx") /\ Goto(c, "runlock")
  /\ UNCHANGED <<ctx, into, watcher, options, held, values, pinned,
                 poolVars, readers, writer, gate, closeVars>>

\* select may have taken the gate although the context was done.
RunGated(c) ==
  /\ At(c, "gated")
  /\ IF Done(c) THEN Outcome(c, "ctx") /\ Goto(c, "ungate")
                ELSE UNCHANGED out /\ Goto(c, "prepare")
  /\ UNCHANGED <<ctx, into, watcher, options, held, values, pinned,
                 poolVars, lockVars, closeVars>>

-----------------------------------------------------------------------------
(* One inference: descriptors, cancellation, the native call, the result.  *)

\* Where an early return lands once the gate, if there is one, is held.
Leave_Gated(c) == Goto(c, "runlock")
Leave(c) == Goto(c, IF Gated THEN "ungate" ELSE "runlock")

\* A wrong number of tensors, or an output that overlaps another tensor.
RunReject(c) ==
  /\ At(c, "prepare")
  /\ Outcome(c, "invalid") /\ Leave(c)
  /\ UNCHANGED <<ctx, into, watcher, options, held, values, pinned,
                 poolVars, lockVars, closeVars>>

\* Take a pooled slice or a new one, pin the tensors and describe them.  The
\* loop may stop at a tensor with no element type.
Pinned_Forgotten(c) == pinned
Pinned(c) == pinned \cup {c}
RunPrepare(c) ==
  /\ At(c, "prepare")
  /\ \E b \in Buffers \ {held[d] : d \in Callers} :
       held' = [held EXCEPT ![c] = b] /\ pool' = pool \ {b} /\ stored' = stored \cup {<<c, b>>}
  /\ pinned' = Pinned(c)
  /\ \/ Outcome(c, "invalid") /\ Goto(c, "unpin")
     \/ UNCHANGED out /\ Goto(c, IF ctx[c] = "background" THEN "native" ELSE "watch")
  /\ UNCHANGED <<ctx, into, watcher, options, values, lockVars, closeVars>>

\* oc_run_options creates the options the call runs with, AfterFunc arms the
\* callback that terminates them.
WatchContext(c) ==
  /\ At(c, "watch")
  /\ \/ /\ options' = [options EXCEPT ![c] = "live"]
        /\ watcher' = [watcher EXCEPT ![c] = "armed"]
        /\ Goto(c, "native") /\ UNCHANGED out
     \/ Outcome(c, "failed") /\ Goto(c, "unpin") /\ UNCHANGED <<options, watcher>>
  /\ UNCHANGED <<ctx, into, held, values, pinned, poolVars, lockVars, closeVars>>

\* oc_run or oc_run_into returns.  It fails because of the termination only if
\* the options were terminated; only oc_run leaves values in the descriptors.
NativeReturn(c) ==
  /\ At(c, "native")
  /\ \E r \in {"ok", "failed"} \cup (IF options[c] = "terminated" THEN {"terminated"} ELSE {}) :
       /\ Outcome(c, r)
       /\ values' = IF r = "ok" /\ ~into[c] THEN values \cup {c} ELSE values
  /\ Goto(c, "settle")
  /\ UNCHANGED <<ctx, into, watcher, options, held, pinned, poolVars, lockVars, closeVars>>

\* The context's error comes before the native one.  Copying the outputs may
\* find an inconsistent one.
Settled_Native(c) == {out[c]}
Settled(c) == CASE Done(c) -> {"ctx"}
                [] ~Done(c) /\ out[c] = "ok" /\ ~into[c] -> {"ok", "invalid"}
                [] OTHER -> {out[c]}
AfterInference(c) == IF options[c] = "none" THEN "unpin" ELSE "finish"
RunSettle(c) ==
  /\ At(c, "settle")
  /\ \E r \in Settled(c) : Outcome(c, r)
  /\ Goto(c, IF into[c] THEN AfterInference(c) ELSE "outputs")
  /\ UNCHANGED <<ctx, into, watcher, options, held, values, pinned,
                 poolVars, lockVars, closeVars>>

-----------------------------------------------------------------------------
(* The deferred cleanups, and the callback one of them joins.              *)

OutputsFree(c) ==
  /\ At(c, "outputs")
  /\ values' = values \ {c}
  /\ Goto(c, AfterInference(c))
  /\ UNCHANGED <<ctx, into, out, watcher, options, held, pinned,
                 poolVars, lockVars, closeVars>>

\* stop() prevents the callback, or the call waits for done to be closed.
Joined_Never(c) == TRUE
Joined(c) == watcher[c] \in {"armed", "closed"}
FinishStop(c) ==
  /\ At(c, "finish") /\ Joined(c)
  /\ watcher' = [watcher EXCEPT ![c] = IF @ = "armed" THEN "none" ELSE @]
  /\ Goto(c, "unoptions")
  /\ UNCHANGED <<ctx, into, out, options, held, values, pinned,
                 poolVars, lockVars, closeVars>>

FinishFree(c) ==
  /\ At(c, "unoptions")
  /\ options' = [options EXCEPT ![c] = "none"]
  /\ watcher' = [watcher EXCEPT ![c] = IF @ = "closed" THEN "none" ELSE @]
  /\ Goto(c, "unpin")
  /\ UNCHANGED <<ctx, into, out, held, values, pinned, poolVars, lockVars, closeVars>>

RunUnpin(c) ==
  /\ At(c, "unpin")
  /\ pinned' = pinned \ {c}
  /\ Goto(c, "release")
  /\ UNCHANGED <<ctx, into, out, watcher, options, held, values,
                 poolVars, lockVars, closeVars>>

\* Clear the descriptors and return their slice to the pool.
Cleared_Kept(b) == stored
Cleared(b) == {s \in stored : s[2] # b}
RunRelease(c) ==
  /\ At(c, "release")
  /\ stored' = Cleared(held[c])
  /\ pool' = pool \cup {held[c]}
  /\ held' = [held EXCEPT ![c] = None]
  /\ Leave(c)
  /\ UNCHANGED <<ctx, into, out, watcher, options, values, pinned, lockVars, closeVars>>

\* Receiving from s.gate hands the slot to the caller blocked longest on it.
Ungate_Barging(c) ==
  /\ At(c, "ungate") /\ gate' = None
  /\ IF queue = <<>>
       THEN Goto(c, "runlock") /\ UNCHANGED queue
       ELSE queue' = Tail(queue) /\ pc' = [pc EXCEPT ![c] = "runlock", ![Head(queue)] = "gate"]
  /\ UNCHANGED <<callVars, poolVars, readers, writer, closeVars>>
Ungate_Lost(c) ==
  /\ At(c, "ungate") /\ gate' = None /\ Goto(c, "runlock")
  /\ UNCHANGED <<callVars, poolVars, readers, writer, queue, closeVars>>
Ungate(c) ==
  /\ At(c, "ungate")
  /\ IF queue = <<>>
       THEN gate' = None /\ Goto(c, "runlock") /\ UNCHANGED queue
       ELSE /\ gate' = Head(queue) /\ queue' = Tail(queue)
            /\ pc' = [pc EXCEPT ![c] = "runlock", ![Head(queue)] = "gated"]
  /\ UNCHANGED <<callVars, poolVars, readers, writer, closeVars>>

\* The last deferred call; the arguments of the call are gone with it.
RUnlock(c) ==
  /\ At(c, "runlock")
  /\ readers' = readers \ {c}
  /\ Goto(c, "idle")
  /\ ctx' = [ctx EXCEPT ![c] = "background"] /\ into' = [into EXCEPT ![c] = FALSE]
  /\ UNCHANGED <<out, watcher, options, held, values, pinned,
                 poolVars, writer, gate, queue, closeVars>>

\* The context starts the callback in a goroutine of its own.
CallbackStart(c) ==
  /\ watcher[c] = "armed" /\ Done(c)
  /\ watcher' = [watcher EXCEPT ![c] = "running"]
  /\ UNCHANGED <<pc, ctx, into, out, options, held, values, pinned,
                 poolVars, lockVars, closeVars>>

\* oc_terminate drops the status of RunOptionsSetTerminate, which may have failed.
SetTerminate(c) == options' = [options EXCEPT ![c] = "terminated"] \/ UNCHANGED options
Terminate(c) ==
  /\ watcher[c] = "running"
  /\ watcher' = [watcher EXCEPT ![c] = "fired"]
  /\ SetTerminate(c)
  /\ UNCHANGED <<pc, ctx, into, out, held, values, pinned, poolVars, lockVars, closeVars>>

CallbackClose(c) ==
  /\ watcher[c] = "fired"
  /\ watcher' = [watcher EXCEPT ![c] = "closed"]
  /\ UNCHANGED <<pc, ctx, into, out, options, held, values, pinned,
                 poolVars, lockVars, closeVars>>

-----------------------------------------------------------------------------
(* Close.                                                                  *)

CloseStart(k) ==
  /\ closing[k] = "idle"
  /\ closing' = [closing EXCEPT ![k] = "lock"]
  /\ UNCHANGED <<pc, callVars, poolVars, lockVars, native, leased>>

\* Lock announces the writer, one at a time; later readers park.
Announce(k) ==
  /\ closing[k] = "lock" /\ writer = None
  /\ writer' = k
  /\ closing' = [closing EXCEPT ![k] = "draining"]
  /\ UNCHANGED <<pc, callVars, poolVars, readers, gate, queue, native, leased>>

\* Lock returns when the readers it found have left; the session is freed.
Drained_Unawaited == TRUE
Drained == readers = {}
CloseFree(k) ==
  /\ closing[k] = "draining" /\ Drained
  /\ native' = FALSE
  /\ closing' = [closing EXCEPT ![k] = IF native THEN "release" ELSE "unlock"]
  /\ UNCHANGED <<pc, callVars, poolVars, lockVars, leased>>

CloseRelease(k) ==
  /\ closing[k] = "release"
  /\ leased' = FALSE
  /\ closing' = [closing EXCEPT ![k] = "unlock"]
  /\ UNCHANGED <<pc, callVars, poolVars, lockVars, native>>

\* Unlock lets every parked reader in before another writer can announce.
CloseUnlock(k) ==
  LET parked == {c \in Callers : At(c, "parked")} IN
  /\ closing[k] = "unlock"
  /\ writer' = None
  /\ readers' = readers \cup parked
  /\ pc' = [c \in Callers |-> IF c \in parked THEN "open" ELSE pc[c]]
  /\ closing' = [closing EXCEPT ![k] = "idle"]
  /\ UNCHANGED <<callVars, poolVars, gate, queue, native, leased>>

-----------------------------------------------------------------------------
Run(c) ==
  \/ RLock(c) \/ RunOpen(c) \/ RunGate(c) \/ RunQueued(c) \/ RunGated(c)
  \/ RunReject(c) \/ RunPrepare(c) \/ WatchContext(c) \/ RunSettle(c)
  \/ OutputsFree(c) \/ FinishStop(c) \/ FinishFree(c) \/ RunUnpin(c)
  \/ RunRelease(c) \/ Ungate(c) \/ RUnlock(c)
Callback(c) == CallbackStart(c) \/ Terminate(c) \/ CallbackClose(c)
Close(k) == CloseFree(k) \/ CloseRelease(k) \/ CloseUnlock(k)

Next ==
  \/ \E c \in Callers : RunStart(c) \/ Cancel(c) \/ Run(c) \/ Callback(c) \/ NativeReturn(c)
  \/ \E k \in Closers : CloseStart(k) \/ Announce(k) \/ Close(k)

Spec == Init /\ [][Next]_vars
-----------------------------------------------------------------------------
(* Safety.                                                                 *)

\* The session and the runtime it leases outlive every use of them, by a call
\* or by its callback: Close waits for active calls, calls join callbacks.
NoUseAfterFree ==
  \A c \in Callers : pc[c] \in NativeSteps \/ watcher[c] = "running" => native /\ leased

\* finish frees the run options only when the callback that terminates them
\* cannot run any more.
TerminateLive == \A c \in Callers : watcher[c] = "running" => options[c] # "none"

\* A session with explicit providers never runs two inferences at once.
RunsSerialized ==
  Gated => \A c, d \in Callers : pc[c] \in NativeSteps /\ pc[d] \in NativeSteps => c = d

\* No two calls share a descriptor slice, and the pool holds only cleared
\* slices that no call uses.
DescriptorsPrivate ==
  /\ \A c, d \in Callers : held[c] = held[d] => c = d \/ held[c] = None
  /\ \A b \in pool : \A c \in Callers : held[c] # b /\ <<c, b>> \notin stored

\* Every pointer that native code can find in the descriptors of a call is the
\* call's own, to a tensor that is still pinned.
PointersPinned ==
  \A c \in Callers : pc[c] \in {"native", "outputs"} =>
    \A s \in stored : s[2] = held[c] => s[1] = c /\ c \in pinned

\* Whatever way a call ends, it keeps nothing.
ReturnsClean ==
  \A c \in Callers : At(c, "idle") =>
    /\ c \notin readers \cup values \cup pinned
    /\ held[c] = None /\ options[c] = "none" /\ watcher[c] = "none"
    /\ gate # c /\ \A i \in DOMAIN queue : queue[i] # c

\* The native error that a cancellation provokes is never what a call returns.
CancellationReported == \A c \in Callers : At(c, "idle") => out[c] # "terminated"

-----------------------------------------------------------------------------
(* Fairness and liveness.                                                  *)

\* Goroutines and callbacks are scheduled; sync.Mutex does not starve the
\* closers that contend for the writer's side of s.mu.
CallScheduled(c) == WF_vars(Run(c)) /\ WF_vars(Callback(c))
CloseScheduled(k) == SF_vars(Announce(k)) /\ WF_vars(Close(k))
Scheduled ==
  /\ \A c \in Callers : CallScheduled(c)
  /\ \A k \in Closers : CloseScheduled(k)

\* Every native run ends.
Ended(c) == WF_vars(NativeReturn(c))
FairSpec == Spec /\ Scheduled /\ \A c \in Callers : Ended(c)

\* Native runs may go on for ever, but a terminated one ends.
ObeyTerminate(c) == options[c] = "terminated" /\ NativeReturn(c)
Obeyed(c) == WF_vars(ObeyTerminate(c))
HangingSpec == Spec /\ Scheduled /\ \A c \in Callers : Obeyed(c)

\* A call can go on unless it waits: for a closer's Unlock, in the queue of the
\* gate, in the native library, or for its callback.
Runnable(c) ==
  /\ pc[c] \notin {"idle", "parked", "native"}
  /\ At(c, "queued") => Done(c)
  /\ At(c, "finish") => Joined(c)
\* So can a callback whose context is done.
Pending(c) == \/ watcher[c] = "armed" /\ Done(c)
              \/ watcher[c] \in {"running", "fired"}

\* A closer whose Lock was announced can go on once the readers have left.
Closable(k) == \/ closing[k] \in {"release", "unlock"}
               \/ closing[k] = "draining" /\ Drained

\* A call that can go on by itself, or whose callback or native run can.
Mobile(c) == Runnable(c) \/ Pending(c) \/ At(c, "native")

\* Whoever waits, waits for somebody who can go on: a call past RLock that cannot
\* is in the queue of the gate behind a holder who can; a parked call has a writer
\* to let it in; and the writer can go on, or one of the readers it waits for.
\* So callers, callbacks and closers never wait for one another in a circle.
NoDeadlock ==
  /\ \A c \in readers : Mobile(c) \/ (At(c, "queued") /\ gate # None /\ Mobile(gate))
  /\ \A c \in Callers : At(c, "parked") => writer # None
  /\ writer # None => Closable(writer) \/ \E c \in readers : Mobile(c)

\* What Runnable, Pending and Closable say is when the actions are enabled; the
\* proofs of liveness start from it.
NeverStuck ==
  /\ \A c \in Callers :
       /\ Runnable(c) => ENABLED <<Run(c)>>_vars
       /\ Pending(c) => ENABLED <<Callback(c)>>_vars
       /\ At(c, "native") => ENABLED <<NativeReturn(c)>>_vars
       /\ At(c, "native") /\ options[c] = "terminated" => ENABLED <<ObeyTerminate(c)>>_vars
  /\ \A k \in Closers :
       /\ closing[k] = "lock" /\ writer = None => ENABLED <<Announce(k)>>_vars
       /\ Closable(k) => ENABLED <<Close(k)>>_vars

\* Close returns although callers keep calling Run.
CloseReturns == \A k \in Closers : closing[k] = "lock" ~> closing[k] = "idle"

\* Every call returns: no call waits for ever on the lock, the gate or a callback.
RunReturns == \A c \in Callers : At(c, "rlock") ~> At(c, "idle")

\* The native run of a call whose callback could not terminate its options.
Unterminated(c) == At(c, "native") /\ watcher[c] \in {"fired", "closed"} /\ options[c] = "live"

\* Once it is past RLock, a canceled call returns however long others run, unless
\* ORT refused to terminate its own native run.
CanceledReturns ==
  \A c \in Callers : pc[c] \in ReadSteps /\ Done(c) ~> At(c, "idle") \/ Unterminated(c)

\* The same for every call, as TestQueuedProviderCancellation has it:
\* cancellation does not wait for another inference call.
CancellationNeverQueues ==
  \A c \in Callers : ~At(c, "idle") /\ Done(c) ~> At(c, "idle") \/ Unterminated(c)

-----------------------------------------------------------------------------
\* The session as its callers see it.
Phase(c) == CASE At(c, "idle") -> "idle"
              [] pc[c] \in NativeSteps \ {"watch"} -> "executing"
              [] pc[c] \in {"unpin", "release", "ungate", "runlock"} -> "leaving"
              [] OTHER -> "called"

Shown(c) == IF Phase(c) \in {"idle", "leaving"} THEN out[c] ELSE "none"

Service == INSTANCE SessionService WITH
  Exclusive <- Gated,
  open <- native,
  phase <- [c \in Callers |-> Phase(c)],
  answer <- [c \in Callers |-> Shown(c)]

\* Session implements SessionService.
ImplementsService == Service!Spec

\* The session as its runtime sees it; a reader that found s.native nil is not
\* a user.
This == {"this"}
Lease == INSTANCE SessionLease WITH
  Sessions <- This,
  Users <- Callers,
  stage <- [s \in This |-> IF native THEN "open" ELSE IF leased THEN "freed" ELSE "released"],
  users <- [s \in This |-> IF native THEN readers ELSE {}],
  closer <- [s \in This |-> writer]

\* Session implements SessionLease: the lock, with its parked readers and
\* competing writers, keeps the promise of Close.
ImplementsLease == Lease!Spec
=============================================================================
