---------------------------- MODULE SessionProofs ---------------------------
(***************************************************************************)
(* Proofs about module Session, for any callers, closers, descriptor       *)
(* slices and for sessions with and without a gate: every safety invariant *)
(* that the runs check, and the return of calls and of Close.              *)
(***************************************************************************)
EXTENDS Session, SequenceTheorems, FiniteSetTheorems, TLAPS

\* Types of all variables but the queue.
Types ==
  /\ pc \in [Callers -> Steps]
  /\ ctx \in [Callers -> {"background", "live", "done"}]
  /\ into \in [Callers -> BOOLEAN]
  /\ out \in [Callers -> Results]
  /\ watcher \in [Callers -> {"none", "armed", "running", "fired", "closed"}]
  /\ options \in [Callers -> {"none", "live", "terminated"}]
  /\ held \in [Callers -> Buffers \cup {None}]
  /\ values \subseteq Callers /\ pinned \subseteq Callers
  /\ pool \subseteq Buffers /\ stored \subseteq Callers \X Buffers
  /\ readers \subseteq Callers /\ writer \in Closers \cup {None}
  /\ gate \in Callers \cup {None}
  /\ closing \in [Closers -> {"idle", "lock", "draining", "release", "unlock"}]
  /\ native \in BOOLEAN /\ leased \in BOOLEAN

\* s.mu: the readers are the calls between RLock and RUnlock, the writer is the
\* closer between the announcement and Unlock, and once its Lock has returned
\* there are no readers.
Locked ==
  /\ \A c \in Callers : c \in readers <=> pc[c] \in ReadSteps
  /\ \A k \in Closers :
       /\ closing[k] \in {"draining", "release", "unlock"} <=> writer = k
       /\ closing[k] \in {"release", "unlock"} => readers = {}

\* Steps after the check of s.native in which the session is or may be used.
UsingSteps == {"gate", "queued", "gated", "prepare"} \cup NativeSteps
\* The native session is freed first, the reference on the runtime after it.
InUse ==
  /\ native => leased
  /\ \A k \in Closers : closing[k] = "release" => ~native
  /\ \A c \in Callers : pc[c] \in UsingSteps => native

\* Steps in which a call may have run options, and a callback.
OptionsSteps == NativeSteps \ {"watch"}
\* A callback lives inside the life of the options it terminates, and none
\* is left when the options are freed.  It runs for a done context only.
Watched ==
  \A c \in Callers :
    /\ options[c] # "none" => pc[c] \in OptionsSteps
    /\ watcher[c] # "none" => options[c] # "none"
    /\ pc[c] = "unoptions" => watcher[c] \in {"none", "closed"}
    /\ watcher[c] \in {"running", "fired", "closed"} => Done(c)
    /\ options[c] = "terminated" => Done(c)

\* The calls blocked on the gate are in its queue, once each.
Queued ==
  /\ queue \in Seq(Callers)
  /\ \A i \in 1 .. Len(queue) : pc[queue[i]] = "queued"
  /\ \A i, j \in 1 .. Len(queue) : queue[i] = queue[j] => i = j
  /\ \A c \in Callers : pc[c] = "queued" => \E i \in 1 .. Len(queue) : queue[i] = c

\* A session with a gate has it taken by the call between its acquisition and
\* its release; without one nobody takes it.
GateHeld ==
  \A c \in Callers :
    /\ gate = c => Gated /\ pc[c] \in GatedSteps
    /\ Gated /\ pc[c] \in GatedSteps => gate = c
    /\ pc[c] \in {"gate", "queued", "gated", "ungate"} => Gated

\* Steps in which a call has a descriptor slice.
HoldingSteps == NativeSteps \cup {"unpin", "release"}
\* Slices belong to one call or to the pool, and only a call that has a slice
\* has pointers in it.
Slices ==
  /\ \A c \in Callers : held[c] # None <=> pc[c] \in HoldingSteps
  /\ \A c, d \in Callers : held[c] = held[d] => c = d \/ held[c] = None
  /\ \A b \in pool : \A c \in Callers : held[c] # b
  /\ \A c \in Callers, b \in Buffers : <<c, b>> \in stored => held[c] = b

\* Pins and native values belong to calls in flight; a native error is
\* replaced by the context's before it can be returned.
Owned ==
  \A c \in Callers :
    /\ c \in pinned <=> pc[c] \in HoldingSteps \ {"release"}
    /\ c \in values => pc[c] \in {"settle", "outputs"} /\ ~into[c]
    /\ pc[c] = "settle" => out[c] \in {"ok", "failed", "terminated"}
    /\ pc[c] \in {"outputs", "finish", "unoptions"} => out[c] \in {"ok", "ctx", "invalid", "failed"}
    /\ out[c] = "terminated" => pc[c] = "settle" /\ Done(c)

Inv == Types /\ Locked /\ InUse /\ Watched /\ Queued /\ GateHeld /\ Slices /\ Owned

-----------------------------------------------------------------------------
(* Every step preserves each part of the invariant.                        *)

\* Types: a slice put back into the pool is a slice, not None.
LEMMA NextTypes == ASSUME Inv, [Next]_vars PROVE Types'
<1> USE SessionAssumption DEF SessionAssumption, At, Goto, Outcome, Done, callVars, poolVars, lockVars,
      closeVars, Results, Steps, ReadSteps, GatedSteps, NativeSteps, Inv, Types
<1>1. ASSUME NEW c \in Callers, RunStart(c) PROVE Types'
  <2>1. CASE Outcome(c, "ctx") /\ UNCHANGED <<pc, ctx, into>>
    BY <1>1, <2>1 DEF RunStart
  <2>2. ASSUME NEW kind \in {"background", "live"}, NEW i \in BOOLEAN,
               ctx' = [ctx EXCEPT ![c] = kind], into' = [into EXCEPT ![c] = i],
               Outcome(c, "none"), Goto(c, "rlock")
        PROVE  Types'
    BY <1>1, <2>2 DEF RunStart
  <2> QED
    BY <1>1, <2>1, <2>2 DEF RunStart
<1>2. ASSUME NEW c \in Callers, Cancel(c) PROVE Types'
  BY <1>2 DEF Cancel
<1>3. ASSUME NEW c \in Callers, RLock(c) PROVE Types'
  BY <1>3 DEF RLock, MayRead
<1>4. ASSUME NEW c \in Callers, RunOpen(c) PROVE Types'
  BY <1>4 DEF RunOpen
<1>5. ASSUME NEW c \in Callers, RunGate(c) PROVE Types'
  <2>1. readers' = readers /\ writer' = writer /\ gate' \in Callers \cup {None}
    BY <1>5 DEF RunGate
  <2>2. pc' \in [Callers -> Steps] /\ out' \in [Callers -> Results]
    BY <1>5 DEF RunGate
  <2> QED
    BY <1>5, <2>1, <2>2 DEF RunGate
<1>6. ASSUME NEW c \in Callers, RunQueued(c) PROVE Types'
  BY <1>6 DEF RunQueued
<1>7. ASSUME NEW c \in Callers, RunGated(c) PROVE Types'
  BY <1>7 DEF RunGated
<1>8. ASSUME NEW c \in Callers, RunReject(c) PROVE Types'
  BY <1>8 DEF RunReject, Leave
<1>9. ASSUME NEW c \in Callers, RunPrepare(c) PROVE Types'
  BY <1>9 DEF RunPrepare, Pinned
<1>10. ASSUME NEW c \in Callers, WatchContext(c) PROVE Types'
  <2>1. CASE options' = [options EXCEPT ![c] = "live"]
    BY <1>10, <2>1 DEF WatchContext
  <2>2. CASE Outcome(c, "failed") /\ UNCHANGED <<options, watcher>>
    BY <1>10, <2>2 DEF WatchContext
  <2> QED
    BY <1>10, <2>1, <2>2 DEF WatchContext
<1>11. ASSUME NEW c \in Callers, NativeReturn(c) PROVE Types'
  BY <1>11 DEF NativeReturn
<1>12. ASSUME NEW c \in Callers, RunSettle(c) PROVE Types'
  BY <1>12 DEF RunSettle, Settled, AfterInference
<1>13. ASSUME NEW c \in Callers, OutputsFree(c) PROVE Types'
  BY <1>13 DEF OutputsFree, AfterInference
<1>14. ASSUME NEW c \in Callers, FinishStop(c) PROVE Types'
  BY <1>14 DEF FinishStop, Joined
<1>15. ASSUME NEW c \in Callers, FinishFree(c) PROVE Types'
  BY <1>15 DEF FinishFree
<1>16. ASSUME NEW c \in Callers, RunUnpin(c) PROVE Types'
  BY <1>16 DEF RunUnpin
<1>17. ASSUME NEW c \in Callers, RunRelease(c) PROVE Types'
  <2>1. stored' \subseteq Callers \X Buffers
    BY <1>17 DEF RunRelease, Cleared
  <2>2. pc' \in [Callers -> Steps]
    BY <1>17 DEF RunRelease, Leave
  <2>3. held[c] \in Buffers
    BY <1>17 DEF RunRelease, Slices, HoldingSteps
  <2> QED
    BY <1>17, <2>1, <2>2, <2>3 DEF RunRelease
<1>18. ASSUME NEW c \in Callers, Ungate(c) PROVE Types'
  <2>1. CASE queue = <<>>
    BY <1>18, <2>1 DEF Ungate
  <2>2. CASE queue # <<>>
    <3>1. Head(queue) \in Callers
      BY <2>2 DEF Queued
    <3> QED
      BY <1>18, <2>2, <3>1 DEF Ungate
  <2> QED
    BY <2>1, <2>2
<1>19. ASSUME NEW c \in Callers, RUnlock(c) PROVE Types'
  BY <1>19 DEF RUnlock
<1>20. ASSUME NEW c \in Callers, CallbackStart(c) PROVE Types'
  BY <1>20 DEF CallbackStart
<1>21. ASSUME NEW c \in Callers, Terminate(c) PROVE Types'
  BY <1>21 DEF Terminate, SetTerminate
<1>22. ASSUME NEW c \in Callers, CallbackClose(c) PROVE Types'
  BY <1>22 DEF CallbackClose
<1>23. ASSUME NEW k \in Closers, CloseStart(k) PROVE Types'
  BY <1>23 DEF CloseStart
<1>24. ASSUME NEW k \in Closers, Announce(k) PROVE Types'
  BY <1>24 DEF Announce
<1>25. ASSUME NEW k \in Closers, CloseFree(k) PROVE Types'
  BY <1>25 DEF CloseFree, Drained
<1>26. ASSUME NEW k \in Closers, CloseRelease(k) PROVE Types'
  BY <1>26 DEF CloseRelease
<1>27. ASSUME NEW k \in Closers, CloseUnlock(k) PROVE Types'
  BY <1>27 DEF CloseUnlock
<1>28. CASE UNCHANGED vars
  BY <1>28 DEF vars
<1> QED
  BY <1>1, <1>2, <1>3, <1>4, <1>5, <1>6, <1>7, <1>8, <1>9, <1>10, <1>11, <1>12, <1>13, <1>14,
     <1>15, <1>16, <1>17, <1>18, <1>19, <1>20, <1>21, <1>22, <1>23, <1>24, <1>25, <1>26, <1>27, <1>28
     DEF Next, Run, Callback, Close

\* s.mu: Unlock admits the parked readers, Lock returns without readers.
LEMMA NextLocked == ASSUME Inv, [Next]_vars PROVE Locked'
<1> USE SessionAssumption DEF SessionAssumption, At, Goto, Outcome, Done, callVars, poolVars, lockVars,
      closeVars, Results, Steps, ReadSteps, GatedSteps, NativeSteps, Inv, Types, Locked
<1>1. ASSUME NEW c \in Callers, RunStart(c) PROVE Locked'
  BY <1>1 DEF RunStart
<1>2. ASSUME NEW c \in Callers, Cancel(c) PROVE Locked'
  BY <1>2 DEF Cancel
<1>3. ASSUME NEW c \in Callers, RLock(c) PROVE Locked'
  BY <1>3 DEF RLock, MayRead
<1>4. ASSUME NEW c \in Callers, RunOpen(c) PROVE Locked'
  BY <1>4 DEF RunOpen
<1>5. ASSUME NEW c \in Callers, RunGate(c) PROVE Locked'
  BY <1>5 DEF RunGate, GateFree
<1>6. ASSUME NEW c \in Callers, RunQueued(c) PROVE Locked'
  BY <1>6 DEF RunQueued
<1>7. ASSUME NEW c \in Callers, RunGated(c) PROVE Locked'
  BY <1>7 DEF RunGated
<1>8. ASSUME NEW c \in Callers, RunReject(c) PROVE Locked'
  BY <1>8 DEF RunReject, Leave
<1>9. ASSUME NEW c \in Callers, RunPrepare(c) PROVE Locked'
  BY <1>9 DEF RunPrepare, Pinned
<1>10. ASSUME NEW c \in Callers, WatchContext(c) PROVE Locked'
  BY <1>10 DEF WatchContext
<1>11. ASSUME NEW c \in Callers, NativeReturn(c) PROVE Locked'
  BY <1>11 DEF NativeReturn
<1>12. ASSUME NEW c \in Callers, RunSettle(c) PROVE Locked'
  BY <1>12 DEF RunSettle, Settled, AfterInference
<1>13. ASSUME NEW c \in Callers, OutputsFree(c) PROVE Locked'
  BY <1>13 DEF OutputsFree, AfterInference
<1>14. ASSUME NEW c \in Callers, FinishStop(c) PROVE Locked'
  BY <1>14 DEF FinishStop, Joined
<1>15. ASSUME NEW c \in Callers, FinishFree(c) PROVE Locked'
  BY <1>15 DEF FinishFree
<1>16. ASSUME NEW c \in Callers, RunUnpin(c) PROVE Locked'
  BY <1>16 DEF RunUnpin
<1>17. ASSUME NEW c \in Callers, RunRelease(c) PROVE Locked'
  BY <1>17 DEF RunRelease, Leave, Cleared
<1>18. ASSUME NEW c \in Callers, Ungate(c) PROVE Locked'
  <2>1. CASE queue = <<>>
    BY <1>18, <2>1 DEF Ungate
  <2>2. CASE queue # <<>>
    <3>1. Head(queue) \in Callers /\ pc[Head(queue)] = "queued"
      BY <2>2 DEF Queued
    <3> QED
      BY <1>18, <2>2, <3>1 DEF Ungate
  <2> QED
    BY <2>1, <2>2
<1>19. ASSUME NEW c \in Callers, RUnlock(c) PROVE Locked'
  BY <1>19 DEF RUnlock
<1>20. ASSUME NEW c \in Callers, CallbackStart(c) PROVE Locked'
  BY <1>20 DEF CallbackStart
<1>21. ASSUME NEW c \in Callers, Terminate(c) PROVE Locked'
  BY <1>21 DEF Terminate, SetTerminate
<1>22. ASSUME NEW c \in Callers, CallbackClose(c) PROVE Locked'
  BY <1>22 DEF CallbackClose
<1>23. ASSUME NEW k \in Closers, CloseStart(k) PROVE Locked'
  BY <1>23 DEF CloseStart
<1>24. ASSUME NEW k \in Closers, Announce(k) PROVE Locked'
  BY <1>24 DEF Announce
<1>25. ASSUME NEW k \in Closers, CloseFree(k) PROVE Locked'
  BY <1>25 DEF CloseFree, Drained
<1>26. ASSUME NEW k \in Closers, CloseRelease(k) PROVE Locked'
  BY <1>26 DEF CloseRelease
<1>27. ASSUME NEW k \in Closers, CloseUnlock(k) PROVE Locked'
  BY <1>27 DEF CloseUnlock
<1>28. CASE UNCHANGED vars
  BY <1>28 DEF vars
<1> QED
  BY <1>1, <1>2, <1>3, <1>4, <1>5, <1>6, <1>7, <1>8, <1>9, <1>10, <1>11, <1>12, <1>13, <1>14,
     <1>15, <1>16, <1>17, <1>18, <1>19, <1>20, <1>21, <1>22, <1>23, <1>24, <1>25, <1>26, <1>27, <1>28
     DEF Next, Run, Callback, Close

\* The native session goes only when no call is past its check of it.
LEMMA NextInUse == ASSUME Inv, [Next]_vars PROVE InUse'
<1> USE SessionAssumption DEF SessionAssumption, At, Goto, Outcome, Done, callVars, poolVars, lockVars,
      closeVars, Results, Steps, ReadSteps, GatedSteps, NativeSteps, Inv, Types, Locked, InUse, UsingSteps
<1>1. ASSUME NEW c \in Callers, RunStart(c) PROVE InUse'
  BY <1>1 DEF RunStart
<1>2. ASSUME NEW c \in Callers, Cancel(c) PROVE InUse'
  BY <1>2 DEF Cancel
<1>3. ASSUME NEW c \in Callers, RLock(c) PROVE InUse'
  BY <1>3 DEF RLock, MayRead
<1>4. ASSUME NEW c \in Callers, RunOpen(c) PROVE InUse'
  BY <1>4 DEF RunOpen
<1>5. ASSUME NEW c \in Callers, RunGate(c) PROVE InUse'
  BY <1>5 DEF RunGate, GateFree
<1>6. ASSUME NEW c \in Callers, RunQueued(c) PROVE InUse'
  BY <1>6 DEF RunQueued
<1>7. ASSUME NEW c \in Callers, RunGated(c) PROVE InUse'
  BY <1>7 DEF RunGated
<1>8. ASSUME NEW c \in Callers, RunReject(c) PROVE InUse'
  BY <1>8 DEF RunReject, Leave
<1>9. ASSUME NEW c \in Callers, RunPrepare(c) PROVE InUse'
  BY <1>9 DEF RunPrepare, Pinned
<1>10. ASSUME NEW c \in Callers, WatchContext(c) PROVE InUse'
  BY <1>10 DEF WatchContext
<1>11. ASSUME NEW c \in Callers, NativeReturn(c) PROVE InUse'
  BY <1>11 DEF NativeReturn
<1>12. ASSUME NEW c \in Callers, RunSettle(c) PROVE InUse'
  BY <1>12 DEF RunSettle, Settled, AfterInference
<1>13. ASSUME NEW c \in Callers, OutputsFree(c) PROVE InUse'
  BY <1>13 DEF OutputsFree, AfterInference
<1>14. ASSUME NEW c \in Callers, FinishStop(c) PROVE InUse'
  BY <1>14 DEF FinishStop, Joined
<1>15. ASSUME NEW c \in Callers, FinishFree(c) PROVE InUse'
  BY <1>15 DEF FinishFree
<1>16. ASSUME NEW c \in Callers, RunUnpin(c) PROVE InUse'
  BY <1>16 DEF RunUnpin
<1>17. ASSUME NEW c \in Callers, RunRelease(c) PROVE InUse'
  BY <1>17 DEF RunRelease, Leave, Cleared
<1>18. ASSUME NEW c \in Callers, Ungate(c) PROVE InUse'
  <2>1. CASE queue = <<>>
    BY <1>18, <2>1 DEF Ungate
  <2>2. CASE queue # <<>>
    <3>1. Head(queue) \in Callers /\ pc[Head(queue)] = "queued"
      BY <2>2 DEF Queued
    <3> QED
      BY <1>18, <2>2, <3>1 DEF Ungate
  <2> QED
    BY <2>1, <2>2
<1>19. ASSUME NEW c \in Callers, RUnlock(c) PROVE InUse'
  BY <1>19 DEF RUnlock
<1>20. ASSUME NEW c \in Callers, CallbackStart(c) PROVE InUse'
  BY <1>20 DEF CallbackStart
<1>21. ASSUME NEW c \in Callers, Terminate(c) PROVE InUse'
  BY <1>21 DEF Terminate, SetTerminate
<1>22. ASSUME NEW c \in Callers, CallbackClose(c) PROVE InUse'
  BY <1>22 DEF CallbackClose
<1>23. ASSUME NEW k \in Closers, CloseStart(k) PROVE InUse'
  BY <1>23 DEF CloseStart
<1>24. ASSUME NEW k \in Closers, Announce(k) PROVE InUse'
  BY <1>24 DEF Announce
<1>25. ASSUME NEW k \in Closers, CloseFree(k) PROVE InUse'
  BY <1>25 DEF CloseFree, Drained
<1>26. ASSUME NEW k \in Closers, CloseRelease(k) PROVE InUse'
  BY <1>26 DEF CloseRelease
<1>27. ASSUME NEW k \in Closers, CloseUnlock(k) PROVE InUse'
  BY <1>27 DEF CloseUnlock
<1>28. CASE UNCHANGED vars
  BY <1>28 DEF vars
<1> QED
  BY <1>1, <1>2, <1>3, <1>4, <1>5, <1>6, <1>7, <1>8, <1>9, <1>10, <1>11, <1>12, <1>13, <1>14,
     <1>15, <1>16, <1>17, <1>18, <1>19, <1>20, <1>21, <1>22, <1>23, <1>24, <1>25, <1>26, <1>27, <1>28
     DEF Next, Run, Callback, Close

\* finish joins the callback before it frees the options.
LEMMA NextWatched == ASSUME Inv, [Next]_vars PROVE Watched'
<1> USE SessionAssumption DEF SessionAssumption, At, Goto, Outcome, Done, callVars, poolVars, lockVars,
      closeVars, Results, Steps, ReadSteps, GatedSteps, NativeSteps, Inv, Types, Watched, OptionsSteps
<1>1. ASSUME NEW c \in Callers, RunStart(c) PROVE Watched'
  BY <1>1 DEF RunStart
<1>2. ASSUME NEW c \in Callers, Cancel(c) PROVE Watched'
  BY <1>2 DEF Cancel
<1>3. ASSUME NEW c \in Callers, RLock(c) PROVE Watched'
  BY <1>3 DEF RLock, MayRead
<1>4. ASSUME NEW c \in Callers, RunOpen(c) PROVE Watched'
  BY <1>4 DEF RunOpen
<1>5. ASSUME NEW c \in Callers, RunGate(c) PROVE Watched'
  BY <1>5 DEF RunGate, GateFree
<1>6. ASSUME NEW c \in Callers, RunQueued(c) PROVE Watched'
  BY <1>6 DEF RunQueued
<1>7. ASSUME NEW c \in Callers, RunGated(c) PROVE Watched'
  BY <1>7 DEF RunGated
<1>8. ASSUME NEW c \in Callers, RunReject(c) PROVE Watched'
  BY <1>8 DEF RunReject, Leave
<1>9. ASSUME NEW c \in Callers, RunPrepare(c) PROVE Watched'
  BY <1>9 DEF RunPrepare, Pinned
<1>10. ASSUME NEW c \in Callers, WatchContext(c) PROVE Watched'
  BY <1>10 DEF WatchContext
<1>11. ASSUME NEW c \in Callers, NativeReturn(c) PROVE Watched'
  BY <1>11 DEF NativeReturn
<1>12. ASSUME NEW c \in Callers, RunSettle(c) PROVE Watched'
  BY <1>12 DEF RunSettle, Settled, AfterInference
<1>13. ASSUME NEW c \in Callers, OutputsFree(c) PROVE Watched'
  BY <1>13 DEF OutputsFree, AfterInference
<1>14. ASSUME NEW c \in Callers, FinishStop(c) PROVE Watched'
  BY <1>14 DEF FinishStop, Joined
<1>15. ASSUME NEW c \in Callers, FinishFree(c) PROVE Watched'
  BY <1>15 DEF FinishFree
<1>16. ASSUME NEW c \in Callers, RunUnpin(c) PROVE Watched'
  BY <1>16 DEF RunUnpin
<1>17. ASSUME NEW c \in Callers, RunRelease(c) PROVE Watched'
  BY <1>17 DEF RunRelease, Leave, Cleared
<1>18. ASSUME NEW c \in Callers, Ungate(c) PROVE Watched'
  <2>1. CASE queue = <<>>
    BY <1>18, <2>1 DEF Ungate
  <2>2. CASE queue # <<>>
    <3>1. Head(queue) \in Callers /\ pc[Head(queue)] = "queued"
      BY <2>2 DEF Queued
    <3> QED
      BY <1>18, <2>2, <3>1 DEF Ungate
  <2> QED
    BY <2>1, <2>2
<1>19. ASSUME NEW c \in Callers, RUnlock(c) PROVE Watched'
  BY <1>19 DEF RUnlock
<1>20. ASSUME NEW c \in Callers, CallbackStart(c) PROVE Watched'
  BY <1>20 DEF CallbackStart
<1>21. ASSUME NEW c \in Callers, Terminate(c) PROVE Watched'
  BY <1>21 DEF Terminate, SetTerminate
<1>22. ASSUME NEW c \in Callers, CallbackClose(c) PROVE Watched'
  BY <1>22 DEF CallbackClose
<1>23. ASSUME NEW k \in Closers, CloseStart(k) PROVE Watched'
  BY <1>23 DEF CloseStart
<1>24. ASSUME NEW k \in Closers, Announce(k) PROVE Watched'
  BY <1>24 DEF Announce
<1>25. ASSUME NEW k \in Closers, CloseFree(k) PROVE Watched'
  BY <1>25 DEF CloseFree, Drained
<1>26. ASSUME NEW k \in Closers, CloseRelease(k) PROVE Watched'
  BY <1>26 DEF CloseRelease
<1>27. ASSUME NEW k \in Closers, CloseUnlock(k) PROVE Watched'
  BY <1>27 DEF CloseUnlock
<1>28. CASE UNCHANGED vars
  BY <1>28 DEF vars
<1> QED
  BY <1>1, <1>2, <1>3, <1>4, <1>5, <1>6, <1>7, <1>8, <1>9, <1>10, <1>11, <1>12, <1>13, <1>14,
     <1>15, <1>16, <1>17, <1>18, <1>19, <1>20, <1>21, <1>22, <1>23, <1>24, <1>25, <1>26, <1>27, <1>28
     DEF Next, Run, Callback, Close

\* The queue only matters to the calls blocked on it.
LEMMA QueueSame ==
  ASSUME Queued, queue' = queue, \A d \in Callers : pc[d] = "queued" <=> pc'[d] = "queued"
  PROVE  Queued'
  BY DEF Queued

\* The queue of the gate.
LEMMA NextQueued == ASSUME Inv, [Next]_vars PROVE Queued'
<1> USE SessionAssumption DEF SessionAssumption, At, Goto, Outcome, Done, callVars, poolVars, lockVars,
      closeVars, Results, Steps, ReadSteps, GatedSteps, NativeSteps, Inv, Types
<1>1. ASSUME NEW c \in Callers, RunStart(c) PROVE Queued'
  BY <1>1, QueueSame DEF RunStart
<1>2. ASSUME NEW c \in Callers, Cancel(c) PROVE Queued'
  BY <1>2, QueueSame DEF Cancel
<1>3. ASSUME NEW c \in Callers, RLock(c) PROVE Queued'
  BY <1>3, QueueSame DEF RLock, MayRead
<1>4. ASSUME NEW c \in Callers, RunOpen(c) PROVE Queued'
  BY <1>4, QueueSame DEF RunOpen
<1>5. ASSUME NEW c \in Callers, RunGate(c) PROVE Queued'
  <2>1. CASE queue' = queue
    <3>1. \A d \in Callers : pc[d] = "queued" <=> pc'[d] = "queued"
      BY <1>5, <2>1 DEF RunGate, GateFree
    <3> QED
      BY <2>1, <3>1, QueueSame
  <2>2. CASE queue' = Append(queue, c) /\ Goto(c, "queued")
    <3> USE DEF Queued
    <3>1. \A i \in 1 .. Len(queue) : queue[i] # c
      BY <1>5 DEF RunGate
    <3>2. /\ queue' \in Seq(Callers) /\ Len(queue') = Len(queue) + 1
          /\ \A i \in 1 .. Len(queue') : queue'[i] = IF i = Len(queue) + 1 THEN c ELSE queue[i]
      BY <2>2
    <3> QED
      BY <2>2, <3>1, <3>2
  <2> QED
    BY <1>5, <2>1, <2>2 DEF RunGate
<1>6. ASSUME NEW c \in Callers, RunQueued(c) PROVE Queued'
  <2> USE DEF Queued
  <2> DEFINE p == CHOOSE i \in DOMAIN queue : queue[i] = c
             n == Len(queue)
  <2>1. p \in 1 .. n /\ queue[p] = c /\ n \in Nat
    BY <1>6 DEF RunQueued
  <2>2. queue' = [i \in 1 .. n - 1 |-> queue[IF i < p THEN i ELSE i + 1]]
    BY <1>6 DEF RunQueued, Without
  <2> HIDE DEF p
  <2>3. queue' \in Seq(Callers) /\ Len(queue') = n - 1
    BY <2>1, <2>2
  <2>4. \A i \in 1 .. n - 1 :
          /\ i < p => queue'[i] = queue[i]
          /\ i >= p => queue'[i] = queue[i + 1]
    BY <2>1, <2>2
  <2>5. pc' = [pc EXCEPT ![c] = "runlock"]
    BY <1>6 DEF RunQueued
  <2> DEFINE m(i) == IF i < p THEN i ELSE i + 1
  <2>6. \A i \in 1 .. n - 1 : m(i) \in (1 .. n) \ {p} /\ queue'[i] = queue[m(i)]
    BY <2>1, <2>4
  <2>7. \A i \in 1 .. n - 1 : queue'[i] # c /\ pc'[queue'[i]] = "queued"
    <3> SUFFICES ASSUME NEW i \in 1 .. n - 1
                 PROVE  queue'[i] # c /\ pc'[queue'[i]] = "queued"
      OBVIOUS
    <3> HIDE DEF m
    <3>1. queue[m(i)] \in Callers /\ queue[m(i)] # c /\ pc[queue[m(i)]] = "queued"
      BY <2>1, <2>6
    <3> QED
      BY <2>5, <2>6, <3>1
  <2>8. \A i, j \in 1 .. n - 1 : queue'[i] = queue'[j] => i = j
    <3> SUFFICES ASSUME NEW i \in 1 .. n - 1, NEW j \in 1 .. n - 1, queue'[i] = queue'[j]
                 PROVE  i = j
      OBVIOUS
    <3>1. m(i) = m(j)
      <4> HIDE DEF m
      <4>1. /\ m(i) \in 1 .. n /\ m(j) \in 1 .. n
            /\ queue[m(i)] = queue[m(j)]
        BY <2>6
      <4> QED
        BY <4>1
    <3> QED
      BY <2>1, <3>1
  <2>9. ASSUME NEW d \in Callers, pc'[d] = "queued" PROVE \E i \in 1 .. n - 1 : queue'[i] = d
    <3>1. d # c /\ pc[d] = "queued"
      BY <2>5, <2>9
    <3>2. PICK i \in 1 .. n : queue[i] = d
      BY <3>1
    <3>3. i # p
      BY <2>1, <3>1, <3>2
    <3>4. CASE i < p
      BY <2>1, <2>4, <3>2, <3>4
    <3>5. CASE i > p
      <4>1. i - 1 \in 1 .. n - 1 /\ i - 1 >= p /\ (i - 1) + 1 = i
        BY <2>1, <3>5
      <4> QED
        BY <2>4, <3>2, <4>1
    <3> QED
      BY <2>1, <3>3, <3>4, <3>5
  <2> QED
    BY <2>3, <2>7, <2>8, <2>9
<1>7. ASSUME NEW c \in Callers, RunGated(c) PROVE Queued'
  BY <1>7, QueueSame DEF RunGated
<1>8. ASSUME NEW c \in Callers, RunReject(c) PROVE Queued'
  BY <1>8, QueueSame DEF RunReject, Leave
<1>9. ASSUME NEW c \in Callers, RunPrepare(c) PROVE Queued'
  BY <1>9, QueueSame DEF RunPrepare
<1>10. ASSUME NEW c \in Callers, WatchContext(c) PROVE Queued'
  BY <1>10, QueueSame DEF WatchContext
<1>11. ASSUME NEW c \in Callers, NativeReturn(c) PROVE Queued'
  BY <1>11, QueueSame DEF NativeReturn
<1>12. ASSUME NEW c \in Callers, RunSettle(c) PROVE Queued'
  BY <1>12, QueueSame DEF RunSettle, Settled, AfterInference
<1>13. ASSUME NEW c \in Callers, OutputsFree(c) PROVE Queued'
  BY <1>13, QueueSame DEF OutputsFree, AfterInference
<1>14. ASSUME NEW c \in Callers, FinishStop(c) PROVE Queued'
  BY <1>14, QueueSame DEF FinishStop, Joined
<1>15. ASSUME NEW c \in Callers, FinishFree(c) PROVE Queued'
  BY <1>15, QueueSame DEF FinishFree
<1>16. ASSUME NEW c \in Callers, RunUnpin(c) PROVE Queued'
  BY <1>16, QueueSame DEF RunUnpin
<1>17. ASSUME NEW c \in Callers, RunRelease(c) PROVE Queued'
  BY <1>17, QueueSame DEF RunRelease, Leave, Cleared
<1>18. ASSUME NEW c \in Callers, Ungate(c) PROVE Queued'
  <2>1. CASE queue = <<>>
    BY <1>18, <2>1, QueueSame DEF Ungate
  <2>2. CASE queue # <<>>
    <3> USE DEF Queued
    <3>1. /\ Head(queue) = queue[1] /\ 1 \in 1 .. Len(queue)
          /\ Tail(queue) \in Seq(Callers) /\ Len(Tail(queue)) = Len(queue) - 1
          /\ \A i \in 1 .. Len(queue) - 1 : Tail(queue)[i] = queue[i + 1]
      BY <2>2
    <3>2. queue' = Tail(queue) /\ pc' = [pc EXCEPT ![c] = "runlock", ![queue[1]] = "gated"]
      BY <1>18, <2>2, <3>1 DEF Ungate
    <3>3. \A i \in 1 .. Len(queue') : i + 1 \in 1 .. Len(queue) /\ queue'[i] = queue[i + 1] /\ queue'[i] # queue[1]
      BY <3>1, <3>2
    <3>4. pc[c] = "ungate"
      BY <1>18 DEF Ungate
    <3>5. \A i \in 1 .. Len(queue') : pc'[queue'[i]] = "queued"
      BY <3>2, <3>3, <3>4
    <3>6. \A i, j \in 1 .. Len(queue') : queue'[i] = queue'[j] => i = j
      BY <3>1, <3>2, <3>3
    <3>7. ASSUME NEW d \in Callers, pc'[d] = "queued"
          PROVE  \E i \in 1 .. Len(queue') : queue'[i] = d
      <4>1. pc[d] = "queued" /\ d # queue[1]
        BY <3>1, <3>2, <3>4, <3>7
      <4>2. PICK i \in 1 .. Len(queue) : queue[i] = d
        BY <4>1
      <4>3. i - 1 \in 1 .. Len(queue') /\ (i - 1) + 1 = i
        BY <3>1, <3>2, <4>1, <4>2
      <4> QED
        BY <3>3, <4>2, <4>3
    <3> QED
      BY <3>1, <3>2, <3>5, <3>6, <3>7
  <2> QED
    BY <2>1, <2>2
<1>19. ASSUME NEW c \in Callers, RUnlock(c) PROVE Queued'
  BY <1>19, QueueSame DEF RUnlock
<1>20. ASSUME NEW c \in Callers, CallbackStart(c) PROVE Queued'
  BY <1>20, QueueSame DEF CallbackStart
<1>21. ASSUME NEW c \in Callers, Terminate(c) PROVE Queued'
  BY <1>21, QueueSame DEF Terminate, SetTerminate
<1>22. ASSUME NEW c \in Callers, CallbackClose(c) PROVE Queued'
  BY <1>22, QueueSame DEF CallbackClose
<1>23. ASSUME NEW k \in Closers, CloseStart(k) PROVE Queued'
  BY <1>23, QueueSame DEF CloseStart
<1>24. ASSUME NEW k \in Closers, Announce(k) PROVE Queued'
  BY <1>24, QueueSame DEF Announce
<1>25. ASSUME NEW k \in Closers, CloseFree(k) PROVE Queued'
  BY <1>25, QueueSame DEF CloseFree, Drained
<1>26. ASSUME NEW k \in Closers, CloseRelease(k) PROVE Queued'
  BY <1>26, QueueSame DEF CloseRelease
<1>27. ASSUME NEW k \in Closers, CloseUnlock(k) PROVE Queued'
  BY <1>27, QueueSame DEF CloseUnlock
<1>28. CASE UNCHANGED vars
  BY <1>28, QueueSame DEF vars
<1> QED
  BY <1>1, <1>2, <1>3, <1>4, <1>5, <1>6, <1>7, <1>8, <1>9, <1>10, <1>11, <1>12, <1>13, <1>14,
     <1>15, <1>16, <1>17, <1>18, <1>19, <1>20, <1>21, <1>22, <1>23, <1>24, <1>25, <1>26, <1>27, <1>28
     DEF Next, Run, Callback, Close

\* The gate changes hands only through its holder.
LEMMA NextGateHeld == ASSUME Inv, [Next]_vars PROVE GateHeld'
<1> USE SessionAssumption DEF SessionAssumption, At, Goto, Outcome, Done, callVars, poolVars, lockVars,
      closeVars, Results, Steps, ReadSteps, GatedSteps, NativeSteps, Inv, Types, GateHeld
<1>1. ASSUME NEW c \in Callers, RunStart(c) PROVE GateHeld'
  BY <1>1 DEF RunStart
<1>2. ASSUME NEW c \in Callers, Cancel(c) PROVE GateHeld'
  BY <1>2 DEF Cancel
<1>3. ASSUME NEW c \in Callers, RLock(c) PROVE GateHeld'
  BY <1>3 DEF RLock, MayRead
<1>4. ASSUME NEW c \in Callers, RunOpen(c) PROVE GateHeld'
  BY <1>4 DEF RunOpen
<1>5. ASSUME NEW c \in Callers, RunGate(c) PROVE GateHeld'
  BY <1>5 DEF RunGate, GateFree
<1>6. ASSUME NEW c \in Callers, RunQueued(c) PROVE GateHeld'
  BY <1>6 DEF RunQueued
<1>7. ASSUME NEW c \in Callers, RunGated(c) PROVE GateHeld'
  BY <1>7 DEF RunGated
<1>8. ASSUME NEW c \in Callers, RunReject(c) PROVE GateHeld'
  BY <1>8 DEF RunReject, Leave
<1>9. ASSUME NEW c \in Callers, RunPrepare(c) PROVE GateHeld'
  BY <1>9 DEF RunPrepare, Pinned
<1>10. ASSUME NEW c \in Callers, WatchContext(c) PROVE GateHeld'
  BY <1>10 DEF WatchContext
<1>11. ASSUME NEW c \in Callers, NativeReturn(c) PROVE GateHeld'
  BY <1>11 DEF NativeReturn
<1>12. ASSUME NEW c \in Callers, RunSettle(c) PROVE GateHeld'
  BY <1>12 DEF RunSettle, Settled, AfterInference
<1>13. ASSUME NEW c \in Callers, OutputsFree(c) PROVE GateHeld'
  BY <1>13 DEF OutputsFree, AfterInference
<1>14. ASSUME NEW c \in Callers, FinishStop(c) PROVE GateHeld'
  BY <1>14 DEF FinishStop, Joined
<1>15. ASSUME NEW c \in Callers, FinishFree(c) PROVE GateHeld'
  BY <1>15 DEF FinishFree
<1>16. ASSUME NEW c \in Callers, RunUnpin(c) PROVE GateHeld'
  BY <1>16 DEF RunUnpin
<1>17. ASSUME NEW c \in Callers, RunRelease(c) PROVE GateHeld'
  BY <1>17 DEF RunRelease, Leave, Cleared
<1>18. ASSUME NEW c \in Callers, Ungate(c) PROVE GateHeld'
  <2>1. CASE queue = <<>>
    BY <1>18, <2>1 DEF Ungate
  <2>2. CASE queue # <<>>
    <3>1. Head(queue) \in Callers /\ pc[Head(queue)] = "queued"
      BY <2>2 DEF Queued
    <3> QED
      BY <1>18, <2>2, <3>1 DEF Ungate
  <2> QED
    BY <2>1, <2>2
<1>19. ASSUME NEW c \in Callers, RUnlock(c) PROVE GateHeld'
  BY <1>19 DEF RUnlock
<1>20. ASSUME NEW c \in Callers, CallbackStart(c) PROVE GateHeld'
  BY <1>20 DEF CallbackStart
<1>21. ASSUME NEW c \in Callers, Terminate(c) PROVE GateHeld'
  BY <1>21 DEF Terminate, SetTerminate
<1>22. ASSUME NEW c \in Callers, CallbackClose(c) PROVE GateHeld'
  BY <1>22 DEF CallbackClose
<1>23. ASSUME NEW k \in Closers, CloseStart(k) PROVE GateHeld'
  BY <1>23 DEF CloseStart
<1>24. ASSUME NEW k \in Closers, Announce(k) PROVE GateHeld'
  BY <1>24 DEF Announce
<1>25. ASSUME NEW k \in Closers, CloseFree(k) PROVE GateHeld'
  BY <1>25 DEF CloseFree, Drained
<1>26. ASSUME NEW k \in Closers, CloseRelease(k) PROVE GateHeld'
  BY <1>26 DEF CloseRelease
<1>27. ASSUME NEW k \in Closers, CloseUnlock(k) PROVE GateHeld'
  BY <1>27 DEF CloseUnlock
<1>28. CASE UNCHANGED vars
  BY <1>28 DEF vars
<1> QED
  BY <1>1, <1>2, <1>3, <1>4, <1>5, <1>6, <1>7, <1>8, <1>9, <1>10, <1>11, <1>12, <1>13, <1>14,
     <1>15, <1>16, <1>17, <1>18, <1>19, <1>20, <1>21, <1>22, <1>23, <1>24, <1>25, <1>26, <1>27, <1>28
     DEF Next, Run, Callback, Close

\* Slices change hands only through the pool.
LEMMA NextSlices == ASSUME Inv, [Next]_vars PROVE Slices'
<1> USE SessionAssumption DEF SessionAssumption, At, Goto, Outcome, Done, callVars, poolVars, lockVars,
      closeVars, Results, Steps, ReadSteps, GatedSteps, NativeSteps, Inv, Types, Slices, HoldingSteps
<1>1. ASSUME NEW c \in Callers, RunStart(c) PROVE Slices'
  BY <1>1 DEF RunStart
<1>2. ASSUME NEW c \in Callers, Cancel(c) PROVE Slices'
  BY <1>2 DEF Cancel
<1>3. ASSUME NEW c \in Callers, RLock(c) PROVE Slices'
  BY <1>3 DEF RLock, MayRead
<1>4. ASSUME NEW c \in Callers, RunOpen(c) PROVE Slices'
  BY <1>4 DEF RunOpen
<1>5. ASSUME NEW c \in Callers, RunGate(c) PROVE Slices'
  <2>1. \A d \in Callers : pc[d] \in HoldingSteps <=> pc'[d] \in HoldingSteps
    BY <1>5 DEF RunGate
  <2>2. UNCHANGED <<held, pool, stored>>
    BY <1>5 DEF RunGate
  <2> QED
    BY <2>1, <2>2
<1>6. ASSUME NEW c \in Callers, RunQueued(c) PROVE Slices'
  BY <1>6 DEF RunQueued
<1>7. ASSUME NEW c \in Callers, RunGated(c) PROVE Slices'
  BY <1>7 DEF RunGated
<1>8. ASSUME NEW c \in Callers, RunReject(c) PROVE Slices'
  BY <1>8 DEF RunReject, Leave
<1>9. ASSUME NEW c \in Callers, RunPrepare(c) PROVE Slices'
  BY <1>9 DEF RunPrepare, Pinned
<1>10. ASSUME NEW c \in Callers, WatchContext(c) PROVE Slices'
  BY <1>10 DEF WatchContext
<1>11. ASSUME NEW c \in Callers, NativeReturn(c) PROVE Slices'
  BY <1>11 DEF NativeReturn
<1>12. ASSUME NEW c \in Callers, RunSettle(c) PROVE Slices'
  BY <1>12 DEF RunSettle, Settled, AfterInference
<1>13. ASSUME NEW c \in Callers, OutputsFree(c) PROVE Slices'
  BY <1>13 DEF OutputsFree, AfterInference
<1>14. ASSUME NEW c \in Callers, FinishStop(c) PROVE Slices'
  BY <1>14 DEF FinishStop, Joined
<1>15. ASSUME NEW c \in Callers, FinishFree(c) PROVE Slices'
  BY <1>15 DEF FinishFree
<1>16. ASSUME NEW c \in Callers, RunUnpin(c) PROVE Slices'
  BY <1>16 DEF RunUnpin
<1>17. ASSUME NEW c \in Callers, RunRelease(c) PROVE Slices'
  BY <1>17 DEF RunRelease, Leave, Cleared
<1>18. ASSUME NEW c \in Callers, Ungate(c) PROVE Slices'
  <2>1. \A d \in Callers : pc[d] \in HoldingSteps <=> pc'[d] \in HoldingSteps
    <3>1. CASE queue = <<>>
      BY <1>18, <3>1 DEF Ungate
    <3>2. CASE queue # <<>>
      <4>1. Head(queue) \in Callers /\ pc[Head(queue)] = "queued"
        BY <3>2 DEF Queued
      <4> QED
        BY <1>18, <3>2, <4>1 DEF Ungate
    <3> QED
      BY <3>1, <3>2
  <2>2. UNCHANGED <<held, pool, stored>>
    BY <1>18 DEF Ungate
  <2> QED
    BY <2>1, <2>2
<1>19. ASSUME NEW c \in Callers, RUnlock(c) PROVE Slices'
  BY <1>19 DEF RUnlock
<1>20. ASSUME NEW c \in Callers, CallbackStart(c) PROVE Slices'
  BY <1>20 DEF CallbackStart
<1>21. ASSUME NEW c \in Callers, Terminate(c) PROVE Slices'
  BY <1>21 DEF Terminate, SetTerminate
<1>22. ASSUME NEW c \in Callers, CallbackClose(c) PROVE Slices'
  BY <1>22 DEF CallbackClose
<1>23. ASSUME NEW k \in Closers, CloseStart(k) PROVE Slices'
  BY <1>23 DEF CloseStart
<1>24. ASSUME NEW k \in Closers, Announce(k) PROVE Slices'
  BY <1>24 DEF Announce
<1>25. ASSUME NEW k \in Closers, CloseFree(k) PROVE Slices'
  BY <1>25 DEF CloseFree, Drained
<1>26. ASSUME NEW k \in Closers, CloseRelease(k) PROVE Slices'
  BY <1>26 DEF CloseRelease
<1>27. ASSUME NEW k \in Closers, CloseUnlock(k) PROVE Slices'
  BY <1>27 DEF CloseUnlock
<1>28. CASE UNCHANGED vars
  BY <1>28 DEF vars
<1> QED
  BY <1>1, <1>2, <1>3, <1>4, <1>5, <1>6, <1>7, <1>8, <1>9, <1>10, <1>11, <1>12, <1>13, <1>14,
     <1>15, <1>16, <1>17, <1>18, <1>19, <1>20, <1>21, <1>22, <1>23, <1>24, <1>25, <1>26, <1>27, <1>28
     DEF Next, Run, Callback, Close

\* What a call owns it gives back on every way out.
LEMMA NextOwned == ASSUME Inv, [Next]_vars PROVE Owned'
<1> USE SessionAssumption DEF SessionAssumption, At, Goto, Outcome, Done, callVars, poolVars, lockVars,
      closeVars, Results, Steps, ReadSteps, GatedSteps, NativeSteps, Inv, Types, Owned, Watched, HoldingSteps
<1>1. ASSUME NEW c \in Callers, RunStart(c) PROVE Owned'
  BY <1>1 DEF RunStart
<1>2. ASSUME NEW c \in Callers, Cancel(c) PROVE Owned'
  BY <1>2 DEF Cancel
<1>3. ASSUME NEW c \in Callers, RLock(c) PROVE Owned'
  BY <1>3 DEF RLock, MayRead
<1>4. ASSUME NEW c \in Callers, RunOpen(c) PROVE Owned'
  BY <1>4 DEF RunOpen
<1>5. ASSUME NEW c \in Callers, RunGate(c) PROVE Owned'
  BY <1>5 DEF RunGate, GateFree
<1>6. ASSUME NEW c \in Callers, RunQueued(c) PROVE Owned'
  BY <1>6 DEF RunQueued
<1>7. ASSUME NEW c \in Callers, RunGated(c) PROVE Owned'
  BY <1>7 DEF RunGated
<1>8. ASSUME NEW c \in Callers, RunReject(c) PROVE Owned'
  BY <1>8 DEF RunReject, Leave
<1>9. ASSUME NEW c \in Callers, RunPrepare(c) PROVE Owned'
  BY <1>9 DEF RunPrepare, Pinned
<1>10. ASSUME NEW c \in Callers, WatchContext(c) PROVE Owned'
  BY <1>10 DEF WatchContext
<1>11. ASSUME NEW c \in Callers, NativeReturn(c) PROVE Owned'
  BY <1>11 DEF NativeReturn
<1>12. ASSUME NEW c \in Callers, RunSettle(c) PROVE Owned'
  BY <1>12 DEF RunSettle, Settled, AfterInference
<1>13. ASSUME NEW c \in Callers, OutputsFree(c) PROVE Owned'
  BY <1>13 DEF OutputsFree, AfterInference
<1>14. ASSUME NEW c \in Callers, FinishStop(c) PROVE Owned'
  BY <1>14 DEF FinishStop, Joined
<1>15. ASSUME NEW c \in Callers, FinishFree(c) PROVE Owned'
  BY <1>15 DEF FinishFree
<1>16. ASSUME NEW c \in Callers, RunUnpin(c) PROVE Owned'
  BY <1>16 DEF RunUnpin
<1>17. ASSUME NEW c \in Callers, RunRelease(c) PROVE Owned'
  BY <1>17 DEF RunRelease, Leave, Cleared
<1>18. ASSUME NEW c \in Callers, Ungate(c) PROVE Owned'
  <2>1. CASE queue = <<>>
    BY <1>18, <2>1 DEF Ungate
  <2>2. CASE queue # <<>>
    <3>1. Head(queue) \in Callers /\ pc[Head(queue)] = "queued"
      BY <2>2 DEF Queued
    <3> QED
      BY <1>18, <2>2, <3>1 DEF Ungate
  <2> QED
    BY <2>1, <2>2
<1>19. ASSUME NEW c \in Callers, RUnlock(c) PROVE Owned'
  BY <1>19 DEF RUnlock
<1>20. ASSUME NEW c \in Callers, CallbackStart(c) PROVE Owned'
  BY <1>20 DEF CallbackStart
<1>21. ASSUME NEW c \in Callers, Terminate(c) PROVE Owned'
  BY <1>21 DEF Terminate, SetTerminate
<1>22. ASSUME NEW c \in Callers, CallbackClose(c) PROVE Owned'
  BY <1>22 DEF CallbackClose
<1>23. ASSUME NEW k \in Closers, CloseStart(k) PROVE Owned'
  BY <1>23 DEF CloseStart
<1>24. ASSUME NEW k \in Closers, Announce(k) PROVE Owned'
  BY <1>24 DEF Announce
<1>25. ASSUME NEW k \in Closers, CloseFree(k) PROVE Owned'
  BY <1>25 DEF CloseFree, Drained
<1>26. ASSUME NEW k \in Closers, CloseRelease(k) PROVE Owned'
  BY <1>26 DEF CloseRelease
<1>27. ASSUME NEW k \in Closers, CloseUnlock(k) PROVE Owned'
  BY <1>27 DEF CloseUnlock
<1>28. CASE UNCHANGED vars
  BY <1>28 DEF vars
<1> QED
  BY <1>1, <1>2, <1>3, <1>4, <1>5, <1>6, <1>7, <1>8, <1>9, <1>10, <1>11, <1>12, <1>13, <1>14,
     <1>15, <1>16, <1>17, <1>18, <1>19, <1>20, <1>21, <1>22, <1>23, <1>24, <1>25, <1>26, <1>27, <1>28
     DEF Next, Run, Callback, Close

-----------------------------------------------------------------------------
(* The theorems.                                                           *)

\* The invariant holds initially.
LEMMA InitInv == Init => Inv
<1> SUFFICES ASSUME Init PROVE Inv
  OBVIOUS
<1> USE SessionAssumption DEF SessionAssumption, Init, Steps, ReadSteps, GatedSteps, NativeSteps, Results
<1>1. Types
  <2>1. into \in [Callers -> BOOLEAN] /\ native \in BOOLEAN /\ leased \in BOOLEAN
    OBVIOUS
  <2>2. /\ pc \in [Callers -> Steps]
        /\ ctx \in [Callers -> {"background", "live", "done"}]
        /\ out \in [Callers -> Results]
    OBVIOUS
  <2>3. /\ watcher \in [Callers -> {"none", "armed", "running", "fired", "closed"}]
        /\ options \in [Callers -> {"none", "live", "terminated"}]
        /\ held \in [Callers -> Buffers \cup {None}]
    OBVIOUS
  <2>4. /\ values \subseteq Callers /\ pinned \subseteq Callers
        /\ pool \subseteq Buffers /\ stored \subseteq Callers \X Buffers
        /\ readers \subseteq Callers /\ writer \in Closers \cup {None}
        /\ gate \in Callers \cup {None}
    OBVIOUS
  <2>5. closing \in [Closers -> {"idle", "lock", "draining", "release", "unlock"}]
    OBVIOUS
  <2> QED
    BY <2>1, <2>2, <2>3, <2>4, <2>5 DEF Types
<1>2. Locked
  BY DEF Locked
<1>3. InUse
  BY DEF InUse, UsingSteps
<1>4. Watched
  BY DEF Watched
<1>5. Queued
  BY DEF Queued
<1>6. GateHeld
  BY DEF GateHeld
<1>7. Slices
  BY DEF Slices, HoldingSteps
<1>8. Owned
  BY DEF Owned, HoldingSteps
<1> QED
  BY <1>1, <1>2, <1>3, <1>4, <1>5, <1>6, <1>7, <1>8 DEF Inv

\* The invariant is inductive.
LEMMA NextInv == Inv /\ [Next]_vars => Inv'
  BY NextTypes, NextLocked, NextInUse, NextWatched, NextQueued, NextGateHeld, NextSlices, NextOwned
  DEF Inv

\* It holds in every reachable state.
THEOREM Invariance == Spec => []Inv
  BY InitInv, NextInv, PTL DEF Spec

\* Every variable keeps its type.
THEOREM TypeCorrect == Spec => []TypeOK
<1>1. Inv => TypeOK
  BY DEF Inv, Types, Queued, TypeOK
<1> QED
  BY <1>1, Invariance, PTL

\* Close frees the session and gives up the runtime only when no call and no
\* callback uses them, however many callers, callbacks and closers there are.
THEOREM FreedAfterUse == Spec => []NoUseAfterFree
<1>1. Inv => NoUseAfterFree
  BY DEF Inv, Types, InUse, Watched, UsingSteps, OptionsSteps, NativeSteps, NoUseAfterFree
<1> QED
  BY <1>1, Invariance, PTL

\* A callback never terminates run options that finish has freed.
THEOREM CallbackJoined == Spec => []TerminateLive
<1>1. Inv => TerminateLive
  BY DEF Inv, Watched, TerminateLive
<1> QED
  BY <1>1, Invariance, PTL

\* A session with explicit providers runs one inference at a time.
THEOREM Serialized == Spec => []RunsSerialized
<1>1. Inv => RunsSerialized
  BY DEF Inv, GateHeld, GatedSteps, RunsSerialized
<1> QED
  BY <1>1, Invariance, PTL

\* A descriptor slice has one user, and a pooled one is clear.
THEOREM PrivateDescriptors == Spec => []DescriptorsPrivate
<1>1. Inv => DescriptorsPrivate
  BY SessionAssumption DEF SessionAssumption, Inv, Types, Slices, DescriptorsPrivate
<1> QED
  BY <1>1, Invariance, PTL

\* Native code only finds pointers to the tensors its own call has pinned.
THEOREM OwnPointers == Spec => []PointersPinned
<1>1. Inv => PointersPinned
  <2> SUFFICES ASSUME Inv, NEW c \in Callers, pc[c] \in {"native", "outputs"},
                      NEW s \in stored, s[2] = held[c]
               PROVE  s[1] = c /\ c \in pinned
    BY DEF PointersPinned
  <2>1. c \in pinned /\ held[c] # None
    BY DEF Inv, Owned, Slices, HoldingSteps, NativeSteps
  <2>2. s[1] \in Callers /\ s[2] \in Buffers /\ s = <<s[1], s[2]>>
    BY DEF Inv, Types
  <2>3. held[s[1]] = held[c]
    BY <2>2 DEF Inv, Slices
  <2> QED
    BY <2>1, <2>2, <2>3 DEF Inv, Slices
<1> QED
  BY <1>1, Invariance, PTL

\* Whichever way it ended, a call that returned holds nothing.
THEOREM CleanReturns == Spec => []ReturnsClean
<1>1. Inv => ReturnsClean
  <2> SUFFICES ASSUME Inv, NEW c \in Callers, At(c, "idle")
               PROVE  /\ c \notin readers \cup values \cup pinned
                      /\ held[c] = None /\ options[c] = "none" /\ watcher[c] = "none"
                      /\ gate # c /\ \A i \in DOMAIN queue : queue[i] # c
    BY DEF ReturnsClean
  <2>1. c \notin readers \cup values \cup pinned
    BY DEF Inv, At, Locked, Owned, HoldingSteps, ReadSteps, GatedSteps, NativeSteps
  <2>2. held[c] = None /\ options[c] = "none" /\ watcher[c] = "none" /\ gate # c
    BY DEF Inv, At, Slices, Watched, GateHeld, HoldingSteps, OptionsSteps, GatedSteps, NativeSteps
  <2>3. \A i \in DOMAIN queue : queue[i] # c
    BY DEF Inv, At, Queued
  <2> QED
    BY <2>1, <2>2, <2>3
<1> QED
  BY <1>1, Invariance, PTL

\* A canceled call returns its context's error, not the termination's.
THEOREM CancellationWins == Spec => []CancellationReported
<1>1. Inv => CancellationReported
  BY DEF Inv, Owned, At, CancellationReported
<1> QED
  BY <1>1, Invariance, PTL

-----------------------------------------------------------------------------
(* Liveness.  A call advances by the fairness of its own steps and of its  *)
(* callback; what may hold it up is what Runnable and Pending say.         *)

\* Whoever cancels a call in the native library finds a callback to stop it:
\* only a context that cannot be done goes without one.
Listening ==
  \A c \in Callers :
    /\ pc[c] \in {"native", "settle", "outputs", "finish"} /\ options[c] # "none" => watcher[c] # "none"
    /\ pc[c] = "watch" => ctx[c] # "background"
    /\ pc[c] = "native" /\ ctx[c] # "background" => options[c] # "none"
    /\ pc[c] = "finish" => options[c] # "none"

LEMMA NextListening == ASSUME Inv, Listening, [Next]_vars PROVE Listening'
<1> USE SessionAssumption DEF SessionAssumption, At, Goto, Outcome, Done, callVars, poolVars, lockVars,
      closeVars, Results, Steps, ReadSteps, GatedSteps, NativeSteps, Inv, Types, Watched,
      OptionsSteps, Listening
<1>1. ASSUME NEW c \in Callers, RunStart(c) PROVE Listening'
  BY <1>1 DEF RunStart
<1>2. ASSUME NEW c \in Callers, Cancel(c) PROVE Listening'
  BY <1>2 DEF Cancel
<1>3. ASSUME NEW c \in Callers, RLock(c) PROVE Listening'
  BY <1>3 DEF RLock, MayRead
<1>4. ASSUME NEW c \in Callers, RunOpen(c) PROVE Listening'
  BY <1>4 DEF RunOpen
<1>5. ASSUME NEW c \in Callers, RunGate(c) PROVE Listening'
  BY <1>5 DEF RunGate, GateFree
<1>6. ASSUME NEW c \in Callers, RunQueued(c) PROVE Listening'
  BY <1>6 DEF RunQueued
<1>7. ASSUME NEW c \in Callers, RunGated(c) PROVE Listening'
  BY <1>7 DEF RunGated
<1>8. ASSUME NEW c \in Callers, RunReject(c) PROVE Listening'
  BY <1>8 DEF RunReject, Leave
<1>9. ASSUME NEW c \in Callers, RunPrepare(c) PROVE Listening'
  BY <1>9 DEF RunPrepare, Pinned
<1>10. ASSUME NEW c \in Callers, WatchContext(c) PROVE Listening'
  BY <1>10 DEF WatchContext
<1>11. ASSUME NEW c \in Callers, NativeReturn(c) PROVE Listening'
  BY <1>11 DEF NativeReturn
<1>12. ASSUME NEW c \in Callers, RunSettle(c) PROVE Listening'
  BY <1>12 DEF RunSettle, Settled, AfterInference
<1>13. ASSUME NEW c \in Callers, OutputsFree(c) PROVE Listening'
  BY <1>13 DEF OutputsFree, AfterInference
<1>14. ASSUME NEW c \in Callers, FinishStop(c) PROVE Listening'
  BY <1>14 DEF FinishStop, Joined
<1>15. ASSUME NEW c \in Callers, FinishFree(c) PROVE Listening'
  BY <1>15 DEF FinishFree
<1>16. ASSUME NEW c \in Callers, RunUnpin(c) PROVE Listening'
  BY <1>16 DEF RunUnpin
<1>17. ASSUME NEW c \in Callers, RunRelease(c) PROVE Listening'
  BY <1>17 DEF RunRelease, Leave, Cleared
<1>18. ASSUME NEW c \in Callers, Ungate(c) PROVE Listening'
  <2>1. CASE queue = <<>>
    BY <1>18, <2>1 DEF Ungate
  <2>2. CASE queue # <<>>
    <3>1. Head(queue) \in Callers /\ pc[Head(queue)] = "queued"
      BY <2>2 DEF Queued
    <3> QED
      BY <1>18, <2>2, <3>1 DEF Ungate
  <2> QED
    BY <2>1, <2>2
<1>19. ASSUME NEW c \in Callers, RUnlock(c) PROVE Listening'
  BY <1>19 DEF RUnlock
<1>20. ASSUME NEW c \in Callers, CallbackStart(c) PROVE Listening'
  BY <1>20 DEF CallbackStart
<1>21. ASSUME NEW c \in Callers, Terminate(c) PROVE Listening'
  BY <1>21 DEF Terminate, SetTerminate
<1>22. ASSUME NEW c \in Callers, CallbackClose(c) PROVE Listening'
  BY <1>22 DEF CallbackClose
<1>23. ASSUME NEW k \in Closers, CloseStart(k) PROVE Listening'
  BY <1>23 DEF CloseStart
<1>24. ASSUME NEW k \in Closers, Announce(k) PROVE Listening'
  BY <1>24 DEF Announce
<1>25. ASSUME NEW k \in Closers, CloseFree(k) PROVE Listening'
  BY <1>25 DEF CloseFree, Drained
<1>26. ASSUME NEW k \in Closers, CloseRelease(k) PROVE Listening'
  BY <1>26 DEF CloseRelease
<1>27. ASSUME NEW k \in Closers, CloseUnlock(k) PROVE Listening'
  BY <1>27 DEF CloseUnlock
<1>28. CASE UNCHANGED vars
  BY <1>28 DEF vars
<1> QED
  BY <1>1, <1>2, <1>3, <1>4, <1>5, <1>6, <1>7, <1>8, <1>9, <1>10, <1>11, <1>12, <1>13, <1>14,
     <1>15, <1>16, <1>17, <1>18, <1>19, <1>20, <1>21, <1>22, <1>23, <1>24, <1>25, <1>26, <1>27, <1>28
     DEF Next, Run, Callback, Close

Heard == Inv /\ Listening
LEMMA HeardInvariance == Spec => []Heard
<1>1. Init => Heard
  BY InitInv DEF Init, Heard, Listening
<1>2. Heard /\ [Next]_vars => Heard'
  BY NextInv, NextListening DEF Heard
<1> QED
  BY <1>1, <1>2, PTL DEF Spec

\* The steps that may follow a step of a call that has passed RLock, and what
\* may follow a state of its callback.
After(step) ==
  CASE step = "open" -> {"gate", "prepare", "runlock"}
    [] step = "gate" -> {"queued", "gated", "runlock"}
    [] step = "queued" -> {"gated", "runlock"}
    [] step = "gated" -> {"prepare", "ungate"}
    [] step = "prepare" -> {"watch", "native", "unpin", "ungate", "runlock"}
    [] step = "watch" -> {"native", "unpin"}
    [] step = "native" -> {"settle"}
    [] step = "settle" -> {"outputs", "finish", "unpin"}
    [] step = "outputs" -> {"finish", "unpin"}
    [] step = "finish" -> {"unoptions"}
    [] step = "unoptions" -> {"unpin"}
    [] step = "unpin" -> {"release"}
    [] step = "release" -> {"ungate", "runlock"}
    [] step = "ungate" -> {"runlock"}
    [] step = "runlock" -> {"idle"}
Then(state) ==
  CASE state = "armed" -> "running"
    [] state = "running" -> "fired"
    [] OTHER -> "closed"

\* Whoever steps, a call stays or goes on to a following step, a context that is
\* done stays done until the call returns, during the native run and in finish the
\* callback only moves on, and a termination is not taken back.
Onward(c) ==
  /\ pc'[c] = pc[c] \/ pc'[c] \in After(pc[c])
  /\ Done(c) /\ pc'[c] # "idle" => Done(c)'
  /\ pc[c] \in {"native", "finish"} /\ pc'[c] = pc[c] /\ watcher[c] # "none" =>
       watcher'[c] \in {watcher[c], Then(watcher[c])}
  /\ pc[c] = "native" /\ pc'[c] = "native" /\ options[c] = "terminated" => options'[c] = "terminated"

LEMMA NextOnward ==
  ASSUME Inv, [Next]_vars, NEW c \in Callers, pc[c] \in ReadSteps
  PROVE  Onward(c)
<1> USE SessionAssumption DEF SessionAssumption, At, Goto, Outcome, Done, callVars, poolVars, lockVars,
      closeVars, Results, Steps, ReadSteps, GatedSteps, NativeSteps, Inv, Types, Onward, After, Then
<1>1. ASSUME NEW d \in Callers, RunStart(d) PROVE Onward(c)
  BY <1>1 DEF RunStart
<1>2. ASSUME NEW d \in Callers, Cancel(d) PROVE Onward(c)
  BY <1>2 DEF Cancel
<1>3. ASSUME NEW d \in Callers, RLock(d) PROVE Onward(c)
  BY <1>3 DEF RLock, MayRead
<1>4. ASSUME NEW d \in Callers, RunOpen(d) PROVE Onward(c)
  BY <1>4 DEF RunOpen
<1>5. ASSUME NEW d \in Callers, RunGate(d) PROVE Onward(c)
  BY <1>5 DEF RunGate, GateFree
<1>6. ASSUME NEW d \in Callers, RunQueued(d) PROVE Onward(c)
  BY <1>6 DEF RunQueued
<1>7. ASSUME NEW d \in Callers, RunGated(d) PROVE Onward(c)
  BY <1>7 DEF RunGated
<1>8. ASSUME NEW d \in Callers, RunReject(d) PROVE Onward(c)
  BY <1>8 DEF RunReject, Leave
<1>9. ASSUME NEW d \in Callers, RunPrepare(d) PROVE Onward(c)
  BY <1>9 DEF RunPrepare, Pinned
<1>10. ASSUME NEW d \in Callers, WatchContext(d) PROVE Onward(c)
  BY <1>10 DEF WatchContext
<1>11. ASSUME NEW d \in Callers, NativeReturn(d) PROVE Onward(c)
  BY <1>11 DEF NativeReturn
<1>12. ASSUME NEW d \in Callers, RunSettle(d) PROVE Onward(c)
  BY <1>12 DEF RunSettle, Settled, AfterInference
<1>13. ASSUME NEW d \in Callers, OutputsFree(d) PROVE Onward(c)
  BY <1>13 DEF OutputsFree, AfterInference
<1>14. ASSUME NEW d \in Callers, FinishStop(d) PROVE Onward(c)
  BY <1>14 DEF FinishStop, Joined
<1>15. ASSUME NEW d \in Callers, FinishFree(d) PROVE Onward(c)
  BY <1>15 DEF FinishFree
<1>16. ASSUME NEW d \in Callers, RunUnpin(d) PROVE Onward(c)
  BY <1>16 DEF RunUnpin
<1>17. ASSUME NEW d \in Callers, RunRelease(d) PROVE Onward(c)
  BY <1>17 DEF RunRelease, Leave, Cleared
<1>18. ASSUME NEW d \in Callers, Ungate(d) PROVE Onward(c)
  <2>1. CASE queue = <<>>
    BY <1>18, <2>1 DEF Ungate
  <2>2. CASE queue # <<>>
    <3>1. Head(queue) \in Callers /\ pc[Head(queue)] = "queued"
      BY <2>2 DEF Queued
    <3> QED
      BY <1>18, <2>2, <3>1 DEF Ungate
  <2> QED
    BY <2>1, <2>2
<1>19. ASSUME NEW d \in Callers, RUnlock(d) PROVE Onward(c)
  BY <1>19 DEF RUnlock
<1>20. ASSUME NEW d \in Callers, CallbackStart(d) PROVE Onward(c)
  BY <1>20 DEF CallbackStart
<1>21. ASSUME NEW d \in Callers, Terminate(d) PROVE Onward(c)
  BY <1>21 DEF Terminate, SetTerminate
<1>22. ASSUME NEW d \in Callers, CallbackClose(d) PROVE Onward(c)
  BY <1>22 DEF CallbackClose
<1>23. ASSUME NEW k \in Closers, CloseStart(k) PROVE Onward(c)
  BY <1>23 DEF CloseStart
<1>24. ASSUME NEW k \in Closers, Announce(k) PROVE Onward(c)
  BY <1>24 DEF Announce
<1>25. ASSUME NEW k \in Closers, CloseFree(k) PROVE Onward(c)
  BY <1>25 DEF CloseFree, Drained
<1>26. ASSUME NEW k \in Closers, CloseRelease(k) PROVE Onward(c)
  BY <1>26 DEF CloseRelease
<1>27. ASSUME NEW k \in Closers, CloseUnlock(k) PROVE Onward(c)
  BY <1>27 DEF CloseUnlock
<1>28. CASE UNCHANGED vars
  BY <1>28 DEF vars
<1> QED
  BY <1>1, <1>2, <1>3, <1>4, <1>5, <1>6, <1>7, <1>8, <1>9, <1>10, <1>11, <1>12, <1>13, <1>14,
     <1>15, <1>16, <1>17, <1>18, <1>19, <1>20, <1>21, <1>22, <1>23, <1>24, <1>25, <1>26, <1>27, <1>28
     DEF Next, Run, Callback, Close

\* A step of the call itself takes it on.
LEMMA RunOnward ==
  ASSUME Inv, NEW c \in Callers, Run(c), pc[c] \in ReadSteps
  PROVE  pc'[c] \in After(pc[c])
<1> USE SessionAssumption DEF SessionAssumption, At, Goto, Outcome, Done, callVars, poolVars, lockVars,
      closeVars, Results, Steps, ReadSteps, GatedSteps, NativeSteps, Inv, Types, After
<1>1. CASE Ungate(c)
  <2>1. CASE queue = <<>>
    BY <1>1, <2>1 DEF Ungate
  <2>2. CASE queue # <<>>
    <3>1. Head(queue) \in Callers /\ pc[Head(queue)] = "queued"
      BY <2>2 DEF Queued
    <3> QED
      BY <1>1, <2>2, <3>1 DEF Ungate
  <2> QED
    BY <2>1, <2>2
<1>2. CASE RunOpen(c) \/ RunGate(c) \/ RunQueued(c) \/ RunGated(c) \/ RunReject(c)
  BY <1>2 DEF RunOpen, RunGate, RunQueued, RunGated, RunReject, Leave
<1>3. CASE RunPrepare(c) \/ WatchContext(c) \/ RunSettle(c) \/ OutputsFree(c) \/ FinishStop(c)
  BY <1>3 DEF RunPrepare, WatchContext, RunSettle, OutputsFree, FinishStop, AfterInference
<1>4. CASE FinishFree(c) \/ RunUnpin(c) \/ RunRelease(c) \/ RUnlock(c) \/ RLock(c)
  BY <1>4 DEF FinishFree, RunUnpin, RunRelease, RUnlock, RLock, Leave
<1> QED
  BY <1>1, <1>2, <1>3, <1>4 DEF Run

Passed(c, step) == pc[c] \in After(step)
\* What the fairness of run needs of a step to take a call past it.
Moves(c, step) ==
  /\ Heard /\ At(c, step) /\ [Next]_vars =>
       /\ At(c, step)' \/ Passed(c, step)'
       /\ Done(c) => Done(c)' \/ At(c, "idle")'
  /\ Heard /\ At(c, step) /\ <<Run(c)>>_vars => Passed(c, step)'

LEMMA RunMoves == \A c \in Callers, step \in ReadSteps : Moves(c, step)
<1> SUFFICES ASSUME NEW c \in Callers, NEW step \in ReadSteps, Heard, At(c, step)
             PROVE  /\ [Next]_vars =>
                         /\ At(c, step)' \/ Passed(c, step)'
                         /\ Done(c) => Done(c)' \/ At(c, "idle")'
                    /\ <<Run(c)>>_vars => Passed(c, step)'
  BY DEF Moves
<1>1. pc[c] = step /\ pc[c] \in ReadSteps /\ Inv
  BY DEF At, Heard
<1>2. ASSUME [Next]_vars
      PROVE  /\ At(c, step)' \/ Passed(c, step)'
             /\ Done(c) => Done(c)' \/ At(c, "idle")'
  <2>1. Onward(c)
    BY <1>1, <1>2, NextOnward
  <2> QED
    BY <1>1, <2>1 DEF Onward, Passed, At
<1>3. ASSUME <<Run(c)>>_vars PROVE Passed(c, step)'
  BY <1>1, <1>3, RunOnward DEF Passed
<1> QED
  BY <1>2, <1>3

\* The steps in which a call waits for nobody.
FreeSteps == ReadSteps \ {"queued", "native", "finish"}
LEMMA FreeRuns == \A c \in Callers, step \in FreeSteps : At(c, step) => Runnable(c)
  BY DEF At, Runnable, FreeSteps, ReadSteps, GatedSteps, NativeSteps

\* A call in the native library or in finish, and the state of its callback.
Watching(c, step, state) == At(c, step) /\ watcher[c] = state
\* What the fairness of the callback needs to take it on.
CallbackMoves(c, step, state) ==
  /\ Heard /\ Watching(c, step, state) /\ [Next]_vars =>
       Watching(c, step, state)' \/ Watching(c, step, Then(state))' \/ Passed(c, step)'
  /\ Heard /\ Watching(c, step, state) /\ <<Callback(c)>>_vars => Watching(c, step, Then(state))'

LEMMA WatcherMoves ==
  \A c \in Callers, step \in {"native", "finish"}, state \in {"armed", "running", "fired", "closed"} :
    CallbackMoves(c, step, state)
<1> SUFFICES ASSUME NEW c \in Callers, NEW step \in {"native", "finish"},
                    NEW state \in {"armed", "running", "fired", "closed"},
                    Heard, Watching(c, step, state)
             PROVE  /\ [Next]_vars =>
                         Watching(c, step, state)' \/ Watching(c, step, Then(state))' \/ Passed(c, step)'
                    /\ <<Callback(c)>>_vars => Watching(c, step, Then(state))'
  BY DEF CallbackMoves
<1>1. pc[c] = step /\ pc[c] \in ReadSteps /\ watcher[c] = state /\ Inv
  BY DEF Watching, At, Heard, ReadSteps, GatedSteps, NativeSteps
<1>2. ASSUME [Next]_vars
      PROVE  Watching(c, step, state)' \/ Watching(c, step, Then(state))' \/ Passed(c, step)'
  <2>1. Onward(c)
    BY <1>1, <1>2, NextOnward
  <2> QED
    BY <1>1, <2>1 DEF Onward, Passed, Watching, At
<1>3. ASSUME <<Callback(c)>>_vars PROVE Watching(c, step, Then(state))'
  BY <1>1, <1>3 DEF Inv, Types, Callback, CallbackStart, Terminate, SetTerminate, CallbackClose, Watching, At, Then
<1> QED
  BY <1>2, <1>3

\* What goes on however a call's surroundings behave.
Going(c) == []Heard /\ [][Next]_vars /\ []NeverStuck /\ CallScheduled(c)

LEMMA NotStuck ==
  ASSUME NEW c \in Callers, NeverStuck
  PROVE  /\ Runnable(c) => ENABLED <<Run(c)>>_vars
         /\ Pending(c) => ENABLED <<Callback(c)>>_vars
         /\ At(c, "native") => ENABLED <<NativeReturn(c)>>_vars
         /\ At(c, "native") /\ options[c] = "terminated" => ENABLED <<ObeyTerminate(c)>>_vars
  BY DEF NeverStuck

\* The deferred functions of run come to their end.
LeavingSteps == {"settle", "outputs", "finish", "unoptions", "unpin", "release", "ungate", "runlock"}
LEMMA Leaves ==
  ASSUME NEW c \in Callers
  PROVE  Going(c) => (pc[c] \in LeavingSteps ~> At(c, "idle"))
<1>1. NeverStuck =>
        /\ Runnable(c) => ENABLED <<Run(c)>>_vars
        /\ Pending(c) => ENABLED <<Callback(c)>>_vars
  BY NotStuck
<1>2. Going(c) => (At(c, "runlock") ~> At(c, "idle"))
  <2>1. Passed(c, "runlock") => At(c, "idle")
    BY DEF Passed, After, At
  <2>2. Moves(c, "runlock") /\ (At(c, "runlock") => Runnable(c))
    BY RunMoves, FreeRuns DEF FreeSteps, ReadSteps, GatedSteps, NativeSteps
  <2> QED
    BY <1>1, <2>1, <2>2, PTL DEF Moves, Going, CallScheduled
<1>3. Going(c) => (At(c, "ungate") ~> At(c, "idle"))
  <2>1. Passed(c, "ungate") => At(c, "runlock")
    BY DEF Passed, After, At
  <2>2. Moves(c, "ungate") /\ (At(c, "ungate") => Runnable(c))
    BY RunMoves, FreeRuns DEF FreeSteps, ReadSteps, GatedSteps, NativeSteps
  <2> QED
    BY <1>1, <2>1, <2>2, <1>2, PTL DEF Moves, Going, CallScheduled
<1>4. Going(c) => (At(c, "release") ~> At(c, "idle"))
  <2>1. Passed(c, "release") => At(c, "ungate") \/ At(c, "runlock")
    BY DEF Passed, After, At
  <2>2. Moves(c, "release") /\ (At(c, "release") => Runnable(c))
    BY RunMoves, FreeRuns DEF FreeSteps, ReadSteps, GatedSteps, NativeSteps
  <2> QED
    BY <1>1, <2>1, <2>2, <1>3, <1>2, PTL DEF Moves, Going, CallScheduled
<1>5. Going(c) => (At(c, "unpin") ~> At(c, "idle"))
  <2>1. Passed(c, "unpin") => At(c, "release")
    BY DEF Passed, After, At
  <2>2. Moves(c, "unpin") /\ (At(c, "unpin") => Runnable(c))
    BY RunMoves, FreeRuns DEF FreeSteps, ReadSteps, GatedSteps, NativeSteps
  <2> QED
    BY <1>1, <2>1, <2>2, <1>4, PTL DEF Moves, Going, CallScheduled
<1>6. Going(c) => (At(c, "unoptions") ~> At(c, "idle"))
  <2>1. Passed(c, "unoptions") => At(c, "unpin")
    BY DEF Passed, After, At
  <2>2. Moves(c, "unoptions") /\ (At(c, "unoptions") => Runnable(c))
    BY RunMoves, FreeRuns DEF FreeSteps, ReadSteps, GatedSteps, NativeSteps
  <2> QED
    BY <1>1, <2>1, <2>2, <1>5, PTL DEF Moves, Going, CallScheduled
<1>7. Going(c) => (At(c, "finish") ~> At(c, "idle"))
  <2>1. /\ Passed(c, "finish") => At(c, "unoptions")
        /\ Then("armed") = "running" /\ Then("running") = "fired" /\ Then("fired") = "closed"
        /\ Then("closed") = "closed"
    BY DEF Passed, After, At, Then
  <2>2. Heard /\ At(c, "finish") =>
          \/ Watching(c, "finish", "armed") \/ Watching(c, "finish", "running")
          \/ Watching(c, "finish", "fired") \/ Watching(c, "finish", "closed")
    BY DEF Heard, Inv, Types, Listening, Watching, At
  <2>3. /\ Watching(c, "finish", "armed") => Runnable(c)
        /\ Watching(c, "finish", "running") => Pending(c)
        /\ Watching(c, "finish", "fired") => Pending(c)
        /\ Watching(c, "finish", "closed") => Runnable(c)
    BY DEF Watching, Runnable, Pending, Joined, At
  <2>4. Going(c) => (Watching(c, "finish", "closed") ~> Passed(c, "finish"))
    <3>1. /\ Heard /\ Watching(c, "finish", "closed") /\ [Next]_vars =>
               Watching(c, "finish", "closed")' \/ Passed(c, "finish")'
          /\ Heard /\ Watching(c, "finish", "closed") /\ <<Run(c)>>_vars => Passed(c, "finish")'
      BY <2>1, WatcherMoves, RunMoves
         DEF CallbackMoves, Moves, Watching, ReadSteps, GatedSteps, NativeSteps
    <3> QED
      BY <1>1, <2>3, <3>1, PTL DEF Going, CallScheduled
  <2>5. Going(c) => (Watching(c, "finish", "fired") ~> Watching(c, "finish", "closed") \/ Passed(c, "finish"))
    <3>1. /\ Heard /\ Watching(c, "finish", "fired") /\ [Next]_vars =>
               Watching(c, "finish", "fired")' \/ Watching(c, "finish", "closed")' \/ Passed(c, "finish")'
          /\ Heard /\ Watching(c, "finish", "fired") /\ <<Callback(c)>>_vars => Watching(c, "finish", "closed")'
      BY <2>1, WatcherMoves DEF CallbackMoves
    <3> QED
      BY <1>1, <2>3, <3>1, PTL DEF Going, CallScheduled
  <2>6. Going(c) => (Watching(c, "finish", "running") ~> Watching(c, "finish", "fired") \/ Passed(c, "finish"))
    <3>1. /\ Heard /\ Watching(c, "finish", "running") /\ [Next]_vars =>
               Watching(c, "finish", "running")' \/ Watching(c, "finish", "fired")' \/ Passed(c, "finish")'
          /\ Heard /\ Watching(c, "finish", "running") /\ <<Callback(c)>>_vars => Watching(c, "finish", "fired")'
      BY <2>1, WatcherMoves DEF CallbackMoves
    <3> QED
      BY <1>1, <2>3, <3>1, PTL DEF Going, CallScheduled
  <2>7. Going(c) => (Watching(c, "finish", "armed") ~> Watching(c, "finish", "running") \/ Passed(c, "finish"))
    <3>1. /\ Heard /\ Watching(c, "finish", "armed") /\ [Next]_vars =>
               Watching(c, "finish", "armed")' \/ Watching(c, "finish", "running")' \/ Passed(c, "finish")'
          /\ Heard /\ Watching(c, "finish", "armed") /\ <<Run(c)>>_vars => Passed(c, "finish")'
      BY <2>1, WatcherMoves, RunMoves
         DEF CallbackMoves, Moves, Watching, ReadSteps, GatedSteps, NativeSteps
    <3> QED
      BY <1>1, <2>3, <3>1, PTL DEF Going, CallScheduled
  <2> QED
    BY <1>6, <2>1, <2>2, <2>4, <2>5, <2>6, <2>7, PTL DEF Going
<1>8. Going(c) => (At(c, "outputs") ~> At(c, "idle"))
  <2>1. Passed(c, "outputs") => At(c, "finish") \/ At(c, "unpin")
    BY DEF Passed, After, At
  <2>2. Moves(c, "outputs") /\ (At(c, "outputs") => Runnable(c))
    BY RunMoves, FreeRuns DEF FreeSteps, ReadSteps, GatedSteps, NativeSteps
  <2> QED
    BY <1>1, <2>1, <2>2, <1>7, <1>5, PTL DEF Moves, Going, CallScheduled
<1>9. Going(c) => (At(c, "settle") ~> At(c, "idle"))
  <2>1. Passed(c, "settle") => At(c, "outputs") \/ At(c, "finish") \/ At(c, "unpin")
    BY DEF Passed, After, At
  <2>2. Moves(c, "settle") /\ (At(c, "settle") => Runnable(c))
    BY RunMoves, FreeRuns DEF FreeSteps, ReadSteps, GatedSteps, NativeSteps
  <2> QED
    BY <1>1, <2>1, <2>2, <1>8, <1>7, <1>5, PTL DEF Moves, Going, CallScheduled
<1>10. pc[c] \in LeavingSteps =>
          \/ At(c, "settle") \/ At(c, "outputs") \/ At(c, "finish") \/ At(c, "unoptions")
          \/ At(c, "unpin") \/ At(c, "release") \/ At(c, "ungate") \/ At(c, "runlock")
  BY DEF LeavingSteps, At
<1> QED
  BY <1>2, <1>3, <1>4, <1>5, <1>6, <1>7, <1>8, <1>9, <1>10, PTL

\* Once it is past RLock, a canceled call returns, however many callers there
\* are and however long their native runs take: it waits for nothing but its own
\* callback and the native library.  Its own native run can keep it only if ORT
\* refused the termination that the callback asked for.
Over(c) == At(c, "idle") \/ Unterminated(c)
THEOREM CanceledCallsReturn == HangingSpec /\ []NeverStuck => CanceledReturns
<1> SUFFICES ASSUME NEW c \in Callers
             PROVE  HangingSpec /\ []NeverStuck => (pc[c] \in ReadSteps /\ Done(c) ~> Over(c))
  BY DEF CanceledReturns, Over
<1> DEFINE Ends == Going(c) /\ Obeyed(c)
<1>1. NeverStuck =>
        /\ Runnable(c) => ENABLED <<Run(c)>>_vars
        /\ Pending(c) => ENABLED <<Callback(c)>>_vars
        /\ At(c, "native") /\ options[c] = "terminated" => ENABLED <<ObeyTerminate(c)>>_vars
  BY NotStuck
<1>2. HangingSpec /\ []NeverStuck => Ends
  <2>1. HangingSpec => Spec /\ CallScheduled(c) /\ Obeyed(c)
    BY DEF HangingSpec, Scheduled
  <2> QED
    BY <2>1, HeardInvariance, PTL DEF Spec, Going
<1>3. Ends => (pc[c] \in LeavingSteps ~> At(c, "idle"))
  BY Leaves
<1> HIDE DEF Ends
<1>4. Ends => (At(c, "native") /\ Done(c) ~> Over(c))
  <2> DEFINE Stopped == At(c, "native") /\ options[c] = "terminated"
  <2>1. /\ Passed(c, "native") => pc[c] \in LeavingSteps
        /\ Then("armed") = "running" /\ Then("running") = "fired" /\ Then("fired") = "closed"
        /\ Then("closed") = "closed"
    BY DEF Passed, After, LeavingSteps, Then
  <2>2. Heard /\ At(c, "native") /\ Done(c) =>
          \/ Watching(c, "native", "armed") \/ Watching(c, "native", "running")
          \/ Watching(c, "native", "fired") \/ Watching(c, "native", "closed")
    <3> SUFFICES ASSUME Heard, At(c, "native"), Done(c)
                 PROVE  watcher[c] \in {"armed", "running", "fired", "closed"}
      BY DEF Watching
    <3>1. watcher[c] # "none"
      BY DEF Heard, Listening, At, Done
    <3> QED
      BY <3>1 DEF Heard, Inv, Types
  <2>3. /\ Watching(c, "native", "armed") /\ Done(c) => Pending(c)
        /\ Watching(c, "native", "running") => Pending(c)
        /\ Heard /\ Watching(c, "native", "fired") => Stopped \/ Over(c)
        /\ Heard /\ Watching(c, "native", "closed") => Stopped \/ Over(c)
    BY DEF Watching, Pending, Heard, Inv, Types, Watched, Over, Unterminated
  <2>4. Moves(c, "native")
    BY RunMoves DEF ReadSteps, GatedSteps, NativeSteps
  <2>5. Ends => (Stopped ~> Passed(c, "native"))
    <3>1. Heard /\ Stopped /\ [Next]_vars => Stopped' \/ Passed(c, "native")'
      BY NextOnward DEF Heard, Onward, Passed, At, ReadSteps, GatedSteps, NativeSteps
    <3>2. Heard /\ Stopped /\ <<ObeyTerminate(c)>>_vars => Passed(c, "native")'
      BY DEF ObeyTerminate, NativeReturn, Goto, Passed, At, After, Heard, Inv, Types
    <3> QED
      BY <1>1, <3>1, <3>2, PTL DEF Ends, Going, Obeyed
  <2>6. Ends => (Watching(c, "native", "running") ~> Watching(c, "native", "fired") \/ Passed(c, "native"))
    <3>1. /\ Heard /\ Watching(c, "native", "running") /\ [Next]_vars =>
               Watching(c, "native", "running")' \/ Watching(c, "native", "fired")' \/ Passed(c, "native")'
          /\ Heard /\ Watching(c, "native", "running") /\ <<Callback(c)>>_vars => Watching(c, "native", "fired")'
      BY <2>1, WatcherMoves DEF CallbackMoves
    <3> QED
      BY <1>1, <2>3, <3>1, PTL DEF Ends, Going, CallScheduled
  <2>7. Ends => (Watching(c, "native", "armed") /\ Done(c) ~> Watching(c, "native", "running") \/ Passed(c, "native"))
    <3>1. /\ Heard /\ Watching(c, "native", "armed") /\ [Next]_vars =>
               Watching(c, "native", "armed")' \/ Watching(c, "native", "running")' \/ Passed(c, "native")'
          /\ Heard /\ Watching(c, "native", "armed") /\ <<Callback(c)>>_vars => Watching(c, "native", "running")'
          /\ Watching(c, "native", "armed") => At(c, "native")
          /\ At(c, "idle") => ~At(c, "native")
          /\ At(c, "idle") => ~Passed(c, "native")
      BY <2>1, WatcherMoves DEF CallbackMoves, Watching, At, Passed, After
    <3> QED
      BY <1>1, <2>3, <2>4, <3>1, PTL DEF Ends, Going, CallScheduled, Moves
  <2> QED
    BY <1>3, <2>1, <2>2, <2>3, <2>5, <2>6, <2>7, PTL DEF Ends, Going, Over
<1>5. Ends => (At(c, "watch") /\ Done(c) ~> Over(c))
  <2>1. Passed(c, "watch") => At(c, "native") \/ pc[c] \in LeavingSteps
    BY DEF Passed, After, At, LeavingSteps
  <2>2. Moves(c, "watch") /\ (At(c, "watch") => Runnable(c))
    BY RunMoves, FreeRuns DEF FreeSteps, ReadSteps, GatedSteps, NativeSteps
  <2> QED
    BY <1>1, <1>3, <2>1, <2>2, <1>4, PTL DEF Moves, Ends, Going, CallScheduled, Over
<1>6. Ends => (At(c, "prepare") /\ Done(c) ~> Over(c))
  <2>1. Passed(c, "prepare") => At(c, "watch") \/ At(c, "native") \/ pc[c] \in LeavingSteps
    BY DEF Passed, After, At, LeavingSteps
  <2>2. Moves(c, "prepare") /\ (At(c, "prepare") => Runnable(c))
    BY RunMoves, FreeRuns DEF FreeSteps, ReadSteps, GatedSteps, NativeSteps
  <2> QED
    BY <1>1, <1>3, <2>1, <2>2, <1>5, <1>4, PTL DEF Moves, Ends, Going, CallScheduled, Over
<1>7. Ends => (At(c, "gated") /\ Done(c) ~> Over(c))
  <2>1. Passed(c, "gated") => At(c, "prepare") \/ pc[c] \in LeavingSteps
    BY DEF Passed, After, At, LeavingSteps
  <2>2. Moves(c, "gated") /\ (At(c, "gated") => Runnable(c))
    BY RunMoves, FreeRuns DEF FreeSteps, ReadSteps, GatedSteps, NativeSteps
  <2> QED
    BY <1>1, <1>3, <2>1, <2>2, <1>6, PTL DEF Moves, Ends, Going, CallScheduled, Over
<1>8. Ends => (At(c, "queued") /\ Done(c) ~> Over(c))
  <2>1. Passed(c, "queued") => At(c, "gated") \/ pc[c] \in LeavingSteps
    BY DEF Passed, After, At, LeavingSteps
  <2>2. Moves(c, "queued") /\ (At(c, "queued") /\ Done(c) => Runnable(c))
    BY RunMoves DEF Runnable, At, ReadSteps, GatedSteps, NativeSteps
  <2> QED
    BY <1>1, <1>3, <2>1, <2>2, <1>7, PTL DEF Moves, Ends, Going, CallScheduled, Over
<1>9. Ends => (At(c, "gate") /\ Done(c) ~> Over(c))
  <2>1. Passed(c, "gate") => At(c, "queued") \/ At(c, "gated") \/ pc[c] \in LeavingSteps
    BY DEF Passed, After, At, LeavingSteps
  <2>2. Moves(c, "gate") /\ (At(c, "gate") => Runnable(c))
    BY RunMoves, FreeRuns DEF FreeSteps, ReadSteps, GatedSteps, NativeSteps
  <2> QED
    BY <1>1, <1>3, <2>1, <2>2, <1>8, <1>7, PTL DEF Moves, Ends, Going, CallScheduled, Over
<1>10. Ends => (At(c, "open") /\ Done(c) ~> Over(c))
  <2>1. Passed(c, "open") => At(c, "gate") \/ At(c, "prepare") \/ pc[c] \in LeavingSteps
    BY DEF Passed, After, At, LeavingSteps
  <2>2. Moves(c, "open") /\ (At(c, "open") => Runnable(c))
    BY RunMoves, FreeRuns DEF FreeSteps, ReadSteps, GatedSteps, NativeSteps
  <2> QED
    BY <1>1, <1>3, <2>1, <2>2, <1>9, <1>6, PTL DEF Moves, Ends, Going, CallScheduled, Over
<1>11. pc[c] \in ReadSteps =>
          \/ At(c, "open") \/ At(c, "gate") \/ At(c, "queued") \/ At(c, "gated") \/ At(c, "prepare")
          \/ At(c, "watch") \/ At(c, "native") \/ pc[c] \in LeavingSteps
  BY DEF At, LeavingSteps, ReadSteps, GatedSteps, NativeSteps
<1> QED
  BY <1>2, <1>3, <1>4, <1>5, <1>6, <1>7, <1>8, <1>9, <1>10, <1>11, PTL DEF Over

Admitted(c) == pc[c] \in GatedSteps \/ (~Gated /\ pc[c] \in ReadSteps)
\* A call that waits for nobody else returns if its native run ends.
LEMMA AdmittedReturns ==
  ASSUME NEW c \in Callers
  PROVE  Going(c) /\ Ended(c) => (Admitted(c) ~> At(c, "idle"))
<1> DEFINE Ends == Going(c) /\ Ended(c)
<1>1. NeverStuck =>
        /\ Runnable(c) => ENABLED <<Run(c)>>_vars
        /\ At(c, "native") => ENABLED <<NativeReturn(c)>>_vars
  BY NotStuck
<1>2. Ends => (pc[c] \in LeavingSteps ~> At(c, "idle"))
  BY Leaves
<1> HIDE DEF Ends
<1>3. Ends => (At(c, "native") ~> At(c, "idle"))
  <2>1. Passed(c, "native") => pc[c] \in LeavingSteps
    BY DEF Passed, After, LeavingSteps
  <2>2. Moves(c, "native")
    BY RunMoves DEF ReadSteps, GatedSteps, NativeSteps
  <2>3. Heard /\ At(c, "native") /\ <<NativeReturn(c)>>_vars => Passed(c, "native")'
    BY DEF NativeReturn, Goto, Passed, At, After, Heard, Inv, Types
  <2> QED
    BY <1>1, <1>2, <2>1, <2>2, <2>3, PTL DEF Moves, Ends, Going, Ended
<1>4. Ends => (At(c, "watch") ~> At(c, "idle"))
  <2>1. Passed(c, "watch") => At(c, "native") \/ pc[c] \in LeavingSteps
    BY DEF Passed, After, At, LeavingSteps
  <2>2. Moves(c, "watch") /\ (At(c, "watch") => Runnable(c))
    BY RunMoves, FreeRuns DEF FreeSteps, ReadSteps, GatedSteps, NativeSteps
  <2> QED
    BY <1>1, <1>2, <2>1, <2>2, <1>3, PTL DEF Moves, Ends, Going, CallScheduled
<1>5. Ends => (At(c, "prepare") ~> At(c, "idle"))
  <2>1. Passed(c, "prepare") => At(c, "watch") \/ At(c, "native") \/ pc[c] \in LeavingSteps
    BY DEF Passed, After, At, LeavingSteps
  <2>2. Moves(c, "prepare") /\ (At(c, "prepare") => Runnable(c))
    BY RunMoves, FreeRuns DEF FreeSteps, ReadSteps, GatedSteps, NativeSteps
  <2> QED
    BY <1>1, <1>2, <2>1, <2>2, <1>4, <1>3, PTL DEF Moves, Ends, Going, CallScheduled
<1>6. Ends => (At(c, "gated") ~> At(c, "idle"))
  <2>1. Passed(c, "gated") => At(c, "prepare") \/ pc[c] \in LeavingSteps
    BY DEF Passed, After, At, LeavingSteps
  <2>2. Moves(c, "gated") /\ (At(c, "gated") => Runnable(c))
    BY RunMoves, FreeRuns DEF FreeSteps, ReadSteps, GatedSteps, NativeSteps
  <2> QED
    BY <1>1, <1>2, <2>1, <2>2, <1>5, PTL DEF Moves, Ends, Going, CallScheduled
<1>7. ASSUME ~Gated PROVE Ends => (At(c, "open") ~> At(c, "idle"))
  <2>1. /\ Passed(c, "open") => At(c, "gate") \/ At(c, "prepare") \/ pc[c] \in LeavingSteps
        /\ Heard => ~At(c, "gate")
    BY <1>7 DEF Passed, After, At, LeavingSteps, Heard, Inv, GateHeld
  <2>2. Moves(c, "open") /\ (At(c, "open") => Runnable(c))
    BY RunMoves, FreeRuns DEF FreeSteps, ReadSteps, GatedSteps, NativeSteps
  <2> QED
    BY <1>1, <1>2, <1>5, <2>1, <2>2, PTL DEF Moves, Ends, Going, CallScheduled
<1>8. Heard /\ Admitted(c) =>
        \/ ~Gated /\ At(c, "open")
        \/ At(c, "gated") \/ At(c, "prepare") \/ At(c, "watch") \/ At(c, "native")
        \/ pc[c] \in LeavingSteps
  BY DEF Heard, Inv, GateHeld, Admitted, At, LeavingSteps, ReadSteps, GatedSteps, NativeSteps
<1>9. CASE Gated
  <2>1. Gated
    BY <1>9
  <2> QED
    BY <2>1, <1>2, <1>3, <1>4, <1>5, <1>6, <1>8, PTL DEF Ends, Going
<1>10. CASE ~Gated
  BY <1>10, <1>2, <1>3, <1>4, <1>5, <1>6, <1>7, <1>8, PTL DEF Ends, Going
<1> QED
  BY <1>9, <1>10

\* If native runs end, a call that has the gate returns, and in a session without
\* a gate every call that Close did not park: no callback, no other call and no
\* closer can hold it up.
THEOREM AdmittedCallsReturn ==
  FairSpec /\ []NeverStuck => \A c \in Callers : Admitted(c) ~> At(c, "idle")
<1> SUFFICES ASSUME NEW c \in Callers
             PROVE  FairSpec /\ []NeverStuck => (Admitted(c) ~> At(c, "idle"))
  OBVIOUS
<1>1. FairSpec /\ []NeverStuck => Going(c) /\ Ended(c)
  <2>1. FairSpec => Spec /\ CallScheduled(c) /\ Ended(c)
    BY DEF FairSpec, Scheduled
  <2> QED
    BY <2>1, HeardInvariance, PTL DEF Spec, Going
<1>2. Going(c) /\ Ended(c) => (Admitted(c) ~> At(c, "idle"))
  BY AdmittedReturns
<1> QED
  BY <1>1, <1>2, PTL

-----------------------------------------------------------------------------
(* The two waits for a number to fall: of a call in the queue of the gate, *)
(* and of Close for its readers.                                           *)

\* Finitely many calls are under way, the gate has a holder while calls queue
\* for it, and a call is parked only while a closer has s.mu.
Busy == {c \in Callers : ~At(c, "idle")}
Bounded == IsFiniteSet(Busy)
Blocked ==
  /\ queue # <<>> => gate # None
  /\ \A c \in Callers : At(c, "parked") => writer # None

LEMMA NextBounded == ASSUME Inv, Bounded, [Next]_vars PROVE Bounded'
<1>1. Busy' \subseteq Busy \/ \E c \in Callers : Busy' = Busy \cup {c}
  <2> USE DEF Busy, At, Goto, callVars, poolVars, lockVars, closeVars, Inv, Types
  <2>1. CASE \E c \in Callers : RunStart(c)
    BY <2>1 DEF RunStart
  <2>2. CASE \E c \in Callers : Cancel(c) \/ Callback(c) \/ NativeReturn(c)
    BY <2>2 DEF Cancel, Callback, CallbackStart, Terminate, SetTerminate, CallbackClose, NativeReturn
  <2>3. ASSUME NEW c \in Callers, Run(c) PROVE Busy' \subseteq Busy
    <3>1. pc[c] # "idle"
      BY <2>3 DEF Run, RLock, RunOpen, RunGate, RunQueued, RunGated, RunReject, RunPrepare, WatchContext,
         RunSettle, OutputsFree, FinishStop, FinishFree, RunUnpin, RunRelease, Ungate, RUnlock
    <3>2. CASE \E step : Goto(c, step)
      BY <3>1, <3>2
    <3>3. CASE Ungate(c) /\ queue # <<>>
      <4>1. Head(queue) \in Callers /\ pc[Head(queue)] = "queued"
        BY <3>3 DEF Queued
      <4> QED
        BY <3>1, <3>3, <4>1 DEF Ungate
    <3> QED
      BY <2>3, <3>2, <3>3 DEF Run, RLock, RunOpen, RunGate, RunQueued, RunGated, RunReject, RunPrepare,
         WatchContext, RunSettle, OutputsFree, FinishStop, FinishFree, RunUnpin, RunRelease, Ungate, RUnlock,
         Leave
  <2>4. CASE \E k \in Closers : CloseStart(k) \/ Announce(k) \/ CloseFree(k) \/ CloseRelease(k)
    BY <2>4 DEF CloseStart, Announce, CloseFree, CloseRelease
  <2>5. CASE \E k \in Closers : CloseUnlock(k)
    BY <2>5 DEF CloseUnlock
  <2>6. CASE UNCHANGED vars
    BY <2>6 DEF vars
  <2> QED
    BY <2>1, <2>2, <2>3, <2>4, <2>5, <2>6 DEF Next, Close
<1>2. CASE Busy' \subseteq Busy
  BY <1>2, FS_Subset DEF Bounded
<1>3. CASE \E c \in Callers : Busy' = Busy \cup {c}
  BY <1>3, FS_AddElement DEF Bounded
<1> QED
  BY <1>1, <1>2, <1>3

LEMMA NextBlocked == ASSUME Inv, Blocked, [Next]_vars PROVE Blocked'
<1> USE SessionAssumption DEF SessionAssumption, At, Goto, callVars, poolVars, lockVars, closeVars,
      Inv, Types, Blocked
<1>1. CASE \E c \in Callers : RunStart(c) \/ Cancel(c) \/ Callback(c) \/ NativeReturn(c)
  BY <1>1 DEF RunStart, Cancel, Callback, CallbackStart, Terminate, SetTerminate, CallbackClose, NativeReturn
<1>2. CASE \E c \in Callers : RLock(c) \/ RunOpen(c) \/ RunGated(c) \/ RunReject(c) \/ RunPrepare(c)
  BY <1>2 DEF RLock, MayRead, RunOpen, RunGated, RunReject, RunPrepare, Leave
<1>3. CASE \E c \in Callers : WatchContext(c) \/ RunSettle(c) \/ OutputsFree(c) \/ FinishStop(c)
  BY <1>3 DEF WatchContext, RunSettle, OutputsFree, FinishStop, AfterInference
<1>4. CASE \E c \in Callers : FinishFree(c) \/ RunUnpin(c) \/ RunRelease(c) \/ RUnlock(c)
  BY <1>4 DEF FinishFree, RunUnpin, RunRelease, RUnlock, Leave
<1>5. CASE \E c \in Callers : RunGate(c)
  BY <1>5 DEF RunGate, GateFree
<1>6. ASSUME NEW c \in Callers, RunQueued(c) PROVE Blocked'
  <2>1. queue # <<>>
    BY <1>6 DEF RunQueued, Queued
  <2> QED
    BY <1>6, <2>1 DEF RunQueued
<1>7. ASSUME NEW c \in Callers, Ungate(c) PROVE Blocked'
  <2>1. queue # <<>> => Head(queue) \in Callers
    BY DEF Queued
  <2> QED
    BY <1>7, <2>1 DEF Ungate
<1>8. CASE \E k \in Closers : CloseStart(k) \/ Announce(k) \/ CloseFree(k) \/ CloseRelease(k)
  BY <1>8 DEF CloseStart, Announce, CloseFree, CloseRelease
<1>9. CASE \E k \in Closers : CloseUnlock(k)
  BY <1>9 DEF CloseUnlock
<1>10. CASE UNCHANGED vars
  BY <1>10 DEF vars
<1> QED
  BY <1>1, <1>2, <1>3, <1>4, <1>5, <1>6, <1>7, <1>8, <1>9, <1>10 DEF Next, Run, Close

\* Deadlock freedom, with no assumption on fairness: whoever waits, waits for
\* somebody who can go on.
THEOREM NobodyDeadlocks == Spec => []NoDeadlock
<1>1. Init => Blocked
  BY DEF Init, Blocked, At
<1>2. Heard /\ Blocked /\ [Next]_vars => Blocked'
  BY NextBlocked DEF Heard
<1>3. Heard /\ Blocked => NoDeadlock
  <2> SUFFICES ASSUME Heard, Blocked PROVE NoDeadlock
    OBVIOUS
  <2>1. ASSUME NEW c \in Callers, pc[c] \in ReadSteps, ~At(c, "queued") PROVE Mobile(c)
    <3>1. CASE At(c, "finish")
      BY <3>1 DEF Heard, Inv, Types, Watched, Listening, Mobile, Runnable, Pending, Joined, At
    <3>2. CASE ~At(c, "finish")
      BY <2>1, <3>2 DEF Mobile, Runnable, At, ReadSteps, GatedSteps, NativeSteps
    <3> QED
      BY <3>1, <3>2
  <2>2. gate # None => gate \in readers /\ Mobile(gate)
    BY <2>1 DEF Heard, Inv, Types, GateHeld, Locked, At, ReadSteps, GatedSteps, NativeSteps
  <2>3. ASSUME NEW c \in readers PROVE Mobile(c) \/ (At(c, "queued") /\ gate # None /\ Mobile(gate))
    <3>1. c \in Callers /\ pc[c] \in ReadSteps
      BY DEF Heard, Inv, Types, Locked
    <3>2. At(c, "queued") => gate # None
      BY <3>1 DEF Heard, Inv, Queued, Blocked, At
    <3> QED
      BY <2>1, <2>2, <3>1, <3>2
  <2>4. writer # None => Closable(writer) \/ readers # {}
    BY DEF Heard, Inv, Types, Locked, Closable, Drained
  <2> QED
    BY <2>2, <2>3, <2>4 DEF NoDeadlock, Blocked
<1> QED
  BY <1>1, <1>2, <1>3, HeardInvariance, PTL DEF Spec

\* Everything but the Lattice rule: goroutines are scheduled, native runs end.
Fair == Scheduled /\ \A c \in Callers : Ended(c)
Sound == Heard /\ Bounded /\ Blocked
World == []Sound /\ [][Next]_vars /\ []NeverStuck /\ []Fair

LEMMA WorldHolds == Spec /\ []Fair /\ []NeverStuck => World
<1>1. Init => Bounded /\ Blocked
  <2> SUFFICES ASSUME Init PROVE Bounded /\ Blocked
    OBVIOUS
  <2>1. Busy = {}
    BY DEF Init, Busy, At
  <2> QED
    BY <2>1, FS_EmptySet DEF Init, Bounded, Blocked, At
<1>2. Heard /\ Bounded /\ Blocked /\ [Next]_vars => (Bounded /\ Blocked)'
  BY NextBounded, NextBlocked DEF Heard
<1> QED
  BY <1>1, <1>2, HeardInvariance, PTL DEF Spec, World, Sound

LEMMA CallGoes ==
  ASSUME NEW c \in Callers
  PROVE  World => Going(c) /\ Ended(c)
<1>1. Fair => CallScheduled(c) /\ Ended(c)
  BY DEF Fair, Scheduled
<1> QED
  BY <1>1, PTL DEF World, Sound, Going

\* A call in the queue has a number of calls ahead of it, and that number falls:
\* the holder of the gate returns, and hands it to the first.
Ahead(c, n) == At(c, "queued") /\ n + 1 \in 1 .. Len(queue) /\ queue[n + 1] = c
Nearer(c, n) == ~At(c, "queued") \/ \E m \in Nat : m < n /\ Ahead(c, m)

\* The queue changes hands in three ways only.
LEMMA QueueChanges ==
  ASSUME Inv, Blocked, [Next]_vars, queue # <<>>
  PROVE  \/ gate' = gate /\ queue' = queue
         \/ gate' = gate /\ \E d \in Callers : queue' = Append(queue, d)
         \/ gate' = gate /\ \E d \in Callers : RunQueued(d)
         \/ queue' = Tail(queue) /\ \E d \in Callers : Ungate(d)
<1> USE DEF callVars, poolVars, lockVars, closeVars
<1>1. CASE \E c \in Callers : RunStart(c) \/ Cancel(c) \/ Callback(c) \/ NativeReturn(c)
  BY <1>1 DEF RunStart, Cancel, Callback, CallbackStart, Terminate, SetTerminate, CallbackClose, NativeReturn
<1>2. CASE \E c \in Callers : RLock(c) \/ RunOpen(c) \/ RunGated(c) \/ RunReject(c) \/ RunPrepare(c)
  BY <1>2 DEF RLock, RunOpen, RunGated, RunReject, RunPrepare
<1>3. CASE \E c \in Callers : WatchContext(c) \/ RunSettle(c) \/ OutputsFree(c) \/ FinishStop(c)
  BY <1>3 DEF WatchContext, RunSettle, OutputsFree, FinishStop
<1>4. CASE \E c \in Callers : FinishFree(c) \/ RunUnpin(c) \/ RunRelease(c) \/ RUnlock(c)
  BY <1>4 DEF FinishFree, RunUnpin, RunRelease, RUnlock
<1>5. CASE \E c \in Callers : RunGate(c)
  BY <1>5 DEF RunGate, GateFree, Blocked
<1>6. CASE \E c \in Callers : RunQueued(c)
  BY <1>6 DEF RunQueued
<1>7. CASE \E c \in Callers : Ungate(c)
  BY <1>7 DEF Ungate
<1>8. CASE \E k \in Closers : CloseStart(k) \/ Announce(k) \/ Close(k)
  BY <1>8 DEF CloseStart, Announce, Close, CloseFree, CloseRelease, CloseUnlock
<1>9. CASE UNCHANGED vars
  BY <1>9 DEF vars
<1> QED
  BY <1>1, <1>2, <1>3, <1>4, <1>5, <1>6, <1>7, <1>8, <1>9 DEF Next, Run

LEMMA QueueStep ==
  ASSUME Inv, Blocked, [Next]_vars, NEW c \in Callers, NEW n \in Nat, Ahead(c, n)
  PROVE  (Ahead(c, n)' /\ gate' = gate) \/ Nearer(c, n)'
<1>1. /\ queue \in Seq(Callers) /\ queue # <<>> /\ n + 1 \in 1 .. Len(queue)
      /\ queue[n + 1] = c
  BY DEF Inv, Queued, Ahead
<1>2. CASE pc'[c] # "queued"
  BY <1>2 DEF Nearer, At
<1>3. CASE gate' = gate /\ queue' = queue
  BY <1>2, <1>3 DEF Ahead, At
<1>4. ASSUME NEW d \in Callers, gate' = gate, queue' = Append(queue, d)
      PROVE  Ahead(c, n)' \/ pc'[c] # "queued"
  BY <1>1, <1>4 DEF Ahead, At
<1>5. ASSUME NEW d \in Callers, RunQueued(d), pc'[c] = "queued"
      PROVE  Ahead(c, n)' \/ Nearer(c, n)'
  <2> DEFINE p == CHOOSE i \in DOMAIN queue : queue[i] = d
             l == Len(queue)
  <2>1. p \in 1 .. l /\ queue[p] = d /\ l \in Nat
    BY <1>5 DEF RunQueued, Inv, Queued, At
  <2>2. queue' = [i \in 1 .. l - 1 |-> queue[IF i < p THEN i ELSE i + 1]]
    BY <1>5 DEF RunQueued, Without
  <2> HIDE DEF p
  <2>3. n + 1 # p
    BY <1>1, <1>5, <2>1 DEF RunQueued, Goto, Inv, Types
  <2>4. CASE n + 1 < p
    <3>1. n + 1 \in 1 .. l - 1
      BY <2>1, <2>4
    <3>2. n + 1 \in 1 .. Len(queue') /\ queue'[n + 1] = c
      BY <1>1, <2>1, <2>2, <2>4, <3>1
    <3> QED
      BY <1>5, <3>2 DEF Ahead, At
  <2>5. CASE n + 1 > p
    <3>1. n \in 1 .. l - 1 /\ n >= p
      BY <1>1, <2>1, <2>5
    <3>2. n \in 1 .. Len(queue') /\ queue'[n] = c
      BY <1>1, <2>1, <2>2, <3>1
    <3>3. n - 1 \in Nat /\ n - 1 < n /\ (n - 1) + 1 = n
      BY <3>1, <2>1
    <3> QED
      BY <1>5, <3>2, <3>3 DEF Ahead, Nearer, At
  <2> QED
    BY <2>1, <2>3, <2>4, <2>5
<1>6. ASSUME NEW d \in Callers, Ungate(d), queue' = Tail(queue), pc'[c] = "queued"
      PROVE  Nearer(c, n)'
  <2>1. n # 0
    <3>1. pc' = [pc EXCEPT ![d] = "runlock", ![Head(queue)] = "gated"]
      BY <1>1, <1>6 DEF Ungate
    <3> QED
      BY <1>1, <1>6, <3>1 DEF Inv, Types
  <2>2. n \in 1 .. Len(queue') /\ queue'[n] = c
    BY <1>1, <1>6, <2>1
  <2>3. n - 1 \in Nat /\ n - 1 < n /\ (n - 1) + 1 = n
    BY <2>1
  <2> QED
    BY <1>6, <2>2, <2>3 DEF Nearer, Ahead, At
<1> QED
  BY <1>1, <1>2, <1>3, <1>4, <1>5, <1>6, QueueChanges DEF Ahead, At

Closer(c, n) == Ahead(c, n) ~> Nearer(c, n)
LEMMA QueueFalls ==
  ASSUME NEW d \in Callers, NEW n \in Nat
  PROVE  World => Closer(d, n)
<1> DEFINE Awaits(c) == Ahead(d, n) /\ gate = c
<1>1. ASSUME NEW c \in Callers PROVE World => (Awaits(c) => <>Nearer(d, n))
  <2>1. Sound /\ Awaits(c) /\ [Next]_vars => Awaits(c)' \/ Nearer(d, n)'
    BY QueueStep DEF Sound, Heard
  <2>2. /\ Sound /\ Awaits(c) => Admitted(c)
        /\ Sound /\ At(c, "idle") => ~Awaits(c)
    BY DEF Sound, Heard, Inv, GateHeld, Admitted, GatedSteps, NativeSteps, At
  <2>3. World => (Admitted(c) ~> At(c, "idle"))
    BY CallGoes, AdmittedReturns
  <2> HIDE DEF Awaits
  <2> QED
    BY <2>1, <2>2, <2>3, PTL DEF World
<1>2. Sound /\ Ahead(d, n) => \E c \in Callers : Awaits(c)
  BY DEF Sound, Blocked, Ahead, Heard, Inv, Types
<1>3. Sound /\ World => (Ahead(d, n) => <>Nearer(d, n))
  <2> HIDE DEF Awaits
  <2> QED
    BY <1>1, <1>2
<1> QED
  BY <1>3, PTL DEF World, Closer

\* So the call leaves the queue.  That a number cannot fall for ever is the
\* Lattice rule of TLA, which holds in every behaviour; this is the instance of it.
Queuing(c) == \E n \in Nat : Ahead(c, n)
QueueRule(c) == (\A n \in Nat : Closer(c, n)) => (Queuing(c) ~> ~At(c, "queued"))

\* Hence a call that is past RLock returns.
Returns(c) == pc[c] \in ReadSteps ~> At(c, "idle")
LEMMA ReadersReturn ==
  ASSUME NEW c \in Callers
  PROVE  World /\ QueueRule(c) => Returns(c)
<1> DEFINE Ends == World /\ QueueRule(c)
<1>1. NeverStuck => (Runnable(c) => ENABLED <<Run(c)>>_vars)
  BY NotStuck
<1>2. World => Going(c) /\ Ended(c)
  BY CallGoes
<1>3. Going(c) /\ Ended(c) => (Admitted(c) ~> At(c, "idle"))
  BY AdmittedReturns
<1>4. Going(c) => (pc[c] \in LeavingSteps ~> At(c, "idle"))
  BY Leaves
<1>5. Ends => (At(c, "queued") ~> ~At(c, "queued"))
  <2>1. Sound /\ At(c, "queued") => Queuing(c)
    <3> SUFFICES ASSUME Sound, At(c, "queued") PROVE Queuing(c)
      OBVIOUS
    <3>1. PICK i \in 1 .. Len(queue) : queue[i] = c
      BY DEF Sound, Heard, Inv, Queued, At
    <3>2. i - 1 \in Nat /\ (i - 1) + 1 = i
      BY DEF Sound, Heard, Inv, Queued
    <3> QED
      BY <3>1, <3>2 DEF Queuing, Ahead
  <2>2. World /\ QueueRule(c) => (Queuing(c) ~> ~At(c, "queued"))
    <3>1. \A n \in Nat : World => Closer(c, n)
      BY QueueFalls
    <3> QED
      BY <3>1 DEF QueueRule
  <2> QED
    BY <2>1, <2>2, PTL DEF World
<1>6. Ends => (At(c, "queued") ~> At(c, "idle"))
  <2>1. Passed(c, "queued") => Admitted(c) \/ pc[c] \in LeavingSteps
    BY DEF Passed, After, Admitted, GatedSteps, LeavingSteps
  <2>2. Moves(c, "queued")
    BY RunMoves DEF ReadSteps, GatedSteps, NativeSteps
  <2> QED
    BY <1>2, <1>3, <1>4, <1>5, <2>1, <2>2, PTL DEF World, Sound, Moves
<1>7. Ends => (At(c, "gate") ~> At(c, "idle"))
  <2>1. Passed(c, "gate") => At(c, "queued") \/ Admitted(c) \/ pc[c] \in LeavingSteps
    BY DEF Passed, After, At, Admitted, GatedSteps, LeavingSteps
  <2>2. Moves(c, "gate") /\ (At(c, "gate") => Runnable(c))
    BY RunMoves, FreeRuns DEF FreeSteps, ReadSteps, GatedSteps, NativeSteps
  <2> QED
    BY <1>1, <1>2, <1>3, <1>4, <1>6, <2>1, <2>2, PTL DEF World, Sound, Moves, Going, CallScheduled
<1>8. Ends => (At(c, "open") ~> At(c, "idle"))
  <2>1. Passed(c, "open") => At(c, "gate") \/ Admitted(c) \/ pc[c] \in LeavingSteps
    BY DEF Passed, After, At, Admitted, GatedSteps, LeavingSteps
  <2>2. Moves(c, "open") /\ (At(c, "open") => Runnable(c))
    BY RunMoves, FreeRuns DEF FreeSteps, ReadSteps, GatedSteps, NativeSteps
  <2> QED
    BY <1>1, <1>2, <1>3, <1>4, <1>7, <2>1, <2>2, PTL DEF World, Sound, Moves, Going, CallScheduled
<1>9. pc[c] \in ReadSteps =>
        \/ At(c, "open") \/ At(c, "gate") \/ At(c, "queued") \/ Admitted(c) \/ pc[c] \in LeavingSteps
  BY DEF At, Admitted, ReadSteps, LeavingSteps
<1> QED
  BY <1>2, <1>3, <1>4, <1>6, <1>7, <1>8, <1>9, PTL DEF Returns

-----------------------------------------------------------------------------
\* The steps of Close, the readers while it waits for them, and s.mu, which only
\* the writer gives up.
CloseAfter(step) ==
  CASE step = "idle" -> {"lock"}
    [] step = "lock" -> {"draining"}
    [] step = "draining" -> {"release", "unlock"}
    [] step = "release" -> {"unlock"}
    [] step = "unlock" -> {"idle"}
CloseOnward(k) ==
  /\ closing'[k] = closing[k] \/ closing'[k] \in CloseAfter(closing[k])
  /\ closing[k] = "draining" => readers' \subseteq readers
  /\ writer = k => writer' \in {k, None}

LEMMA NextCloseOnward ==
  ASSUME Inv, [Next]_vars, NEW k \in Closers
  PROVE  CloseOnward(k)
<1> USE SessionAssumption DEF SessionAssumption, callVars, poolVars, lockVars, closeVars,
      Inv, Types, Locked, CloseOnward, CloseAfter
<1>1. CASE \E c \in Callers : RunStart(c) \/ Cancel(c) \/ Callback(c) \/ NativeReturn(c)
  BY <1>1 DEF RunStart, Cancel, Callback, CallbackStart, Terminate, SetTerminate, CallbackClose, NativeReturn
<1>2. CASE \E c \in Callers : RLock(c) \/ RunOpen(c) \/ RunGated(c) \/ RunReject(c) \/ RunPrepare(c)
  BY <1>2 DEF RLock, MayRead, RunOpen, RunGated, RunReject, RunPrepare
<1>3. CASE \E c \in Callers : WatchContext(c) \/ RunSettle(c) \/ OutputsFree(c) \/ FinishStop(c)
  BY <1>3 DEF WatchContext, RunSettle, OutputsFree, FinishStop
<1>4. CASE \E c \in Callers : FinishFree(c) \/ RunUnpin(c) \/ RunRelease(c) \/ RUnlock(c)
  BY <1>4 DEF FinishFree, RunUnpin, RunRelease, RUnlock
<1>5. CASE \E c \in Callers : RunGate(c) \/ RunQueued(c) \/ Ungate(c)
  BY <1>5 DEF RunGate, RunQueued, Ungate
<1>6. CASE \E j \in Closers : CloseStart(j) \/ Announce(j) \/ CloseFree(j) \/ CloseRelease(j)
  BY <1>6 DEF CloseStart, Announce, CloseFree, CloseRelease
<1>7. CASE \E j \in Closers : CloseUnlock(j)
  BY <1>7 DEF CloseUnlock
<1>8. CASE UNCHANGED vars
  BY <1>8 DEF vars
<1> QED
  BY <1>1, <1>2, <1>3, <1>4, <1>5, <1>6, <1>7, <1>8 DEF Next, Run, Close

\* A closer's own step takes it on.
LEMMA CloserOnward ==
  ASSUME Inv, NEW k \in Closers, Close(k) \/ Announce(k)
  PROVE  closing'[k] \in CloseAfter(closing[k])
  BY DEF Inv, Types, Close, Announce, CloseFree, CloseRelease, CloseUnlock, CloseAfter

\* Close waits for a number of readers, and that number falls: each returns, and
\* whoever calls RLock parks.
Emptied(k) == closing[k] # "draining" \/ Drained
Draining(k, n) == closing[k] = "draining" /\ Cardinality(readers) = n
Fewer(k, n) == Emptied(k) \/ \E m \in Nat : m < n /\ Draining(k, m)

LEMMA FiniteReaders == ASSUME Inv, Bounded PROVE IsFiniteSet(readers)
<1>1. readers \subseteq Busy
  BY DEF Inv, Types, Locked, Busy, ReadSteps, GatedSteps, NativeSteps, At
<1> QED
  BY <1>1, FS_Subset DEF Bounded

LEMMA DrainStep ==
  ASSUME Inv, Bounded, [Next]_vars, NEW k \in Closers, NEW n \in Nat, Draining(k, n)
  PROVE  (Draining(k, n)' /\ readers' = readers) \/ Fewer(k, n)'
<1>1. CloseOnward(k)
  BY NextCloseOnward
<1>2. CASE closing'[k] # "draining"
  BY <1>2 DEF Fewer, Emptied
<1>3. CASE closing'[k] = "draining" /\ readers' = readers
  BY <1>3 DEF Draining
<1>4. CASE closing'[k] = "draining" /\ readers' # readers
  <2>1. readers' \subseteq readers /\ IsFiniteSet(readers) /\ Cardinality(readers) = n
    BY <1>1, FiniteReaders DEF CloseOnward, Draining
  <2>2. PICK m \in Nat : m = Cardinality(readers') /\ m < n
    <3>1. IsFiniteSet(readers') /\ Cardinality(readers') <= n /\ Cardinality(readers') # n
      BY <1>4, <2>1, FS_Subset
    <3>2. Cardinality(readers') \in Nat
      BY <3>1, FS_CardinalityType
    <3> QED
      BY <3>1, <3>2
  <2>3. Draining(k, m)'
    BY <1>4, <2>2 DEF Draining
  <2> QED
    BY <2>2, <2>3 DEF Fewer
<1> QED
  BY <1>2, <1>3, <1>4

\* A world in which calls return.
Returning == \A c \in Callers : Returns(c)
Live == World /\ []Returning
Falls(k, n) == Draining(k, n) ~> Fewer(k, n)
LEMMA DrainFalls ==
  ASSUME NEW k \in Closers, NEW n \in Nat
  PROVE  Live => Falls(k, n)
<1> DEFINE Awaits(c) == Draining(k, n) /\ c \in readers
<1>1. ASSUME NEW c \in Callers PROVE World /\ Returning => (Awaits(c) => <>Fewer(k, n))
  <2>1. Sound /\ Awaits(c) /\ [Next]_vars => Awaits(c)' \/ Fewer(k, n)'
    BY DrainStep DEF Sound, Heard
  <2>2. /\ Sound /\ Awaits(c) => pc[c] \in ReadSteps
        /\ Sound /\ At(c, "idle") => ~Awaits(c)
    BY DEF Sound, Heard, Inv, Locked, ReadSteps, GatedSteps, NativeSteps, At
  <2>3. Returning => Returns(c)
    BY DEF Returning
  <2> HIDE DEF Awaits
  <2> QED
    BY <2>1, <2>2, <2>3, PTL DEF World, Returns
<1>2. Sound /\ Draining(k, n) => Fewer(k, n) \/ \E c \in Callers : Awaits(c)
  BY DEF Sound, Heard, Inv, Types, Fewer, Emptied, Drained
<1>3. Fewer(k, n) => <>Fewer(k, n)
  BY PTL
<1>4. Sound /\ World /\ Returning => (Draining(k, n) => <>Fewer(k, n))
  <2> HIDE DEF Awaits
  <2> QED
    BY <1>1, <1>2, <1>3
<1> QED
  BY <1>4, PTL DEF World, Live, Falls

\* So it reaches nought, by the Lattice rule.
Counting(k) == \E n \in Nat : Draining(k, n)
DrainRule(k) == (\A n \in Nat : Falls(k, n)) => (Counting(k) ~> Emptied(k))

\* The instances of the rule, at every moment.
Rules ==
  /\ \A c \in Callers : QueueRule(c)
  /\ \A k \in Closers : DrainRule(k)

LEMMA LiveWorld == World /\ []Rules => Live
<1>1. World /\ Rules => Returning
  BY ReadersReturn DEF Rules, Returning
<1> QED
  BY <1>1, PTL DEF World, Live

\* Close gets s.mu once it has announced itself, and gives it back.
Closing(k, step) == closing[k] = step
LEMMA CloserNotStuck ==
  ASSUME NEW k \in Closers, NeverStuck
  PROVE  /\ Closing(k, "lock") /\ writer = None => ENABLED <<Announce(k)>>_vars
         /\ Closable(k) => ENABLED <<Close(k)>>_vars
  BY DEF NeverStuck, Closing

Left(k, step) == closing[k] \in CloseAfter(step)
CloseMoves(k, step) ==
  /\ Sound /\ Closing(k, step) /\ [Next]_vars => Closing(k, step)' \/ Left(k, step)'
  /\ Sound /\ Closing(k, step) /\ <<Close(k)>>_vars => Left(k, step)'
  /\ Sound /\ Closing(k, step) /\ <<Announce(k)>>_vars => Left(k, step)'
LEMMA ClosersMove ==
  \A k \in Closers, step \in {"lock", "draining", "release", "unlock"} : CloseMoves(k, step)
  BY NextCloseOnward, CloserOnward DEF CloseMoves, CloseOnward, Closing, Left, Sound, Heard

LEMMA WritersReturn ==
  ASSUME NEW k \in Closers
  PROVE  World /\ []Rules => (closing[k] \in {"draining", "release", "unlock"} ~> Closing(k, "idle"))
<1>1. NeverStuck => (Closable(k) => ENABLED <<Close(k)>>_vars)
  BY CloserNotStuck
<1>2. Fair => CloseScheduled(k)
  BY DEF Fair, Scheduled
<1>3. World => (Closing(k, "unlock") ~> Closing(k, "idle"))
  <2>1. Closing(k, "unlock") => Closable(k)
    BY DEF Closing, Closable
  <2>2. Left(k, "unlock") => Closing(k, "idle")
    BY DEF Left, CloseAfter, Closing
  <2>3. CloseMoves(k, "unlock")
    BY ClosersMove
  <2> QED
    BY <1>1, <1>2, <2>1, <2>2, <2>3, PTL DEF World, CloseMoves, CloseScheduled
<1>4. World => (Closing(k, "release") ~> Closing(k, "unlock"))
  <2>1. Closing(k, "release") => Closable(k)
    BY DEF Closing, Closable
  <2>2. Left(k, "release") => Closing(k, "unlock")
    BY DEF Left, CloseAfter, Closing
  <2>3. CloseMoves(k, "release")
    BY ClosersMove
  <2> QED
    BY <1>1, <1>2, <2>1, <2>2, <2>3, PTL DEF World, CloseMoves, CloseScheduled
<1>5. World /\ []Rules => (Closing(k, "draining") ~> Closing(k, "release") \/ Closing(k, "unlock"))
  <2>1. World /\ []Rules => (Counting(k) ~> Emptied(k))
    <3>1. World /\ []Rules => Live
      BY LiveWorld
    <3>2. Live /\ Rules => (Counting(k) ~> Emptied(k))
      <4>1. \A n \in Nat : Live => Falls(k, n)
        BY DrainFalls
      <4> QED
        BY <4>1 DEF Rules, DrainRule
    <3> QED
      BY <3>1, <3>2, PTL
  <2>2. Sound /\ Closing(k, "draining") => Counting(k)
    BY FiniteReaders, FS_CardinalityType DEF Sound, Heard, Counting, Draining, Closing
  <2>3. /\ Closing(k, "draining") /\ Emptied(k) => Closable(k)
        /\ ~Closing(k, "draining") => Emptied(k)
    BY DEF Closing, Emptied, Closable
  <2>4. Sound /\ Closing(k, "draining") /\ Emptied(k) /\ [Next]_vars => Emptied(k)'
    BY NextCloseOnward DEF Sound, Heard, CloseOnward, Emptied, Closing, Drained
  <2>5. Left(k, "draining") => Closing(k, "release") \/ Closing(k, "unlock")
    BY DEF Left, CloseAfter, Closing
  <2>6. CloseMoves(k, "draining")
    BY ClosersMove
  <2> QED
    BY <1>1, <1>2, <2>1, <2>2, <2>3, <2>4, <2>5, <2>6, PTL DEF World, CloseMoves, CloseScheduled
<1>6. closing[k] \in {"draining", "release", "unlock"} =>
        Closing(k, "draining") \/ Closing(k, "release") \/ Closing(k, "unlock")
  BY DEF Closing
<1> QED
  BY <1>3, <1>4, <1>5, <1>6, PTL

\* So s.mu is without a writer again and again.
LEMMA WriterLeaves == World /\ []Rules => []<>(writer = None)
<1>1. ASSUME NEW k \in Closers PROVE World /\ []Rules => (writer = k => <>(writer = None))
  <2>1. /\ Sound /\ writer = k => closing[k] \in {"draining", "release", "unlock"}
        /\ Sound /\ Closing(k, "idle") => ~(writer = k)
    BY DEF Sound, Heard, Inv, Locked, Closing
  <2>2. Sound /\ writer = k /\ [Next]_vars => (writer = k)' \/ (writer = None)'
    BY NextCloseOnward DEF Sound, Heard, CloseOnward
  <2>3. World /\ []Rules => (closing[k] \in {"draining", "release", "unlock"} ~> Closing(k, "idle"))
    BY WritersReturn
  <2> QED
    BY <2>1, <2>2, <2>3, PTL DEF World
<1>2. Sound /\ World /\ []Rules => <>(writer = None)
  <2>1. Sound => writer = None \/ \E k \in Closers : writer = k
    BY DEF Sound, Heard, Inv, Types
  <2>2. writer = None => <>(writer = None)
    BY PTL
  <2> QED
    BY <1>1, <2>1, <2>2
<1> QED
  BY <1>2, PTL DEF World

\* Close returns, however many calls and however many other closers there are:
\* it waits for the calls it found, which return, and for no later one.
THEOREM CloseCallsReturn == Spec /\ []Fair /\ []NeverStuck /\ []Rules => CloseReturns
<1> SUFFICES ASSUME NEW k \in Closers
             PROVE  Spec /\ []Fair /\ []NeverStuck /\ []Rules => (Closing(k, "lock") ~> Closing(k, "idle"))
  BY DEF CloseReturns, Closing
<1>1. Spec /\ []Fair /\ []NeverStuck => World
  BY WorldHolds
<1>2. World /\ []Rules => (closing[k] \in {"draining", "release", "unlock"} ~> Closing(k, "idle"))
  BY WritersReturn
<1>3. NeverStuck => (Closing(k, "lock") /\ writer = None => ENABLED <<Announce(k)>>_vars)
  BY CloserNotStuck
<1>4. Fair => CloseScheduled(k)
  BY DEF Fair, Scheduled
<1>5. Left(k, "lock") => closing[k] \in {"draining", "release", "unlock"}
  BY DEF Left, CloseAfter
<1>6. CloseMoves(k, "lock")
  BY ClosersMove
<1> QED
  BY <1>1, <1>2, <1>3, <1>4, <1>5, <1>6, WriterLeaves, PTL DEF World, CloseMoves, CloseScheduled

\* A call at RLock goes past it, or parks until the writer is gone.
LEMMA EntryStep ==
  ASSUME NEW c \in Callers
  PROVE  /\ Sound /\ At(c, "rlock") /\ [Next]_vars => (At(c, "rlock") \/ At(c, "parked") \/ pc[c] \in ReadSteps)'
         /\ Sound /\ At(c, "rlock") /\ <<Run(c)>>_vars => (At(c, "parked") \/ pc[c] \in ReadSteps)'
         /\ Sound /\ At(c, "parked") /\ [Next]_vars => (At(c, "parked") \/ pc[c] \in ReadSteps)'
         /\ Sound /\ At(c, "parked") => ~(writer = None)
<1> USE SessionAssumption DEF SessionAssumption, At, Goto, callVars, poolVars, lockVars, closeVars,
      Sound, Heard, Inv, Types, ReadSteps
<1>1. ASSUME Sound, pc[c] \in {"rlock", "parked"}, Next \/ UNCHANGED vars
      PROVE  pc'[c] \in {pc[c], "parked"} \cup ReadSteps
  <2>1. CASE \E d \in Callers : RunStart(d) \/ Cancel(d) \/ Callback(d) \/ NativeReturn(d)
    BY <1>1, <2>1 DEF RunStart, Cancel, Callback, CallbackStart, Terminate, SetTerminate, CallbackClose, NativeReturn
  <2>2. CASE \E d \in Callers : RLock(d) \/ RunOpen(d) \/ RunGated(d) \/ RunReject(d) \/ RunPrepare(d)
    BY <1>1, <2>2 DEF RLock, MayRead, RunOpen, RunGated, RunReject, RunPrepare, Leave
  <2>3. CASE \E d \in Callers : WatchContext(d) \/ RunSettle(d) \/ OutputsFree(d) \/ FinishStop(d)
    BY <1>1, <2>3 DEF WatchContext, RunSettle, OutputsFree, FinishStop, AfterInference
  <2>4. CASE \E d \in Callers : FinishFree(d) \/ RunUnpin(d) \/ RunRelease(d) \/ RUnlock(d)
    BY <1>1, <2>4 DEF FinishFree, RunUnpin, RunRelease, RUnlock, Leave
  <2>5. CASE \E d \in Callers : RunGate(d) \/ RunQueued(d)
    BY <1>1, <2>5 DEF RunGate, RunQueued
  <2>6. ASSUME NEW d \in Callers, Ungate(d) PROVE pc'[c] = pc[c]
    <3>1. queue # <<>> => Head(queue) \in Callers /\ pc[Head(queue)] = "queued"
      BY <1>1 DEF Queued
    <3> QED
      BY <1>1, <2>6, <3>1 DEF Ungate
  <2>7. CASE \E k \in Closers : CloseStart(k) \/ Announce(k) \/ Close(k)
    BY <1>1, <2>7 DEF CloseStart, Announce, Close, CloseFree, CloseRelease, CloseUnlock
  <2>8. CASE UNCHANGED vars
    BY <1>1, <2>8 DEF vars
  <2> QED
    BY <1>1, <2>1, <2>2, <2>3, <2>4, <2>5, <2>6, <2>7, <2>8 DEF Next, Run
<1>2. ASSUME Sound, At(c, "rlock"), Run(c) PROVE pc'[c] \in {"parked", "open"}
  BY <1>2 DEF Run, RLock, RunOpen, RunGate, RunQueued, RunGated, RunReject, RunPrepare, WatchContext,
     RunSettle, OutputsFree, FinishStop, FinishFree, RunUnpin, RunRelease, Ungate, RUnlock
<1> QED
  BY <1>1, <1>2 DEF Blocked

\* Every call returns: what it finds at the lock, at the gate, in the native
\* library and in its callback keeps none for ever.
THEOREM CallsReturn == Spec /\ []Fair /\ []NeverStuck /\ []Rules => RunReturns
<1> SUFFICES ASSUME NEW c \in Callers
             PROVE  Spec /\ []Fair /\ []NeverStuck /\ []Rules => (At(c, "rlock") ~> At(c, "idle"))
  BY DEF RunReturns
<1>1. Spec /\ []Fair /\ []NeverStuck => World
  BY WorldHolds
<1>2. World /\ Rules => (pc[c] \in ReadSteps ~> At(c, "idle"))
  <2>1. World /\ QueueRule(c) => Returns(c)
    BY ReadersReturn
  <2> QED
    BY <2>1 DEF Rules, Returns
<1>3. NeverStuck => (Runnable(c) => ENABLED <<Run(c)>>_vars)
  BY NotStuck
<1>4. Fair => CallScheduled(c)
  BY DEF Fair, Scheduled
<1>5. At(c, "rlock") => Runnable(c)
  BY DEF At, Runnable
<1> QED
  BY <1>1, <1>2, <1>3, <1>4, <1>5, EntryStep, WriterLeaves, PTL DEF World, CallScheduled
=============================================================================
