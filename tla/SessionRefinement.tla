-------------------------- MODULE SessionRefinement -------------------------
(***************************************************************************)
(* Session implements SessionService, for any callers, closers and slices. *)
(***************************************************************************)
EXTENDS SessionProofs

\* What the caller of call c sees stays the same.
Unseen(c) == Phase(c)' = Phase(c) /\ Shown(c)' = Shown(c)

\* A step no caller sees maps to a stutter.
LEMMA Quiet ==
  ASSUME native' = native, \A c \in Callers : Unseen(c)
  PROVE  UNCHANGED Service!vars
  BY DEF Unseen, Service!vars

\* A step that one caller sees changes its phase and answer only.
LEMMA Moved ==
  ASSUME NEW c \in Callers, \A d \in Callers \ {c} : Unseen(d)
  PROVE  /\ [d \in Callers |-> Phase(d)]' = [[d \in Callers |-> Phase(d)] EXCEPT ![c] = Phase(c)']
         /\ [d \in Callers |-> Shown(d)]' = [[d \in Callers |-> Shown(d)] EXCEPT ![c] = Shown(c)']
  BY DEF Unseen

\* A call whose context was done before it.
LEMMA Refused ==
  ASSUME NEW c \in Callers, \A d \in Callers \ {c} : Unseen(d), native' = native,
         Phase(c) = "idle", Phase(c)' = "idle", Shown(c)' = "ctx"
  PROVE  Service!Next
<1> DEFINE phases == [d \in Callers |-> Phase(d)]
<1>1. \A d \in Callers : Phase(d)' = Phase(d)
  BY DEF Unseen
<1>2. phases' = phases
  BY <1>1
<1>3. Service!Refuse(c)
  BY <1>2, Moved DEF Service!Refuse, Service!Answer
<1> QED
  BY <1>3 DEF Service!Next

\* A call that ends without an execution.
LEMMA Declined ==
  ASSUME NEW c \in Callers, \A d \in Callers \ {c} : Unseen(d), native' = native,
         Phase(c) = "called", Phase(c)' = "leaving",
         out'[c] \in {"ctx", "invalid", "failed"} \cup IF native THEN {} ELSE {"closed"}
  PROVE  Service!Next
<1>1. Shown(c)' = out'[c]
  BY DEF Shown
<1>2. Service!Decline(c)
  BY <1>1, Moved DEF Service!Decline, Service!Move, Service!Answer
<1> QED
  BY <1>2 DEF Service!Next

\* A call that starts its native run.
LEMMA Executed ==
  ASSUME Inv, NEW c \in Callers, \A d \in Callers \ {c} : Unseen(d), native' = native,
         pc[c] \in {"prepare", "watch"}, Phase(c)' = "executing"
  PROVE  Service!Next
<1>1. native /\ Phase(c) = "called"
  BY DEF Inv, InUse, UsingSteps, NativeSteps, Phase, At
<1>2. Gated => \A d \in Callers : Phase(d) # "executing"
  BY DEF Inv, GateHeld, GatedSteps, NativeSteps, Phase, At
<1>3. Shown(c) = "none" /\ Shown(c)' = "none"
  BY <1>1 DEF Shown
<1>4. Service!Execute(c)
  BY <1>1, <1>2, <1>3, Moved DEF Service!Execute, Service!Move
<1> QED
  BY <1>4 DEF Service!Next

\* A call whose native run has ended.
LEMMA Completed ==
  ASSUME NEW c \in Callers, \A d \in Callers \ {c} : Unseen(d), native' = native,
         Phase(c) = "executing", Phase(c)' = "leaving",
         out'[c] \in {"ok", "ctx", "invalid", "failed"}
  PROVE  Service!Next
<1>1. Shown(c)' = out'[c]
  BY DEF Shown
<1>2. Service!Complete(c)
  BY <1>1, Moved DEF Service!Complete, Service!Move, Service!Answer
<1> QED
  BY <1>2 DEF Service!Next

\* A step of the service, or none.
Refined == UNCHANGED Service!vars \/ Service!Next

\* Every step of a session is a step of the service, or none.
LEMMA NextRefines == ASSUME Inv, [Next]_vars PROVE Refined
<1> USE DEF Refined, Inv, Types, Steps, ReadSteps, GatedSteps, NativeSteps, Results,
      At, Goto, Outcome, Done, callVars, poolVars, lockVars, closeVars, Phase, Shown, Unseen
<1>1. ASSUME NEW c \in Callers, RunStart(c) PROVE Refined
  <2>1. native' = native /\ \A d \in Callers \ {c} : Unseen(d)
    BY <1>1 DEF RunStart
  <2>2. CASE Outcome(c, "ctx") /\ UNCHANGED <<pc, ctx, into>>
    <3>1. Phase(c) = "idle" /\ Phase(c)' = "idle" /\ Shown(c)' = "ctx"
      BY <1>1, <2>2 DEF RunStart
    <3> QED
      BY <2>1, <3>1, Refused
  <2>3. CASE Outcome(c, "none") /\ Goto(c, "rlock")
    <3>1. Phase(c) = "idle" /\ Phase(c)' = "called" /\ Shown(c)' = "none"
      BY <1>1, <2>3 DEF RunStart
    <3>2. Service!Invoke(c)
      BY <2>1, <3>1, Moved DEF Service!Invoke, Service!Move, Service!Answer
    <3> QED
      BY <3>2 DEF Service!Next
  <2> QED
    BY <1>1, <2>2, <2>3 DEF RunStart
<1>2. ASSUME NEW c \in Callers, Cancel(c) PROVE Refined
  <2>1. native' = native /\ \A d \in Callers : Unseen(d)
    BY <1>2 DEF Cancel
  <2> QED
    BY <2>1, Quiet
<1>3. ASSUME NEW c \in Callers, RLock(c) PROVE Refined
  <2>1. native' = native /\ \A d \in Callers : Unseen(d)
    BY <1>3 DEF RLock, MayRead
  <2> QED
    BY <2>1, Quiet
<1>4. ASSUME NEW c \in Callers, RunOpen(c) PROVE Refined
  <2>1. native' = native /\ \A d \in Callers \ {c} : Unseen(d)
    BY <1>4 DEF RunOpen
  <2>2. CASE ~native
    <3>1. Phase(c) = "called" /\ Phase(c)' = "leaving"
          /\ out'[c] \in {"ctx", "invalid", "failed"} \cup IF native THEN {} ELSE {"closed"}
      BY <1>4, <2>2 DEF RunOpen
    <3> QED
      BY <2>1, <3>1, Declined
  <2>3. CASE native
    <3>1. Unseen(c)
      BY <1>4, <2>3 DEF RunOpen
    <3> QED
      BY <2>1, <3>1, Quiet
  <2> QED
    BY <1>4, <2>2, <2>3 DEF RunOpen
<1>5. ASSUME NEW c \in Callers, RunGate(c) PROVE Refined
  <2>1. native' = native /\ \A d \in Callers \ {c} : Unseen(d)
    BY <1>5 DEF RunGate, GateFree
  <2>2. CASE Outcome(c, "ctx") /\ Goto(c, "runlock")
    <3>1. Phase(c) = "called" /\ Phase(c)' = "leaving"
          /\ out'[c] \in {"ctx", "invalid", "failed"} \cup IF native THEN {} ELSE {"closed"}
      BY <1>5, <2>2 DEF RunGate, GateFree
    <3> QED
      BY <2>1, <3>1, Declined
  <2>3. CASE UNCHANGED out /\ pc' \in {[pc EXCEPT ![c] = "gated"], [pc EXCEPT ![c] = "queued"]}
    <3>1. Unseen(c)
      BY <1>5, <2>3 DEF RunGate, GateFree
    <3> QED
      BY <2>1, <3>1, Quiet
  <2> QED
    BY <1>5, <2>2, <2>3 DEF RunGate, GateFree
<1>6. ASSUME NEW c \in Callers, RunQueued(c) PROVE Refined
  <2>1. native' = native /\ \A d \in Callers \ {c} : Unseen(d)
    BY <1>6 DEF RunQueued
  <2>2. CASE TRUE
    <3>1. Phase(c) = "called" /\ Phase(c)' = "leaving"
          /\ out'[c] \in {"ctx", "invalid", "failed"} \cup IF native THEN {} ELSE {"closed"}
      BY <1>6, <2>2 DEF RunQueued
    <3> QED
      BY <2>1, <3>1, Declined
  <2> QED
    BY <1>6, <2>2 DEF RunQueued
<1>7. ASSUME NEW c \in Callers, RunGated(c) PROVE Refined
  <2>1. native' = native /\ \A d \in Callers \ {c} : Unseen(d)
    BY <1>7 DEF RunGated
  <2>2. CASE Done(c)
    <3>1. Phase(c) = "called" /\ Phase(c)' = "leaving"
          /\ out'[c] \in {"ctx", "invalid", "failed"} \cup IF native THEN {} ELSE {"closed"}
      BY <1>7, <2>2 DEF RunGated
    <3> QED
      BY <2>1, <3>1, Declined
  <2>3. CASE ~Done(c)
    <3>1. Unseen(c)
      BY <1>7, <2>3 DEF RunGated
    <3> QED
      BY <2>1, <3>1, Quiet
  <2> QED
    BY <1>7, <2>2, <2>3 DEF RunGated
<1>8. ASSUME NEW c \in Callers, RunReject(c) PROVE Refined
  <2>1. native' = native /\ \A d \in Callers \ {c} : Unseen(d)
    BY <1>8 DEF RunReject, Leave
  <2>2. CASE TRUE
    <3>1. Phase(c) = "called" /\ Phase(c)' = "leaving"
          /\ out'[c] \in {"ctx", "invalid", "failed"} \cup IF native THEN {} ELSE {"closed"}
      BY <1>8, <2>2 DEF RunReject, Leave
    <3> QED
      BY <2>1, <3>1, Declined
  <2> QED
    BY <1>8, <2>2 DEF RunReject, Leave
<1>9. ASSUME NEW c \in Callers, RunPrepare(c) PROVE Refined
  <2>1. native' = native /\ \A d \in Callers \ {c} : Unseen(d)
    BY <1>9 DEF RunPrepare, Pinned
  <2>2. CASE Outcome(c, "invalid") /\ Goto(c, "unpin")
    <3>1. Phase(c) = "called" /\ Phase(c)' = "leaving"
          /\ out'[c] \in {"ctx", "invalid", "failed"} \cup IF native THEN {} ELSE {"closed"}
      BY <1>9, <2>2 DEF RunPrepare, Pinned
    <3> QED
      BY <2>1, <3>1, Declined
  <2>3. CASE UNCHANGED out /\ Goto(c, "native")
    <3>1. pc[c] \in {"prepare", "watch"} /\ Phase(c)' = "executing"
      BY <1>9, <2>3 DEF RunPrepare, Pinned
    <3> QED
      BY <2>1, <3>1, Executed
  <2>4. CASE UNCHANGED out /\ Goto(c, "watch")
    <3>1. Unseen(c)
      BY <1>9, <2>4 DEF RunPrepare, Pinned
    <3> QED
      BY <2>1, <3>1, Quiet
  <2> QED
    BY <1>9, <2>2, <2>3, <2>4 DEF RunPrepare, Pinned
<1>10. ASSUME NEW c \in Callers, WatchContext(c) PROVE Refined
  <2>1. native' = native /\ \A d \in Callers \ {c} : Unseen(d)
    BY <1>10 DEF WatchContext
  <2>2. CASE Outcome(c, "failed") /\ Goto(c, "unpin")
    <3>1. Phase(c) = "called" /\ Phase(c)' = "leaving"
          /\ out'[c] \in {"ctx", "invalid", "failed"} \cup IF native THEN {} ELSE {"closed"}
      BY <1>10, <2>2 DEF WatchContext
    <3> QED
      BY <2>1, <3>1, Declined
  <2>3. CASE UNCHANGED out /\ Goto(c, "native")
    <3>1. pc[c] \in {"prepare", "watch"} /\ Phase(c)' = "executing"
      BY <1>10, <2>3 DEF WatchContext
    <3> QED
      BY <2>1, <3>1, Executed
  <2> QED
    BY <1>10, <2>2, <2>3 DEF WatchContext
<1>11. ASSUME NEW c \in Callers, NativeReturn(c) PROVE Refined
  <2>1. native' = native /\ \A d \in Callers : Unseen(d)
    BY <1>11 DEF NativeReturn
  <2> QED
    BY <2>1, Quiet
<1>12. ASSUME NEW c \in Callers, RunSettle(c) PROVE Refined
  <2>1. native' = native /\ \A d \in Callers \ {c} : Unseen(d)
    BY <1>12 DEF RunSettle, Settled, AfterInference
  <2>2. CASE Goto(c, "unpin")
    <3>1. Phase(c) = "executing" /\ Phase(c)' = "leaving"
          /\ out'[c] \in {"ok", "ctx", "invalid", "failed"}
      BY <1>12, <2>2 DEF RunSettle, Settled, AfterInference, Owned
    <3> QED
      BY <2>1, <3>1, Completed
  <2>3. CASE Goto(c, "outputs") \/ Goto(c, "finish")
    <3>1. Unseen(c)
      BY <1>12, <2>3 DEF RunSettle, Settled, AfterInference
    <3> QED
      BY <2>1, <3>1, Quiet
  <2> QED
    BY <1>12, <2>2, <2>3 DEF RunSettle, Settled, AfterInference
<1>13. ASSUME NEW c \in Callers, OutputsFree(c) PROVE Refined
  <2>1. native' = native /\ \A d \in Callers \ {c} : Unseen(d)
    BY <1>13 DEF OutputsFree, AfterInference
  <2>2. CASE Goto(c, "unpin")
    <3>1. Phase(c) = "executing" /\ Phase(c)' = "leaving"
          /\ out'[c] \in {"ok", "ctx", "invalid", "failed"}
      BY <1>13, <2>2 DEF OutputsFree, AfterInference, Owned
    <3> QED
      BY <2>1, <3>1, Completed
  <2>3. CASE Goto(c, "finish")
    <3>1. Unseen(c)
      BY <1>13, <2>3 DEF OutputsFree, AfterInference
    <3> QED
      BY <2>1, <3>1, Quiet
  <2> QED
    BY <1>13, <2>2, <2>3 DEF OutputsFree, AfterInference
<1>14. ASSUME NEW c \in Callers, FinishStop(c) PROVE Refined
  <2>1. native' = native /\ \A d \in Callers : Unseen(d)
    BY <1>14 DEF FinishStop, Joined
  <2> QED
    BY <2>1, Quiet
<1>15. ASSUME NEW c \in Callers, FinishFree(c) PROVE Refined
  <2>1. native' = native /\ \A d \in Callers \ {c} : Unseen(d)
    BY <1>15 DEF FinishFree
  <2>2. CASE TRUE
    <3>1. Phase(c) = "executing" /\ Phase(c)' = "leaving"
          /\ out'[c] \in {"ok", "ctx", "invalid", "failed"}
      BY <1>15, <2>2 DEF FinishFree, Owned
    <3> QED
      BY <2>1, <3>1, Completed
  <2> QED
    BY <1>15, <2>2 DEF FinishFree
<1>16. ASSUME NEW c \in Callers, RunUnpin(c) PROVE Refined
  <2>1. native' = native /\ \A d \in Callers : Unseen(d)
    BY <1>16 DEF RunUnpin
  <2> QED
    BY <2>1, Quiet
<1>17. ASSUME NEW c \in Callers, RunRelease(c) PROVE Refined
  <2>1. native' = native /\ \A d \in Callers : Unseen(d)
    BY <1>17 DEF RunRelease, Leave, Cleared
  <2> QED
    BY <2>1, Quiet
<1>18. ASSUME NEW c \in Callers, Ungate(c) PROVE Refined
  <2>1. native' = native /\ \A d \in Callers : Unseen(d)
    <3>1. CASE queue = <<>>
      BY <1>18, <3>1 DEF Ungate
    <3>2. CASE queue # <<>>
      <4>1. Head(queue) \in Callers /\ pc[Head(queue)] = "queued"
        BY <3>2 DEF Queued
      <4> QED
        BY <1>18, <3>2, <4>1 DEF Ungate
    <3> QED
      BY <3>1, <3>2
  <2> QED
    BY <2>1, Quiet
<1>19. ASSUME NEW c \in Callers, RUnlock(c) PROVE Refined
  <2>1. native' = native /\ \A d \in Callers \ {c} : Unseen(d)
    BY <1>19 DEF RUnlock
  <2>2. Phase(c) = "leaving" /\ Phase(c)' = "idle" /\ Shown(c)' = Shown(c)
    BY <1>19 DEF RUnlock
  <2> DEFINE answers == [d \in Callers |-> Shown(d)]
  <2>3. answers' = answers
    <3>1. \A d \in Callers : Shown(d)' = Shown(d)
      BY <2>1, <2>2 DEF Unseen
    <3> QED
      BY <3>1
  <2>4. Service!Return(c)
    BY <2>1, <2>2, <2>3, Moved DEF Service!Return, Service!Move
  <2> QED
    BY <2>4 DEF Service!Next
<1>20. ASSUME NEW c \in Callers, CallbackStart(c) PROVE Refined
  <2>1. native' = native /\ \A d \in Callers : Unseen(d)
    BY <1>20 DEF CallbackStart
  <2> QED
    BY <2>1, Quiet
<1>21. ASSUME NEW c \in Callers, Terminate(c) PROVE Refined
  <2>1. native' = native /\ \A d \in Callers : Unseen(d)
    BY <1>21 DEF Terminate, SetTerminate
  <2> QED
    BY <2>1, Quiet
<1>22. ASSUME NEW c \in Callers, CallbackClose(c) PROVE Refined
  <2>1. native' = native /\ \A d \in Callers : Unseen(d)
    BY <1>22 DEF CallbackClose
  <2> QED
    BY <2>1, Quiet
<1>23. ASSUME NEW k \in Closers, CloseStart(k) PROVE Refined
  <2>1. native' = native /\ \A d \in Callers : Unseen(d)
    BY <1>23 DEF CloseStart
  <2> QED
    BY <2>1, Quiet
<1>24. ASSUME NEW k \in Closers, Announce(k) PROVE Refined
  <2>1. native' = native /\ \A d \in Callers : Unseen(d)
    BY <1>24 DEF Announce
  <2> QED
    BY <2>1, Quiet
<1>25. ASSUME NEW k \in Closers, CloseFree(k) PROVE Refined
  <2>1. \A d \in Callers : Unseen(d)
    BY <1>25 DEF CloseFree
  <2>2. CASE ~native
    BY <1>25, <2>1, <2>2, Quiet DEF CloseFree
  <2>3. CASE native
    <3>1. \A d \in Callers : Phase(d) # "executing"
      BY <1>25 DEF CloseFree, Drained, Locked
    <3>2. native' = FALSE
      BY <1>25 DEF CloseFree
    <3>3. Service!Close
      BY <2>1, <2>3, <3>1, <3>2 DEF Service!Close
    <3> QED
      BY <3>3 DEF Service!Next
  <2> QED
    BY <2>2, <2>3
<1>26. ASSUME NEW k \in Closers, CloseRelease(k) PROVE Refined
  <2>1. native' = native /\ \A d \in Callers : Unseen(d)
    BY <1>26 DEF CloseRelease
  <2> QED
    BY <2>1, Quiet
<1>27. ASSUME NEW k \in Closers, CloseUnlock(k) PROVE Refined
  <2>1. native' = native /\ \A d \in Callers : Unseen(d)
    BY <1>27 DEF CloseUnlock
  <2> QED
    BY <2>1, Quiet
<1>28. CASE UNCHANGED vars
  <2>1. native' = native /\ \A d \in Callers : Unseen(d)
    BY <1>28 DEF vars
  <2> QED
    BY <2>1, Quiet
<1> QED
  BY <1>1, <1>2, <1>3, <1>4, <1>5, <1>6, <1>7, <1>8, <1>9, <1>10, <1>11, <1>12, <1>13, <1>14,
     <1>15, <1>16, <1>17, <1>18, <1>19, <1>20, <1>21, <1>22, <1>23, <1>24, <1>25, <1>26, <1>27, <1>28
     DEF Next, Run, Callback, Close

\* A session implements the promise made to its callers: at most one execution
\* per call, only while open, exclusively behind a gate, and never a close
\* during an execution.
THEOREM Implementation == Spec => ImplementsService
<1>1. ASSUME Init PROVE Service!Init
  <2>1. ASSUME NEW c \in Callers PROVE Phase(c) = "idle" /\ Shown(c) = "none"
    <3>1. pc[c] = "idle" /\ out[c] = "none"
      BY <1>1 DEF Init
    <3>2. Phase(c) = "idle"
      BY <3>1 DEF Phase, At, NativeSteps
    <3> QED
      BY <3>1, <3>2 DEF Shown
  <2>2. native = TRUE
    BY <1>1 DEF Init
  <2>3. /\ [c \in Callers |-> Phase(c)] = [c \in Callers |-> "idle"]
        /\ [c \in Callers |-> Shown(c)] = [c \in Callers |-> "none"]
    BY <2>1
  <2> QED
    BY <2>2, <2>3 DEF Service!Init
<1>2. Inv /\ [Next]_vars => [Service!Next]_(Service!vars)
  BY NextRefines DEF Refined
<1> QED
  BY <1>1, <1>2, Invariance, PTL DEF Spec, ImplementsService, Service!Spec
-----------------------------------------------------------------------------
(* The life of the session.                                                *)

\* The reference on the runtime outlives the native session, until the closer
\* that freed the session releases it.
Released ==
  /\ \A k \in Closers : closing[k] = "release" => leased
  /\ \A k \in Closers : closing[k] = "unlock" => ~native /\ ~leased
  /\ ~native /\ leased => \E k \in Closers : closing[k] = "release"

\* Every step preserves it.
LEMMA NextReleased == ASSUME Inv, Released, [Next]_vars PROVE Released'
<1> USE DEF Inv, Types, Locked, InUse, Released
<1>1. ASSUME NEW k \in Closers, CloseStart(k) PROVE Released'
  BY <1>1 DEF CloseStart
<1>2. ASSUME NEW k \in Closers, Announce(k) PROVE Released'
  BY <1>2 DEF Announce
<1>3. ASSUME NEW k \in Closers, CloseFree(k) PROVE Released'
  BY <1>3 DEF CloseFree
<1>4. ASSUME NEW k \in Closers, CloseRelease(k) PROVE Released'
  BY <1>4 DEF CloseRelease
<1>5. ASSUME NEW k \in Closers, CloseUnlock(k) PROVE Released'
  BY <1>5 DEF CloseUnlock
<1>6. CASE UNCHANGED closeVars
  BY <1>6 DEF closeVars
<1>7. ASSUME NEW c \in Callers,
             RunStart(c) \/ Cancel(c) \/ Run(c) \/ Callback(c) \/ NativeReturn(c)
      PROVE  UNCHANGED closeVars
  BY <1>7 DEF Run, Callback, RunStart, Cancel, RLock, RunOpen, RunGate, RunQueued, RunGated,
     RunReject, RunPrepare, WatchContext, NativeReturn, RunSettle, OutputsFree, FinishStop,
     FinishFree, RunUnpin, RunRelease, Ungate, RUnlock, CallbackStart, Terminate, SetTerminate, CallbackClose
<1>8. CASE UNCHANGED vars
  BY <1>6, <1>8 DEF vars
<1> QED
  BY <1>1, <1>2, <1>3, <1>4, <1>5, <1>6, <1>7, <1>8 DEF Next, Close

\* A step that concerns neither the lock nor the closing maps to a stutter.
LEMMA Unleased ==
  ASSUME UNCHANGED <<readers, writer, native, leased>>
  PROVE  UNCHANGED Lease!vars
  BY DEF Lease!vars

\* Every step of a session is a step of its abstract life, or none.
LEMMA NextLease == ASSUME Inv, Released, [Next]_vars PROVE [Lease!Next]_(Lease!vars)
<1> USE DEF Inv, Types, Locked, InUse, Released, This
<1>1. ASSUME NEW c \in Callers, RLock(c) PROVE [Lease!Next]_(Lease!vars)
  <2>1. CASE writer = None /\ native
    <3>1. c \notin readers /\ readers' = readers \cup {c} /\ UNCHANGED <<writer, native, leased>>
      BY <1>1, <2>1 DEF RLock, MayRead, ReadSteps, GatedSteps, NativeSteps, At, closeVars
    <3>2. Lease!Enter("this", c)
      BY <2>1, <3>1 DEF Lease!Enter
    <3> QED
      BY <3>2 DEF Lease!Next
  <2>2. CASE ~native
    BY <1>1, <2>2 DEF RLock, closeVars, Lease!vars
  <2>3. CASE writer # None
    BY <1>1, <2>3, Unleased DEF RLock, MayRead, closeVars
  <2> QED
    BY <2>1, <2>2, <2>3
<1>2. ASSUME NEW c \in Callers, RUnlock(c) PROVE [Lease!Next]_(Lease!vars)
  <2>1. CASE native
    <3>1. c \in readers /\ readers' = readers \ {c} /\ UNCHANGED <<writer, native, leased>>
      BY <1>2 DEF RUnlock, ReadSteps, At, closeVars
    <3>2. Lease!Leave("this", c)
      BY <2>1, <3>1 DEF Lease!Leave
    <3> QED
      BY <3>2 DEF Lease!Next
  <2>2. CASE ~native
    BY <1>2, <2>2 DEF RUnlock, closeVars, Lease!vars
  <2> QED
    BY <2>1, <2>2
<1>3. ASSUME NEW k \in Closers, Announce(k) PROVE [Lease!Next]_(Lease!vars)
  <2>1. Lease!Announce("this", k)
    BY <1>3 DEF Announce, Lease!Announce
  <2> QED
    BY <2>1 DEF Lease!Next
<1>4. ASSUME NEW k \in Closers, CloseFree(k) PROVE [Lease!Next]_(Lease!vars)
  <2>1. UNCHANGED <<readers, writer, leased>> /\ native' = FALSE /\ readers = {} /\ writer = k
    BY <1>4 DEF CloseFree, Drained, lockVars
  <2>2. CASE ~native
    BY <2>1, <2>2, Unleased
  <2>3. CASE native
    <3>1. Lease!Free("this")
      BY <2>1, <2>3, SessionAssumption DEF SessionAssumption, Lease!Free, Lease!Advance
    <3> QED
      BY <3>1 DEF Lease!Next
  <2> QED
    BY <2>2, <2>3
<1>5. ASSUME NEW k \in Closers, CloseRelease(k) PROVE [Lease!Next]_(Lease!vars)
  <2>1. /\ UNCHANGED <<readers, writer, native>> /\ leased' = FALSE
        /\ leased /\ ~native /\ writer = k
    BY <1>5 DEF CloseRelease, lockVars
  <2>2. Lease!Release("this")
    BY <2>1, SessionAssumption DEF SessionAssumption, Lease!Release, Lease!Advance
  <2> QED
    BY <2>2 DEF Lease!Next
<1>6. ASSUME NEW k \in Closers, CloseUnlock(k) PROVE [Lease!Next]_(Lease!vars)
  <2>1. UNCHANGED <<native, leased>> /\ writer' = None /\ writer = k /\ ~leased /\ ~native
    BY <1>6 DEF CloseUnlock
  <2>2. Lease!Withdraw("this")
    BY <2>1, SessionAssumption DEF SessionAssumption, Lease!Withdraw
  <2> QED
    BY <2>2 DEF Lease!Next
<1>7. ASSUME NEW c \in Callers,
             RunStart(c) \/ Cancel(c) \/ Callback(c) \/ NativeReturn(c)
               \/ RunOpen(c) \/ RunGate(c) \/ RunQueued(c) \/ RunGated(c) \/ RunReject(c)
               \/ RunPrepare(c) \/ WatchContext(c) \/ RunSettle(c) \/ OutputsFree(c)
               \/ FinishStop(c) \/ FinishFree(c) \/ RunUnpin(c) \/ RunRelease(c) \/ Ungate(c)
      PROVE  UNCHANGED <<readers, writer, native, leased>>
  BY <1>7 DEF lockVars, closeVars, Callback, RunStart, Cancel, RunOpen, RunGate, RunQueued,
     RunGated, RunReject, RunPrepare, WatchContext, NativeReturn, RunSettle, OutputsFree,
     FinishStop, FinishFree, RunUnpin, RunRelease, Ungate, CallbackStart, Terminate, SetTerminate, CallbackClose
<1>8. ASSUME NEW k \in Closers, CloseStart(k) PROVE UNCHANGED <<readers, writer, native, leased>>
  BY <1>8 DEF CloseStart, lockVars
<1>9. CASE UNCHANGED vars
  BY <1>9, Unleased DEF vars, lockVars, closeVars
<1> QED
  BY <1>1, <1>2, <1>3, <1>4, <1>5, <1>6, <1>7, <1>8, <1>9, Unleased DEF Next, Run, Close

\* A session lives as its runtime relies on: used only while it is open and
\* unannounced, freed once and unused, with the runtime released after it.
THEOREM LeaseKept == Spec => ImplementsLease
<1>1. Init => Released /\ Lease!Init
  BY DEF Init, Released, Lease!Init, This
<1>2. Inv /\ Released /\ [Next]_vars => Released'
  BY NextReleased
<1>3. Inv /\ Released /\ [Next]_vars => [Lease!Next]_(Lease!vars)
  BY NextLease
<1> QED
  BY <1>1, <1>2, <1>3, Invariance, PTL DEF Spec, ImplementsLease, Lease!Spec
=============================================================================
