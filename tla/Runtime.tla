------------------------------- MODULE Runtime ------------------------------
(***************************************************************************)
(* The Runtime of runtime.go after a successful Open, the sessions loaded  *)
(* from it, and threads that load, run and close sessions and close the    *)
(* runtime.  mu is r.mu; users and closer are the two sides of each        *)
(* session's own s.mu, whose queueing module Session has in detail.        *)
(*                                                                         *)
(* pc[t] is the next step of thread t's current operation, at[t] the       *)
(* session it is about.                                                    *)
(*                                                                         *)
(* A name such as Mine_Always is not part of the model: it is a faulty     *)
(* variant of the definition after it, with which a property that the      *)
(* README names fails.                                                     *)
(***************************************************************************)
EXTENDS Integers, FiniteSets

CONSTANTS
  Threads,   \* goroutines using the runtime and its sessions
  Sessions,  \* Session values, loaded at most once each
  None,      \* no thread or session
  Owner      \* the runtime as a holder of its library

ASSUME RuntimeAssumption ==
  /\ IsFiniteSet(Sessions)
  /\ None \notin Threads \cup Sessions
  /\ Owner \notin Sessions

VARIABLES
  pc, at,
  mu,       \* the thread holding r.mu
  native,   \* r.native is not nil: the library is mapped
  refs,     \* r.refs
  closed,   \* r.closed
  options,  \* threads with a live OrtSessionOptions
  handles,  \* sessions whose native session is live: s.native is not nil
  known,    \* sessions that Load has returned
  users,    \* threads holding s.mu of each session for reading
  closer    \* the thread that announced itself as its writer

vars == <<pc, at, mu, native, refs, closed, options, handles, known, users, closer>>

LoadSteps == {"lock", "options", "create", "commit", "freeOptions", "unlock"}
CloseSteps == {"drain", "lockRuntime", "release", "unlockSession"}
Steps == {"idle", "run", "closeRuntime", "lockToClose"} \cup LoadSteps \cup CloseSteps

TypeOK ==
  /\ pc \in [Threads -> Steps]
  /\ at \in [Threads -> Sessions \cup {None}]
  /\ mu \in Threads \cup {None}
  /\ native \in BOOLEAN /\ closed \in BOOLEAN
  /\ refs \in Nat
  /\ options \subseteq Threads
  /\ handles \subseteq Sessions /\ known \subseteq Sessions
  /\ users \in [Sessions -> SUBSET Threads]
  /\ closer \in [Sessions -> Threads \cup {None}]

Init ==
  /\ pc = [t \in Threads |-> "idle"] /\ at = [t \in Threads |-> None]
  /\ mu = None /\ native = TRUE /\ refs = 1 /\ closed = FALSE
  /\ options = {} /\ handles = {} /\ known = {}
  /\ users = [s \in Sessions |-> {}] /\ closer = [s \in Sessions |-> None]

At(t, step) == pc[t] = step
Goto(t, step) == pc' = [pc EXCEPT ![t] = step]
Begin(t, step, s) == At(t, "idle") /\ Goto(t, step) /\ at' = [at EXCEPT ![t] = s]
\* A thread between operations is about no session.
End(t) == Goto(t, "idle") /\ at' = [at EXCEPT ![t] = None]

Lock(t) == mu = None /\ mu' = t

\* release: the caller's reference is dropped, the last one closes the library.
Release_Early == refs' = refs - 1 /\ native' = (refs' > 1)
Release_Mapped == refs' = refs - 1 /\ UNCHANGED native
Release == refs' = refs - 1 /\ native' = (refs' # 0)

-----------------------------------------------------------------------------
(* Load and LoadBytes, under r.mu from the check of closed to the return.  *)

LoadStart(t, s) ==
  /\ Begin(t, "lock", s)
  /\ s \notin known /\ \A u \in Threads : at[u] # s
  /\ UNCHANGED <<mu, native, refs, closed, options, handles, known, users, closer>>

Open_Mapped == native
Open == ~closed /\ native
LoadLock_Kept(t) ==
  /\ At(t, "lock") /\ Lock(t)
  /\ IF Open THEN Goto(t, "options") /\ UNCHANGED at ELSE End(t)
  /\ UNCHANGED <<native, refs, closed, options, handles, known, users, closer>>
LoadLock(t) ==
  /\ At(t, "lock") /\ Lock(t)
  /\ Goto(t, IF Open THEN "options" ELSE "unlock")
  /\ UNCHANGED <<at, native, refs, closed, options, handles, known, users, closer>>

\* Invalid thread counts, or oc_options_new.
LoadOptions(t) ==
  /\ At(t, "options")
  /\ \/ options' = options \cup {t} /\ Goto(t, "create")
     \/ UNCHANGED options /\ Goto(t, "unlock")
  /\ UNCHANGED <<at, mu, native, refs, closed, handles, known, users, closer>>

\* Configuration entries, providers and oc_load: any of them may fail.
LoadCreate(t) ==
  /\ At(t, "create")
  /\ \/ handles' = handles \cup {at[t]} /\ Goto(t, "commit")
     \/ UNCHANGED handles /\ Goto(t, "freeOptions")
  /\ UNCHANGED <<at, mu, native, refs, closed, options, known, users, closer>>

\* A port with an unsupported type rolls the load back; otherwise the new
\* session takes its reference on the runtime.
TakeReference_Forgotten == UNCHANGED refs
TakeReference == refs' = refs + 1
RollBack_Counted(s) == handles' = handles \ {s} /\ refs' = refs + 1
RollBack(s) == handles' = handles \ {s} /\ UNCHANGED refs
LoadCommit(t) ==
  /\ At(t, "commit")
  /\ \/ TakeReference /\ UNCHANGED handles
     \/ RollBack(at[t])
  /\ Goto(t, "freeOptions")
  /\ UNCHANGED <<at, mu, native, closed, options, known, users, closer>>

LoadFreeOptions(t) ==
  /\ At(t, "freeOptions")
  /\ options' = options \ {t}
  /\ Goto(t, "unlock")
  /\ UNCHANGED <<at, mu, native, refs, closed, handles, known, users, closer>>

\* load returns the session or an error.
LoadUnlock(t) ==
  /\ At(t, "unlock")
  /\ mu' = None
  /\ known' = known \cup ({at[t]} \cap handles)
  /\ End(t)
  /\ UNCHANGED <<native, refs, closed, options, handles, users, closer>>

-----------------------------------------------------------------------------
(* Run on an open session, seen from the runtime: native calls under s.mu. *)

RunBegin(t, s) ==
  /\ Begin(t, "run", s)
  /\ s \in known \cap handles /\ closer[s] = None
  /\ users' = [users EXCEPT ![s] = @ \cup {t}]
  /\ UNCHANGED <<mu, native, refs, closed, options, handles, known, closer>>

RunEnd_Locked(t) ==
  /\ At(t, "run") /\ End(t)
  /\ UNCHANGED <<mu, native, refs, closed, options, handles, known, users, closer>>
RunEnd(t) ==
  /\ At(t, "run")
  /\ users' = [users EXCEPT ![at[t]] = @ \ {t}]
  /\ End(t)
  /\ UNCHANGED <<mu, native, refs, closed, options, handles, known, closer>>

-----------------------------------------------------------------------------
(* Session.Close, which takes r.mu while it holds s.mu.                    *)

CloseLock(t, s) ==
  /\ Begin(t, "drain", s)
  /\ s \in known /\ closer[s] = None
  /\ closer' = [closer EXCEPT ![s] = t]
  /\ UNCHANGED <<mu, native, refs, closed, options, handles, known, users>>

\* Only the first Close finds the native session.
Mine_Always(s) == TRUE
Mine(s) == s \in handles
Unused_Unawaited(s) == TRUE
Unused(s) == users[s] = {}
CloseFree(t) ==
  /\ At(t, "drain") /\ Unused(at[t])
  /\ handles' = handles \ {at[t]}
  /\ Goto(t, IF Mine(at[t]) THEN "lockRuntime" ELSE "unlockSession")
  /\ UNCHANGED <<at, mu, native, refs, closed, options, known, users, closer>>

CloseLockRuntime(t) ==
  /\ At(t, "lockRuntime") /\ Lock(t)
  /\ Goto(t, "release")
  /\ UNCHANGED <<at, native, refs, closed, options, handles, known, users, closer>>

CloseRelease(t) ==
  /\ At(t, "release")
  /\ Release /\ mu' = None
  /\ Goto(t, "unlockSession")
  /\ UNCHANGED <<at, closed, options, handles, known, users, closer>>

CloseUnlock(t) ==
  /\ At(t, "unlockSession")
  /\ closer' = [closer EXCEPT ![at[t]] = None]
  /\ End(t)
  /\ UNCHANGED <<mu, native, refs, closed, options, handles, known, users>>

-----------------------------------------------------------------------------
(* Runtime.Close.                                                          *)

CloseRuntimeStart(t) ==
  /\ Begin(t, "lockToClose", None)
  /\ UNCHANGED <<mu, native, refs, closed, options, handles, known, users, closer>>

CloseRuntimeLock(t) ==
  /\ At(t, "lockToClose") /\ Lock(t)
  /\ Goto(t, "closeRuntime")
  /\ UNCHANGED <<at, native, refs, closed, options, handles, known, users, closer>>

CloseRuntime(t) ==
  /\ At(t, "closeRuntime")
  /\ closed' = TRUE
  /\ IF Open THEN Release ELSE UNCHANGED <<refs, native>>
  /\ mu' = None
  /\ End(t)
  /\ UNCHANGED <<options, handles, known, users, closer>>

-----------------------------------------------------------------------------
Acquire(t) == LoadLock(t) \/ CloseLockRuntime(t) \/ CloseRuntimeLock(t)
Proceed(t) ==
  \/ LoadOptions(t) \/ LoadCreate(t) \/ LoadCommit(t) \/ LoadFreeOptions(t) \/ LoadUnlock(t)
  \/ RunEnd(t) \/ CloseFree(t) \/ CloseRelease(t) \/ CloseUnlock(t) \/ CloseRuntime(t)
Call(t, s) == LoadStart(t, s) \/ RunBegin(t, s) \/ CloseLock(t, s)

Next ==
  \E t \in Threads :
    \/ Acquire(t) \/ Proceed(t) \/ CloseRuntimeStart(t)
    \/ \E s \in Sessions : Call(t, s)

Spec == Init /\ [][Next]_vars

\* Threads inside an operation are scheduled, native calls return, and
\* sync.Mutex starves none of the threads that want r.mu.
Served(t) == WF_vars(Proceed(t)) /\ SF_vars(Acquire(t))
Scheduled == \A t \in Threads : Served(t)
FairSpec == Spec /\ Scheduled

\* A thread inside an operation waits for r.mu, or for the runs of the session
\* it closes, or can go on.
Waiting(t) == pc[t] \in {"lock", "lockRuntime", "lockToClose"}
Ready(t) == /\ ~At(t, "idle") /\ ~Waiting(t)
            /\ At(t, "drain") => Unused(at[t])

-----------------------------------------------------------------------------
\* Session s owns a reference on the runtime: it was counted by a load and
\* not yet dropped by a Close.
Leases(s) ==
  \/ s \in handles /\ ~\E t \in Threads : At(t, "commit") /\ at[t] = s
  \/ \E t \in Threads : pc[t] \in {"lockRuntime", "release"} /\ at[t] = s
Holders == {s \in Sessions : Leases(s)} \cup (IF closed THEN {} ELSE {Owner})

\* Each runtime and session owns one reference; concurrent loads, double
\* closes and rolled back loads never lose or repeat one.
RefsCounted == refs = Cardinality(Holders)

\* Native calls happen only while the library is mapped.
NativeSteps == {"options", "create", "commit", "freeOptions", "run"}
LibraryInUse == \A t \in Threads : pc[t] \in NativeSteps => native

\* Every native object is released before the library that owns it goes.
ReleasedBeforeUnload == handles # {} \/ options # {} => native

\* Close prevents new sessions, even for a load that was waiting for r.mu.
ClosedAddsNothing == [][closed => handles' \subseteq handles]_vars

\* A native session is only freed with no run inside it.
FreedWhenUnused == [][\A s \in handles \ handles' : users[s] = {}]_vars

\* The runtime and every session are closed: the library does go away.
Unloads == closed /\ handles = {} ~> ~native

\* Whoever waits, waits for somebody who can go on: for r.mu a thread that holds
\* it, in Close, which has s.mu then, a run of the session or a holder of r.mu.
\* So no order of taking s.mu and r.mu closes a circle, whichever threads it takes.
NoDeadlock ==
  /\ \A t \in Threads :
       /\ Waiting(t) => mu = None \/ Ready(mu)
       /\ At(t, "drain") => Ready(t) \/ \E u \in users[at[t]] : Ready(u)
  /\ \A s \in Sessions :
       closer[s] # None => At(closer[s], "drain") \/ Ready(closer[s]) \/ Waiting(closer[s])

\* What Ready and Waiting say of threads is when their actions are enabled; the
\* proofs of liveness start from it.
NeverStuck ==
  \A t \in Threads :
    /\ Ready(t) => ENABLED <<Proceed(t)>>_vars
    /\ Waiting(t) /\ mu = None => ENABLED <<Acquire(t)>>_vars

\* No operation waits for ever: Close holding s.mu and waiting for r.mu,
\* behind a load or another Close, always gets it.
OperationsReturn == \A t \in Threads : ~At(t, "idle") ~> At(t, "idle")

\* Runtime implements SharedLibrary.
Library == INSTANCE SharedLibrary WITH loaded <- native, holders <- Holders
ImplementsLibrary == Library!Spec

\* The sessions that Load has returned, with their references.
Stage(s) ==
  IF s \notin known THEN "absent"
  ELSE IF s \in handles THEN "open"
  ELSE IF Leases(s) THEN "freed" ELSE "released"
Lease == INSTANCE SessionLease WITH
  Users <- Threads,
  Closers <- Threads,
  stage <- [s \in Sessions |-> Stage(s)]

\* Runtime implements SessionLease, for all its sessions at once and whatever
\* happens to the runtime meanwhile.
ImplementsLease == Lease!Spec
=============================================================================
