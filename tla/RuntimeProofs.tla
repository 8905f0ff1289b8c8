--------------------------- MODULE RuntimeProofs ----------------------------
(***************************************************************************)
(* Proofs about module Runtime, for any threads and any finite set of      *)
(* sessions: type correctness, the exact reference count, the safety of    *)
(* native calls and objects, the refinements of SharedLibrary and          *)
(* SessionLease, that every operation returns and that the library goes.   *)
(***************************************************************************)
EXTENDS Runtime, FiniteSetTheorems, TLAPS

\* Types of all variables but refs, whose range follows from the count.
Types ==
  /\ pc \in [Threads -> Steps]
  /\ at \in [Threads -> Sessions \cup {None}]
  /\ mu \in Threads \cup {None}
  /\ native \in BOOLEAN /\ closed \in BOOLEAN
  /\ refs \in Int
  /\ options \subseteq Threads
  /\ handles \subseteq Sessions /\ known \subseteq Sessions
  /\ users \in [Sessions -> SUBSET Threads]
  /\ closer \in [Sessions -> Threads \cup {None}]

\* Load steps that use native session options; r.closed was checked before them.
OptionsSteps == {"options", "create", "commit", "freeOptions"}
MutexSteps == OptionsSteps \cup {"unlock", "release", "closeRuntime"}
OptionsLive == {"create", "commit", "freeOptions"}

\* r.mu is held exactly in the steps between its Lock and its Unlock, and while
\* a load uses native objects the runtime stays open.
MutexHeld ==
  \A t \in Threads :
    /\ pc[t] \in MutexSteps <=> mu = t
    /\ pc[t] \in OptionsSteps => ~closed
    /\ t \in options <=> pc[t] \in OptionsLive

\* A session being loaded is known to the loading thread only; its native
\* session exists from "commit" on.
LoadPrivate ==
  /\ \A t \in Threads : pc[t] \in LoadSteps =>
       /\ at[t] \in Sessions \ known
       /\ \A u \in Threads : at[u] = at[t] => u = t
       /\ pc[t] \in {"lock", "options", "create"} => at[t] \notin handles
       /\ pc[t] = "commit" => at[t] \in handles
  /\ \A s \in handles : s \in known \/ \E t \in Threads : pc[t] \in LoadSteps /\ at[t] = s

\* s.mu of a known session has the readers and the writer the steps say.
SessionsLocked ==
  /\ \A t \in Threads :
       /\ pc[t] \in CloseSteps => at[t] \in known /\ closer[at[t]] = t
       /\ pc[t] \in {"lockRuntime", "release"} => at[t] \notin handles
       /\ pc[t] = "run" => at[t] \in known \cap handles
  /\ \A s \in Sessions, t \in Threads : t \in users[s] => pc[t] = "run" /\ at[t] = s
  /\ \A t \in Threads : pc[t] = "run" => t \in users[at[t]]

Control == Types /\ MutexHeld /\ LoadPrivate /\ SessionsLocked
Counted == RefsCounted /\ native = (refs # 0)
Inv == Control /\ Counted

-----------------------------------------------------------------------------
(* The steps of threads and the two kinds of lock.                         *)

\* The initial state satisfies the control invariant.
LEMMA InitControl == Init => Control
<1> SUFFICES ASSUME Init PROVE Control
  OBVIOUS
<1> USE RuntimeAssumption DEF RuntimeAssumption, Init, Steps, LoadSteps, CloseSteps,
      MutexSteps, OptionsSteps, OptionsLive
<1>1. Types
  <2>1. users \in [Sessions -> SUBSET Threads]
    OBVIOUS
  <2>2. pc \in [Threads -> Steps] /\ at \in [Threads -> Sessions \cup {None}]
    OBVIOUS
  <2>3. closer \in [Sessions -> Threads \cup {None}]
    OBVIOUS
  <2>4. native \in BOOLEAN /\ closed \in BOOLEAN
    OBVIOUS
  <2>5. /\ refs \in Int /\ mu \in Threads \cup {None}
        /\ options \subseteq Threads /\ handles \subseteq Sessions /\ known \subseteq Sessions
    OBVIOUS
  <2> HIDE DEF Init
  <2> QED
    BY <2>1, <2>2, <2>3, <2>4, <2>5 DEF Types
<1>2. MutexHeld
  <2> SUFFICES ASSUME NEW t \in Threads
               PROVE  pc[t] \notin MutexSteps /\ mu # t /\ t \notin options
    BY DEF MutexHeld
  <2> QED
    OBVIOUS
<1>3. LoadPrivate
  BY DEF LoadPrivate
<1>4. SessionsLocked
  BY DEF SessionsLocked
<1> QED
  BY <1>1, <1>2, <1>3, <1>4 DEF Control

\* Every step preserves the control invariant.
LEMMA NextControl == Control /\ [Next]_vars => Control'
<1> SUFFICES ASSUME Control, [Next]_vars PROVE Control'
  OBVIOUS
<1> USE RuntimeAssumption DEF Control, Types, MutexHeld, LoadPrivate, SessionsLocked,
      Steps, LoadSteps, CloseSteps, MutexSteps, OptionsSteps, OptionsLive,
      At, Goto, Begin, End, Lock, Release
<1>1. ASSUME NEW t \in Threads, NEW s \in Sessions, LoadStart(t, s) PROVE Control'
  BY <1>1 DEF LoadStart
<1>2. ASSUME NEW t \in Threads, LoadLock(t) PROVE Control'
  BY <1>2 DEF LoadLock, Open
<1>3. ASSUME NEW t \in Threads, LoadOptions(t) PROVE Control'
  BY <1>3 DEF LoadOptions
<1>4. ASSUME NEW t \in Threads, LoadCreate(t) PROVE Control'
  BY <1>4 DEF LoadCreate
<1>5. ASSUME NEW t \in Threads, LoadCommit(t) PROVE Control'
  BY <1>5 DEF LoadCommit, TakeReference, RollBack
<1>6. ASSUME NEW t \in Threads, LoadFreeOptions(t) PROVE Control'
  BY <1>6 DEF LoadFreeOptions
<1>7. ASSUME NEW t \in Threads, LoadUnlock(t) PROVE Control'
  BY <1>7 DEF LoadUnlock
<1>8. ASSUME NEW t \in Threads, NEW s \in Sessions, RunBegin(t, s) PROVE Control'
  BY <1>8 DEF RunBegin
<1>9. ASSUME NEW t \in Threads, RunEnd(t) PROVE Control'
  BY <1>9 DEF RunEnd
<1>10. ASSUME NEW t \in Threads, NEW s \in Sessions, CloseLock(t, s) PROVE Control'
  BY <1>10 DEF CloseLock
<1>11. ASSUME NEW t \in Threads, CloseFree(t) PROVE Control'
  BY <1>11 DEF CloseFree, Mine, Unused
<1>12. ASSUME NEW t \in Threads, CloseLockRuntime(t) PROVE Control'
  BY <1>12 DEF CloseLockRuntime
<1>13. ASSUME NEW t \in Threads, CloseRelease(t) PROVE Control'
  BY <1>13 DEF CloseRelease
<1>14. ASSUME NEW t \in Threads, CloseUnlock(t) PROVE Control'
  BY <1>14 DEF CloseUnlock
<1>15. ASSUME NEW t \in Threads, CloseRuntimeStart(t) PROVE Control'
  BY <1>15 DEF CloseRuntimeStart
<1>16. ASSUME NEW t \in Threads, CloseRuntimeLock(t) PROVE Control'
  BY <1>16 DEF CloseRuntimeLock
<1>17. ASSUME NEW t \in Threads, CloseRuntime(t) PROVE Control'
  BY <1>17 DEF CloseRuntime, Open
<1>18. CASE UNCHANGED vars
  BY <1>18 DEF vars
<1> QED
  BY <1>1, <1>2, <1>3, <1>4, <1>5, <1>6, <1>7, <1>8, <1>9, <1>10, <1>11, <1>12,
     <1>13, <1>14, <1>15, <1>16, <1>17, <1>18 DEF Next, Acquire, Proceed, Call
-----------------------------------------------------------------------------
(* The holders of the library, step by step.                               *)

\* A step keeps the holders, adds a session while the runtime is open, or
\* drops one holder and closes the library if it was the last.
Same == Holders' = Holders /\ refs' = refs /\ native' = native
Added(s) ==
  /\ Owner \in Holders /\ s \notin Holders /\ Holders' = Holders \cup {s}
  /\ refs' = refs + 1 /\ native' = native
Dropped(h) ==
  /\ h \in Holders /\ Holders' = Holders \ {h}
  /\ refs' = refs - 1 /\ native' = (refs' # 0)
Accounted ==
  \/ Same
  \/ \E s \in Sessions : Added(s)
  \/ \E h \in Sessions \cup {Owner} : Dropped(h)

\* Holders depends on who leases and on r.closed only.
LEMMA SameHolders ==
  ASSUME \A s \in Sessions : Leases(s)' <=> Leases(s), closed' = closed
  PROVE  Holders' = Holders
  BY DEF Holders

\* There are finitely many holders.
LEMMA FiniteHolders == IsFiniteSet(Holders)
<1>1. IsFiniteSet(Sessions \cup {Owner})
  BY RuntimeAssumption, FS_AddElement DEF RuntimeAssumption
<1>2. Holders \subseteq Sessions \cup {Owner}
  BY DEF Holders
<1> QED
  BY <1>1, <1>2, FS_Subset

\* The owner holds the library exactly as long as the runtime is open.
LEMMA OwnerHolds == Owner \in Holders <=> ~closed
  BY RuntimeAssumption DEF RuntimeAssumption, Holders

\* A reference count that is exact says whether anyone holds the library.
LEMMA CountedHolders == ASSUME Counted PROVE native = (Holders # {})
<1>1. Cardinality(Holders) = 0 <=> Holders = {}
  BY FiniteHolders, FS_EmptySet
<1> QED
  BY <1>1 DEF Counted, RefsCounted

\* An accounted step keeps the reference count exact.
LEMMA AccountedCounted == ASSUME Counted, Accounted, Control' PROVE Counted'
<1>1. CASE Same
  BY <1>1 DEF Same, Counted, RefsCounted
<1>2. ASSUME NEW s \in Sessions, Added(s) PROVE Counted'
  <2>1. Cardinality(Holders \cup {s}) = Cardinality(Holders) + 1
    BY <1>2, FiniteHolders, FS_AddElement DEF Added
  <2>2. Cardinality(Holders) \in Nat
    BY FiniteHolders, FS_CardinalityType
  <2>3. native = TRUE
    BY <1>2, CountedHolders DEF Added
  <2>4. RefsCounted' /\ refs' # 0
    BY <1>2, <2>1, <2>2 DEF Added, Counted, RefsCounted
  <2> QED
    BY <1>2, <2>3, <2>4 DEF Added, Counted
<1>3. ASSUME NEW h \in Sessions \cup {Owner}, Dropped(h) PROVE Counted'
  <2>1. Cardinality(Holders \ {h}) = Cardinality(Holders) - 1
    BY <1>3, FiniteHolders, FS_RemoveElement DEF Dropped
  <2> QED
    BY <1>3, <2>1 DEF Dropped, Counted, RefsCounted
<1> QED
  BY <1>1, <1>2, <1>3 DEF Accounted

\* Every step of the runtime accounts for its references.
LEMMA NextAccounted == ASSUME Inv, [Next]_vars PROVE Accounted
<1> USE RuntimeAssumption DEF RuntimeAssumption, Inv, Control, Types, MutexHeld, LoadPrivate,
      SessionsLocked, Steps, LoadSteps, CloseSteps, MutexSteps, OptionsSteps, OptionsLive,
      At, Goto, Begin, End, Lock
<1>1. ASSUME NEW t \in Threads, NEW s \in Sessions, LoadStart(t, s) PROVE Accounted
  <2>1. \A r \in Sessions : Leases(r)' <=> Leases(r)
    BY <1>1 DEF LoadStart, Leases
  <2> QED
    BY <1>1, <2>1, SameHolders DEF LoadStart, Accounted, Same
<1>2. ASSUME NEW t \in Threads, LoadLock(t) PROVE Accounted
  <2>1. \A r \in Sessions : Leases(r)' <=> Leases(r)
    BY <1>2 DEF LoadLock, Leases
  <2> QED
    BY <1>2, <2>1, SameHolders DEF LoadLock, Accounted, Same
<1>3. ASSUME NEW t \in Threads, LoadOptions(t) PROVE Accounted
  <2>1. \A r \in Sessions : Leases(r)' <=> Leases(r)
    BY <1>3 DEF LoadOptions, Leases
  <2> QED
    BY <1>3, <2>1, SameHolders DEF LoadOptions, Accounted, Same
<1>4. ASSUME NEW t \in Threads, LoadCreate(t) PROVE Accounted
  <2>1. \A r \in Sessions : Leases(r)' <=> Leases(r)
    BY <1>4 DEF LoadCreate, Leases
  <2> QED
    BY <1>4, <2>1, SameHolders DEF LoadCreate, Accounted, Same
<1>5. ASSUME NEW t \in Threads, LoadCommit(t) PROVE Accounted
  <2> DEFINE s == at[t]
  <2>1. s \in handles /\ s \in Sessions /\ ~Leases(s) /\ ~closed
    BY <1>5 DEF LoadCommit, Leases
  <2>2. \A r \in Sessions \ {s} : Leases(r)' <=> Leases(r)
    BY <1>5 DEF LoadCommit, TakeReference, RollBack, Leases
  <2>3. CASE TakeReference /\ UNCHANGED handles
    <3>1. Leases(s)'
      BY <1>5, <2>1, <2>3 DEF LoadCommit, Leases
    <3>2. Holders' = Holders \cup {s} /\ s \notin Holders
      BY <1>5, <2>1, <2>2, <3>1 DEF LoadCommit, Holders
    <3> QED
      BY <1>5, <2>1, <2>3, <3>2, OwnerHolds DEF LoadCommit, TakeReference, Accounted, Added
  <2>4. CASE RollBack(s)
    <3>1. ~Leases(s)'
      BY <1>5, <2>1, <2>4 DEF LoadCommit, RollBack, Leases
    <3>2. Holders' = Holders
      BY <1>5, <2>1, <2>2, <3>1, SameHolders DEF LoadCommit
    <3> QED
      BY <1>5, <2>4, <3>2 DEF LoadCommit, RollBack, Accounted, Same
  <2> QED
    BY <1>5, <2>3, <2>4 DEF LoadCommit
<1>6. ASSUME NEW t \in Threads, LoadFreeOptions(t) PROVE Accounted
  <2>1. \A r \in Sessions : Leases(r)' <=> Leases(r)
    BY <1>6 DEF LoadFreeOptions, Leases
  <2> QED
    BY <1>6, <2>1, SameHolders DEF LoadFreeOptions, Accounted, Same
<1>7. ASSUME NEW t \in Threads, LoadUnlock(t) PROVE Accounted
  <2>1. \A r \in Sessions : Leases(r)' <=> Leases(r)
    BY <1>7 DEF LoadUnlock, Leases
  <2> QED
    BY <1>7, <2>1, SameHolders DEF LoadUnlock, Accounted, Same
<1>8. ASSUME NEW t \in Threads, NEW s \in Sessions, RunBegin(t, s) PROVE Accounted
  <2>1. \A r \in Sessions : Leases(r)' <=> Leases(r)
    BY <1>8 DEF RunBegin, Leases
  <2> QED
    BY <1>8, <2>1, SameHolders DEF RunBegin, Accounted, Same
<1>9. ASSUME NEW t \in Threads, RunEnd(t) PROVE Accounted
  <2>1. \A r \in Sessions : Leases(r)' <=> Leases(r)
    BY <1>9 DEF RunEnd, Leases
  <2> QED
    BY <1>9, <2>1, SameHolders DEF RunEnd, Accounted, Same
<1>10. ASSUME NEW t \in Threads, NEW s \in Sessions, CloseLock(t, s) PROVE Accounted
  <2>1. \A r \in Sessions : Leases(r)' <=> Leases(r)
    BY <1>10 DEF CloseLock, Leases
  <2> QED
    BY <1>10, <2>1, SameHolders DEF CloseLock, Accounted, Same
<1>11. ASSUME NEW t \in Threads, CloseFree(t) PROVE Accounted
  <2>1. \A r \in Sessions : Leases(r)' <=> Leases(r)
    BY <1>11 DEF CloseFree, Mine, Unused, Leases
  <2> QED
    BY <1>11, <2>1, SameHolders DEF CloseFree, Accounted, Same
<1>12. ASSUME NEW t \in Threads, CloseLockRuntime(t) PROVE Accounted
  <2>1. \A r \in Sessions : Leases(r)' <=> Leases(r)
    BY <1>12 DEF CloseLockRuntime, Leases
  <2> QED
    BY <1>12, <2>1, SameHolders DEF CloseLockRuntime, Accounted, Same
<1>13. ASSUME NEW t \in Threads, CloseRelease(t) PROVE Accounted
  <2> DEFINE s == at[t]
  <2>1. s \in Sessions /\ Leases(s)
    BY <1>13 DEF CloseRelease, Leases
  <2>2. ~Leases(s)'
    BY <1>13 DEF CloseRelease, Leases
  <2>3. \A r \in Sessions \ {s} : Leases(r)' <=> Leases(r)
    BY <1>13 DEF CloseRelease, Leases
  <2>4. s \in Holders /\ Holders' = Holders \ {s}
    BY <1>13, <2>1, <2>2, <2>3 DEF CloseRelease, Holders
  <2> QED
    BY <1>13, <2>1, <2>4 DEF CloseRelease, Release, Accounted, Dropped
<1>14. ASSUME NEW t \in Threads, CloseUnlock(t) PROVE Accounted
  <2>1. \A r \in Sessions : Leases(r)' <=> Leases(r)
    BY <1>14 DEF CloseUnlock, Leases
  <2> QED
    BY <1>14, <2>1, SameHolders DEF CloseUnlock, Accounted, Same
<1>15. ASSUME NEW t \in Threads, CloseRuntimeStart(t) PROVE Accounted
  <2>1. \A r \in Sessions : Leases(r)' <=> Leases(r)
    BY <1>15 DEF CloseRuntimeStart, Leases
  <2> QED
    BY <1>15, <2>1, SameHolders DEF CloseRuntimeStart, Accounted, Same
<1>16. ASSUME NEW t \in Threads, CloseRuntimeLock(t) PROVE Accounted
  <2>1. \A r \in Sessions : Leases(r)' <=> Leases(r)
    BY <1>16 DEF CloseRuntimeLock, Leases
  <2> QED
    BY <1>16, <2>1, SameHolders DEF CloseRuntimeLock, Accounted, Same
<1>17. ASSUME NEW t \in Threads, CloseRuntime(t) PROVE Accounted
  <2>1. \A r \in Sessions : Leases(r)' <=> Leases(r)
    BY <1>17 DEF CloseRuntime, Leases
  <2>2. CASE closed
    BY <1>17, <2>1, <2>2, SameHolders DEF CloseRuntime, Open, Accounted, Same
  <2>3. CASE ~closed
    <3>1. Owner \in Holders /\ native
      BY <2>3, OwnerHolds, CountedHolders
    <3>2. Holders' = Holders \ {Owner}
      BY <1>17, <2>1, <2>3 DEF CloseRuntime, Holders
    <3> QED
      BY <1>17, <2>3, <3>1, <3>2 DEF CloseRuntime, Open, Release, Accounted, Dropped
  <2> QED
    BY <2>2, <2>3
<1>18. CASE UNCHANGED vars
  BY <1>18 DEF vars, Accounted, Same, Holders, Leases
<1> QED
  BY <1>1, <1>2, <1>3, <1>4, <1>5, <1>6, <1>7, <1>8, <1>9, <1>10, <1>11, <1>12,
     <1>13, <1>14, <1>15, <1>16, <1>17, <1>18 DEF Next, Acquire, Proceed, Call
-----------------------------------------------------------------------------
(* The theorems.                                                           *)

\* The inductive invariant holds initially.
LEMMA InitInv == Init => Inv
<1> SUFFICES ASSUME Init PROVE Inv
  OBVIOUS
<1>1. Control
  BY InitControl
<1>2. Holders = {Owner}
  BY RuntimeAssumption DEF RuntimeAssumption, Init, Holders, Leases, At
<1>3. Cardinality(Holders) = 1
  BY <1>2, FS_Singleton
<1>4. RefsCounted /\ refs # 0 /\ native = TRUE
  BY <1>3 DEF Init, RefsCounted
<1> QED
  BY <1>1, <1>4 DEF Inv, Counted

\* Every step preserves it.
LEMMA NextInv == Inv /\ [Next]_vars => Inv'
  BY NextControl, NextAccounted, AccountedCounted DEF Inv

\* The invariant holds in every reachable state.
THEOREM Invariance == Spec => []Inv
<1> QED
  BY InitInv, NextInv, PTL DEF Spec

\* Every variable keeps its type; above all r.refs never becomes negative.
THEOREM TypeCorrect == Spec => []TypeOK
<1>1. ASSUME Inv PROVE TypeOK
  <2>1. refs \in Nat
    BY <1>1, FiniteHolders, FS_CardinalityType DEF Inv, Counted, RefsCounted
  <2> QED
    BY <1>1, <2>1 DEF Inv, Control, Types, TypeOK
<1> QED
  BY <1>1, Invariance, PTL

\* r.refs is exactly the number of holders, whatever loads, rolled back loads
\* and repeated closes run at once.
THEOREM ReferenceCount == Spec => []RefsCounted
  BY Invariance, PTL DEF Inv, Counted

\* A session whose load has returned or a load in progress keeps the library.
LEMMA HandleKeepsLibrary == ASSUME Inv, NEW s \in handles PROVE native
<1>1. CASE Leases(s)
  <2>1. s \in Holders
    BY <1>1 DEF Holders, Inv, Control, Types
  <2> QED
    BY <2>1, CountedHolders DEF Inv
<1>2. CASE ~Leases(s)
  <2>1. ~closed
    BY <1>2 DEF Leases, At, Inv, Control, MutexHeld, OptionsSteps
  <2> QED
    BY <2>1, OwnerHolds, CountedHolders DEF Inv
<1> QED
  BY <1>1, <1>2

\* No native call is made once the library is unloaded.
THEOREM NativeCallsSafe == Spec => []LibraryInUse
<1>1. ASSUME Inv PROVE LibraryInUse
  <2> SUFFICES ASSUME NEW t \in Threads, pc[t] \in NativeSteps PROVE native
    BY DEF LibraryInUse
  <2>1. CASE pc[t] = "run"
    BY <1>1, <2>1, HandleKeepsLibrary DEF Inv, Control, SessionsLocked
  <2>2. CASE pc[t] \in OptionsSteps
    <3>1. Owner \in Holders
      BY <1>1, <2>2, OwnerHolds DEF Inv, Control, MutexHeld
    <3> QED
      BY <1>1, <3>1, CountedHolders DEF Inv
  <2> QED
    BY <2>1, <2>2 DEF NativeSteps, OptionsSteps
<1> QED
  BY <1>1, Invariance, PTL

\* The library is unloaded after every native session and its options.
THEOREM NativeObjectsSafe == Spec => []ReleasedBeforeUnload
<1>1. ASSUME Inv PROVE ReleasedBeforeUnload
  <2>1. ASSUME NEW t \in options PROVE native
    <3>1. t \in Threads /\ ~closed
      BY <1>1, <2>1 DEF Inv, Control, Types, MutexHeld, OptionsLive, OptionsSteps
    <3> QED
      BY <1>1, <3>1, OwnerHolds, CountedHolders DEF Inv
  <2> QED
    BY <1>1, <2>1, HandleKeepsLibrary DEF ReleasedBeforeUnload
<1> QED
  BY <1>1, Invariance, PTL

\* A closed runtime gains no session.
THEOREM CloseIsFinal == Spec => ClosedAddsNothing
<1>1. ASSUME Inv, [Next]_vars, closed PROVE handles' \subseteq handles
  BY <1>1 DEF Inv, Control, MutexHeld, OptionsSteps, Next, vars, Acquire, Proceed, Call, At,
     LoadStart, LoadLock, LoadOptions, LoadCreate, LoadCommit, TakeReference, RollBack,
     LoadFreeOptions, LoadUnlock, RunBegin, RunEnd, CloseLock, CloseFree, CloseLockRuntime,
     CloseRelease, CloseUnlock, CloseRuntimeStart, CloseRuntimeLock, CloseRuntime
<1> QED
  BY <1>1, Invariance, PTL DEF Spec, ClosedAddsNothing

\* No native session is freed while a run uses it.
THEOREM NeverFreedInUse == Spec => FreedWhenUnused
<1>1. ASSUME Inv, [Next]_vars, NEW s \in handles \ handles' PROVE users[s] = {}
  <2>1. \E t \in Threads : at[t] = s /\ (CloseFree(t) \/ LoadCommit(t))
    BY <1>1 DEF Inv, Control, Types, Next, vars, Acquire, Proceed, Call, At,
     LoadStart, LoadLock, LoadOptions, LoadCreate, LoadCommit, TakeReference, RollBack,
     LoadFreeOptions, LoadUnlock, RunBegin, RunEnd, CloseLock, CloseFree, CloseLockRuntime,
     CloseRelease, CloseUnlock, CloseRuntimeStart, CloseRuntimeLock, CloseRuntime
  <2>2. PICK t \in Threads : at[t] = s /\ (CloseFree(t) \/ LoadCommit(t))
    BY <2>1
  <2>3. CASE CloseFree(t)
    BY <2>2, <2>3 DEF CloseFree, Unused
  <2>4. CASE LoadCommit(t)
    BY <1>1, <2>2, <2>4 DEF LoadCommit, At, LoadSteps, Inv, Control, Types, LoadPrivate, SessionsLocked
  <2> QED
    BY <2>2, <2>3, <2>4
<1>2. ASSUME Inv, [Next]_vars
      PROVE  [\A s \in handles \ handles' : users[s] = {}]_vars
  BY <1>1, <1>2
<1> QED
  BY <1>2, Invariance, PTL DEF Spec, FreedWhenUnused

\* The runtime implements a library with an explicit set of holders.
THEOREM Implementation == Spec => ImplementsLibrary
<1>1. Init => Library!Init
  BY RuntimeAssumption DEF RuntimeAssumption, Init, Holders, Leases, At, Library!Init
<1>2. ASSUME Inv, [Next]_vars PROVE [Library!Next]_(Library!vars)
  <2>1. Counted'
    BY <1>2, NextInv DEF Inv
  <2>2. CASE Same
    BY <2>2 DEF Same, Library!vars
  <2>3. ASSUME NEW s \in Sessions, Added(s) PROVE Library!Next
    BY <2>3 DEF Added, Library!Next, Library!Acquire
  <2>4. ASSUME NEW h \in Sessions \cup {Owner}, Dropped(h) PROVE Library!Next
    <3>1. Cardinality(Holders') = 0 <=> Holders' = {}
      BY <2>4, FiniteHolders, FS_RemoveElement, FS_EmptySet DEF Dropped
    <3>2. native' = (Holders' # {})
      BY <2>1, <3>1 DEF Counted, RefsCounted
    <3> QED
      BY <2>4, <3>2 DEF Dropped, Library!Next, Library!Release
  <2> QED
    BY <1>2, <2>2, <2>3, <2>4, NextAccounted DEF Accounted
<1> QED
  BY <1>1, <1>2, Invariance, PTL DEF Spec, ImplementsLibrary, Library!Spec
-----------------------------------------------------------------------------
(* The life of each session.                                               *)

\* A Close that only has s.mu left to unlock has no native session any more.
Freed == \A t \in Threads : pc[t] = "unlockSession" => at[t] \notin handles

\* Every step preserves it: no load makes a known session again.
LEMMA NextFreed == ASSUME Inv, Freed, [Next]_vars PROVE Freed'
<1> USE RuntimeAssumption DEF RuntimeAssumption, Freed, Inv, Control, Types, LoadPrivate,
      SessionsLocked, Steps, LoadSteps, CloseSteps, At, Goto, Begin, End
<1>1. ASSUME NEW t \in Threads, NEW s \in Sessions, Call(t, s) PROVE Freed'
  BY <1>1 DEF Call, LoadStart, RunBegin, CloseLock
<1>2. ASSUME NEW t \in Threads, Acquire(t) PROVE Freed'
  BY <1>2 DEF Acquire, LoadLock, CloseLockRuntime, CloseRuntimeLock
<1>3. ASSUME NEW t \in Threads, LoadCreate(t) PROVE Freed'
  BY <1>3 DEF LoadCreate
<1>4. ASSUME NEW t \in Threads, LoadCommit(t) PROVE Freed'
  BY <1>4 DEF LoadCommit, TakeReference, RollBack
<1>5. ASSUME NEW t \in Threads, LoadOptions(t) \/ LoadFreeOptions(t) \/ LoadUnlock(t) PROVE Freed'
  BY <1>5 DEF LoadOptions, LoadFreeOptions, LoadUnlock
<1>6. ASSUME NEW t \in Threads, CloseFree(t) PROVE Freed'
  BY <1>6 DEF CloseFree, Mine
<1>7. ASSUME NEW t \in Threads, CloseRelease(t) PROVE Freed'
  BY <1>7 DEF CloseRelease
<1>8. ASSUME NEW t \in Threads,
             RunEnd(t) \/ CloseUnlock(t) \/ CloseRuntime(t) \/ CloseRuntimeStart(t)
      PROVE  Freed'
  BY <1>8 DEF RunEnd, CloseUnlock, CloseRuntime, CloseRuntimeStart
<1>9. CASE UNCHANGED vars
  BY <1>9 DEF vars
<1> QED
  BY <1>1, <1>2, <1>3, <1>4, <1>5, <1>6, <1>7, <1>8, <1>9 DEF Next, Proceed

Stages == [s \in Sessions |-> Stage(s)]

\* What happens to a session that no load has returned yet is nobody's business.
LEMMA SameStages ==
  ASSUME known' = known,
         \A s \in known \cap Sessions : (s \in handles' <=> s \in handles) /\ (Leases(s)' <=> Leases(s))
  PROVE  Stages' = Stages
<1>1. ASSUME NEW s \in Sessions PROVE Stage(s)' = Stage(s)
  BY <1>1 DEF Stage
<1> QED
  BY <1>1 DEF Stages

\* One session advances when it alone changes.
LEMMA OneStage ==
  ASSUME NEW s \in Sessions, NEW from, NEW to, Stage(s) = from, Stage(s)' = to,
         \A r \in Sessions \ {s} : Stage(r)' = Stage(r)
  PROVE  Stages[s] = from /\ Stages' = [Stages EXCEPT ![s] = to]
  BY DEF Stages

\* A step that changes no known session and neither side of its lock is no step
\* of its life.
LEMMA Unseen ==
  ASSUME UNCHANGED <<known, users, closer>>,
         \A s \in known \cap Sessions : (s \in handles' <=> s \in handles) /\ (Leases(s)' <=> Leases(s))
  PROVE  UNCHANGED Lease!vars
  BY SameStages DEF Lease!vars, Stages

\* Every step of the runtime is a step of the life of one session, or of none.
LEMMA NextLease == ASSUME Inv, Freed, [Next]_vars PROVE [Lease!Next]_(Lease!vars)
<1> USE RuntimeAssumption DEF RuntimeAssumption, Freed, Inv, Control, Types, MutexHeld,
      LoadPrivate, SessionsLocked, Steps, LoadSteps, CloseSteps, MutexSteps, OptionsSteps,
      OptionsLive, At, Goto, Begin, End, Lock
<1>1. ASSUME NEW t \in Threads, LoadUnlock(t) PROVE [Lease!Next]_(Lease!vars)
  <2>0. PICK s \in Sessions : s = at[t]
    BY <1>1 DEF LoadUnlock
  <2>1. s \in Sessions \ known /\ UNCHANGED <<handles, users, closer>> /\ known' = known \cup ({s} \cap handles)
    BY <1>1, <2>0 DEF LoadUnlock
  <2>2. \A r \in Sessions : Leases(r)' <=> Leases(r)
    BY <1>1, <2>0 DEF LoadUnlock, Leases
  <2>3. CASE s \in handles
    <3>1. Stage(s) = "absent" /\ Stage(s)' = "open"
      BY <2>1, <2>3 DEF Stage
    <3>2. \A r \in Sessions \ {s} : Stage(r)' = Stage(r)
      BY <2>1, <2>2 DEF Stage
    <3>3. Stages[s] = "absent" /\ Stages' = [Stages EXCEPT ![s] = "open"]
      BY <2>1, <3>1, <3>2, OneStage
    <3>4. Lease!Load(s)
      BY <2>1, <3>3 DEF Stages, Lease!Load, Lease!Advance
    <3> QED
      BY <2>1, <3>4 DEF Lease!Next
  <2>4. CASE s \notin handles
    BY <2>1, <2>2, <2>4, Unseen
  <2> QED
    BY <2>3, <2>4
<1>2. ASSUME NEW t \in Threads, NEW s \in Sessions, RunBegin(t, s) PROVE [Lease!Next]_(Lease!vars)
  <2>1. \A r \in Sessions : Leases(r)' <=> Leases(r)
    BY <1>2 DEF RunBegin, Leases
  <2>2. Stages' = Stages
    BY <1>2, <2>1, SameStages DEF RunBegin
  <2>3. Stages[s] = "open"
    BY <1>2 DEF RunBegin, Stages, Stage
  <2>4. t \notin users[s] /\ closer[s] = None /\ users' = [users EXCEPT ![s] = @ \cup {t}] /\ closer' = closer
    BY <1>2 DEF RunBegin
  <2>5. Lease!Enter(s, t)
    BY <2>2, <2>3, <2>4 DEF Lease!Enter, Stages
  <2> QED
    BY <2>5 DEF Lease!Next
<1>3. ASSUME NEW t \in Threads, RunEnd(t) PROVE [Lease!Next]_(Lease!vars)
  <2>1. \A r \in Sessions : Leases(r)' <=> Leases(r)
    BY <1>3 DEF RunEnd, Leases
  <2>2. Stages' = Stages
    BY <1>3, <2>1, SameStages DEF RunEnd
  <2>3. t \in users[at[t]] /\ at[t] \in Sessions
    BY <1>3 DEF RunEnd
  <2>4. Lease!Leave(at[t], t)
    BY <1>3, <2>2, <2>3 DEF RunEnd, Lease!Leave, Stages
  <2> QED
    BY <2>3, <2>4 DEF Lease!Next
<1>4. ASSUME NEW t \in Threads, NEW s \in Sessions, CloseLock(t, s) PROVE [Lease!Next]_(Lease!vars)
  <2>1. \A r \in Sessions : Leases(r)' <=> Leases(r)
    BY <1>4 DEF CloseLock, Leases
  <2>2. Stages' = Stages
    BY <1>4, <2>1, SameStages DEF CloseLock
  <2>3. Stages[s] # "absent"
    BY <1>4 DEF CloseLock, Stages, Stage
  <2>4. Lease!Announce(s, t)
    BY <1>4, <2>2, <2>3 DEF CloseLock, Lease!Announce, Stages
  <2> QED
    BY <2>4 DEF Lease!Next
<1>5. ASSUME NEW t \in Threads, CloseFree(t) PROVE [Lease!Next]_(Lease!vars)
  <2>0. PICK s \in Sessions : s = at[t]
    BY <1>5 DEF CloseFree
  <2>1. /\ s \in known \cap Sessions /\ closer[s] = t /\ users[s] = {} /\ t # None
        /\ handles' = handles \ {s} /\ UNCHANGED <<known, users, closer>>
    BY <1>5, <2>0 DEF CloseFree, Unused
  <2>2. \A r \in Sessions : Leases(r)' <=> Leases(r)
    BY <1>5, <2>0 DEF CloseFree, Mine, Unused, Leases
  <2>3. CASE s \in handles
    <3>1. Leases(s)
      BY <2>1, <2>3 DEF Leases
    <3>2. Stage(s) = "open" /\ Stage(s)' = "freed"
      BY <2>1, <2>2, <2>3, <3>1 DEF Stage
    <3>3. \A r \in Sessions \ {s} : Stage(r)' = Stage(r)
      BY <2>1, <2>2 DEF Stage
    <3>4. Stages[s] = "open" /\ Stages' = [Stages EXCEPT ![s] = "freed"]
      BY <2>1, <3>2, <3>3, OneStage
    <3>5. Lease!Free(s)
      BY <2>1, <3>4 DEF Stages, Lease!Free, Lease!Advance
    <3> QED
      BY <2>1, <3>5 DEF Lease!Next
  <2>4. CASE s \notin handles
    BY <2>1, <2>2, <2>4, Unseen
  <2> QED
    BY <2>3, <2>4
<1>6. ASSUME NEW t \in Threads, CloseRelease(t) PROVE [Lease!Next]_(Lease!vars)
  <2>0. PICK s \in Sessions : s = at[t]
    BY <1>6 DEF CloseRelease
  <2>1. /\ s \in known \cap Sessions /\ s \notin handles /\ closer[s] = t /\ t # None
        /\ UNCHANGED <<handles, known, users, closer>>
    BY <1>6, <2>0 DEF CloseRelease
  <2>2. Leases(s) /\ ~Leases(s)' /\ \A r \in Sessions \ {s} : Leases(r)' <=> Leases(r)
    <3>1. Leases(s)
      BY <1>6, <2>0 DEF CloseRelease, Leases
    <3>2. ~Leases(s)'
      BY <1>6, <2>0 DEF CloseRelease, Leases
    <3>3. \A r \in Sessions \ {s} : Leases(r)' <=> Leases(r)
      BY <1>6, <2>0 DEF CloseRelease, Leases
    <3> QED
      BY <3>1, <3>2, <3>3
  <2>3. Stage(s) = "freed" /\ Stage(s)' = "released"
    BY <2>1, <2>2 DEF Stage
  <2>4. \A r \in Sessions \ {s} : Stage(r)' = Stage(r)
    BY <2>1, <2>2 DEF Stage
  <2>5. Stages[s] = "freed" /\ Stages' = [Stages EXCEPT ![s] = "released"]
    BY <2>1, <2>3, <2>4, OneStage
  <2>6. Lease!Release(s)
    BY <2>1, <2>5 DEF Stages, Lease!Release, Lease!Advance
  <2> QED
    BY <2>1, <2>6 DEF Lease!Next
<1>7. ASSUME NEW t \in Threads, CloseUnlock(t) PROVE [Lease!Next]_(Lease!vars)
  <2>0. PICK s \in Sessions : s = at[t]
    BY <1>7 DEF CloseUnlock
  <2>1. /\ s \in known \cap Sessions /\ s \notin handles /\ closer[s] = t /\ t # None
        /\ UNCHANGED <<handles, known, users>> /\ closer' = [closer EXCEPT ![s] = None]
    BY <1>7, <2>0 DEF CloseUnlock
  <2>2. ~Leases(s)
    BY <1>7, <2>0, <2>1 DEF CloseUnlock, Leases
  <2>3. \A r \in Sessions : Leases(r)' <=> Leases(r)
    BY <1>7, <2>0 DEF CloseUnlock, Leases
  <2>4. Stages[s] = "released" /\ Stages' = Stages
    BY <2>1, <2>2, <2>3, SameStages DEF Stages, Stage
  <2>5. Lease!Withdraw(s)
    BY <2>1, <2>4 DEF Stages, Lease!Withdraw
  <2> QED
    BY <2>1, <2>5 DEF Lease!Next
<1>8. ASSUME NEW t \in Threads, NEW s \in Sessions, LoadStart(t, s) PROVE UNCHANGED Lease!vars
  <2>1. \A r \in Sessions : Leases(r)' <=> Leases(r)
    BY <1>8 DEF LoadStart, Leases
  <2> QED
    BY <1>8, <2>1, Unseen DEF LoadStart
<1>9. ASSUME NEW t \in Threads, Acquire(t) PROVE UNCHANGED Lease!vars
  <2>1. \A r \in Sessions : Leases(r)' <=> Leases(r)
    BY <1>9 DEF Acquire, LoadLock, CloseLockRuntime, CloseRuntimeLock, Leases
  <2> QED
    BY <1>9, <2>1, Unseen DEF Acquire, LoadLock, CloseLockRuntime, CloseRuntimeLock
<1>10. ASSUME NEW t \in Threads,
              LoadOptions(t) \/ LoadFreeOptions(t) \/ CloseRuntime(t) \/ CloseRuntimeStart(t)
       PROVE  UNCHANGED Lease!vars
  <2>1. \A r \in Sessions : Leases(r)' <=> Leases(r)
    BY <1>10 DEF LoadOptions, LoadFreeOptions, CloseRuntime, CloseRuntimeStart, Leases
  <2> QED
    BY <1>10, <2>1, Unseen DEF LoadOptions, LoadFreeOptions, CloseRuntime, CloseRuntimeStart
<1>11. ASSUME NEW t \in Threads, LoadCreate(t) \/ LoadCommit(t) PROVE UNCHANGED Lease!vars
  <2>1. \A r \in known \cap Sessions : (r \in handles' <=> r \in handles) /\ (Leases(r)' <=> Leases(r))
    BY <1>11 DEF LoadCreate, LoadCommit, TakeReference, RollBack, Leases
  <2> QED
    BY <1>11, <2>1, Unseen DEF LoadCreate, LoadCommit
<1>12. CASE UNCHANGED vars
  <2>1. \A r \in Sessions : Leases(r)' <=> Leases(r)
    BY <1>12 DEF vars, Leases
  <2> QED
    BY <1>12, <2>1, Unseen DEF vars
<1> QED
  BY <1>1, <1>2, <1>3, <1>4, <1>5, <1>6, <1>7, <1>8, <1>9, <1>10, <1>11, <1>12
     DEF Next, Acquire, Proceed, Call

\* Sessions live as their callers rely on, whatever other loads, closes and the
\* end of the runtime happen meanwhile.
THEOREM LeaseKept == Spec => ImplementsLease
<1>1. Init => Freed /\ Lease!Init
  BY DEF Init, Freed, Stage, Lease!Init
<1>2. Inv /\ Freed /\ [Next]_vars => Freed'
  BY NextFreed
<1>3. Inv /\ Freed /\ [Next]_vars => [Lease!Next]_(Lease!vars)
  BY NextLease
<1> QED
  BY <1>1, <1>2, <1>3, Invariance, PTL DEF Spec, ImplementsLease, Lease!Spec

\* The writer of s.mu is a Close of that session, until the Close ends.
Writers == \A s \in Sessions : closer[s] # None => pc[closer[s]] \in CloseSteps /\ at[closer[s]] = s
LEMMA NextWriters == ASSUME Inv, Writers, [Next]_vars PROVE Writers'
<1> USE RuntimeAssumption DEF RuntimeAssumption, Inv, Control, Types, Writers, At, Goto, Begin, End, CloseSteps
<1>1. ASSUME NEW t \in Threads, Acquire(t) PROVE Writers'
  BY <1>1 DEF Acquire, LoadLock, CloseLockRuntime, CloseRuntimeLock
<1>2. ASSUME NEW t \in Threads, Proceed(t) PROVE Writers'
  <2>1. CASE LoadOptions(t) \/ LoadCreate(t) \/ LoadCommit(t) \/ LoadFreeOptions(t) \/ LoadUnlock(t)
    BY <2>1 DEF LoadOptions, LoadCreate, LoadCommit, LoadFreeOptions, LoadUnlock
  <2>2. CASE RunEnd(t) \/ CloseFree(t) \/ CloseRelease(t) \/ CloseRuntime(t)
    BY <2>2 DEF RunEnd, CloseFree, CloseRelease, CloseRuntime
  <2>3. CASE CloseUnlock(t)
    BY <2>3 DEF CloseUnlock
  <2> QED
    BY <1>2, <2>1, <2>2, <2>3 DEF Proceed
<1>3. ASSUME NEW t \in Threads, NEW s \in Sessions, Call(t, s) PROVE Writers'
  BY <1>3 DEF Call, LoadStart, RunBegin, CloseLock
<1>4. ASSUME NEW t \in Threads, CloseRuntimeStart(t) PROVE Writers'
  BY <1>4 DEF CloseRuntimeStart
<1>5. CASE UNCHANGED vars
  BY <1>5 DEF vars
<1> QED
  BY <1>1, <1>2, <1>3, <1>4, <1>5 DEF Next

\* Deadlock freedom, with no assumption on fairness: s.mu is held by a Close that
\* can go on, that waits for r.mu, or that waits for runs, which take no lock;
\* and whoever holds r.mu takes no other lock.
THEOREM NobodyDeadlocks == Spec => []NoDeadlock
<1>1. Init => Writers
  BY DEF Init, Writers
<1>2. Inv /\ Writers /\ [Next]_vars => Writers'
  BY NextWriters
<1>3. Inv /\ Writers => NoDeadlock
  <2> SUFFICES ASSUME Inv, Writers PROVE NoDeadlock
    OBVIOUS
  <2>1. mu # None => Ready(mu)
    BY DEF Inv, Control, Types, MutexHeld, MutexSteps, OptionsSteps, Ready, Waiting, At
  <2>2. ASSUME NEW t \in Threads, At(t, "drain")
        PROVE  Ready(t) \/ \E u \in users[at[t]] : Ready(u)
    BY <2>2 DEF Inv, Control, Types, SessionsLocked, CloseSteps, Ready, Waiting, Unused, At
  <2>3. ASSUME NEW s \in Sessions, closer[s] # None
        PROVE  At(closer[s], "drain") \/ Ready(closer[s]) \/ Waiting(closer[s])
    BY <2>3 DEF Writers, CloseSteps, Ready, Waiting, At
  <2> QED
    BY <2>1, <2>2, <2>3 DEF NoDeadlock
<1> QED
  BY <1>1, <1>2, <1>3, Invariance, PTL DEF Spec

-----------------------------------------------------------------------------
(* Liveness: what an operation waits for comes.  Fairness is assumed at    *)
(* every moment, []Scheduled, which is the same as Scheduled.              *)

\* The steps that may follow a step of an operation.
After(step) ==
  CASE step = "lock" -> {"options", "unlock"}
    [] step = "options" -> {"create", "unlock"}
    [] step = "create" -> {"commit", "freeOptions"}
    [] step = "commit" -> {"freeOptions"}
    [] step = "freeOptions" -> {"unlock"}
    [] step = "drain" -> {"lockRuntime", "unlockSession"}
    [] step = "lockRuntime" -> {"release"}
    [] step = "release" -> {"unlockSession"}
    [] step = "lockToClose" -> {"closeRuntime"}
    [] OTHER -> {"idle"}

\* Only the thread itself moves it, r.mu stays with its holder until that
\* releases it, and no run begins in a session that waits to be closed.
Onward(t) ==
  /\ pc'[t] = pc[t] \/ pc'[t] \in After(pc[t])
  /\ mu = t => mu' \in {t, None}
  /\ pc[t] = "drain" /\ pc'[t] = "drain" =>
       at'[t] = at[t] /\ users'[at[t]] \subseteq users[at[t]]

LEMMA NextOnward ==
  ASSUME Inv, [Next]_vars, NEW t \in Threads, pc[t] # "idle"
  PROVE  Onward(t)
<1> USE RuntimeAssumption DEF RuntimeAssumption, Inv, Control, Types, MutexHeld, SessionsLocked,
      Steps, LoadSteps, CloseSteps, MutexSteps, OptionsSteps, At, Goto, Begin, End, Lock,
      Onward, After
<1>1. ASSUME NEW u \in Threads, NEW s \in Sessions, LoadStart(u, s) PROVE Onward(t)
  BY <1>1 DEF LoadStart
<1>2. ASSUME NEW u \in Threads, LoadLock(u) PROVE Onward(t)
  BY <1>2 DEF LoadLock, Open
<1>3. ASSUME NEW u \in Threads, LoadOptions(u) PROVE Onward(t)
  BY <1>3 DEF LoadOptions
<1>4. ASSUME NEW u \in Threads, LoadCreate(u) PROVE Onward(t)
  BY <1>4 DEF LoadCreate
<1>5. ASSUME NEW u \in Threads, LoadCommit(u) PROVE Onward(t)
  BY <1>5 DEF LoadCommit, TakeReference, RollBack
<1>6. ASSUME NEW u \in Threads, LoadFreeOptions(u) PROVE Onward(t)
  BY <1>6 DEF LoadFreeOptions
<1>7. ASSUME NEW u \in Threads, LoadUnlock(u) PROVE Onward(t)
  BY <1>7 DEF LoadUnlock
<1>8. ASSUME NEW u \in Threads, NEW s \in Sessions, RunBegin(u, s) PROVE Onward(t)
  BY <1>8 DEF RunBegin
<1>9. ASSUME NEW u \in Threads, RunEnd(u) PROVE Onward(t)
  BY <1>9 DEF RunEnd
<1>10. ASSUME NEW u \in Threads, NEW s \in Sessions, CloseLock(u, s) PROVE Onward(t)
  BY <1>10 DEF CloseLock
<1>11. ASSUME NEW u \in Threads, CloseFree(u) PROVE Onward(t)
  BY <1>11 DEF CloseFree, Mine
<1>12. ASSUME NEW u \in Threads, CloseLockRuntime(u) PROVE Onward(t)
  BY <1>12 DEF CloseLockRuntime
<1>13. ASSUME NEW u \in Threads, CloseRelease(u) PROVE Onward(t)
  BY <1>13 DEF CloseRelease
<1>14. ASSUME NEW u \in Threads, CloseUnlock(u) PROVE Onward(t)
  BY <1>14 DEF CloseUnlock
<1>15. ASSUME NEW u \in Threads, CloseRuntimeStart(u) PROVE Onward(t)
  BY <1>15 DEF CloseRuntimeStart
<1>16. ASSUME NEW u \in Threads, CloseRuntimeLock(u) PROVE Onward(t)
  BY <1>16 DEF CloseRuntimeLock
<1>17. ASSUME NEW u \in Threads, CloseRuntime(u) PROVE Onward(t)
  BY <1>17 DEF CloseRuntime, Open
<1>18. CASE UNCHANGED vars
  BY <1>18 DEF vars
<1> QED
  BY <1>1, <1>2, <1>3, <1>4, <1>5, <1>6, <1>7, <1>8, <1>9, <1>10, <1>11, <1>12,
     <1>13, <1>14, <1>15, <1>16, <1>17, <1>18 DEF Next, Acquire, Proceed, Call

\* A step of the thread takes its operation on.
LEMMA ProceedOnward ==
  ASSUME Inv, NEW t \in Threads, Proceed(t)
  PROVE  pc'[t] \in After(pc[t])
<1> USE DEF Inv, Control, Types, At, Goto, End, After
<1>1. CASE LoadOptions(t) \/ LoadCreate(t) \/ LoadCommit(t) \/ LoadFreeOptions(t) \/ LoadUnlock(t)
  BY <1>1 DEF LoadOptions, LoadCreate, LoadCommit, LoadFreeOptions, LoadUnlock
<1>2. CASE RunEnd(t) \/ CloseFree(t) \/ CloseRelease(t) \/ CloseUnlock(t) \/ CloseRuntime(t)
  BY <1>2 DEF RunEnd, CloseFree, CloseRelease, CloseUnlock, CloseRuntime
<1> QED
  BY <1>1, <1>2 DEF Proceed

LEMMA AcquireOnward ==
  ASSUME Inv, NEW t \in Threads, Acquire(t)
  PROVE  pc'[t] \in After(pc[t])
  BY DEF Inv, Control, Types, At, Goto, After, Acquire, LoadLock, CloseLockRuntime, CloseRuntimeLock

Passed(t, step) == pc[t] \in After(step)
\* What the fairness of a thread needs of a step to take it past it.
Moves(t, step) ==
  /\ Inv /\ At(t, step) /\ [Next]_vars => At(t, step)' \/ Passed(t, step)'
  /\ Inv /\ At(t, step) /\ <<Proceed(t)>>_vars => Passed(t, step)'
  /\ Inv /\ At(t, step) /\ <<Acquire(t)>>_vars => Passed(t, step)'

LEMMA StepMoves == \A t \in Threads, step \in Steps \ {"idle"} : Moves(t, step)
<1> SUFFICES ASSUME NEW t \in Threads, NEW step \in Steps \ {"idle"}, Inv, At(t, step)
             PROVE  /\ [Next]_vars => At(t, step)' \/ Passed(t, step)'
                    /\ <<Proceed(t)>>_vars => Passed(t, step)'
                    /\ <<Acquire(t)>>_vars => Passed(t, step)'
  BY DEF Moves
<1>1. pc[t] = step
  BY DEF At
<1>2. ASSUME [Next]_vars PROVE At(t, step)' \/ Passed(t, step)'
  BY <1>1, <1>2, NextOnward DEF Onward, Passed, At
<1>3. ASSUME <<Proceed(t)>>_vars PROVE Passed(t, step)'
  BY <1>1, <1>3, ProceedOnward DEF Passed
<1>4. ASSUME <<Acquire(t)>>_vars PROVE Passed(t, step)'
  BY <1>1, <1>4, AcquireOnward DEF Passed
<1> QED
  BY <1>2, <1>3, <1>4

\* The steps in which a thread waits for nobody.
FreeSteps == MutexSteps \cup {"run", "unlockSession"}
LEMMA FreeProceeds == \A t \in Threads, step \in FreeSteps : At(t, step) => Ready(t)
  BY DEF At, Ready, Waiting, FreeSteps, MutexSteps, OptionsSteps

LEMMA NotStuck ==
  ASSUME NEW t \in Threads, NeverStuck
  PROVE  /\ Ready(t) => ENABLED <<Proceed(t)>>_vars
         /\ Waiting(t) /\ mu = None => ENABLED <<Acquire(t)>>_vars
  BY DEF NeverStuck

\* The steps that wait for nobody come to an end.
Going(t) == []Inv /\ [][Next]_vars /\ []NeverStuck /\ Served(t)
LEMMA Leaves ==
  ASSUME NEW t \in Threads
  PROVE  Going(t) => (pc[t] \in FreeSteps ~> At(t, "idle"))
<1>1. NeverStuck => (Ready(t) => ENABLED <<Proceed(t)>>_vars)
  BY NotStuck
<1>2. Going(t) => (At(t, "run") ~> At(t, "idle"))
  <2>1. Passed(t, "run") => At(t, "idle")
    BY DEF Passed, After, At
  <2>2. Moves(t, "run") /\ (At(t, "run") => Ready(t))
    BY StepMoves, FreeProceeds DEF Steps, LoadSteps, CloseSteps, FreeSteps, MutexSteps, OptionsSteps
  <2> QED
    BY <1>1, <2>1, <2>2, PTL DEF Moves, Going, Served
<1>3. Going(t) => (At(t, "unlock") ~> At(t, "idle"))
  <2>1. Passed(t, "unlock") => At(t, "idle")
    BY DEF Passed, After, At
  <2>2. Moves(t, "unlock") /\ (At(t, "unlock") => Ready(t))
    BY StepMoves, FreeProceeds DEF Steps, LoadSteps, CloseSteps, FreeSteps, MutexSteps, OptionsSteps
  <2> QED
    BY <1>1, <2>1, <2>2, PTL DEF Moves, Going, Served
<1>4. Going(t) => (At(t, "unlockSession") ~> At(t, "idle"))
  <2>1. Passed(t, "unlockSession") => At(t, "idle")
    BY DEF Passed, After, At
  <2>2. Moves(t, "unlockSession") /\ (At(t, "unlockSession") => Ready(t))
    BY StepMoves, FreeProceeds DEF Steps, LoadSteps, CloseSteps, FreeSteps, MutexSteps, OptionsSteps
  <2> QED
    BY <1>1, <2>1, <2>2, PTL DEF Moves, Going, Served
<1>5. Going(t) => (At(t, "closeRuntime") ~> At(t, "idle"))
  <2>1. Passed(t, "closeRuntime") => At(t, "idle")
    BY DEF Passed, After, At
  <2>2. Moves(t, "closeRuntime") /\ (At(t, "closeRuntime") => Ready(t))
    BY StepMoves, FreeProceeds DEF Steps, LoadSteps, CloseSteps, FreeSteps, MutexSteps, OptionsSteps
  <2> QED
    BY <1>1, <2>1, <2>2, PTL DEF Moves, Going, Served
<1>6. Going(t) => (At(t, "release") ~> At(t, "idle"))
  <2>1. Passed(t, "release") => At(t, "unlockSession")
    BY DEF Passed, After, At
  <2>2. Moves(t, "release") /\ (At(t, "release") => Ready(t))
    BY StepMoves, FreeProceeds DEF Steps, LoadSteps, CloseSteps, FreeSteps, MutexSteps, OptionsSteps
  <2> QED
    BY <1>1, <2>1, <2>2, <1>4, PTL DEF Moves, Going, Served
<1>7. Going(t) => (At(t, "freeOptions") ~> At(t, "idle"))
  <2>1. Passed(t, "freeOptions") => At(t, "unlock")
    BY DEF Passed, After, At
  <2>2. Moves(t, "freeOptions") /\ (At(t, "freeOptions") => Ready(t))
    BY StepMoves, FreeProceeds DEF Steps, LoadSteps, CloseSteps, FreeSteps, MutexSteps, OptionsSteps
  <2> QED
    BY <1>1, <2>1, <2>2, <1>3, PTL DEF Moves, Going, Served
<1>8. Going(t) => (At(t, "commit") ~> At(t, "idle"))
  <2>1. Passed(t, "commit") => At(t, "freeOptions")
    BY DEF Passed, After, At
  <2>2. Moves(t, "commit") /\ (At(t, "commit") => Ready(t))
    BY StepMoves, FreeProceeds DEF Steps, LoadSteps, CloseSteps, FreeSteps, MutexSteps, OptionsSteps
  <2> QED
    BY <1>1, <2>1, <2>2, <1>7, PTL DEF Moves, Going, Served
<1>9. Going(t) => (At(t, "create") ~> At(t, "idle"))
  <2>1. Passed(t, "create") => At(t, "commit") \/ At(t, "freeOptions")
    BY DEF Passed, After, At
  <2>2. Moves(t, "create") /\ (At(t, "create") => Ready(t))
    BY StepMoves, FreeProceeds DEF Steps, LoadSteps, CloseSteps, FreeSteps, MutexSteps, OptionsSteps
  <2> QED
    BY <1>1, <2>1, <2>2, <1>8, <1>7, PTL DEF Moves, Going, Served
<1>10. Going(t) => (At(t, "options") ~> At(t, "idle"))
  <2>1. Passed(t, "options") => At(t, "create") \/ At(t, "unlock")
    BY DEF Passed, After, At
  <2>2. Moves(t, "options") /\ (At(t, "options") => Ready(t))
    BY StepMoves, FreeProceeds DEF Steps, LoadSteps, CloseSteps, FreeSteps, MutexSteps, OptionsSteps
  <2> QED
    BY <1>1, <2>1, <2>2, <1>9, <1>3, PTL DEF Moves, Going, Served
<1>11. pc[t] \in FreeSteps =>
          \/ At(t, "run") \/ At(t, "unlock") \/ At(t, "unlockSession") \/ At(t, "closeRuntime")
          \/ At(t, "release") \/ At(t, "freeOptions") \/ At(t, "commit") \/ At(t, "create")
          \/ At(t, "options")
  BY DEF FreeSteps, MutexSteps, OptionsSteps, At
<1> QED
  BY <1>2, <1>3, <1>4, <1>5, <1>6, <1>7, <1>8, <1>9, <1>10, <1>11, PTL

\* A session has finitely many runs at a time.
Bounded == \A s \in Sessions : IsFiniteSet(users[s])
LEMMA NextBounded == Inv /\ Bounded /\ [Next]_vars => Bounded'
<1> SUFFICES ASSUME Inv, Bounded, [Next]_vars, NEW s \in Sessions PROVE IsFiniteSet(users'[s])
  BY DEF Bounded
<1>1. IsFiniteSet(users[s])
  BY DEF Bounded
<1>2. users'[s] \subseteq users[s] \/ \E t \in Threads : users'[s] = users[s] \cup {t}
  BY DEF Inv, Control, Types, Next, vars, Acquire, Proceed, Call, LoadStart, LoadLock, LoadOptions,
     LoadCreate, LoadCommit, LoadFreeOptions, LoadUnlock, RunBegin, RunEnd, CloseLock, CloseFree,
     CloseLockRuntime, CloseRelease, CloseUnlock, CloseRuntimeStart, CloseRuntimeLock, CloseRuntime
<1>3. CASE users'[s] \subseteq users[s]
  BY <1>1, <1>3, FS_Subset
<1>4. CASE \E t \in Threads : users'[s] = users[s] \cup {t}
  BY <1>1, <1>4, FS_AddElement
<1> QED
  BY <1>2, <1>3, <1>4

\* Whoever holds r.mu releases it, so that it is free again and again.
World == []Inv /\ []Bounded /\ [][Next]_vars /\ []NeverStuck /\ []Scheduled
LEMMA HolderReleases ==
  ASSUME NEW t \in Threads
  PROVE  World => (mu = t => <>(mu = None))
<1>1. Inv /\ mu = t /\ [Next]_vars => (mu = t)' \/ (mu = None)'
  <2> SUFFICES ASSUME Inv, mu = t, [Next]_vars PROVE mu' \in {t, None}
    OBVIOUS
  <2>1. pc[t] # "idle"
    BY DEF Inv, Control, MutexHeld, MutexSteps, OptionsSteps
  <2> QED
    BY <2>1, NextOnward DEF Onward
<1>2. Inv /\ mu = t => pc[t] \in FreeSteps
  BY DEF Inv, Control, MutexHeld, FreeSteps
<1>3. Inv /\ At(t, "idle") => ~(mu = t)
  BY DEF Inv, Control, MutexHeld, MutexSteps, OptionsSteps, At
<1>4. World => Going(t)
  <2>1. Scheduled => Served(t)
    BY DEF Scheduled
  <2> QED
    BY <2>1, PTL DEF World, Going
<1>5. Going(t) => (pc[t] \in FreeSteps ~> At(t, "idle"))
  BY Leaves
<1> QED
  BY <1>1, <1>2, <1>3, <1>4, <1>5, PTL DEF World

LEMMA MutexFree == World => []<>(mu = None)
<1>1. Inv /\ World => <>(mu = None)
  <2>1. \A t \in Threads : World => (mu = t => <>(mu = None))
    BY HolderReleases
  <2>2. Inv => mu = None \/ \E t \in Threads : mu = t
    BY DEF Inv, Control, Types
  <2>3. mu = None => <>(mu = None)
    BY PTL
  <2> QED
    BY <2>1, <2>2, <2>3
<1> QED
  BY <1>1, PTL DEF World

\* A thread that waits for r.mu gets it and returns.
LEMMA WaitersReturn ==
  ASSUME NEW t \in Threads
  PROVE  World => (pc[t] # "idle" /\ pc[t] # "drain" ~> At(t, "idle"))
<1>1. NeverStuck => (Waiting(t) /\ mu = None => ENABLED <<Acquire(t)>>_vars)
  BY NotStuck
<1>2. World => Going(t)
  <2>1. Scheduled => Served(t)
    BY DEF Scheduled
  <2> QED
    BY <2>1, PTL DEF World, Going
<1>3. Going(t) => (pc[t] \in FreeSteps ~> At(t, "idle"))
  BY Leaves
<1>4. World => (At(t, "lock") ~> At(t, "idle"))
  <2>1. (Passed(t, "lock") => pc[t] \in FreeSteps) /\ (At(t, "lock") => Waiting(t))
    BY DEF Passed, After, FreeSteps, MutexSteps, OptionsSteps, At, Waiting
  <2>2. Moves(t, "lock")
    BY StepMoves DEF Steps, LoadSteps, CloseSteps
  <2> QED
    BY <1>1, <1>2, <1>3, <2>1, <2>2, MutexFree, PTL DEF Moves, Going, Served
<1>5. World => (At(t, "lockRuntime") ~> At(t, "idle"))
  <2>1. (Passed(t, "lockRuntime") => pc[t] \in FreeSteps) /\ (At(t, "lockRuntime") => Waiting(t))
    BY DEF Passed, After, FreeSteps, MutexSteps, OptionsSteps, At, Waiting
  <2>2. Moves(t, "lockRuntime")
    BY StepMoves DEF Steps, LoadSteps, CloseSteps
  <2> QED
    BY <1>1, <1>2, <1>3, <2>1, <2>2, MutexFree, PTL DEF Moves, Going, Served
<1>6. World => (At(t, "lockToClose") ~> At(t, "idle"))
  <2>1. (Passed(t, "lockToClose") => pc[t] \in FreeSteps) /\ (At(t, "lockToClose") => Waiting(t))
    BY DEF Passed, After, FreeSteps, MutexSteps, OptionsSteps, At, Waiting
  <2>2. Moves(t, "lockToClose")
    BY StepMoves DEF Steps, LoadSteps, CloseSteps
  <2> QED
    BY <1>1, <1>2, <1>3, <2>1, <2>2, MutexFree, PTL DEF Moves, Going, Served
<1>7. Inv /\ pc[t] # "idle" /\ pc[t] # "drain" =>
        At(t, "lock") \/ At(t, "lockRuntime") \/ At(t, "lockToClose") \/ pc[t] \in FreeSteps
  BY DEF Inv, Control, Types, Steps, LoadSteps, CloseSteps, FreeSteps, MutexSteps, OptionsSteps, At
<1> QED
  BY <1>2, <1>3, <1>4, <1>5, <1>6, <1>7, PTL DEF World

LEMMA WorldHolds == Spec /\ []Scheduled /\ []NeverStuck => World
<1>1. Init => Bounded
  BY FS_EmptySet DEF Init, Bounded
<1> QED
  BY <1>1, NextBounded, Invariance, PTL DEF Spec, World

\* Loads, runs, Runtime.Close, and a Session.Close that has freed its session end,
\* however many threads want r.mu: no order in which s.mu and r.mu are taken
\* leaves a thread waiting for ever.
THEOREM WaitersServed ==
  Spec /\ []Scheduled /\ []NeverStuck =>
    \A t \in Threads : pc[t] # "idle" /\ pc[t] # "drain" ~> At(t, "idle")
<1> SUFFICES ASSUME NEW t \in Threads
             PROVE  Spec /\ []Scheduled /\ []NeverStuck =>
                      (pc[t] # "idle" /\ pc[t] # "drain" ~> At(t, "idle"))
  OBVIOUS
<1>1. Spec /\ []Scheduled /\ []NeverStuck => World
  BY WorldHolds
<1>2. World => (pc[t] # "idle" /\ pc[t] # "drain" ~> At(t, "idle"))
  BY WaitersReturn
<1> QED
  BY <1>1, <1>2, PTL

\* A Session.Close waits for a number of runs, and that number falls: each run
\* ends and no new one begins.
Drained(t) == ~At(t, "drain") \/ Unused(at[t])
Draining(t, n) == At(t, "drain") /\ Cardinality(users[at[t]]) = n
Fewer(t, n) == Drained(t) \/ \E m \in Nat : m < n /\ Draining(t, m)

LEMMA DrainStep ==
  ASSUME Inv, Bounded, [Next]_vars, NEW t \in Threads, NEW n \in Nat, Draining(t, n)
  PROVE  \/ Fewer(t, n)'
         \/ Draining(t, n)' /\ at'[t] = at[t] /\ users'[at[t]] = users[at[t]]
<1>1. pc[t] = "drain" /\ at[t] \in Sessions
  BY DEF Draining, At, Inv, Control, Types, SessionsLocked, CloseSteps
<1>2. Onward(t)
  BY <1>1, NextOnward
<1>3. CASE pc'[t] # "drain"
  BY <1>3 DEF Fewer, Drained, At
<1>4. CASE pc'[t] = "drain" /\ users'[at[t]] = users[at[t]]
  BY <1>1, <1>2, <1>4 DEF Onward, Draining, At
<1>5. CASE pc'[t] = "drain" /\ users'[at[t]] # users[at[t]]
  <2>1. /\ at'[t] = at[t] /\ users'[at[t]] \subseteq users[at[t]]
        /\ IsFiniteSet(users[at[t]]) /\ Cardinality(users[at[t]]) = n
    BY <1>1, <1>2, <1>5 DEF Onward, Bounded, Draining
  <2>2. PICK m \in Nat : m = Cardinality(users'[at[t]]) /\ m < n
    <3>1. IsFiniteSet(users'[at[t]]) /\ Cardinality(users'[at[t]]) <= n /\ Cardinality(users'[at[t]]) # n
      BY <1>5, <2>1, FS_Subset
    <3>2. Cardinality(users'[at[t]]) \in Nat
      BY <3>1, FS_CardinalityType
    <3> QED
      BY <3>1, <3>2
  <2>3. Draining(t, m)'
    BY <1>5, <2>1, <2>2 DEF Draining, At
  <2> QED
    BY <2>2, <2>3 DEF Fewer
<1> QED
  BY <1>3, <1>4, <1>5

Falls(t, n) == Draining(t, n) ~> Fewer(t, n)
LEMMA DrainFalls ==
  ASSUME NEW u \in Threads, NEW n \in Nat
  PROVE  World => Falls(u, n)
<1> DEFINE Awaits(t) == Draining(u, n) /\ t \in users[at[u]]
<1>1. ASSUME NEW t \in Threads PROVE World => (Awaits(t) => <>Fewer(u, n))
  <2>1. Inv /\ Bounded /\ Awaits(t) /\ [Next]_vars => Awaits(t)' \/ Fewer(u, n)'
    BY DrainStep
  <2>2. Inv /\ Awaits(t) => pc[t] \in FreeSteps /\ ~At(t, "idle")
    BY DEF Inv, Control, Types, SessionsLocked, CloseSteps, Draining, FreeSteps, At
  <2>3. World => (pc[t] \in FreeSteps ~> At(t, "idle"))
    <3>1. Scheduled => Served(t)
      BY DEF Scheduled
    <3>2. World => Going(t)
      BY <3>1, PTL DEF World, Going
    <3>3. Going(t) => (pc[t] \in FreeSteps ~> At(t, "idle"))
      BY Leaves
    <3> QED
      BY <3>2, <3>3
  <2> QED
    BY <2>1, <2>2, <2>3, PTL DEF World
<1>2. Inv /\ Bounded /\ Draining(u, n) => Fewer(u, n) \/ \E t \in Threads : Awaits(t)
  BY DEF Inv, Control, Types, SessionsLocked, CloseSteps, Draining, Fewer, Drained, Unused, At
<1>3. Fewer(u, n) => <>Fewer(u, n)
  BY PTL
<1>4. Inv /\ Bounded /\ World => (Draining(u, n) => <>Fewer(u, n))
  <2> HIDE DEF Awaits
  <2> QED
    BY <1>1, <1>2, <1>3
<1> QED
  BY <1>4, PTL DEF World, Falls

\* So it reaches nought.  That a number cannot fall for ever is the Lattice rule
\* of TLA, which holds in every behaviour; this is the instance of it.
Counting(t) == \E n \in Nat : Draining(t, n)
Drains(t) == Counting(t) ~> Drained(t)
DrainRule(t) == (\A n \in Nat : Falls(t, n)) => Drains(t)

\* Hence every operation ends: no load, run, or close of a session or of the
\* runtime waits for ever.
THEOREM OperationsEnd ==
  Spec /\ []Scheduled /\ []NeverStuck /\ (\A t \in Threads : DrainRule(t)) => OperationsReturn
<1> SUFFICES ASSUME NEW t \in Threads
             PROVE  Spec /\ []Scheduled /\ []NeverStuck /\ (\A u \in Threads : DrainRule(u)) =>
                      (~At(t, "idle") ~> At(t, "idle"))
  BY DEF OperationsReturn
<1>1. Spec /\ []Scheduled /\ []NeverStuck => World
  BY WorldHolds
<1>2. World => (pc[t] # "idle" /\ pc[t] # "drain" ~> At(t, "idle"))
  BY WaitersReturn
<1>3. World /\ (\A u \in Threads : DrainRule(u)) => Drains(t)
  <2>1. \A n \in Nat : World => Falls(t, n)
    BY DrainFalls
  <2> QED
    BY <2>1 DEF DrainRule
<1>4. Inv /\ Bounded /\ At(t, "drain") => Counting(t)
  <2> SUFFICES ASSUME Inv, Bounded, At(t, "drain") PROVE Counting(t)
    OBVIOUS
  <2>1. at[t] \in Sessions
    BY DEF At, Inv, Control, Types, SessionsLocked, CloseSteps
  <2>2. Cardinality(users[at[t]]) \in Nat
    BY <2>1, FS_CardinalityType DEF Bounded
  <2> QED
    BY <2>2 DEF Counting, Draining
<1>5. World /\ Drains(t) => (At(t, "drain") ~> ~At(t, "drain"))
  <2>1. At(t, "drain") /\ Drained(t) => Ready(t)
    BY DEF At, Drained, Ready, Waiting
  <2>2. /\ Inv /\ At(t, "drain") /\ Drained(t) /\ [Next]_vars =>
             (At(t, "drain") /\ Drained(t))' \/ ~At(t, "drain")'
        /\ Inv /\ At(t, "drain") /\ <<Proceed(t)>>_vars => ~At(t, "drain")'
    <3>1. ASSUME Inv, At(t, "drain"), Drained(t), [Next]_vars
          PROVE  (At(t, "drain") /\ Drained(t))' \/ ~At(t, "drain")'
      BY <3>1, NextOnward DEF Onward, Drained, Unused, At
    <3>2. ASSUME Inv, At(t, "drain"), <<Proceed(t)>>_vars PROVE ~At(t, "drain")'
      BY <3>2, ProceedOnward DEF At, After
    <3> QED
      BY <3>1, <3>2
  <2>3. NeverStuck => (Ready(t) => ENABLED <<Proceed(t)>>_vars)
    BY NotStuck
  <2>4. Scheduled => Served(t)
    BY DEF Scheduled
  <2> QED
    BY <1>4, <2>1, <2>2, <2>3, <2>4, PTL DEF World, Served, Drains
<1>6. ~At(t, "drain") => At(t, "idle") \/ (pc[t] # "idle" /\ pc[t] # "drain")
  BY DEF At
<1> QED
  BY <1>1, <1>2, <1>3, <1>5, <1>6, PTL

-----------------------------------------------------------------------------
\* When the runtime and all its sessions are closed, the references left are
\* those of Closes that have yet to release theirs, and their number falls.
Leftover(n) == closed /\ handles = {} /\ refs = n
FewerLeft(n) == ~native \/ \E m \in Nat : m < n /\ Leftover(m)

LEMMA LeftoverStep ==
  ASSUME Inv, [Next]_vars, NEW n \in Nat, Leftover(n), NEW t \in Threads,
         pc[t] \in {"lockRuntime", "release"}, n # 0
  PROVE  FewerLeft(n)' \/ (Leftover(n) /\ pc[t] \in {"lockRuntime", "release"})'
<1> USE DEF Leftover
<1>1. closed' /\ handles' = {}
  BY DEF Inv, Control, MutexHeld, OptionsSteps, Next, vars, Acquire, Proceed, Call, At,
     LoadStart, LoadLock, LoadOptions, LoadCreate, LoadCommit, TakeReference, RollBack,
     LoadFreeOptions, LoadUnlock, RunBegin, RunEnd, CloseLock, CloseFree, CloseLockRuntime,
     CloseRelease, CloseUnlock, CloseRuntimeStart, CloseRuntimeLock, CloseRuntime
<1>2. refs' = n \/ refs' = n - 1
  BY DEF Inv, Control, MutexHeld, OptionsSteps, Next, vars, Acquire, Proceed, Call, At,
     LoadStart, LoadLock, LoadOptions, LoadCreate, LoadCommit, TakeReference, RollBack,
     LoadFreeOptions, LoadUnlock, RunBegin, RunEnd, CloseLock, CloseFree, CloseLockRuntime,
     CloseRelease, CloseUnlock, CloseRuntimeStart, CloseRuntimeLock, CloseRuntime, Open, Release
<1>3. pc'[t] \in {"lockRuntime", "release"} \/ refs' = n - 1
  <2>1. Onward(t)
    BY NextOnward
  <2>2. CASE pc[t] = "release" /\ pc'[t] # "release"
    <3>1. PICK u \in Threads :
            \/ Acquire(u) \/ Proceed(u) \/ CloseRuntimeStart(u)
            \/ \E s \in Sessions : Call(u, s)
      BY <2>2 DEF Next, vars
    <3>2. pc'[u] # pc[u] /\ \E step : Goto(u, step)
      BY <3>1 DEF Inv, Control, Types, Acquire, Proceed, Call, At, Goto, Begin, End,
         LoadStart, LoadLock, LoadOptions, LoadCreate, LoadCommit,
         LoadFreeOptions, LoadUnlock, RunBegin, RunEnd, CloseLock, CloseFree, CloseLockRuntime,
         CloseRelease, CloseUnlock, CloseRuntimeStart, CloseRuntimeLock, CloseRuntime
    <3>3. u = t
      BY <2>2, <3>2 DEF Goto, Inv, Control, Types
    <3>4. CloseRelease(t)
      BY <2>2, <3>1, <3>3 DEF Acquire, Proceed, Call, At, Begin,
         LoadStart, LoadLock, LoadOptions, LoadCreate, LoadCommit,
         LoadFreeOptions, LoadUnlock, RunBegin, RunEnd, CloseLock, CloseFree, CloseLockRuntime,
         CloseUnlock, CloseRuntimeStart, CloseRuntimeLock, CloseRuntime
    <3> QED
      BY <3>4 DEF CloseRelease, Release
  <2> QED
    BY <2>1, <2>2 DEF Onward, After
<1>4. CASE refs' = n - 1
  <2>1. n - 1 \in Nat /\ n - 1 < n /\ Leftover(n - 1)'
    BY <1>1, <1>4
  <2> QED
    BY <2>1 DEF FewerLeft
<1> QED
  BY <1>1, <1>2, <1>3, <1>4

LeftFalls(n) == Leftover(n) ~> FewerLeft(n)
LEMMA LeftoverFalls ==
  ASSUME NEW n \in Nat
  PROVE  World => LeftFalls(n)
<1> DEFINE Awaits(t) == Leftover(n) /\ pc[t] \in {"lockRuntime", "release"}
<1>1. ASSUME NEW t \in Threads, n # 0 PROVE World => (Awaits(t) => <>FewerLeft(n))
  <2>1. Inv /\ Awaits(t) /\ [Next]_vars => Awaits(t)' \/ FewerLeft(n)'
    BY <1>1, LeftoverStep
  <2>2. Awaits(t) => pc[t] # "idle" /\ pc[t] # "drain" /\ ~At(t, "idle")
    BY DEF At
  <2>3. World => (pc[t] # "idle" /\ pc[t] # "drain" ~> At(t, "idle"))
    BY WaitersReturn
  <2> QED
    BY <2>1, <2>2, <2>3, PTL DEF World
<1>2. Inv /\ Leftover(n) => FewerLeft(n) \/ (n # 0 /\ \E t \in Threads : Awaits(t))
  <2> SUFFICES ASSUME Inv, Leftover(n), native PROVE n # 0 /\ \E t \in Threads : Awaits(t)
    BY DEF FewerLeft
  <2>1. n # 0 /\ Holders # {} /\ Owner \notin Holders
    BY CountedHolders, OwnerHolds DEF Inv, Counted, Leftover
  <2>2. PICK s \in Sessions : Leases(s)
    BY <2>1 DEF Holders
  <2> QED
    BY <2>1, <2>2 DEF Leases, Leftover
<1>3. FewerLeft(n) => <>FewerLeft(n)
  BY PTL
<1>4. Inv /\ World => (Leftover(n) => <>FewerLeft(n))
  <2> HIDE DEF Awaits
  <2> QED
    BY <1>1, <1>2, <1>3
<1> QED
  BY <1>4, PTL DEF World, LeftFalls

\* The instance of the Lattice rule, as above.
SomeLeft == \E n \in Nat : Leftover(n)
LeftoverRule == (\A n \in Nat : LeftFalls(n)) => (SomeLeft ~> ~native)

\* Hence the library goes away once the runtime and its sessions are closed.
THEOREM LibraryGoes ==
  Spec /\ []Scheduled /\ []NeverStuck /\ LeftoverRule => Unloads
<1>1. Spec /\ []Scheduled /\ []NeverStuck => World
  BY WorldHolds
<1>2. World /\ LeftoverRule => (SomeLeft ~> ~native)
  <2>1. \A n \in Nat : World => LeftFalls(n)
    BY LeftoverFalls
  <2> QED
    BY <2>1 DEF LeftoverRule
<1>3. TypeOK /\ closed /\ handles = {} => SomeLeft
  BY DEF TypeOK, SomeLeft, Leftover
<1> QED
  BY <1>1, <1>2, <1>3, TypeCorrect, PTL DEF Unloads
=============================================================================
