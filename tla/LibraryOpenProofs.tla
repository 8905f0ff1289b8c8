-------------------------- MODULE LibraryOpenProofs --------------------------
(***************************************************************************)
(* Proofs about module LibraryOpen, on either platform and for any finite  *)
(* number of runtimes: what exists at each step of Open and of oc_close.   *)
(***************************************************************************)
EXTENDS LibraryOpen, FiniteSetTheorems, TLAPS

Types ==
  /\ pc \in [Runtimes -> Steps]
  /\ live \subseteq Kinds \X Runtimes
  /\ mapped \in Int
  /\ error \in [Runtimes -> {"none", "loader", "native"}]
  /\ copied \subseteq Runtimes

\* Where Open stands, in terms of what oc_open has acquired and not handed over.
Mapping == {"symbol", "env", "telemetry", "memory", "allocator", "status", "opened", "ready"}
WithEnv == {"telemetry", "memory", "allocator", "opened", "ready"}
WithMemory == {"allocator", "opened", "ready"}

\* What is allocated for r at each step.  Cleanup after a failure may find any
\* of the last three parts missing; cleanup of an open runtime finds them all.
Parts(r) ==
  /\ Has(r, "path") <=> \/ pc[r] \in {"alloc", "widen", "library", "return"}
                        \/ pc[r] \in Mapping \ {"ready"}
                        \/ pc[r] \in CloseSteps /\ error[r] # "none"
  /\ Has(r, "wide") => pc[r] = "library"
  /\ Has(r, "message") => pc[r] \in CloseSteps \cup {"return"} /\ error[r] # "none"
  /\ Has(r, "runtime") <=> pc[r] \in {"widen", "library"} \cup Mapping \cup CloseSteps
  /\ Has(r, "status") <=> pc[r] = "status"

\* The library outlasts the two objects that it made.
Nested(r) ==
  /\ Has(r, "library") => pc[r] \in Mapping \cup CloseSteps
  /\ pc[r] \in Mapping => Has(r, "library")
  /\ pc[r] \in CloseSteps /\ error[r] = "none" => Has(r, "library")
  /\ Has(r, "env") => Has(r, "library") /\ pc[r] # "closeLibrary"
  /\ pc[r] \in WithEnv => Has(r, "env")
  /\ Has(r, "memory") => Has(r, "library") /\ pc[r] \notin {"closeEnv", "closeLibrary"}
  /\ pc[r] \in WithMemory => Has(r, "memory")

\* No failure precedes "ready", and the version is copied before.
Answered(r) ==
  /\ pc[r] \in {"alloc", "widen", "library"} \cup Mapping => error[r] = "none"
  /\ pc[r] \in {"ready", "closed"} => r \in copied
  /\ pc[r] \in CloseSteps /\ error[r] = "none" => r \in copied

-----------------------------------------------------------------------------
(* One step concerns one runtime.                                          *)

Ready(r) == Parts(r) /\ Nested(r) /\ Answered(r)

\* The step of r keeps to its own objects and counts what it loads and unloads.
Others(r) == \A q \in Runtimes \ {r} :
  /\ pc'[q] = pc[q] /\ error'[q] = error[q] /\ (q \in copied' <=> q \in copied)
  /\ \A k \in Kinds : Has(q, k)' <=> Has(q, k)
Counted(r) ==
  \/ (Has(r, "library")' <=> Has(r, "library")) /\ mapped' = mapped
  \/ ~Has(r, "library") /\ Has(r, "library")' /\ mapped' = mapped + 1
  \/ Has(r, "library") /\ ~Has(r, "library")' /\ mapped' = mapped - 1
Local(r) == Types' /\ Ready(r)' /\ Others(r) /\ Counted(r)

\* Every action does.
LEMMA StepLocal ==
  ASSUME Types, \A q \in Runtimes : Ready(q), Next
  PROVE  \E r \in Runtimes : Local(r)
<1>0. PICK r \in Runtimes :
        \/ OpenStart(r)
        \/ OpenAlloc(r)
        \/ OpenWiden(r)
        \/ OpenLibrary(r)
        \/ OpenSymbol(r)
        \/ CreateEnv(r)
        \/ DisableTelemetry(r)
        \/ CreateMemoryInfo(r)
        \/ GetAllocator(r)
        \/ Report(r)
        \/ CloseMemory(r)
        \/ CloseEnv(r)
        \/ CloseLibrary(r)
        \/ OpenFailed(r)
        \/ Opened(r)
        \/ LastRelease(r)
  BY DEF Next
<1> SUFFICES Local(r)
  OBVIOUS
<1>a. Types /\ Ready(r)
  OBVIOUS
<1> USE LibraryOpenAssumption DEF LibraryOpenAssumption, Has, At, Goto, Obtain, Release
<1>1. CASE OpenStart(r)
  <2>1. Types'
    BY <1>a, <1>1 DEF OpenStart, Types, Kinds, Steps, CloseSteps
  <2>2. Others(r)
    BY <1>a, <1>1 DEF OpenStart, Types, Others
  <2>3. Parts(r)' /\ Counted(r)
    BY <1>a, <1>1 DEF OpenStart, Types, Ready, Parts, Nested, Answered, Counted, CloseSteps, Mapping
  <2>4. Nested(r)' /\ Answered(r)'
    BY <1>a, <1>1 DEF OpenStart, Types, Ready, Nested, Answered, CloseSteps, Mapping, WithEnv, WithMemory
  <2> QED
    BY <2>1, <2>2, <2>3, <2>4 DEF Local, Ready
<1>2. CASE OpenAlloc(r)
  <2>1. Types'
    BY <1>a, <1>2 DEF OpenAlloc, LoaderFailure, Types, Kinds, Steps, CloseSteps
  <2>2. Others(r)
    BY <1>a, <1>2 DEF OpenAlloc, LoaderFailure, Types, Others
  <2>3. Parts(r)' /\ Counted(r)
    BY <1>a, <1>2 DEF OpenAlloc, LoaderFailure, Types, Ready, Parts, Nested, Answered, Counted, CloseSteps, Mapping
  <2>4. Nested(r)' /\ Answered(r)'
    BY <1>a, <1>2 DEF OpenAlloc, LoaderFailure, Types, Ready, Nested, Answered, CloseSteps, Mapping, WithEnv, WithMemory
  <2> QED
    BY <2>1, <2>2, <2>3, <2>4 DEF Local, Ready
<1>3. CASE OpenWiden(r)
  <2>1. Types'
    BY <1>a, <1>3 DEF OpenWiden, LoaderFailure, Types, Kinds, Steps, CloseSteps
  <2>2. Others(r)
    BY <1>a, <1>3 DEF OpenWiden, LoaderFailure, Types, Others
  <2>3. Parts(r)' /\ Counted(r)
    BY <1>a, <1>3 DEF OpenWiden, LoaderFailure, Types, Ready, Parts, Nested, Answered, Counted, CloseSteps, Mapping
  <2>4. Nested(r)' /\ Answered(r)'
    BY <1>a, <1>3 DEF OpenWiden, LoaderFailure, Types, Ready, Nested, Answered, CloseSteps, Mapping, WithEnv, WithMemory
  <2> QED
    BY <2>1, <2>2, <2>3, <2>4 DEF Local, Ready
<1>4. CASE OpenLibrary(r)
  <2>1. Types'
    BY <1>a, <1>4 DEF OpenLibrary, Unwidened, Types, Kinds, Steps, CloseSteps
  <2>2. Others(r)
    BY <1>a, <1>4 DEF OpenLibrary, Unwidened, Types, Others
  <2>3. Parts(r)' /\ Counted(r)
    BY <1>a, <1>4 DEF OpenLibrary, Unwidened, Types, Ready, Parts, Nested, Answered, Counted, CloseSteps, Mapping
  <2>4. Nested(r)' /\ Answered(r)'
    BY <1>a, <1>4 DEF OpenLibrary, Unwidened, Types, Ready, Nested, Answered, CloseSteps, Mapping, WithEnv, WithMemory
  <2> QED
    BY <2>1, <2>2, <2>3, <2>4 DEF Local, Ready
<1>5. CASE OpenSymbol(r)
  <2>1. Types'
    BY <1>a, <1>5 DEF OpenSymbol, LoaderFailure, Types, Kinds, Steps, CloseSteps
  <2>2. Others(r)
    BY <1>a, <1>5 DEF OpenSymbol, LoaderFailure, Types, Others
  <2>3. Parts(r)' /\ Counted(r)
    BY <1>a, <1>5 DEF OpenSymbol, LoaderFailure, Types, Ready, Parts, Nested, Answered, Counted, CloseSteps, Mapping
  <2>4. Nested(r)' /\ Answered(r)'
    BY <1>a, <1>5 DEF OpenSymbol, LoaderFailure, Types, Ready, Nested, Answered, CloseSteps, Mapping, WithEnv, WithMemory
  <2> QED
    BY <2>1, <2>2, <2>3, <2>4 DEF Local, Ready
<1>6. CASE CreateEnv(r)
  <2>1. Types'
    BY <1>a, <1>6 DEF CreateEnv, StatusFailure, Types, Kinds, Steps, CloseSteps
  <2>2. Others(r)
    BY <1>a, <1>6 DEF CreateEnv, StatusFailure, Types, Others
  <2>3. Parts(r)' /\ Counted(r)
    BY <1>a, <1>6 DEF CreateEnv, StatusFailure, Types, Ready, Parts, Nested, Answered, Counted, CloseSteps, Mapping
  <2>4. Nested(r)' /\ Answered(r)'
    BY <1>a, <1>6 DEF CreateEnv, StatusFailure, Types, Ready, Nested, Answered, CloseSteps, Mapping, WithEnv, WithMemory
  <2> QED
    BY <2>1, <2>2, <2>3, <2>4 DEF Local, Ready
<1>7. CASE DisableTelemetry(r)
  <2>1. Types'
    BY <1>a, <1>7 DEF DisableTelemetry, StatusFailure, Types, Kinds, Steps, CloseSteps
  <2>2. Others(r)
    BY <1>a, <1>7 DEF DisableTelemetry, StatusFailure, Types, Others
  <2>3. Parts(r)' /\ Counted(r)
    BY <1>a, <1>7 DEF DisableTelemetry, StatusFailure, Types, Ready, Parts, Nested, Answered, Counted, CloseSteps, Mapping
  <2>4. Nested(r)' /\ Answered(r)'
    BY <1>a, <1>7 DEF DisableTelemetry, StatusFailure, Types, Ready, Nested, Answered, CloseSteps, Mapping, WithEnv, WithMemory
  <2> QED
    BY <2>1, <2>2, <2>3, <2>4 DEF Local, Ready
<1>8. CASE CreateMemoryInfo(r)
  <2>1. Types'
    BY <1>a, <1>8 DEF CreateMemoryInfo, StatusFailure, Types, Kinds, Steps, CloseSteps
  <2>2. Others(r)
    BY <1>a, <1>8 DEF CreateMemoryInfo, StatusFailure, Types, Others
  <2>3. Parts(r)' /\ Counted(r)
    BY <1>a, <1>8 DEF CreateMemoryInfo, StatusFailure, Types, Ready, Parts, Nested, Answered, Counted, CloseSteps, Mapping
  <2>4. Nested(r)' /\ Answered(r)'
    BY <1>a, <1>8 DEF CreateMemoryInfo, StatusFailure, Types, Ready, Nested, Answered, CloseSteps, Mapping, WithEnv, WithMemory
  <2> QED
    BY <2>1, <2>2, <2>3, <2>4 DEF Local, Ready
<1>9. CASE GetAllocator(r)
  <2>1. Types'
    BY <1>a, <1>9 DEF GetAllocator, StatusFailure, Types, Kinds, Steps, CloseSteps
  <2>2. Others(r)
    BY <1>a, <1>9 DEF GetAllocator, StatusFailure, Types, Others
  <2>3. Parts(r)' /\ Counted(r)
    BY <1>a, <1>9 DEF GetAllocator, StatusFailure, Types, Ready, Parts, Nested, Answered, Counted, CloseSteps, Mapping
  <2>4. Nested(r)' /\ Answered(r)'
    BY <1>a, <1>9 DEF GetAllocator, StatusFailure, Types, Ready, Nested, Answered, CloseSteps, Mapping, WithEnv, WithMemory
  <2> QED
    BY <2>1, <2>2, <2>3, <2>4 DEF Local, Ready
<1>10. CASE Report(r)
  <2>1. Types'
    BY <1>a, <1>10 DEF Report, Reported, AfterReport, Types, Kinds, Steps, CloseSteps
  <2>2. Others(r)
    BY <1>a, <1>10 DEF Report, Reported, AfterReport, Types, Others
  <2>3. Parts(r)' /\ Counted(r)
    BY <1>a, <1>10 DEF Report, Reported, AfterReport, Types, Ready, Parts, Nested, Answered, Counted, CloseSteps, Mapping
  <2>4. Nested(r)' /\ Answered(r)'
    BY <1>a, <1>10 DEF Report, Reported, AfterReport, Types, Ready, Nested, Answered, CloseSteps, Mapping, WithEnv, WithMemory
  <2> QED
    BY <2>1, <2>2, <2>3, <2>4 DEF Local, Ready
<1>11. CASE CloseMemory(r)
  <2>1. Types'
    BY <1>a, <1>11 DEF CloseMemory, Types, Kinds, Steps, CloseSteps
  <2>2. Others(r)
    BY <1>a, <1>11 DEF CloseMemory, Types, Others
  <2>3. Parts(r)' /\ Counted(r)
    BY <1>a, <1>11 DEF CloseMemory, Types, Ready, Parts, Nested, Answered, Counted, CloseSteps, Mapping
  <2>4. Nested(r)' /\ Answered(r)'
    BY <1>a, <1>11 DEF CloseMemory, Types, Ready, Nested, Answered, CloseSteps, Mapping, WithEnv, WithMemory
  <2> QED
    BY <2>1, <2>2, <2>3, <2>4 DEF Local, Ready
<1>12. CASE CloseEnv(r)
  <2>1. Types'
    BY <1>a, <1>12 DEF CloseEnv, Types, Kinds, Steps, CloseSteps
  <2>2. Others(r)
    BY <1>a, <1>12 DEF CloseEnv, Types, Others
  <2>3. Parts(r)' /\ Counted(r)
    BY <1>a, <1>12 DEF CloseEnv, Types, Ready, Parts, Nested, Answered, Counted, CloseSteps, Mapping
  <2>4. Nested(r)' /\ Answered(r)'
    BY <1>a, <1>12 DEF CloseEnv, Types, Ready, Nested, Answered, CloseSteps, Mapping, WithEnv, WithMemory
  <2> QED
    BY <2>1, <2>2, <2>3, <2>4 DEF Local, Ready
<1>13. CASE CloseLibrary(r)
  <2>1. Types'
    BY <1>a, <1>13 DEF CloseLibrary, Mapped, Types, Kinds, Steps, CloseSteps
  <2>2. Others(r)
    BY <1>a, <1>13 DEF CloseLibrary, Mapped, Types, Others
  <2>3. Parts(r)' /\ Counted(r)
    BY <1>a, <1>13 DEF CloseLibrary, Mapped, Types, Ready, Parts, Nested, Answered, Counted, CloseSteps, Mapping
  <2>4. Nested(r)' /\ Answered(r)'
    BY <1>a, <1>13 DEF CloseLibrary, Mapped, Types, Ready, Nested, Answered, CloseSteps, Mapping, WithEnv, WithMemory
  <2> QED
    BY <2>1, <2>2, <2>3, <2>4 DEF Local, Ready
<1>14. CASE OpenFailed(r)
  <2>1. Types'
    BY <1>a, <1>14 DEF OpenFailed, Types, Kinds, Steps, CloseSteps
  <2>2. Others(r)
    BY <1>a, <1>14 DEF OpenFailed, Types, Others
  <2>3. Parts(r)' /\ Counted(r)
    BY <1>a, <1>14 DEF OpenFailed, Types, Ready, Parts, Nested, Answered, Counted, CloseSteps, Mapping
  <2>4. Nested(r)' /\ Answered(r)'
    BY <1>a, <1>14 DEF OpenFailed, Types, Ready, Nested, Answered, CloseSteps, Mapping, WithEnv, WithMemory
  <2> QED
    BY <2>1, <2>2, <2>3, <2>4 DEF Local, Ready
<1>15. CASE Opened(r)
  <2>1. Types'
    BY <1>a, <1>15 DEF Opened, Types, Kinds, Steps, CloseSteps
  <2>2. Others(r)
    BY <1>a, <1>15 DEF Opened, Types, Others
  <2>3. Parts(r)' /\ Counted(r)
    BY <1>a, <1>15 DEF Opened, Types, Ready, Parts, Nested, Answered, Counted, CloseSteps, Mapping
  <2>4. Nested(r)' /\ Answered(r)'
    BY <1>a, <1>15 DEF Opened, Types, Ready, Nested, Answered, CloseSteps, Mapping, WithEnv, WithMemory
  <2> QED
    BY <2>1, <2>2, <2>3, <2>4 DEF Local, Ready
<1>16. CASE LastRelease(r)
  <2>1. Types'
    BY <1>a, <1>16 DEF LastRelease, Types, Kinds, Steps, CloseSteps
  <2>2. Others(r)
    BY <1>a, <1>16 DEF LastRelease, Types, Others
  <2>3. Parts(r)' /\ Counted(r)
    BY <1>a, <1>16 DEF LastRelease, Types, Ready, Parts, Nested, Answered, Counted, CloseSteps, Mapping
  <2>4. Nested(r)' /\ Answered(r)'
    BY <1>a, <1>16 DEF LastRelease, Types, Ready, Nested, Answered, CloseSteps, Mapping, WithEnv, WithMemory
  <2> QED
    BY <2>1, <2>2, <2>3, <2>4 DEF Local, Ready
<1> QED
  BY <1>0, <1>1, <1>2, <1>3, <1>4, <1>5, <1>6, <1>7, <1>8, <1>9, <1>10, <1>11, <1>12, <1>13, <1>14, <1>15, <1>16
-----------------------------------------------------------------------------
(* The loader's count.                                                     *)

Loaded == {r \in Runtimes : Has(r, "library")}

\* There are finitely many runtimes that loaded the library.
LEMMA FiniteLoaded == IsFiniteSet(Loaded)
  BY LibraryOpenAssumption, FS_Subset DEF LibraryOpenAssumption, Loaded

\* A local step keeps the count exact.
LEMMA LocalCounted ==
  ASSUME Types, MapCounted, NEW r \in Runtimes, Local(r)
  PROVE  MapCounted'
<1>1. \A q \in Runtimes \ {r} : Has(q, "library")' <=> Has(q, "library")
  BY DEF Local, Others, Kinds
<1>2. CASE (Has(r, "library")' <=> Has(r, "library")) /\ mapped' = mapped
  <2>1. Loaded' = Loaded
    BY <1>1, <1>2 DEF Loaded
  <2> QED
    BY <1>2, <2>1 DEF MapCounted, Loaded
<1>3. CASE ~Has(r, "library") /\ Has(r, "library")' /\ mapped' = mapped + 1
  <2>1. Loaded' = Loaded \cup {r} /\ r \notin Loaded
    BY <1>1, <1>3 DEF Loaded
  <2> QED
    BY <1>3, <2>1, FiniteLoaded, FS_AddElement DEF MapCounted, Loaded
<1>4. CASE Has(r, "library") /\ ~Has(r, "library")' /\ mapped' = mapped - 1
  <2>1. Loaded' = Loaded \ {r} /\ r \in Loaded
    BY <1>1, <1>4 DEF Loaded
  <2> QED
    BY <1>4, <2>1, FiniteLoaded, FS_RemoveElement DEF MapCounted, Loaded
<1> QED
  BY <1>2, <1>3, <1>4 DEF Local, Counted

-----------------------------------------------------------------------------
(* The theorems.                                                           *)

Inv == Types /\ MapCounted /\ \A r \in Runtimes : Ready(r)

\* Nothing is allocated or loaded at first.
LEMMA InitInv == Init => Inv
<1> SUFFICES ASSUME Init PROVE Inv
  OBVIOUS
<1>1. Types
  BY DEF Init, Types, Steps
<1>2. MapCounted
  BY FS_EmptySet DEF Init, MapCounted, Has
<1>3. ASSUME NEW r \in Runtimes PROVE Ready(r)
  BY DEF Init, Ready, Parts, Nested, Answered, Has, CloseSteps, Mapping, WithEnv, WithMemory
<1> QED
  BY <1>1, <1>2, <1>3 DEF Inv

\* Every step preserves the invariant.
LEMMA NextInv == Inv /\ [Next]_vars => Inv'
<1> SUFFICES ASSUME Inv, [Next]_vars PROVE Inv'
  OBVIOUS
<1>1. CASE Next
  <2>1. PICK r \in Runtimes : Local(r)
    BY <1>1, StepLocal DEF Inv
  <2>2. ASSUME NEW q \in Runtimes \ {r} PROVE Ready(q)'
    <3>1. Ready(q)
      BY <2>2 DEF Inv
    <3>2. /\ pc'[q] = pc[q] /\ error'[q] = error[q] /\ (q \in copied' <=> q \in copied)
          /\ \A k \in Kinds : Has(q, k)' <=> Has(q, k)
      BY <2>1, <2>2 DEF Local, Others
    <3> QED
      BY <3>1, <3>2 DEF Ready, Parts, Nested, Answered, Kinds
  <2> QED
    BY <2>1, <2>2, LocalCounted DEF Inv, Local
<1>2. CASE UNCHANGED vars
  BY <1>2 DEF vars, Inv, Types, MapCounted, Ready, Parts, Nested, Answered, Has
<1> QED
  BY <1>1, <1>2

\* The invariant holds in every reachable state.
THEOREM Invariance == Spec => []Inv
<1> QED
  BY InitInv, NextInv, PTL DEF Spec

\* A loaded library is counted, so it is mapped.
LEMMA LoadedMapped == ASSUME Inv, NEW r \in Runtimes, Has(r, "library") PROVE mapped > 0
<1>1. Loaded # {}
  BY DEF Loaded
<1>2. Cardinality(Loaded) \in Nat /\ Cardinality(Loaded) # 0
  BY <1>1, FiniteLoaded, FS_CardinalityType, FS_EmptySet
<1> QED
  BY <1>2 DEF Inv, MapCounted, Loaded

\* Every variable keeps its type; the loader's count is never negative.
THEOREM TypeCorrect == Spec => []TypeOK
<1>1. ASSUME Inv PROVE TypeOK
  BY <1>1, FiniteLoaded, FS_CardinalityType DEF Inv, Types, TypeOK, MapCounted, Loaded
<1> QED
  BY <1>1, Invariance, PTL

\* The loader counts exactly the runtimes that have the library, failed opens
\* included.
THEOREM LoaderCount == Spec => []MapCounted
  BY Invariance, PTL DEF Inv

\* The library stays mapped for the objects it made, whoever fails or closes, and
\* Version never needs it.
THEOREM ObjectsMapped == Spec => []MappedWhileUsed
<1>1. ASSUME Inv, NEW r \in Runtimes PROVE ~ReadsLibrary(r)
  BY <1>1 DEF Inv, Ready, Answered, ReadsLibrary
<1>2. ASSUME Inv, NEW r \in Runtimes,
             Has(r, "env") \/ Has(r, "memory") \/ Has(r, "status") \/ At(r, "ready")
      PROVE  mapped > 0
  <2>1. Ready(r)
    BY <1>2 DEF Inv
  <2>2. Has(r, "library")
    BY <1>2, <2>1 DEF Ready, Parts, Nested, Mapping, At
  <2> QED
    BY <1>2, <2>2, LoadedMapped
<1>3. Inv => MappedWhileUsed
  BY <1>1, <1>2 DEF MappedWhileUsed
<1> QED
  BY <1>3, Invariance, PTL

\* A failed Open and a closed runtime leave nothing behind, and an open runtime
\* lacks nothing.
THEOREM OpenAllOrNothing == Spec => []AllOrNothing
<1>1. ASSUME Inv, NEW r \in Runtimes, At(r, "ready")
      PROVE  {k \in Kinds : Has(r, k)} = {"runtime", "library", "env", "memory"}
  <2>1. Ready(r)
    BY <1>1 DEF Inv
  <2>2. \A k \in Kinds : Has(r, k) <=> k \in {"runtime", "library", "env", "memory"}
    BY <1>1, <2>1 DEF Ready, Parts, Nested, Answered, At, Kinds, CloseSteps, Mapping, WithEnv, WithMemory
  <2> QED
    BY <2>2 DEF Kinds
<1>2. ASSUME Inv, NEW r \in Runtimes, pc[r] \in {"idle", "closed"}
      PROVE  {k \in Kinds : Has(r, k)} = {}
  <2>1. Ready(r)
    BY <1>2 DEF Inv
  <2>2. \A k \in Kinds : ~Has(r, k)
    BY <1>2, <2>1 DEF Ready, Parts, Nested, Kinds, CloseSteps, Mapping
  <2> QED
    BY <2>2
<1>3. Inv => AllOrNothing
  BY <1>1, <1>2 DEF AllOrNothing
<1> QED
  BY <1>3, Invariance, PTL
=============================================================================
