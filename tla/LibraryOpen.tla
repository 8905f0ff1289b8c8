----------------------------- MODULE LibraryOpen -----------------------------
(***************************************************************************)
(* Open of runtime.go with oc_open and oc_close of bridge.c: what each     *)
(* call acquires, with a failure possible at every call, and what each     *)
(* path out of it releases.  Several runtimes open and close one library   *)
(* file; the dynamic loader counts its users and unmaps it after the last. *)
(*                                                                         *)
(* live is what is allocated: <<k, r>> is the object of kind k of runtime  *)
(* r.  Names such as Mapped_Unchecked are faulty variants of the           *)
(* definition after them and not part of the model.                        *)
(***************************************************************************)
EXTENDS Integers, FiniteSets

CONSTANTS
  Runtimes,
  Windows  \* the platform: its loader takes UTF-16

ASSUME LibraryOpenAssumption == IsFiniteSet(Runtimes) /\ Windows \in BOOLEAN

VARIABLES
  pc,      \* what Open or oc_close does next
  live,    \* objects not yet released
  mapped,  \* the loader's count for the library
  error,   \* how Open failed: in the loader (code < 0) or in ORT (code > 0)
  copied   \* runtimes that have a Go copy of the version string

vars == <<pc, live, mapped, error, copied>>

\* The C strings of Open, the oc_runtime and its fields, and a status.
Kinds == {"path", "wide", "message", "runtime", "library", "env", "memory", "status"}
CloseSteps == {"closeMemory", "closeEnv", "closeLibrary"}
Steps == {"idle", "alloc", "widen", "library", "symbol", "env", "telemetry", "memory", "allocator",
          "status", "return", "opened", "ready", "closed"} \cup CloseSteps

TypeOK ==
  /\ pc \in [Runtimes -> Steps]
  /\ live \subseteq Kinds \X Runtimes
  /\ mapped \in Nat
  /\ error \in [Runtimes -> {"none", "loader", "native"}]
  /\ copied \subseteq Runtimes

Init ==
  /\ pc = [r \in Runtimes |-> "idle"]
  /\ live = {} /\ mapped = 0
  /\ error = [r \in Runtimes |-> "none"] /\ copied = {}

At(r, step) == pc[r] = step
Goto(r, step) == pc' = [pc EXCEPT ![r] = step]
Has(r, k) == <<k, r>> \in live
Obtain(r, k) == live' = live \cup {<<k, r>>}
Release(r, k) == live' = live \ {<<k, r>>}

-----------------------------------------------------------------------------
\* Open: the path as a C string.  A Runtime is opened once; r stands for the
\* next one when its last is closed.
OpenStart(r) ==
  /\ pc[r] \in {"idle", "closed"}
  /\ Obtain(r, "path") /\ Goto(r, "alloc")
  /\ error' = [error EXCEPT ![r] = "none"] /\ copied' = copied \ {r}
  /\ UNCHANGED mapped

\* A failure before there is a native interface: strdup describes it, unless
\* it is out of memory too.
LoaderFailure(r, next) ==
  /\ Obtain(r, "message") \/ UNCHANGED live
  /\ error' = [error EXCEPT ![r] = "loader"]
  /\ Goto(r, next)

OpenAlloc(r) ==
  /\ At(r, "alloc")
  /\ \/ /\ Obtain(r, "runtime") /\ UNCHANGED error
        /\ Goto(r, IF Windows THEN "widen" ELSE "library")
     \/ LoaderFailure(r, "return")
  /\ UNCHANGED <<mapped, copied>>

\* wide_path: the path may be invalid UTF-8.
OpenWiden(r) ==
  /\ At(r, "widen")
  /\ \/ Obtain(r, "wide") /\ Goto(r, "library") /\ UNCHANGED error
     \/ LoaderFailure(r, "closeMemory")
  /\ UNCHANGED <<mapped, copied>>

\* The wide path, where there is one, is freed whatever the loader answers.
Unwidened_Kept(r) == live
Unwidened(r) == live \ {<<"wide", r>>}
OpenLibrary(r) ==
  /\ At(r, "library")
  /\ \/ /\ live' = Unwidened(r) \cup {<<"library", r>>}
        /\ mapped' = mapped + 1 /\ Goto(r, "symbol") /\ UNCHANGED error
     \/ /\ live' \in {Unwidened(r), Unwidened(r) \cup {<<"message", r>>}}
        /\ error' = [error EXCEPT ![r] = "loader"]
        /\ Goto(r, "closeMemory") /\ UNCHANGED mapped
  /\ UNCHANGED copied

\* OrtGetApiBase is exported and knows the version of the interface.
OpenSymbol(r) ==
  /\ At(r, "symbol")
  /\ \/ Goto(r, "env") /\ UNCHANGED <<live, error>>
     \/ LoaderFailure(r, "closeMemory")
  /\ UNCHANGED <<mapped, copied>>

\* A native call that fails with a status.
StatusFailure(r) == Obtain(r, "status") /\ Goto(r, "status")

CreateEnv(r) ==
  /\ At(r, "env")
  /\ (Obtain(r, "env") /\ Goto(r, "telemetry")) \/ StatusFailure(r)
  /\ UNCHANGED <<mapped, error, copied>>

DisableTelemetry(r) ==
  /\ At(r, "telemetry")
  /\ (Goto(r, "memory") /\ UNCHANGED live) \/ StatusFailure(r)
  /\ UNCHANGED <<mapped, error, copied>>

CreateMemoryInfo(r) ==
  /\ At(r, "memory")
  /\ (Obtain(r, "memory") /\ Goto(r, "allocator")) \/ StatusFailure(r)
  /\ UNCHANGED <<mapped, error, copied>>

GetAllocator(r) ==
  /\ At(r, "allocator")
  /\ (Goto(r, "opened") /\ UNCHANGED live) \/ StatusFailure(r)
  /\ UNCHANGED <<mapped, error, copied>>

\* Copy what the status says, release it and clean up.
AfterReport_Abandoned == "return"
AfterReport == "closeMemory"
Reported(r) == live \ {<<"status", r>>}
Report(r) ==
  /\ At(r, "status")
  /\ live' \in {Reported(r), Reported(r) \cup {<<"message", r>>}}
  /\ error' = [error EXCEPT ![r] = "native"]
  /\ Goto(r, AfterReport)
  /\ UNCHANGED <<mapped, copied>>

-----------------------------------------------------------------------------
(* oc_close, which skips what oc_open has not reached.                     *)

CloseMemory(r) ==
  /\ At(r, "closeMemory")
  /\ Release(r, "memory") /\ Goto(r, "closeEnv")
  /\ UNCHANGED <<mapped, error, copied>>

CloseEnv(r) ==
  /\ At(r, "closeEnv")
  /\ Release(r, "env") /\ Goto(r, "closeLibrary")
  /\ UNCHANGED <<mapped, error, copied>>

\* dlclose, then free of the oc_runtime.  A failed Open goes on.
Mapped_Unchecked(r) == TRUE
Mapped(r) == Has(r, "library")
CloseLibrary(r) ==
  /\ At(r, "closeLibrary")
  /\ mapped' = IF Mapped(r) THEN mapped - 1 ELSE mapped
  /\ live' = live \ {<<"library", r>>, <<"runtime", r>>}
  /\ Goto(r, IF error[r] = "none" THEN "closed" ELSE "return")
  /\ UNCHANGED <<error, copied>>

-----------------------------------------------------------------------------
(* Open once oc_open has returned.                                         *)

OpenFailed(r) ==
  /\ At(r, "return")
  /\ live' = live \ {<<"message", r>>, <<"path", r>>}
  /\ Goto(r, "idle")
  /\ UNCHANGED <<mapped, error, copied>>

\* The version that Version returns is a copy of the library's.
Opened(r) ==
  /\ At(r, "opened")
  /\ copied' = copied \cup {r}
  /\ Release(r, "path") /\ Goto(r, "ready")
  /\ UNCHANGED <<mapped, error>>

\* The last reference is released.
LastRelease(r) ==
  /\ At(r, "ready") /\ Goto(r, "closeMemory")
  /\ UNCHANGED <<live, mapped, error, copied>>

Next == \E r \in Runtimes :
  \/ OpenStart(r) \/ OpenAlloc(r) \/ OpenWiden(r) \/ OpenLibrary(r) \/ OpenSymbol(r)
  \/ CreateEnv(r) \/ DisableTelemetry(r) \/ CreateMemoryInfo(r) \/ GetAllocator(r)
  \/ Report(r) \/ CloseMemory(r) \/ CloseEnv(r) \/ CloseLibrary(r)
  \/ OpenFailed(r) \/ Opened(r) \/ LastRelease(r)

Spec == Init /\ [][Next]_vars
-----------------------------------------------------------------------------
\* Version is asked of a Runtime, which may be closed, that has no string of
\* its own.
ReadsLibrary(r) ==
  error[r] = "none" /\ pc[r] \in {"ready", "closed"} \cup CloseSteps /\ r \notin copied

\* The library is mapped while its memory is used: while an object exists that it
\* made and has to release, a runtime is ready to make more or Version reads its
\* string, although another runtime may be failing to open it or closing it.
MappedWhileUsed ==
  \A r \in Runtimes :
    Has(r, "env") \/ Has(r, "memory") \/ Has(r, "status") \/ At(r, "ready") \/ ReadsLibrary(r)
      => mapped > 0

\* Open is all or nothing: a runtime that is open has all its parts, one that
\* is not, because Open failed anywhere or because it was closed, has none.
AllOrNothing ==
  \A r \in Runtimes :
    /\ At(r, "ready") => {k \in Kinds : Has(r, k)} = {"runtime", "library", "env", "memory"}
    /\ pc[r] \in {"idle", "closed"} => {k \in Kinds : Has(r, k)} = {}

\* The loader's count is the number of runtimes that loaded the library: a
\* failed Open gives back what it took and nothing that it did not.
MapCounted == mapped = Cardinality({r \in Runtimes : Has(r, "library")})
=============================================================================
