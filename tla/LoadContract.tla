---------------------------- MODULE LoadContract -----------------------------
(***************************************************************************)
(* What a load of a model promises the runtime that makes it, one load at  *)
(* a time: it ends with one more native session or with none, its session  *)
(* options are freed and outlive everything that reads them, and native    *)
(* sessions that were loaded may be freed at any time meanwhile.           *)
(***************************************************************************)
CONSTANTS
  Sessions,  \* native sessions
  None       \* no session

VARIABLES
  loading,  \* the session a load is about
  options,  \* the load's OrtSessionOptions exist
  handles   \* complete native sessions

vars == <<loading, options, handles>>

Init == loading = None /\ options = FALSE /\ handles = {}

Begin(s) ==
  /\ loading = None /\ s \notin handles
  /\ loading' = s
  /\ UNCHANGED <<options, handles>>

Configure ==
  /\ loading # None /\ ~options /\ loading \notin handles
  /\ options' = TRUE
  /\ UNCHANGED <<loading, handles>>

Create ==
  /\ options /\ loading \notin handles
  /\ handles' = handles \cup {loading}
  /\ UNCHANGED <<loading, options>>

\* Give up on a session with a port of an unsupported type.
RollBack ==
  /\ options /\ loading \in handles
  /\ handles' = handles \ {loading}
  /\ UNCHANGED <<loading, options>>

Finish ==
  /\ loading # None
  /\ loading' = None /\ options' = FALSE
  /\ UNCHANGED handles

Free(s) ==
  /\ s \in handles /\ s # loading
  /\ handles' = handles \ {s}
  /\ UNCHANGED <<loading, options>>

Next ==
  \/ Configure \/ Create \/ RollBack \/ Finish
  \/ \E s \in Sessions : Begin(s) \/ Free(s)

Spec == Init /\ [][Next]_vars
=============================================================================
