--------------------------- MODULE SharedLibrary ----------------------------
(***************************************************************************)
(* What a Runtime promises (the comments on Runtime and its Close in       *)
(* runtime.go): the library stays loaded as long as the runtime or one of  *)
(* its sessions holds it, is unloaded with the last of them, and no        *)
(* session is added once the runtime has let go.                           *)
(***************************************************************************)
CONSTANTS
  Sessions,  \* sessions that may be loaded
  Owner      \* the runtime itself

VARIABLES
  loaded,  \* the shared library is mapped
  holders  \* who keeps it so

vars == <<loaded, holders>>

Init == loaded = TRUE /\ holders = {Owner}

Acquire(s) ==
  /\ Owner \in holders /\ s \notin holders
  /\ holders' = holders \cup {s}
  /\ UNCHANGED loaded

Release(h) ==
  /\ h \in holders
  /\ holders' = holders \ {h}
  /\ loaded' = (holders' # {})

Next ==
  \/ \E s \in Sessions : Acquire(s)
  \/ \E h \in Sessions \cup {Owner} : Release(h)

Spec == Init /\ [][Next]_vars
=============================================================================
