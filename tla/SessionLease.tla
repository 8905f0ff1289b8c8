---------------------------- MODULE SessionLease -----------------------------
(***************************************************************************)
(* The life of the sessions of a runtime as Session.Close promises it      *)
(* ("waits for active calls, then releases its native resources"): a       *)
(* session is used only while it is open and nobody closes it, its native  *)
(* session is freed once and only when unused, and the reference on the    *)
(* runtime outlives it.                                                    *)
(***************************************************************************)
CONSTANTS
  Sessions,
  Users,    \* who may use a session
  Closers,  \* who may close one
  None      \* no closer

VARIABLES
  stage,   \* of each session: absent, open, freed or released
  users,   \* who uses it
  closer   \* who has begun to close it

vars == <<stage, users, closer>>

Init ==
  /\ stage \in [Sessions -> {"absent", "open"}]
  /\ users = [s \in Sessions |-> {}]
  /\ closer = [s \in Sessions |-> None]

Advance(s, from, to) == stage[s] = from /\ stage' = [stage EXCEPT ![s] = to]

Load(s) ==
  /\ Advance(s, "absent", "open")
  /\ UNCHANGED <<users, closer>>

Enter(s, u) ==
  /\ stage[s] = "open" /\ closer[s] = None /\ u \notin users[s]
  /\ users' = [users EXCEPT ![s] = @ \cup {u}]
  /\ UNCHANGED <<stage, closer>>

Leave(s, u) ==
  /\ u \in users[s]
  /\ users' = [users EXCEPT ![s] = @ \ {u}]
  /\ UNCHANGED <<stage, closer>>

\* From now on nobody enters; a closed session may be closed again.
Announce(s, k) ==
  /\ stage[s] # "absent" /\ closer[s] = None
  /\ closer' = [closer EXCEPT ![s] = k]
  /\ UNCHANGED <<stage, users>>

Free(s) ==
  /\ closer[s] # None /\ users[s] = {}
  /\ Advance(s, "open", "freed")
  /\ UNCHANGED <<users, closer>>

Release(s) ==
  /\ closer[s] # None
  /\ Advance(s, "freed", "released")
  /\ UNCHANGED <<users, closer>>

\* Close returns.
Withdraw(s) ==
  /\ closer[s] # None /\ stage[s] = "released"
  /\ closer' = [closer EXCEPT ![s] = None]
  /\ UNCHANGED <<stage, users>>

Next == \E s \in Sessions :
  \/ Load(s) \/ Free(s) \/ Release(s) \/ Withdraw(s)
  \/ \E u \in Users : Enter(s, u) \/ Leave(s, u)
  \/ \E k \in Closers : Announce(s, k)

Spec == Init /\ [][Next]_vars
=============================================================================
