--------------------------- MODULE SessionService ---------------------------
(***************************************************************************)
(* What a session promises its callers (the comments on Session, Close,    *)
(* Run and RunInto in session.go): a call executes the model at most once  *)
(* and only while the session is open, one call at a time if the session   *)
(* is exclusive; it answers ErrClosed only once the session is closed; and *)
(* the session closes only when nothing executes.                          *)
(***************************************************************************)
CONSTANTS
  Callers,   \* goroutines calling Run or RunInto
  Exclusive  \* runs are serialized

VARIABLES
  open,    \* the model is loaded
  phase,   \* how far each caller's current call is
  answer   \* what its last call answered, "none" while it is undecided

vars == <<open, phase, answer>>

Init ==
  /\ open = TRUE
  /\ phase = [c \in Callers |-> "idle"]
  /\ answer = [c \in Callers |-> "none"]

Move(c, from, to) == phase[c] = from /\ phase' = [phase EXCEPT ![c] = to]
Answer(c, results) == \E r \in results : answer' = [answer EXCEPT ![c] = r]

Invoke(c) == Move(c, "idle", "called") /\ Answer(c, {"none"}) /\ UNCHANGED open

\* A call whose context is done already.
Refuse(c) == phase[c] = "idle" /\ Answer(c, {"ctx"}) /\ UNCHANGED <<open, phase>>

\* The call ends without executing the model.
Decline(c) ==
  /\ Move(c, "called", "leaving")
  /\ Answer(c, {"ctx", "invalid", "failed"} \cup IF open THEN {} ELSE {"closed"})
  /\ UNCHANGED open

Execute(c) ==
  /\ open
  /\ Exclusive => \A d \in Callers : phase[d] # "executing"
  /\ Move(c, "called", "executing")
  /\ UNCHANGED <<open, answer>>

Complete(c) ==
  /\ Move(c, "executing", "leaving")
  /\ Answer(c, {"ok", "ctx", "invalid", "failed"})
  /\ UNCHANGED open

Return(c) == Move(c, "leaving", "idle") /\ UNCHANGED <<open, answer>>

Close ==
  /\ open /\ \A c \in Callers : phase[c] # "executing"
  /\ open' = FALSE
  /\ UNCHANGED <<phase, answer>>

Next ==
  \/ \E c \in Callers : Invoke(c) \/ Refuse(c) \/ Decline(c) \/ Execute(c) \/ Complete(c) \/ Return(c)
  \/ Close

Spec == Init /\ [][Next]_vars
=============================================================================
