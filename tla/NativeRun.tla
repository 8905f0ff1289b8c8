------------------------------ MODULE NativeRun ------------------------------
(***************************************************************************)
(* What the Go side relies on when it calls oc_run and oc_run_into: a run  *)
(* that succeeds leaves the caller one native value per output it asked    *)
(* for, a run that fails leaves none, and what the caller has is gone when *)
(* it frees the outputs.  Nobody else ever owns or releases these values.  *)
(***************************************************************************)
CONSTANTS Calls, Ports

VARIABLES
  phase,  \* "idle", "running" or "returned"
  wants,  \* the outputs a running call expects native values for
  owns,   \* the outputs a call that does not run has native values for
  answer  \* how the run ended

vars == <<phase, wants, owns, answer>>

Init ==
  /\ phase = [c \in Calls |-> "idle"]
  /\ wants = [c \in Calls |-> {}]
  /\ owns = [c \in Calls |-> {}]
  /\ answer = [c \in Calls |-> "none"]

Start(c) ==
  /\ phase[c] = "idle"
  /\ phase' = [phase EXCEPT ![c] = "running"]
  /\ \E outputs \in SUBSET Ports : wants' = [wants EXCEPT ![c] = outputs]
  /\ UNCHANGED <<owns, answer>>

Return(c) ==
  /\ phase[c] = "running"
  /\ phase' = [phase EXCEPT ![c] = "returned"]
  /\ wants' = [wants EXCEPT ![c] = {}]
  /\ \/ answer' = [answer EXCEPT ![c] = "ok"] /\ owns' = [owns EXCEPT ![c] = wants[c]]
     \/ answer' = [answer EXCEPT ![c] = "failed"] /\ UNCHANGED owns

Free(c) ==
  /\ phase[c] = "returned"
  /\ phase' = [phase EXCEPT ![c] = "idle"]
  /\ owns' = [owns EXCEPT ![c] = {}]
  /\ answer' = [answer EXCEPT ![c] = "none"]
  /\ UNCHANGED wants

Next == \E c \in Calls : Start(c) \/ Return(c) \/ Free(c)

Spec == Init /\ [][Next]_vars
=============================================================================
