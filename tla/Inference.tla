------------------------------ MODULE Inference ------------------------------
(***************************************************************************)
(* The memory of concurrent inferences, slot by slot: the descriptor       *)
(* slices of session.go, shared through one process-wide pool by sessions  *)
(* with different numbers of ports, and the OrtValues that bridge.c makes, *)
(* moves into the descriptors and releases, with a failure possible at     *)
(* every native call.  Locks, gate and cancellation are Session's subject. *)
(*                                                                         *)
(* Ports are numbered from 1, inputs first, as the descriptors are.  The   *)
(* value for port p of the inference of c is <<c, p>>.                     *)
(*                                                                         *)
(* As in Session, a name such as Zeroed_Values is a faulty variant of the   *)
(* definition after it and not part of the model.                          *)
(***************************************************************************)
EXTENDS Naturals, Sequences

CONSTANTS
  Calls,      \* goroutines that run inferences
  Buffers,    \* descriptor slices
  Arities,    \* <<inputs, outputs>> of the loaded sessions
  LocalSize,  \* ports for which run needs no heap memory (16 in the code)
  None        \* no call and no buffer

\* oc_load rejects models without outputs.
ASSUME InferenceAssumption ==
  /\ Arities \subseteq Nat \X (Nat \ {0})
  /\ LocalSize \in Nat
  /\ None \notin Calls \cup Buffers

VARIABLES
  pc,      \* what a call does next
  arity,   \* the ports of its session
  into,    \* it is RunInto, not Run
  at,      \* the port its current loop has reached
  status,  \* what the bridge returned, or will
  held,    \* the descriptor slice it uses
  pinned,  \* <<c, p>>: call c has pinned the tensor of port p
  values,  \* run's array of OrtValue pointers, as the ports where it is not NULL
  slots,   \* the descriptors in a slice
  pool,    \* the slices in runDescriptors
  live     \* the OrtValues that are not released

callVars == <<arity, into, status>>
vars == <<pc, callVars, at, held, pinned, values, slots, pool, live>>

Ports == UNION {1 .. a[1] + a[2] : a \in Arities}

\* A descriptor: whose tensor it points to and whose OrtValue it holds.
Slot == [tensor : Calls \cup {None}, value : Calls \cup {None}]
Zero == [tensor |-> None, value |-> None]

\* Steps inside oc_run or oc_run_into.
BridgeSteps == {"alloc", "wrap", "infer", "deliver", "cleanup", "discard"}
Steps == {"idle", "get", "fill", "watch", "return", "copy", "outputs", "unpin", "clear"}
         \cup BridgeSteps

TypeOK ==
  /\ pc \in [Calls -> Steps]
  /\ arity \in [Calls -> Arities]
  /\ into \in [Calls -> BOOLEAN]
  /\ at \in [Calls -> Nat \ {0}]
  /\ status \in [Calls -> {"ok", "failed"}]
  /\ held \in [Calls -> Buffers \cup {None}]
  /\ pinned \subseteq Calls \X Ports
  /\ values \in [Calls -> SUBSET Ports]
  /\ slots \in [Buffers -> Seq(Slot)]
  /\ pool \subseteq Buffers
  /\ live \subseteq Calls \X Ports

Init ==
  /\ pc = [c \in Calls |-> "idle"]
  /\ arity \in [Calls -> Arities] /\ into = [c \in Calls |-> FALSE]
  /\ at = [c \in Calls |-> 1] /\ status = [c \in Calls |-> "ok"]
  /\ held = [c \in Calls |-> None] /\ pinned = {}
  /\ values = [c \in Calls |-> {}] /\ live = {}
  /\ slots = [b \in Buffers |-> <<>>] /\ pool = {}

At(c, step) == pc[c] = step
Goto(c, step) == pc' = [pc EXCEPT ![c] = step]
Move(c, p) == at' = [at EXCEPT ![c] = p]
Fail(c) == status' = [status EXCEPT ![c] = "failed"]

Count(c) == arity[c][1] + arity[c][2]
Inputs(c) == 1 .. arity[c][1]
Outputs(c) == arity[c][1] + 1 .. Count(c)
\* The ports whose tensors the caller supplies.
Given(c) == IF into[c] THEN 1 .. Count(c) ELSE Inputs(c)

-----------------------------------------------------------------------------
(* Session.run up to the native call.                                      *)

\* The next call is on a session with some other number of ports.
Start(c) ==
  /\ At(c, "idle")
  /\ \E a \in Arities, i \in BOOLEAN :
       arity' = [arity EXCEPT ![c] = a] /\ into' = [into EXCEPT ![c] = i]
  /\ status' = [status EXCEPT ![c] = "ok"]
  /\ Goto(c, "get")
  /\ UNCHANGED <<at, held, pinned, values, slots, pool, live>>

\* Take a pooled slice that is long enough as it is; otherwise, and when the
\* pool has dropped its slices, one of zeroed descriptors.
Get(c) ==
  /\ At(c, "get")
  /\ \E b \in Buffers \ {held[d] : d \in Calls} :
       /\ held' = [held EXCEPT ![c] = b] /\ pool' = pool \ {b}
       /\ \/ b \in pool /\ Len(slots[b]) >= Count(c) /\ UNCHANGED slots
          \/ slots' = [slots EXCEPT ![b] = [p \in 1 .. Count(c) |-> Zero]]
  /\ Move(c, 1) /\ Goto(c, "fill")
  /\ UNCHANGED <<callVars, pinned, values, live>>

\* Pin and describe one tensor, or stop at one without an element type.
Fill(c) ==
  /\ At(c, "fill")
  /\ \/ /\ at[c] \in Given(c)
        /\ pinned' = pinned \cup {<<c, at[c]>>}
        /\ slots' = [slots EXCEPT ![held[c]][at[c]] = [tensor |-> c, value |-> None]]
        /\ Move(c, at[c] + 1) /\ UNCHANGED pc
     \/ at[c] \in Given(c) /\ Goto(c, "unpin") /\ UNCHANGED <<pinned, slots, at>>
     \/ at[c] \notin Given(c) /\ Goto(c, "watch") /\ UNCHANGED <<pinned, slots, at>>
  /\ UNCHANGED <<callVars, held, values, pool, live>>

\* Creating the run options of a cancelable call may fail.
Watch(c) ==
  /\ At(c, "watch")
  /\ Goto(c, "alloc") \/ Goto(c, "unpin")
  /\ UNCHANGED <<callVars, at, held, pinned, values, slots, pool, live>>

-----------------------------------------------------------------------------
(* bridge.c: run.                                                          *)

\* The array of values is all NULL; on the heap it may be unobtainable.
Alloc(c) ==
  /\ At(c, "alloc")
  /\ values' = [values EXCEPT ![c] = {}] /\ Move(c, 1)
  /\ \/ Goto(c, "wrap") /\ UNCHANGED status
     \/ Count(c) > LocalSize /\ Fail(c) /\ Goto(c, "return")
  /\ UNCHANGED <<arity, into, held, pinned, slots, pool, live>>

\* Wrap the tensor of one port; without preallocated outputs, inputs only.
Wrap(c) ==
  /\ At(c, "wrap")
  /\ \/ /\ at[c] \in Given(c)
        /\ values' = [values EXCEPT ![c] = @ \cup {at[c]}]
        /\ live' = live \cup {<<c, at[c]>>}
        /\ Move(c, at[c] + 1) /\ UNCHANGED <<pc, status>>
     \/ at[c] \in Given(c) /\ Fail(c) /\ Goto(c, "cleanup") /\ UNCHANGED <<values, live, at>>
     \/ at[c] \notin Given(c) /\ Goto(c, "infer") /\ UNCHANGED <<values, live, at, status>>
  /\ UNCHANGED <<arity, into, held, pinned, slots, pool>>

\* OrtApi.Run makes a value for each output that has none.  A failed Run may
\* have made some of them.
Infer(c) ==
  LET missing == Outputs(c) \ values[c] IN
  /\ At(c, "infer")
  /\ \E made \in SUBSET missing :
       /\ values' = [values EXCEPT ![c] = @ \cup made]
       /\ live' = live \cup {<<c, p>> : p \in made}
       /\ \/ made = missing /\ Goto(c, IF into[c] THEN "cleanup" ELSE "deliver") /\ UNCHANGED status
          \/ Fail(c) /\ Goto(c, "cleanup")
  /\ Move(c, arity[c][1] + 1)
  /\ UNCHANGED <<arity, into, held, pinned, slots, pool>>

\* Move one value from the array to its descriptor and look at it: it may be
\* on another device or lack some property.
Deliver(c) ==
  /\ At(c, "deliver")
  /\ \/ /\ at[c] \in Outputs(c)
        /\ slots' = [slots EXCEPT ![held[c]][at[c]].value = c]
        /\ values' = [values EXCEPT ![c] = @ \ {at[c]}] /\ Move(c, at[c] + 1)
        /\ (UNCHANGED <<pc, status>>) \/ (Fail(c) /\ Goto(c, "cleanup"))
     \/ at[c] \notin Outputs(c) /\ Goto(c, "cleanup") /\ UNCHANGED <<slots, values, at, status>>
  /\ UNCHANGED <<arity, into, held, pinned, pool, live>>

\* The label fail, which a successful run passes too: release what the array
\* still has; if the run failed, what the descriptors have as well.
AfterCleanup_Kept(c) == "return"
AfterCleanup(c) == IF status[c] = "failed" /\ ~into[c] THEN "discard" ELSE "return"
Cleanup(c) ==
  /\ At(c, "cleanup")
  /\ live' = live \ {<<c, p>> : p \in values[c]}
  /\ values' = [values EXCEPT ![c] = {}]
  /\ Goto(c, AfterCleanup(c))
  /\ UNCHANGED <<callVars, at, held, pinned, slots, pool>>

\* oc_outputs_free releases and zeroes the output descriptors.
Zeroed_Values(c) == slots
Zeroed(c) ==
  [slots EXCEPT ![held[c]] = [p \in DOMAIN @ |-> IF p \in Outputs(c) THEN Zero ELSE @[p]]]
FreeOutputs(c) ==
  /\ live' = live \ {<<slots[held[c]][p].value, p>> : p \in Outputs(c)}
  /\ slots' = Zeroed(c)

Discard(c) ==
  /\ At(c, "discard") /\ FreeOutputs(c)
  /\ Goto(c, "return")
  /\ UNCHANGED <<callVars, at, held, pinned, values, pool>>

-----------------------------------------------------------------------------
(* Session.run from the native call to its return.                         *)

\* The outputs are read only if neither the run nor the context has failed.
Return(c) ==
  /\ At(c, "return")
  /\ CASE into[c] -> Goto(c, "unpin")
       [] ~into[c] /\ status[c] = "failed" -> Goto(c, "outputs")
       [] OTHER -> Goto(c, "copy") \/ Goto(c, "outputs")
  /\ UNCHANGED <<callVars, at, held, pinned, values, slots, pool, live>>

\* Copy the outputs, or stop at an inconsistent one.
Copy(c) ==
  /\ At(c, "copy") /\ Goto(c, "outputs")
  /\ UNCHANGED <<callVars, at, held, pinned, values, slots, pool, live>>

\* The deferred oc_outputs_free, of Run only.
OutputsFree(c) ==
  /\ At(c, "outputs") /\ FreeOutputs(c)
  /\ Goto(c, "unpin")
  /\ UNCHANGED <<callVars, at, held, pinned, values, pool>>

Unpin(c) ==
  /\ At(c, "unpin")
  /\ pinned' = {q \in pinned : q[1] # c}
  /\ Goto(c, "clear")
  /\ UNCHANGED <<callVars, at, held, values, slots, pool, live>>

\* clear reaches the descriptors of this call; the slice may have more.
Cleared_Inputs(c) == Inputs(c)
Cleared(c) == 1 .. Count(c)
Clear(c) ==
  /\ At(c, "clear")
  /\ slots' = [slots EXCEPT ![held[c]] =
                 [p \in DOMAIN @ |-> IF p \in Cleared(c) THEN Zero ELSE @[p]]]
  /\ pool' = pool \cup {held[c]}
  /\ held' = [held EXCEPT ![c] = None]
  /\ Goto(c, "idle")
  /\ UNCHANGED <<callVars, at, pinned, values, live>>

Next == \E c \in Calls :
  \/ Start(c) \/ Get(c) \/ Fill(c) \/ Watch(c)
  \/ Alloc(c) \/ Wrap(c) \/ Infer(c) \/ Deliver(c) \/ Cleanup(c) \/ Discard(c)
  \/ Return(c) \/ Copy(c) \/ OutputsFree(c) \/ Unpin(c) \/ Clear(c)

Spec == Init /\ [][Next]_vars
-----------------------------------------------------------------------------
(* Safety.                                                                 *)

\* Who would release a value: run's array, or the descriptors of a slice.
Owners(v) == {c \in Calls : c = v[1] /\ v[2] \in values[c]} \cup
             {b \in Buffers : v[2] \in DOMAIN slots[b] /\ slots[b][v[2]].value = v[1]}

\* A value that is not released has exactly one owner, and a released one has
\* none: run and oc_outputs_free, called by C and again by Go, lose no value
\* and release none twice.
ReleasedOnce ==
  \A v \in Calls \X Ports :
    /\ v \in live => \E o \in Owners(v) : Owners(v) = {o}
    /\ v \notin live => Owners(v) = {}

\* The descriptors that the bridge reads point to tensors of this very call,
\* and these are pinned; the others have no pointer of anybody.
DescriptorsOwn ==
  \A c \in Calls : pc[c] \in BridgeSteps \cup {"return", "copy", "outputs"} =>
    /\ \A p \in Given(c) : slots[held[c]][p].tensor = c /\ <<c, p>> \in pinned
    /\ \A p \in (1 .. Count(c)) \ Given(c) : slots[held[c]][p].tensor = None

\* A slice in the pool is zeroed to its last descriptor, whatever the numbers
\* of ports of the sessions that used it.
PoolZeroed == \A b \in pool : \A p \in DOMAIN slots[b] : slots[b][p] = Zero
-----------------------------------------------------------------------------
\* The native run as Session sees it.
Phase(c) == CASE pc[c] \in BridgeSteps -> "running"
              [] pc[c] \in {"return", "copy", "outputs"} -> "returned"
              [] OTHER -> "idle"

Contract == INSTANCE NativeRun WITH
  phase <- [c \in Calls |-> Phase(c)],
  wants <- [c \in Calls |-> IF Phase(c) = "running" THEN Outputs(c) \ Given(c) ELSE {}],
  owns <- [c \in Calls |-> IF Phase(c) = "running" THEN {} ELSE {p \in Ports : <<c, p>> \in live}],
  answer <- [c \in Calls |-> IF Phase(c) = "returned" THEN status[c] ELSE "none"]

\* Inference implements NativeRun.
ImplementsNativeRun == Contract!Spec
=============================================================================
