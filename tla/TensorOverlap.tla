---------------------------- MODULE TensorOverlap ----------------------------
(***************************************************************************)
(* The overlap check of Session.run (session.go) and what it is for: ORT   *)
(* writes the results of RunInto straight into the caller's tensors, in    *)
(* any order and while it still reads the inputs.  A tensor is a region of *)
(* a small memory; each byte of mem holds 0 until the run writes it, then  *)
(* the number of the output that was written last.                         *)
(*                                                                         *)
(* Names such as Others_Inputs are faulty variants of the definition after *)
(* them and not part of the model.                                         *)
(***************************************************************************)
EXTENDS Integers, Sequences

CONSTANTS
  Mem,     \* bytes of memory
  MaxIns,  \* bounds on the tensors of a run
  MaxOuts

ASSUME TensorOverlapAssumption == Mem \in Nat /\ MaxIns \in Nat /\ MaxOuts \in Nat

VARIABLES
  pc,         \* the state of the run
  ins, outs,  \* the tensors it was given
  mem,        \* the contents of the memory
  todo        \* <<i, b>>: byte b of output i is still to be written

vars == <<pc, ins, outs, mem, todo>>

\* A tensor's data and the bytes of its length and element type.
Tensors == {t \in [data : 0 .. Mem, bytes : 0 .. Mem] : t.data + t.bytes <= Mem}
Bytes(t) == t.data .. (t.data + t.bytes - 1)
Fresh == [b \in 0 .. Mem - 1 |-> 0]

Init == pc = "idle" /\ ins = <<>> /\ outs = <<>> /\ mem = Fresh /\ todo = {}

\* Both tensors have bytes, and each begins before the other ends.
Overlap_Empty(t, u) == t.data < u.data + u.bytes /\ u.data < t.data + t.bytes
Overlap(t, u) ==
  LET end == t.data + t.bytes
      q == u.data + u.bytes
  IN t.data < end /\ u.data < q /\ t.data < q /\ u.data < end

\* What output i of os is compared with: the inputs and the outputs before it.
Others_Inputs(is, os, i) == {is[k] : k \in DOMAIN is}
Others_Outputs(is, os, i) == {os[k] : k \in 1 .. i - 1}
Others(is, os, i) == {is[k] : k \in DOMAIN is} \cup {os[k] : k \in 1 .. i - 1}
Refused(is, os) == \E i \in DOMAIN os : \E u \in Others(is, os, i) : Overlap(os[i], u)

\* A model has at least one output.
RunInto(is, os) ==
  /\ ins' = is /\ outs' = os
  /\ pc' = IF Refused(is, os) THEN "refused" ELSE "native"
  /\ todo' = IF Refused(is, os) THEN {}
             ELSE {w \in (DOMAIN os) \X (0 .. Mem - 1) : w[2] \in Bytes(os[w[1]])}
  /\ UNCHANGED mem

\* ORT writes a byte of a result.
Write(w) ==
  /\ pc = "native" /\ w \in todo
  /\ mem' = [mem EXCEPT ![w[2]] = w[1]]
  /\ todo' = todo \ {w}
  /\ UNCHANGED <<pc, ins, outs>>

\* The native run ends, with an error or a cancellation at any point.
Succeed ==
  /\ pc = "native" /\ todo = {} /\ pc' = "done"
  /\ UNCHANGED <<ins, outs, mem, todo>>
Fail ==
  /\ pc = "native" /\ pc' = "failed" /\ todo' = {}
  /\ UNCHANGED <<ins, outs, mem>>

\* The caller has seen the outcome and may run again.
Return ==
  /\ pc \in {"refused", "done", "failed"} /\ pc' = "idle"
  /\ ins' = <<>> /\ outs' = <<>> /\ mem' = Fresh
  /\ UNCHANGED todo

Lists(low, high) == UNION {[1 .. k -> Tensors] : k \in low .. high}

Next ==
  \/ pc = "idle" /\ \E is \in Lists(0, MaxIns), os \in Lists(1, MaxOuts) : RunInto(is, os)
  \/ \E w \in todo : Write(w)
  \/ Succeed \/ Fail \/ Return

Spec == Init /\ [][Next]_vars
-----------------------------------------------------------------------------
\* No write of a result reaches a byte of an input, which ORT may still read,
\* however the run ends.
InputsKept == \A k \in DOMAIN ins : \A b \in Bytes(ins[k]) : mem[b] = 0

\* When RunInto succeeds each output holds all of its own result, whichever
\* was written last.
ResultsIntact ==
  pc = "done" => \A i \in DOMAIN outs : \A b \in Bytes(outs[i]) : mem[b] = i

\* A run is refused only if an output really shares a byte with another tensor:
\* adjacent tensors and empty ones, wherever they point, are accepted.
RefusalJustified ==
  pc = "refused" =>
    \/ \E i \in DOMAIN outs, k \in DOMAIN ins : Bytes(outs[i]) \cap Bytes(ins[k]) # {}
    \/ \E i, k \in DOMAIN outs : i # k /\ Bytes(outs[i]) \cap Bytes(outs[k]) # {}
=============================================================================
