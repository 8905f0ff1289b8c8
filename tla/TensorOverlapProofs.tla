------------------------- MODULE TensorOverlapProofs -------------------------
(***************************************************************************)
(* The overlap check is exact, and a run it accepts leaves its inputs      *)
(* alone and its results whole, for every memory and number of tensors.    *)
(***************************************************************************)
EXTENDS TensorOverlap, TLAPS

\* A run's inputs and outputs are tensors, and outputs are numbered from 1 on.
Described ==
  /\ \A k \in DOMAIN ins : ins[k] \in Tensors
  /\ \A i \in DOMAIN outs : outs[i] \in Tensors /\ i \in Nat \ {0} /\ 1 .. i \subseteq DOMAIN outs

\* What Refused looks for, as shared bytes.
Apart(is, os) ==
  \A i \in DOMAIN os :
    /\ \A k \in DOMAIN is : Bytes(os[i]) \cap Bytes(is[k]) = {}
    /\ \A j \in DOMAIN os : i # j => Bytes(os[i]) \cap Bytes(os[j]) = {}

Cells == 0 .. Mem - 1

\* A byte that was written belongs to the output that wrote it; what the run
\* need not write any more is in place.
Contents ==
  /\ mem \in [Cells -> Nat]
  /\ \A w \in todo : w[1] \in DOMAIN outs /\ w[2] \in Bytes(outs[w[1]])
  /\ \A b \in Cells : mem[b] # 0 => mem[b] \in DOMAIN outs /\ b \in Bytes(outs[mem[b]])
  /\ pc \in {"native", "done"} =>
       \A i \in DOMAIN outs : \A b \in Bytes(outs[i]) : <<i, b>> \in todo \/ mem[b] = i

Phases ==
  /\ pc \in {"idle", "refused", "native", "done", "failed"}
  /\ pc = "idle" => ins = <<>> /\ outs = <<>>
  /\ pc \in {"idle", "refused"} => mem = Fresh
  /\ pc # "native" => todo = {}
  /\ pc = "refused" => Refused(ins, outs)
  /\ pc # "refused" => Apart(ins, outs)

IInv == Described /\ Contents /\ Phases

\* The comparison of the code says whether two tensors share a byte.
LEMMA OverlapExact ==
  ASSUME NEW t \in Tensors, NEW u \in Tensors
  PROVE  Overlap(t, u) <=> Bytes(t) \cap Bytes(u) # {}
<1>1. /\ t.data \in Nat /\ t.bytes \in Nat /\ u.data \in Nat /\ u.bytes \in Nat
  BY TensorOverlapAssumption DEF Tensors
<1>2. ASSUME Overlap(t, u) PROVE Bytes(t) \cap Bytes(u) # {}
  <2>1. CASE t.data <= u.data
    <3>1. u.data \in Bytes(t) /\ u.data \in Bytes(u)
      BY <1>1, <1>2, <2>1 DEF Overlap, Bytes
    <3> QED BY <3>1
  <2>2. CASE u.data < t.data
    <3>1. t.data \in Bytes(t) /\ t.data \in Bytes(u)
      BY <1>1, <1>2, <2>2 DEF Overlap, Bytes
    <3> QED BY <3>1
  <2> QED BY <1>1, <2>1, <2>2
<1>3. ASSUME NEW b \in Bytes(t), b \in Bytes(u) PROVE Overlap(t, u)
  BY <1>1, <1>3 DEF Overlap, Bytes
<1> QED BY <1>2, <1>3

\* The loops of the check miss no pair: what they accept is apart.
LEMMA AcceptedApart ==
  ASSUME NEW is, NEW os,
         \A k \in DOMAIN is : is[k] \in Tensors,
         \A i \in DOMAIN os : os[i] \in Tensors /\ i \in Nat \ {0},
         \A i \in DOMAIN os : 1 .. i \subseteq DOMAIN os,
         ~Refused(is, os)
  PROVE  Apart(is, os)
<1> SUFFICES ASSUME NEW i \in DOMAIN os
             PROVE  /\ \A k \in DOMAIN is : Bytes(os[i]) \cap Bytes(is[k]) = {}
                    /\ \A j \in DOMAIN os : i # j => Bytes(os[i]) \cap Bytes(os[j]) = {}
  BY DEF Apart
<1>1. ASSUME NEW k \in DOMAIN is PROVE Bytes(os[i]) \cap Bytes(is[k]) = {}
  <2>1. is[k] \in Others(is, os, i) BY DEF Others
  <2>2. ~Overlap(os[i], is[k]) BY <2>1 DEF Refused
  <2> QED BY <2>2, OverlapExact
<1>2. ASSUME NEW m \in DOMAIN os, NEW j \in DOMAIN os, j < m
      PROVE  Bytes(os[m]) \cap Bytes(os[j]) = {}
  <2>1. j \in 1 .. m - 1 BY <1>2
  <2>2. os[j] \in Others(is, os, m) BY <2>1 DEF Others
  <2>3. ~Overlap(os[m], os[j]) BY <2>2 DEF Refused
  <2> QED BY <2>3, OverlapExact
<1>3. ASSUME NEW j \in DOMAIN os, i # j PROVE Bytes(os[i]) \cap Bytes(os[j]) = {}
  <2>1. j < i \/ i < j BY <1>3
  <2>2. CASE j < i BY <1>2, <2>2
  <2>3. CASE i < j
    <3>1. Bytes(os[j]) \cap Bytes(os[i]) = {} BY <1>2, <2>3
    <3> QED BY <3>1
  <2> QED BY <2>1, <2>2, <2>3
<1> QED BY <1>1, <1>3

LEMMA InitInvariant == Init => IInv
<1> SUFFICES ASSUME Init PROVE IInv OBVIOUS
<1>1. Described BY DEF Init, Described
<1>2. Contents BY TensorOverlapAssumption DEF Init, Contents, Fresh, Cells
<1>3. Phases
  <2>1. Apart(ins, outs) BY DEF Init, Apart
  <2> QED BY <2>1 DEF Init, Phases
<1> QED BY <1>1, <1>2, <1>3 DEF IInv

LEMMA RunIntoInvariant ==
  ASSUME IInv, pc = "idle",
         NEW is \in Lists(0, MaxIns), NEW os \in Lists(1, MaxOuts), RunInto(is, os)
  PROVE  IInv'
<1>1. PICK n \in 0 .. MaxIns : is \in [1 .. n -> Tensors] BY DEF Lists
<1>2. PICK m \in 1 .. MaxOuts : os \in [1 .. m -> Tensors] BY DEF Lists
<1>3. /\ \A k \in DOMAIN is : is[k] \in Tensors
      /\ \A i \in DOMAIN os : os[i] \in Tensors /\ i \in Nat \ {0}
      /\ \A i \in DOMAIN os : 1 .. i \subseteq DOMAIN os
  BY <1>1, <1>2, TensorOverlapAssumption
<1>4. mem' = Fresh BY DEF IInv, Phases, RunInto
<1>5. Described' BY <1>3 DEF Described, RunInto
<1>6. Contents'
  <2>1. mem' \in [Cells -> Nat] /\ \A b \in Cells : mem'[b] = 0 BY <1>4 DEF Fresh, Cells
  <2>2. \A w \in todo' : w[1] \in DOMAIN os /\ w[2] \in Bytes(os[w[1]]) BY DEF RunInto
  <2>3. ASSUME pc' \in {"native", "done"}, NEW i \in DOMAIN os, NEW b \in Bytes(os[i])
        PROVE  <<i, b>> \in todo'
    <3>1. ~Refused(is, os) BY <2>3 DEF RunInto
    <3>2. b \in Cells
      <4>1. os[i] \in Tensors BY <1>3
      <4> QED BY <4>1, TensorOverlapAssumption DEF Tensors, Bytes, Cells
    <3> QED BY <3>1, <3>2 DEF RunInto, Cells
  <2> QED BY <2>1, <2>2, <2>3 DEF Contents, RunInto
<1>7. Phases'
  <2>1. ASSUME ~Refused(is, os) PROVE Apart(is, os) BY <1>3, <2>1, AcceptedApart
  <2> QED BY <1>4, <2>1 DEF Phases, RunInto
<1> QED BY <1>5, <1>6, <1>7 DEF IInv

LEMMA WriteInvariant ==
  ASSUME IInv, NEW w \in todo, Write(w)
  PROVE  IInv'
<1>1. /\ w[1] \in DOMAIN outs /\ w[1] \in Nat \ {0} /\ outs[w[1]] \in Tensors
      /\ w[2] \in Bytes(outs[w[1]])
  BY DEF IInv, Contents, Described
<1>2. w[2] \in Cells
  BY <1>1, TensorOverlapAssumption DEF Tensors, Bytes, Cells
<1>3. mem' = [mem EXCEPT ![w[2]] = w[1]] /\ todo' = todo \ {w} /\ UNCHANGED <<pc, ins, outs>>
  BY DEF Write
<1>4. mem \in [Cells -> Nat] BY DEF IInv, Contents
<1>5. mem'[w[2]] = w[1] /\ \A b \in Cells : b # w[2] => mem'[b] = mem[b]
  BY <1>2, <1>3, <1>4
<1>6. Contents'
  <2>1. mem' \in [Cells -> Nat] BY <1>1, <1>3, <1>4
  <2>2. \A v \in todo' : v[1] \in DOMAIN outs' /\ v[2] \in Bytes(outs'[v[1]])
    BY <1>3 DEF IInv, Contents
  <2>3. ASSUME NEW b \in Cells, mem'[b] # 0
        PROVE  mem'[b] \in DOMAIN outs' /\ b \in Bytes(outs'[mem'[b]])
    <3>1. CASE b = w[2] BY <1>1, <1>3, <1>5, <3>1
    <3>2. CASE b # w[2] BY <1>3, <1>5, <2>3, <3>2 DEF IInv, Contents
    <3> QED BY <3>1, <3>2
  <2>4. ASSUME NEW i \in DOMAIN outs, NEW b \in Bytes(outs[i])
        PROVE  <<i, b>> \in todo' \/ mem'[b] = i
    <3>1. <<i, b>> \in todo \/ mem[b] = i BY DEF IInv, Contents, Write
    <3>2. b \in Cells
      <4>1. outs[i] \in Tensors BY DEF IInv, Described
      <4> QED BY <4>1, TensorOverlapAssumption DEF Tensors, Bytes, Cells
    <3>3. CASE b = w[2]
      <4>1. Apart(ins, outs) BY DEF IInv, Phases, Write
      <4>2. i = w[1] BY <1>1, <3>3, <4>1 DEF Apart
      <4> QED BY <1>5, <3>3, <4>2
    <3>4. CASE b # w[2]
      <4>1. <<i, b>> # w BY <3>4
      <4> QED BY <1>3, <1>5, <3>1, <3>2, <3>4, <4>1
    <3> QED BY <3>3, <3>4
  <2> QED BY <1>3, <2>1, <2>2, <2>3, <2>4 DEF Contents
<1>7. Described' BY <1>3 DEF IInv, Described
<1>8. Phases' BY <1>3 DEF IInv, Phases, Write
<1> QED BY <1>6, <1>7, <1>8 DEF IInv

LEMMA StepInvariant == IInv /\ [Next]_vars => IInv'
<1> SUFFICES ASSUME IInv, [Next]_vars PROVE IInv' OBVIOUS
<1>1. ASSUME pc = "idle", NEW is \in Lists(0, MaxIns), NEW os \in Lists(1, MaxOuts),
             RunInto(is, os)
      PROVE  IInv'
  BY <1>1, RunIntoInvariant
<1>2. ASSUME NEW w \in todo, Write(w) PROVE IInv' BY <1>2, WriteInvariant
<1>3. CASE Succeed BY <1>3 DEF Succeed, IInv, Described, Contents, Phases
<1>4. CASE Fail BY <1>4 DEF Fail, IInv, Described, Contents, Phases
<1>5. CASE Return
  <2>1. todo' = {} BY <1>5 DEF Return, IInv, Phases
  <2>2. Described' BY <1>5 DEF Return, Described
  <2>3. Contents' BY <1>5, <2>1, TensorOverlapAssumption DEF Return, Contents, Fresh, Cells
  <2>4. Phases'
    <3>1. Apart(ins', outs') BY <1>5 DEF Return, Apart
    <3> QED BY <1>5, <2>1, <3>1 DEF Return, Phases
  <2> QED BY <2>2, <2>3, <2>4 DEF IInv
<1>6. CASE UNCHANGED vars BY <1>6 DEF vars, IInv, Described, Contents, Phases
<1> QED BY <1>1, <1>2, <1>3, <1>4, <1>5, <1>6 DEF Next

LEMMA Invariant == Spec => []IInv
BY InitInvariant, StepInvariant, PTL DEF Spec

-----------------------------------------------------------------------------
\* A native run never writes into an input of RunInto.
THEOREM InputsSafe == Spec => []InputsKept
<1>1. IInv => InputsKept
  <2> SUFFICES ASSUME IInv, NEW k \in DOMAIN ins, NEW b \in Bytes(ins[k]) PROVE mem[b] = 0
    BY DEF InputsKept
  <2>1. b \in Cells
    <3>1. ins[k] \in Tensors BY DEF IInv, Described
    <3> QED BY <3>1, TensorOverlapAssumption DEF Tensors, Bytes, Cells
  <2>2. CASE pc = "refused" BY <2>1, <2>2 DEF IInv, Phases, Fresh, Cells
  <2>3. CASE pc # "refused"
    <3>1. Apart(ins, outs) BY <2>3 DEF IInv, Phases
    <3> QED BY <2>1, <3>1 DEF IInv, Contents, Apart
  <2> QED BY <2>2, <2>3
<1> QED BY <1>1, Invariant, PTL

\* Every output of a successful RunInto holds its own result.
THEOREM ResultsWhole == Spec => []ResultsIntact
<1>1. IInv => ResultsIntact BY DEF IInv, Contents, Phases, ResultsIntact
<1> QED BY <1>1, Invariant, PTL

\* RunInto refuses only what really overlaps.
THEOREM RefusalsJustified == Spec => []RefusalJustified
<1>1. IInv => RefusalJustified
  <2> SUFFICES ASSUME IInv, pc = "refused" PROVE RefusalJustified
    BY DEF RefusalJustified
  <2>1. PICK i \in DOMAIN outs : \E u \in Others(ins, outs, i) : Overlap(outs[i], u)
    BY DEF IInv, Phases, Refused
  <2>2. PICK u \in Others(ins, outs, i) : Overlap(outs[i], u) BY <2>1
  <2>3. CASE \E k \in DOMAIN ins : u = ins[k]
    BY <2>2, <2>3, OverlapExact DEF IInv, Described, RefusalJustified
  <2>4. CASE \E k \in 1 .. i - 1 : u = outs[k]
    <3>1. PICK k \in 1 .. i - 1 : u = outs[k] BY <2>4
    <3>2. i \in Nat \ {0} /\ 1 .. i \subseteq DOMAIN outs BY DEF IInv, Described
    <3>3. k \in DOMAIN outs /\ i # k BY <3>2
    <3>4. outs[i] \in Tensors /\ outs[k] \in Tensors BY <3>3 DEF IInv, Described
    <3>5. Bytes(outs[i]) \cap Bytes(outs[k]) # {} BY <2>2, <3>1, <3>4, OverlapExact
    <3> QED BY <3>3, <3>5 DEF RefusalJustified
  <2> QED BY <2>2, <2>3, <2>4 DEF Others
<1> QED BY <1>1, Invariant, PTL
=============================================================================
