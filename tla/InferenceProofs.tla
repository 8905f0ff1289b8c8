--------------------------- MODULE InferenceProofs ---------------------------
(***************************************************************************)
(* Proofs about module Inference, for any calls, slices and sessions: who  *)
(* owns each OrtValue and each descriptor, type correctness, and the       *)
(* refinement of NativeRun.                                                *)
(***************************************************************************)
EXTENDS Inference, SequenceTheorems, TLAPS

\* The slice of c, while it holds one.
Mine(c) == slots[held[c]]

\* A call holds a slice, long enough and not in the pool, from Get to Clear.
Holding(c) ==
  /\ pc[c] \in {"idle", "get"} <=> held[c] = None
  /\ held[c] \notin pool
  /\ held[c] # None => Count(c) <= Len(Mine(c))

\* A held slice has nothing of another call, and nothing beyond its ports.
Private(c) ==
  held[c] # None => \A p \in DOMAIN Mine(c) :
    /\ Mine(c)[p].tensor \in {c, None} /\ Mine(c)[p].value \in {c, None}
    /\ p > Count(c) => Mine(c)[p] = Zero

\* The tensors of the ports described so far are pinned.
DescribedSteps == BridgeSteps \cup {"watch", "return", "copy", "outputs"}
Described(c) ==
  /\ pc[c] = "fill" => \A p \in 1 .. Count(c) :
       /\ p < at[c] => p \in Given(c) /\ Mine(c)[p].tensor = c /\ <<c, p>> \in pinned
       /\ p >= at[c] => Mine(c)[p].tensor = None
  /\ pc[c] \in DescribedSteps => \A p \in 1 .. Count(c) :
       /\ p \in Given(c) => Mine(c)[p].tensor = c /\ <<c, p>> \in pinned
       /\ p \notin Given(c) => Mine(c)[p].tensor = None

\* What exists is in run's array or in the descriptors, never in both.
Has(c, p) == held[c] # None /\ p \in DOMAIN Mine(c) /\ Mine(c)[p].value = c
Owned(c) ==
  /\ \A p \in values[c] : pc[c] \in {"wrap", "infer", "deliver", "cleanup"}
                          /\ p \in 1 .. Count(c) /\ Mine(c)[p].value = None
  /\ \A p \in Ports : <<c, p>> \in live <=> p \in values[c] \/ Has(c, p)
  /\ \A p \in Ports : Has(c, p) =>
       /\ p \in Outputs(c) /\ ~into[c]
       /\ pc[c] \in {"deliver", "cleanup", "discard", "return", "copy", "outputs"}

\* The outputs a successful run has moved, and a failed one has given up.
Delivered(c) ==
  /\ pc[c] \in {"get", "fill", "watch", "alloc", "wrap", "infer", "deliver", "copy"} =>
       status[c] = "ok"
  /\ pc[c] \in {"deliver", "discard", "copy", "outputs"} => ~into[c]
  /\ pc[c] = "deliver" => /\ at[c] > arity[c][1]
                          /\ \A p \in Outputs(c) : IF p < at[c] THEN Has(c, p) ELSE p \in values[c]
  /\ pc[c] \in {"cleanup", "return", "copy", "outputs"} /\ status[c] = "ok" /\ ~into[c]
       => \A p \in Outputs(c) : Has(c, p)
  /\ pc[c] \in {"return", "outputs"} /\ status[c] = "failed" => \A p \in Outputs(c) : ~Has(c, p)
  /\ pc[c] = "discard" => status[c] = "failed"

Fine(c) == Holding(c) /\ Private(c) /\ Described(c) /\ Owned(c) /\ Delivered(c)

\* No slice has two users, and one without a user is zeroed.
Distinct == \A c, d \in Calls : held[c] = held[d] /\ held[c] # None => c = d
Clean == \A b \in Buffers :
  (\A c \in Calls : held[c] # b) => \A p \in DOMAIN slots[b] : slots[b][p] = Zero

Inv == TypeOK /\ Distinct /\ Clean /\ \A c \in Calls : Fine(c)

-----------------------------------------------------------------------------
(* One step concerns one call and the slice that it holds.                 *)

\* The other calls keep what they have, and so do the other slices.
Others(c) == \A d \in Calls \ {c} :
  /\ pc'[d] = pc[d] /\ arity'[d] = arity[d] /\ into'[d] = into[d] /\ at'[d] = at[d]
  /\ status'[d] = status[d] /\ held'[d] = held[d] /\ values'[d] = values[d]
  /\ \A p \in Ports : /\ <<d, p>> \in pinned' <=> <<d, p>> \in pinned
                      /\ <<d, p>> \in live' <=> <<d, p>> \in live
OtherSlices(c) == \A b \in Buffers : b # held[c] /\ b # held'[c] => slots'[b] = slots[b]

\* c keeps its slice, takes one that nobody holds, or gives its own back, zeroed.
Handover(c) ==
  \/ held'[c] = held[c] /\ pool' = pool
  \/ /\ held[c] = None /\ held'[c] \in Buffers \ {held[d] : d \in Calls}
     /\ pool' \subseteq pool
  \/ /\ held[c] \in Buffers /\ held'[c] = None /\ pool' = pool \cup {held[c]}
     /\ \A p \in DOMAIN slots'[held[c]] : slots'[held[c]][p] = Zero

Local(c) == TypeOK' /\ Fine(c)' /\ Others(c) /\ OtherSlices(c) /\ Handover(c)

\* The ports of a call are ports, numbered from 1.
LEMMA PortsOf ==
  ASSUME TypeOK, NEW c \in Calls
  PROVE  /\ arity[c][1] \in Nat /\ arity[c][2] \in Nat \ {0}
         /\ Count(c) \in Nat
         /\ 1 .. Count(c) \subseteq Ports
         /\ Given(c) \subseteq 1 .. Count(c) /\ Outputs(c) \subseteq 1 .. Count(c)
         /\ Inputs(c) \subseteq Given(c)
<1>1. arity[c] \in Arities /\ arity[c] \in Nat \X (Nat \ {0})
  BY InferenceAssumption DEF InferenceAssumption, TypeOK
<1>2. arity[c][1] \in Nat /\ arity[c][2] \in Nat \ {0}
  BY <1>1
<1>3. 1 .. Count(c) \subseteq Ports
  BY <1>1 DEF Count, Ports
<1> QED
  BY <1>2, <1>3 DEF Count, Given, Inputs, Outputs

\* All ports are numbers from 1.
LEMMA PortNumbers == Ports \subseteq Nat \ {0}
<1>1. \A a \in Arities : a[1] \in Nat /\ a[2] \in Nat
  BY InferenceAssumption DEF InferenceAssumption
<1> QED
  BY <1>1 DEF Ports

\* A slice is a sequence of descriptors.
LEMMA SliceOf ==
  ASSUME TypeOK, NEW b \in Buffers
  PROVE  /\ slots[b] \in Seq(Slot)
         /\ Len(slots[b]) \in Nat /\ DOMAIN slots[b] = 1 .. Len(slots[b])
         /\ \A p \in DOMAIN slots[b] : slots[b][p] \in Slot
<1>1. slots[b] \in Seq(Slot)
  BY DEF TypeOK
<1> QED
  BY <1>1, LenProperties, ElementOfSeq

\* What is built descriptor by descriptor is a slice.
LEMMA Rebuilt ==
  ASSUME NEW n \in Nat, NEW s, DOMAIN s = 1 .. n, s = [p \in 1 .. n |-> s[p]],
         \A p \in 1 .. n : s[p] \in Slot
  PROVE  s \in Seq(Slot) /\ Len(s) = n
<1>1. s \in [1 .. n -> Slot]
  OBVIOUS
<1>2. s \in Seq(Slot)
  BY <1>1, SeqDef
<1> QED
  BY <1>2, LenProperties

\* None is no call, so a descriptor that is not of c is of nobody.
LEMMA NoneIsNobody == None \notin Calls /\ None \notin Buffers /\ Zero \in Slot
  BY InferenceAssumption DEF InferenceAssumption, Slot, Zero

\* Failing to create the run options touches nothing.
LEMMA WatchLocal ==
  ASSUME Inv, NEW c \in Calls, Watch(c)
  PROVE  Local(c)
<1>1. TypeOK /\ Holding(c) /\ Private(c) /\ Described(c) /\ Owned(c) /\ Delivered(c)
  BY DEF Inv, Fine
<1>2. /\ Mine(c)' = Mine(c) /\ Count(c)' = Count(c) /\ Given(c)' = Given(c)
      /\ Outputs(c)' = Outputs(c) /\ \A p \in Ports : Has(c, p)' <=> Has(c, p)
      /\ arity'[c] = arity[c] /\ into'[c] = into[c] /\ held'[c] = held[c]
  BY DEF Watch, callVars, Mine, Count, Given, Inputs, Outputs, Has
<1>3. TypeOK'
  BY <1>1, PortsOf DEF Watch, TypeOK, At, Goto, callVars, Steps, BridgeSteps
<1>4. Others(c) /\ OtherSlices(c) /\ Handover(c)
  <2>1. OtherSlices(c) /\ Handover(c)
    BY DEF Watch, OtherSlices, Handover, callVars
  <2>2. Others(c)
    BY <1>1 DEF Watch, TypeOK, Others, Goto, callVars
  <2> QED
    BY <2>1, <2>2
<1>5. Holding(c)' /\ Private(c)'
  BY <1>1, <1>2 DEF Watch, TypeOK, Holding, Private, At, Goto, callVars
<1>6. Described(c)'
  BY <1>1, <1>2, PortsOf
  DEF Watch, TypeOK, Described, DescribedSteps, BridgeSteps, At, Goto, callVars
<1>7. Owned(c)'
  BY <1>1, <1>2, PortsOf, PortNumbers, NoneIsNobody
  DEF Watch, TypeOK, Owned, Delivered, At, Goto, callVars
<1>8. Delivered(c)'
  BY <1>1, <1>2, PortsOf, PortNumbers DEF Watch, TypeOK, Owned, Delivered, At, Goto, callVars
<1> QED
  BY <1>3, <1>4, <1>5, <1>6, <1>7, <1>8 DEF Local, Fine

\* The array starts empty, and nothing is left in it from before.
LEMMA AllocLocal ==
  ASSUME Inv, NEW c \in Calls, Alloc(c)
  PROVE  Local(c)
<1>1. TypeOK /\ Holding(c) /\ Private(c) /\ Described(c) /\ Owned(c) /\ Delivered(c)
  BY DEF Inv, Fine
<1>2. /\ Mine(c)' = Mine(c) /\ Count(c)' = Count(c) /\ Given(c)' = Given(c)
      /\ Outputs(c)' = Outputs(c) /\ \A p \in Ports : Has(c, p)' <=> Has(c, p)
      /\ arity'[c] = arity[c] /\ into'[c] = into[c] /\ held'[c] = held[c]
  BY DEF Alloc, Mine, Count, Given, Inputs, Outputs, Has
<1>3. TypeOK'
  <2>1. at' \in [Calls -> Nat \ {0}] /\ values' \in [Calls -> SUBSET Ports]
    BY <1>1 DEF Alloc, TypeOK, Move
  <2>2. pc' \in [Calls -> Steps] /\ status' \in [Calls -> {"ok", "failed"}]
    BY <1>1 DEF Alloc, TypeOK, Goto, Fail, Steps, BridgeSteps
  <2> QED
    BY <1>1, <2>1, <2>2 DEF Alloc, TypeOK
<1>4. Others(c) /\ OtherSlices(c) /\ Handover(c)
  <2>1. OtherSlices(c) /\ Handover(c)
    BY DEF Alloc, OtherSlices, Handover
  <2>2. Others(c)
    BY <1>1 DEF Alloc, TypeOK, Others, Goto, Move, Fail
  <2> QED
    BY <2>1, <2>2
<1>5. Holding(c)' /\ Private(c)'
  BY <1>1, <1>2 DEF Alloc, TypeOK, Holding, Private, At, Goto, Fail
<1>6. Described(c)'
  <2>1. pc[c] \in DescribedSteps /\ pc'[c] # "fill"
    BY <1>1 DEF Alloc, TypeOK, DescribedSteps, BridgeSteps, At, Goto
  <2> QED
    BY <1>1, <1>2, <2>1 DEF Alloc, Described
<1>7. Owned(c)'
  BY <1>1, <1>2, PortsOf, PortNumbers, NoneIsNobody
  DEF Alloc, TypeOK, Owned, Delivered, At, Goto, Move, Fail
<1>8. Delivered(c)'
  BY <1>1, <1>2, PortsOf, PortNumbers DEF Alloc, TypeOK, Owned, Delivered, At, Goto, Move, Fail
<1> QED
  BY <1>3, <1>4, <1>5, <1>6, <1>7, <1>8 DEF Local, Fine

\* A wrapped tensor enters the array.
LEMMA WrapLocal ==
  ASSUME Inv, NEW c \in Calls, Wrap(c)
  PROVE  Local(c)
<1>1. TypeOK /\ Holding(c) /\ Private(c) /\ Described(c) /\ Owned(c) /\ Delivered(c)
  BY DEF Inv, Fine
<1>2. /\ Mine(c)' = Mine(c) /\ Count(c)' = Count(c) /\ Given(c)' = Given(c)
      /\ Outputs(c)' = Outputs(c) /\ \A p \in Ports : Has(c, p)' <=> Has(c, p)
      /\ arity'[c] = arity[c] /\ into'[c] = into[c] /\ held'[c] = held[c]
  BY DEF Wrap, Mine, Count, Given, Inputs, Outputs, Has
<1>3. TypeOK'
  <2>1. at' \in [Calls -> Nat \ {0}]
    BY <1>1 DEF Wrap, TypeOK, Move
  <2>2. pc' \in [Calls -> Steps] /\ status' \in [Calls -> {"ok", "failed"}]
    BY <1>1 DEF Wrap, TypeOK, Goto, Fail, Steps, BridgeSteps
  <2>3. values' \in [Calls -> SUBSET Ports] /\ live' \subseteq Calls \X Ports
    <3>1. at[c] \in Given(c) => at[c] \in Ports
      BY <1>1, PortsOf
    <3>2. CASE values' = values /\ live' = live
      BY <1>1, <3>2 DEF TypeOK
    <3>3. CASE /\ at[c] \in Given(c)
               /\ values' = [values EXCEPT ![c] = @ \cup {at[c]}]
               /\ live' = live \cup {<<c, at[c]>>}
      BY <1>1, <3>1, <3>3 DEF TypeOK
    <3> QED
      BY <3>2, <3>3 DEF Wrap
  <2> QED
    BY <1>1, <2>1, <2>2, <2>3 DEF Wrap, TypeOK
<1>4. Others(c) /\ OtherSlices(c) /\ Handover(c)
  <2>1. OtherSlices(c) /\ Handover(c)
    BY DEF Wrap, OtherSlices, Handover
  <2>2. Others(c)
    BY <1>1 DEF Wrap, TypeOK, Others, Goto, Move, Fail
  <2> QED
    BY <2>1, <2>2
<1>5. Holding(c)' /\ Private(c)'
  BY <1>1, <1>2 DEF Wrap, TypeOK, Holding, Private, At, Goto, Fail
<1>6. Described(c)'
  BY <1>1, <1>2, PortsOf
  DEF Wrap, TypeOK, Described, DescribedSteps, BridgeSteps, At, Goto, Move, Fail
<1>7. Owned(c)'
  <2>1. pc[c] = "wrap" /\ pc'[c] \in {"wrap", "infer", "cleanup"}
    BY <1>1 DEF Wrap, TypeOK, At, Goto
  <2>2. \A p \in Ports : ~Has(c, p)
    BY <1>1, <2>1 DEF Owned
  <2>3. CASE values' = values /\ live' = live
    BY <1>1, <1>2, <2>1, <2>2, <2>3 DEF Owned
  <2>4. CASE /\ at[c] \in Given(c)
             /\ values' = [values EXCEPT ![c] = @ \cup {at[c]}]
             /\ live' = live \cup {<<c, at[c]>>}
    <3>1. PICK i \in Nat : i = at[c]
      BY <1>1 DEF TypeOK
    <3>2. i \in 1 .. Count(c) /\ i \in Ports
      BY <1>1, <2>4, <3>1, PortsOf
    <3>3. values'[c] = values[c] \cup {i} /\ live' = live \cup {<<c, i>>}
      BY <1>1, <2>4, <3>1 DEF TypeOK
    <3>4. held[c] \in Buffers /\ i \in DOMAIN Mine(c) /\ Mine(c)[i].value = None
      <4>1. held[c] \in Buffers /\ Count(c) <= Len(Mine(c))
        BY <1>1, <2>1 DEF Holding, TypeOK
      <4>2. i \in DOMAIN Mine(c)
        BY <1>1, <3>2, <4>1, SliceOf, PortsOf DEF Mine
      <4> QED
        BY <1>1, <2>2, <3>2, <4>1, <4>2, NoneIsNobody DEF Private, Has
    <3> QED
      BY <1>1, <1>2, <2>1, <2>2, <3>2, <3>3, <3>4 DEF Owned
  <2> QED
    BY <2>3, <2>4 DEF Wrap
<1>8. Delivered(c)'
  BY <1>1, <1>2, PortsOf, PortNumbers DEF Wrap, TypeOK, Owned, Delivered, At, Goto, Move, Fail
<1> QED
  BY <1>3, <1>4, <1>5, <1>6, <1>7, <1>8 DEF Local, Fine

\* The values that Run makes enter the array.
LEMMA InferLocal ==
  ASSUME Inv, NEW c \in Calls, Infer(c)
  PROVE  Local(c)
<1>1. TypeOK /\ Holding(c) /\ Private(c) /\ Described(c) /\ Owned(c) /\ Delivered(c)
  BY DEF Inv, Fine
<1>2. /\ Mine(c)' = Mine(c) /\ Count(c)' = Count(c) /\ Given(c)' = Given(c)
      /\ Outputs(c)' = Outputs(c) /\ \A p \in Ports : Has(c, p)' <=> Has(c, p)
      /\ arity'[c] = arity[c] /\ into'[c] = into[c] /\ held'[c] = held[c]
  BY DEF Infer, Mine, Count, Given, Inputs, Outputs, Has
<1>3. TypeOK'
  <2>1. at' \in [Calls -> Nat \ {0}]
    BY <1>1, PortsOf DEF Infer, TypeOK, Move
  <2>2. pc' \in [Calls -> Steps] /\ status' \in [Calls -> {"ok", "failed"}]
    BY <1>1 DEF Infer, TypeOK, Goto, Fail, Steps, BridgeSteps
  <2>3. values' \in [Calls -> SUBSET Ports] /\ live' \subseteq Calls \X Ports
    <3>1. Outputs(c) \subseteq Ports
      BY <1>1, PortsOf
    <3> QED
      BY <1>1, <3>1 DEF Infer, TypeOK
  <2> QED
    BY <1>1, <2>1, <2>2, <2>3 DEF Infer, TypeOK
<1>4. Others(c) /\ OtherSlices(c) /\ Handover(c)
  <2>1. OtherSlices(c) /\ Handover(c)
    BY DEF Infer, OtherSlices, Handover
  <2>2. Others(c)
    BY <1>1 DEF Infer, TypeOK, Others, Goto, Move, Fail
  <2> QED
    BY <2>1, <2>2
<1>5. Holding(c)' /\ Private(c)'
  BY <1>1, <1>2 DEF Infer, TypeOK, Holding, Private, At, Goto, Fail
<1>6. Described(c)'
  BY <1>1, <1>2, PortsOf
  DEF Infer, TypeOK, Described, DescribedSteps, BridgeSteps, At, Goto, Move, Fail
<1>7. Owned(c)'
  <2>1. pc[c] = "infer" /\ pc'[c] \in {"deliver", "cleanup"}
    BY <1>1 DEF Infer, TypeOK, At, Goto
  <2>2. \A p \in Ports : ~Has(c, p)
    BY <1>1, <2>1 DEF Owned
  <2>3. PICK made \in SUBSET Outputs(c) :
          /\ values' = [values EXCEPT ![c] = @ \cup made]
          /\ live' = live \cup {<<c, p>> : p \in made}
    BY DEF Infer
  <2>4. /\ values'[c] = values[c] \cup made
        /\ \A p \in Ports : <<c, p>> \in live' <=> <<c, p>> \in live \/ p \in made
    BY <1>1, <2>3 DEF TypeOK
  <2>5. held[c] \in Buffers /\ Count(c) <= Len(Mine(c))
    BY <1>1, <2>1 DEF Holding, TypeOK
  <2>6. \A p \in made : p \in Ports /\ p \in 1 .. Count(c) /\ p \in DOMAIN Mine(c)
    BY <1>1, <2>5, SliceOf, PortsOf DEF Mine
  <2>7. \A p \in made : Mine(c)[p].value = None
    BY <1>1, <2>2, <2>5, <2>6, NoneIsNobody DEF Private, Has
  <2> QED
    BY <1>1, <1>2, <2>1, <2>2, <2>4, <2>6, <2>7 DEF Owned
<1>8. Delivered(c)'
  <2>1. pc[c] = "infer" /\ status[c] = "ok"
    BY <1>1 DEF Infer, Delivered, At
  <2>2. CASE Fail(c) /\ Goto(c, "cleanup")
    BY <1>1, <1>2, <2>2 DEF TypeOK, Delivered, Goto, Fail
  <2>3. CASE /\ UNCHANGED status
             /\ Goto(c, IF into[c] THEN "cleanup" ELSE "deliver")
             /\ values' = [values EXCEPT ![c] = @ \cup (Outputs(c) \ values[c])]
    <3>1. Outputs(c) \subseteq values'[c]
      BY <1>1, <2>3 DEF TypeOK
    <3>2. at'[c] = arity[c][1] + 1 /\ arity[c][1] \in Nat
      BY <1>1, PortsOf DEF Infer, Move, TypeOK
    <3>3. \A p \in Outputs(c) : ~(p < at'[c])
      BY <3>2, <1>1, PortsOf DEF Outputs
    <3>4. into[c] \in BOOLEAN /\ pc'[c] = IF into[c] THEN "cleanup" ELSE "deliver"
      BY <1>1, <2>3 DEF TypeOK, Goto
    <3> QED
      BY <1>2, <2>1, <2>3, <3>1, <3>2, <3>3, <3>4 DEF Delivered
  <2> QED
    BY <2>2, <2>3 DEF Infer
<1> QED
  BY <1>3, <1>4, <1>5, <1>6, <1>7, <1>8 DEF Local, Fine

\* What the array still has is released.
LEMMA CleanupLocal ==
  ASSUME Inv, NEW c \in Calls, Cleanup(c)
  PROVE  Local(c)
<1>1. TypeOK /\ Holding(c) /\ Private(c) /\ Described(c) /\ Owned(c) /\ Delivered(c)
  BY DEF Inv, Fine
<1>2. /\ Mine(c)' = Mine(c) /\ Count(c)' = Count(c) /\ Given(c)' = Given(c)
      /\ Outputs(c)' = Outputs(c) /\ \A p \in Ports : Has(c, p)' <=> Has(c, p)
      /\ arity'[c] = arity[c] /\ into'[c] = into[c] /\ held'[c] = held[c]
  BY DEF Cleanup, callVars, Mine, Count, Given, Inputs, Outputs, Has
<1>3. TypeOK'
  BY <1>1, PortsOf DEF Cleanup, TypeOK, At, Goto, callVars, Steps, BridgeSteps, AfterCleanup
<1>4. Others(c) /\ OtherSlices(c) /\ Handover(c)
  <2>1. OtherSlices(c) /\ Handover(c)
    BY DEF Cleanup, OtherSlices, Handover, callVars
  <2>2. Others(c)
    BY <1>1 DEF Cleanup, TypeOK, Others, Goto, callVars, AfterCleanup
  <2> QED
    BY <2>1, <2>2
<1>5. Holding(c)' /\ Private(c)'
  BY <1>1, <1>2 DEF Cleanup, TypeOK, Holding, Private, At, Goto, callVars, AfterCleanup
<1>6. Described(c)'
  BY <1>1, <1>2, PortsOf
  DEF Cleanup, TypeOK, Described, DescribedSteps, BridgeSteps, At, Goto, callVars, AfterCleanup
<1>7. Owned(c)'
  <2>1. pc[c] = "cleanup" /\ pc'[c] \in {"discard", "return"} /\ values'[c] = {}
    BY <1>1 DEF Cleanup, AfterCleanup, TypeOK, At, Goto
  <2>2. \A p \in Ports : <<c, p>> \in live' <=> <<c, p>> \in live /\ p \notin values[c]
    BY DEF Cleanup
  <2>3. \A p \in values[c] : ~Has(c, p)
    BY <1>1, NoneIsNobody DEF Owned, Has
  <2> QED
    BY <1>1, <1>2, <2>1, <2>2, <2>3 DEF Owned
<1>8. Delivered(c)'
  BY <1>1, <1>2, PortsOf, PortNumbers
  DEF Cleanup, TypeOK, Owned, Delivered, At, Goto, callVars, AfterCleanup
<1> QED
  BY <1>3, <1>4, <1>5, <1>6, <1>7, <1>8 DEF Local, Fine

\* The return of the bridge changes nothing.
LEMMA ReturnLocal ==
  ASSUME Inv, NEW c \in Calls, Return(c)
  PROVE  Local(c)
<1>1. TypeOK /\ Holding(c) /\ Private(c) /\ Described(c) /\ Owned(c) /\ Delivered(c)
  BY DEF Inv, Fine
<1>2. /\ Mine(c)' = Mine(c) /\ Count(c)' = Count(c) /\ Given(c)' = Given(c)
      /\ Outputs(c)' = Outputs(c) /\ \A p \in Ports : Has(c, p)' <=> Has(c, p)
      /\ arity'[c] = arity[c] /\ into'[c] = into[c] /\ held'[c] = held[c]
  BY DEF Return, callVars, Mine, Count, Given, Inputs, Outputs, Has
<1>3. TypeOK'
  BY <1>1, PortsOf DEF Return, TypeOK, At, Goto, callVars, Steps, BridgeSteps
<1>4. Others(c) /\ OtherSlices(c) /\ Handover(c)
  <2>1. OtherSlices(c) /\ Handover(c)
    BY DEF Return, OtherSlices, Handover, callVars
  <2>2. Others(c)
    BY <1>1 DEF Return, TypeOK, Others, Goto, callVars
  <2> QED
    BY <2>1, <2>2
<1>5. Holding(c)' /\ Private(c)'
  BY <1>1, <1>2 DEF Return, TypeOK, Holding, Private, At, Goto, callVars
<1>6. Described(c)'
  BY <1>1, <1>2, PortsOf
  DEF Return, TypeOK, Described, DescribedSteps, BridgeSteps, At, Goto, callVars
<1>7. Owned(c)'
  BY <1>1, <1>2, PortsOf, PortNumbers, NoneIsNobody
  DEF Return, TypeOK, Owned, Delivered, At, Goto, callVars
<1>8. Delivered(c)'
  BY <1>1, <1>2, PortsOf, PortNumbers DEF Return, TypeOK, Owned, Delivered, At, Goto, callVars
<1> QED
  BY <1>3, <1>4, <1>5, <1>6, <1>7, <1>8 DEF Local, Fine

\* Copying changes nothing.
LEMMA CopyLocal ==
  ASSUME Inv, NEW c \in Calls, Copy(c)
  PROVE  Local(c)
<1>1. TypeOK /\ Holding(c) /\ Private(c) /\ Described(c) /\ Owned(c) /\ Delivered(c)
  BY DEF Inv, Fine
<1>2. /\ Mine(c)' = Mine(c) /\ Count(c)' = Count(c) /\ Given(c)' = Given(c)
      /\ Outputs(c)' = Outputs(c) /\ \A p \in Ports : Has(c, p)' <=> Has(c, p)
      /\ arity'[c] = arity[c] /\ into'[c] = into[c] /\ held'[c] = held[c]
  BY DEF Copy, callVars, Mine, Count, Given, Inputs, Outputs, Has
<1>3. TypeOK'
  BY <1>1, PortsOf DEF Copy, TypeOK, At, Goto, callVars, Steps, BridgeSteps
<1>4. Others(c) /\ OtherSlices(c) /\ Handover(c)
  <2>1. OtherSlices(c) /\ Handover(c)
    BY DEF Copy, OtherSlices, Handover, callVars
  <2>2. Others(c)
    BY <1>1 DEF Copy, TypeOK, Others, Goto, callVars
  <2> QED
    BY <2>1, <2>2
<1>5. Holding(c)' /\ Private(c)'
  BY <1>1, <1>2 DEF Copy, TypeOK, Holding, Private, At, Goto, callVars
<1>6. Described(c)'
  BY <1>1, <1>2, PortsOf
  DEF Copy, TypeOK, Described, DescribedSteps, BridgeSteps, At, Goto, callVars
<1>7. Owned(c)'
  BY <1>1, <1>2, PortsOf, PortNumbers, NoneIsNobody
  DEF Copy, TypeOK, Owned, Delivered, At, Goto, callVars
<1>8. Delivered(c)'
  BY <1>1, <1>2, PortsOf, PortNumbers DEF Copy, TypeOK, Owned, Delivered, At, Goto, callVars
<1> QED
  BY <1>3, <1>4, <1>5, <1>6, <1>7, <1>8 DEF Local, Fine

\* Only this call loses its pins.
LEMMA UnpinLocal ==
  ASSUME Inv, NEW c \in Calls, Unpin(c)
  PROVE  Local(c)
<1>1. TypeOK /\ Holding(c) /\ Private(c) /\ Described(c) /\ Owned(c) /\ Delivered(c)
  BY DEF Inv, Fine
<1>2. /\ Mine(c)' = Mine(c) /\ Count(c)' = Count(c) /\ Given(c)' = Given(c)
      /\ Outputs(c)' = Outputs(c) /\ \A p \in Ports : Has(c, p)' <=> Has(c, p)
      /\ arity'[c] = arity[c] /\ into'[c] = into[c] /\ held'[c] = held[c]
  BY DEF Unpin, callVars, Mine, Count, Given, Inputs, Outputs, Has
<1>3. TypeOK'
  BY <1>1, PortsOf DEF Unpin, TypeOK, At, Goto, callVars, Steps, BridgeSteps
<1>4. Others(c) /\ OtherSlices(c) /\ Handover(c)
  <2>1. OtherSlices(c) /\ Handover(c)
    BY DEF Unpin, OtherSlices, Handover, callVars
  <2>2. Others(c)
    BY <1>1 DEF Unpin, TypeOK, Others, Goto, callVars
  <2> QED
    BY <2>1, <2>2
<1>5. Holding(c)' /\ Private(c)'
  BY <1>1, <1>2 DEF Unpin, TypeOK, Holding, Private, At, Goto, callVars
<1>6. Described(c)'
  BY <1>1, <1>2, PortsOf
  DEF Unpin, TypeOK, Described, DescribedSteps, BridgeSteps, At, Goto, callVars
<1>7. Owned(c)'
  BY <1>1, <1>2, PortsOf, PortNumbers, NoneIsNobody
  DEF Unpin, TypeOK, Owned, Delivered, At, Goto, callVars
<1>8. Delivered(c)'
  BY <1>1, <1>2, PortsOf, PortNumbers DEF Unpin, TypeOK, Owned, Delivered, At, Goto, callVars
<1> QED
  BY <1>3, <1>4, <1>5, <1>6, <1>7, <1>8 DEF Local, Fine

\* The next call has its session's ports; it holds nothing yet.
LEMMA StartLocal ==
  ASSUME Inv, NEW c \in Calls, Start(c)
  PROVE  Local(c)
<1>1. TypeOK /\ Holding(c) /\ Private(c) /\ Described(c) /\ Owned(c) /\ Delivered(c)
  BY DEF Inv, Fine
<1>2. /\ pc[c] = "idle" /\ pc'[c] = "get" /\ status'[c] = "ok"
      /\ held[c] = None /\ held'[c] = None /\ values[c] = {} /\ values' = values
      /\ \A p \in Ports : ~Has(c, p) /\ ~Has(c, p)'
  BY <1>1 DEF Start, TypeOK, At, Goto, Holding, Owned, Has
<1>3. TypeOK'
  BY <1>1 DEF Start, TypeOK, Goto, Steps, BridgeSteps
<1>4. Others(c) /\ OtherSlices(c) /\ Handover(c)
  <2>1. OtherSlices(c) /\ Handover(c)
    BY DEF Start, OtherSlices, Handover
  <2>2. Others(c)
    BY <1>1 DEF Start, TypeOK, Others, Goto
  <2> QED
    BY <2>1, <2>2
<1>5. Holding(c)' /\ Private(c)'
  BY <1>1, <1>2 DEF Start, Holding, Private
<1>6. Described(c)' /\ Delivered(c)'
  BY <1>2 DEF Described, DescribedSteps, BridgeSteps, Delivered
<1>7. Owned(c)'
  BY <1>1, <1>2 DEF Start, Owned
<1> QED
  BY <1>3, <1>4, <1>5, <1>6, <1>7 DEF Local, Fine

-----------------------------------------------------------------------------
(* The actions that write descriptors.                                     *)

\* Replacing one slice keeps the type and the other slices.
LEMMA OneSlice ==
  ASSUME TypeOK, NEW b \in Buffers, NEW s \in Seq(Slot), slots' = [slots EXCEPT ![b] = s]
  PROVE  /\ slots' \in [Buffers -> Seq(Slot)] /\ slots'[b] = s
         /\ \A e \in Buffers \ {b} : slots'[e] = slots[e]
  BY DEF TypeOK

\* The slice that Get takes is zeroed, whether it comes from the pool or is new.
LEMMA GetLocal ==
  ASSUME Inv, NEW c \in Calls, Get(c)
  PROVE  Local(c)
<1>1. TypeOK /\ Holding(c) /\ Private(c) /\ Described(c) /\ Owned(c) /\ Delivered(c)
  BY DEF Inv, Fine
<1>2. PICK b \in Buffers \ {held[d] : d \in Calls} :
        /\ held' = [held EXCEPT ![c] = b] /\ pool' = pool \ {b}
        /\ \/ b \in pool /\ Len(slots[b]) >= Count(c) /\ UNCHANGED slots
           \/ slots' = [slots EXCEPT ![b] = [p \in 1 .. Count(c) |-> Zero]]
  BY DEF Get
<1>3. /\ pc[c] = "get" /\ pc'[c] = "fill" /\ at'[c] = 1 /\ status'[c] = status[c]
      /\ held[c] = None /\ held'[c] = b /\ b # None /\ values[c] = {} /\ values' = values
      /\ Count(c)' = Count(c) /\ Count(c) \in Nat
  BY <1>1, <1>2, PortsOf, NoneIsNobody
  DEF Get, TypeOK, At, Goto, Move, Holding, Owned, callVars, Count
<1>4. /\ slots' \in [Buffers -> Seq(Slot)] /\ \A e \in Buffers \ {b} : slots'[e] = slots[e]
      /\ Len(slots'[b]) \in Nat /\ DOMAIN slots'[b] = 1 .. Len(slots'[b])
      /\ Count(c) <= Len(slots'[b]) /\ \A p \in DOMAIN slots'[b] : slots'[b][p] = Zero
  <2>1. CASE Len(slots[b]) >= Count(c) /\ UNCHANGED slots
    <3>1. \A d \in Calls : held[d] # b
      BY <1>2
    <3>2. \A p \in DOMAIN slots[b] : slots[b][p] = Zero
      BY <3>1 DEF Inv, Clean
    <3> QED
      BY <1>1, <1>3, <2>1, <3>2, SliceOf DEF TypeOK
  <2>2. CASE slots' = [slots EXCEPT ![b] = [p \in 1 .. Count(c) |-> Zero]]
    <3>1. PICK s : s = [p \in 1 .. Count(c) |-> Zero]
      OBVIOUS
    <3>2. s \in Seq(Slot) /\ Len(s) = Count(c)
      BY <1>3, <3>1, Rebuilt, NoneIsNobody
    <3>3. slots' = [slots EXCEPT ![b] = s]
      BY <2>2, <3>1
    <3>4. /\ slots' \in [Buffers -> Seq(Slot)] /\ slots'[b] = s
          /\ \A e \in Buffers \ {b} : slots'[e] = slots[e]
      BY <1>1, <3>2, <3>3, OneSlice
    <3> QED
      BY <1>3, <3>1, <3>2, <3>4
  <2> QED
    BY <1>2, <2>1, <2>2
<1>5. \A p \in Ports : ~Has(c, p) /\ ~Has(c, p)'
  BY <1>3, <1>4, NoneIsNobody DEF Has, Mine, Zero
<1>6. TypeOK'
  <2>1. held' \in [Calls -> Buffers \cup {None}] /\ pool' \subseteq Buffers
    BY <1>1, <1>2 DEF TypeOK
  <2>2. pc' \in [Calls -> Steps] /\ at' \in [Calls -> Nat \ {0}]
    BY <1>1 DEF Get, TypeOK, Goto, Move, Steps, BridgeSteps
  <2> QED
    BY <1>1, <1>4, <2>1, <2>2 DEF Get, TypeOK, callVars
<1>7. Others(c) /\ OtherSlices(c) /\ Handover(c)
  <2>1. OtherSlices(c) /\ Handover(c)
    BY <1>2, <1>3, <1>4 DEF OtherSlices, Handover
  <2>2. Others(c)
    BY <1>1, <1>2 DEF Get, TypeOK, Others, Goto, Move, callVars
  <2> QED
    BY <2>1, <2>2
<1>8. Holding(c)' /\ Private(c)' /\ Described(c)'
  BY <1>2, <1>3, <1>4 DEF Holding, Private, Described, DescribedSteps, BridgeSteps, Mine, Zero
<1>9. Owned(c)' /\ Delivered(c)'
  BY <1>1, <1>3, <1>5 DEF Get, Owned, Delivered
<1> QED
  BY <1>6, <1>7, <1>8, <1>9 DEF Local, Fine

\* Describing a tensor pins it and writes its own descriptor alone.
LEMMA FillLocal ==
  ASSUME Inv, NEW c \in Calls, Fill(c)
  PROVE  Local(c)
<1>1. TypeOK /\ Holding(c) /\ Private(c) /\ Described(c) /\ Owned(c) /\ Delivered(c)
  BY DEF Inv, Fine
<1>2. PICK b \in Buffers, i \in Nat \ {0} : b = held[c] /\ i = at[c]
  BY <1>1 DEF Fill, At, Holding, TypeOK
<1>3. /\ pc[c] = "fill" /\ arity' = arity /\ into' = into /\ held' = held
      /\ held[c] # None /\ values' = values /\ live' = live /\ pool' = pool /\ status' = status
      /\ Count(c)' = Count(c) /\ Given(c)' = Given(c) /\ Outputs(c)' = Outputs(c)
      /\ Mine(c) = slots[b] /\ Mine(c)' = slots'[b]
      /\ Count(c) <= Len(slots[b])
  BY <1>1, <1>2 DEF Fill, At, callVars, Holding, Count, Given, Inputs, Outputs, Mine
<1>4. CASE /\ UNCHANGED <<pinned, slots, at>>
           /\ pc'[c] \in {"unpin", "watch"} /\ pc' = [pc EXCEPT ![c] = pc'[c]]
           /\ (pc'[c] = "watch" => i \notin Given(c))
  <2>1. TypeOK'
    BY <1>1, <1>3, <1>4 DEF TypeOK, Steps
  <2>2. Others(c) /\ OtherSlices(c) /\ Handover(c)
    BY <1>1, <1>3, <1>4 DEF TypeOK, Others, OtherSlices, Handover
  <2>3. Mine(c)' = Mine(c) /\ \A p \in Ports : Has(c, p)' <=> Has(c, p)
    BY <1>3, <1>4 DEF Has, Mine
  <2>4. Holding(c)' /\ Private(c)'
    BY <1>1, <1>3, <1>4, <2>3 DEF Holding, Private
  <2>5. Described(c)'
    <3>1. CASE pc'[c] = "unpin"
      BY <3>1 DEF Described, DescribedSteps, BridgeSteps
    <3>2. CASE pc'[c] = "watch"
      <4>1. i \notin Given(c)
        BY <1>4, <3>2
      <4>2. \A p \in 1 .. Count(c) : p \in Given(c) <=> p < i
        <5>1. \A p \in 1 .. Count(c) : p < i => p \in Given(c)
          BY <1>1, <1>2, <1>3 DEF Described
        <5>2. ASSUME NEW p \in 1 .. Count(c), p \in Given(c), p >= i PROVE i \in Given(c)
          BY <1>1, <1>2, <5>2, PortsOf DEF Given, Inputs
        <5> QED
          BY <1>1, <1>2, <4>1, <5>1, <5>2, PortsOf
      <4> QED
        BY <1>1, <1>2, <1>3, <1>4, <2>3, <3>2, <4>2, PortsOf DEF Described
    <3> QED
      BY <1>4, <3>1, <3>2
  <2>6. Owned(c)' /\ Delivered(c)'
    BY <1>1, <1>3, <1>4, <2>3 DEF Owned, Delivered
  <2> QED
    BY <2>1, <2>2, <2>4, <2>5, <2>6 DEF Local, Fine
<1>5. CASE /\ i \in Given(c)
           /\ pinned' = pinned \cup {<<c, i>>}
           /\ slots' = [slots EXCEPT ![b][i] = [tensor |-> c, value |-> None]]
           /\ at' = [at EXCEPT ![c] = i + 1] /\ pc' = pc
  <2>1. i \in 1 .. Len(slots[b]) /\ i \in 1 .. Count(c) /\ i \in Ports
    BY <1>1, <1>3, <1>5, PortsOf, SliceOf
  <2>2. [tensor |-> c, value |-> None] \in Slot
    BY DEF Slot
  <2>3. /\ slots' \in [Buffers -> Seq(Slot)] /\ \A e \in Buffers \ {b} : slots'[e] = slots[e]
        /\ Len(slots'[b]) = Len(slots[b]) /\ DOMAIN slots'[b] = DOMAIN slots[b]
        /\ \A p \in DOMAIN slots[b] :
             slots'[b][p] = IF p = i THEN [tensor |-> c, value |-> None] ELSE slots[b][p]
    <3>1. slots[b] \in Seq(Slot) /\ DOMAIN slots[b] = 1 .. Len(slots[b])
      BY <1>1, SliceOf
    <3>2. PICK s \in Seq(Slot) : s = [slots[b] EXCEPT ![i] = [tensor |-> c, value |-> None]]
      <4>1. [slots[b] EXCEPT ![i] = [tensor |-> c, value |-> None]] \in Seq(Slot)
        BY <2>1, <2>2, <3>1, ExceptSeq
      <4> QED
        BY <4>1
    <3>3. Len(s) = Len(slots[b]) /\ \A p \in 1 .. Len(slots[b]) :
            s[p] = IF p = i THEN [tensor |-> c, value |-> None] ELSE slots[b][p]
      BY <2>1, <2>2, <3>1, <3>2, ExceptSeq
    <3>4. slots' = [slots EXCEPT ![b] = s]
      BY <1>5, <3>2
    <3>5. DOMAIN s = DOMAIN slots[b]
      BY <3>2
    <3> QED
      BY <1>1, <3>1, <3>3, <3>4, <3>5, OneSlice
  <2>4. \A p \in Ports : ~Has(c, p) /\ ~Has(c, p)'
    <3>1. \A p \in Ports : ~Has(c, p)
      BY <1>1, <1>3 DEF Owned
    <3> QED
      BY <1>3, <2>3, <3>1, NoneIsNobody DEF Has
  <2>5. TypeOK'
    BY <1>1, <1>3, <1>5, <2>1, <2>3 DEF TypeOK
  <2>6. OtherSlices(c) /\ Handover(c)
    BY <1>2, <1>3, <2>3 DEF OtherSlices, Handover
  <2>7. Others(c)
    BY <1>1, <1>3, <1>5 DEF Others, TypeOK
  <2>8. Holding(c)' /\ Private(c)'
    BY <1>1, <1>3, <1>5, <2>1, <2>3, PortsOf, SliceOf DEF Holding, Private
  <2>9. Described(c)'
    <3>1. at'[c] = i + 1 /\ pc'[c] = "fill"
      BY <1>1, <1>3, <1>5 DEF TypeOK
    <3>2. 1 .. Count(c) \subseteq DOMAIN slots[b] /\ 1 .. Count(c) \subseteq Nat
      BY <1>1, <1>3, PortsOf, SliceOf
    <3>3. ASSUME NEW p \in 1 .. Count(c), p < i + 1
          PROVE  p \in Given(c) /\ slots'[b][p].tensor = c /\ <<c, p>> \in pinned'
      BY <1>1, <1>2, <1>3, <1>5, <2>3, <3>2, <3>3 DEF Described
    <3>4. ASSUME NEW p \in 1 .. Count(c), p >= i + 1
          PROVE  slots'[b][p].tensor = None
      <4>1. p >= i /\ p # i
        BY <1>2, <3>2, <3>4
      <4>2. slots[b][p].tensor = None
        BY <1>1, <1>2, <1>3, <4>1 DEF Described
      <4> QED
        BY <2>3, <3>2, <4>1, <4>2
    <3> QED
      BY <1>3, <3>1, <3>3, <3>4 DEF Described, DescribedSteps, BridgeSteps
  <2>10. Owned(c)' /\ Delivered(c)'
    <3>1. values[c] = {} /\ pc'[c] = "fill"
      BY <1>1, <1>3, <1>5 DEF Owned
    <3> QED
      BY <1>1, <1>3, <2>4, <3>1 DEF Owned, Delivered
  <2> QED
    BY <2>5, <2>6, <2>7, <2>8, <2>9, <2>10 DEF Local, Fine
<1> QED
  BY <1>1, <1>2, <1>3, <1>4, <1>5 DEF Fill, Goto, Move, TypeOK

\* A delivered value leaves the array for its descriptor.
LEMMA DeliverLocal ==
  ASSUME Inv, NEW c \in Calls, Deliver(c)
  PROVE  Local(c)
<1>1. TypeOK /\ Holding(c) /\ Private(c) /\ Described(c) /\ Owned(c) /\ Delivered(c)
  BY DEF Inv, Fine
<1>2. PICK b \in Buffers, i \in Nat \ {0} : b = held[c] /\ i = at[c]
  BY <1>1 DEF Deliver, At, Holding, TypeOK
<1>3. /\ pc[c] = "deliver" /\ arity' = arity /\ into' = into /\ held' = held
      /\ held[c] # None /\ pinned' = pinned /\ live' = live /\ pool' = pool
      /\ status[c] = "ok" /\ ~into[c] /\ pc'[c] \in {"deliver", "cleanup"}
      /\ Count(c)' = Count(c) /\ Given(c)' = Given(c) /\ Outputs(c)' = Outputs(c)
      /\ Mine(c) = slots[b] /\ Mine(c)' = slots'[b]
      /\ Count(c) <= Len(slots[b]) /\ 1 .. Count(c) \subseteq DOMAIN slots[b]
  <2>1. /\ pc[c] = "deliver" /\ arity' = arity /\ into' = into /\ held' = held
        /\ pinned' = pinned /\ live' = live /\ pool' = pool
        /\ status[c] = "ok" /\ ~into[c] /\ pc'[c] \in {"deliver", "cleanup"}
    BY <1>1 DEF Deliver, At, Goto, TypeOK, Delivered
  <2>2. held[c] # None /\ Count(c) <= Len(slots[b])
    BY <1>1, <1>2, <2>1 DEF Holding, Mine
  <2> QED
    BY <1>1, <1>2, <2>1, <2>2, PortsOf, SliceOf DEF Count, Given, Inputs, Outputs, Mine
<1>4. CASE /\ i \notin Outputs(c) /\ UNCHANGED <<slots, values, at, status>>
           /\ pc' = [pc EXCEPT ![c] = "cleanup"]
  <2>1. TypeOK'
    BY <1>1, <1>3, <1>4 DEF TypeOK, Steps, BridgeSteps
  <2>2. Others(c) /\ OtherSlices(c) /\ Handover(c)
    BY <1>1, <1>3, <1>4 DEF TypeOK, Others, OtherSlices, Handover
  <2>3. pc'[c] = "cleanup" /\ Mine(c)' = Mine(c) /\ \A p \in Ports : Has(c, p)' <=> Has(c, p)
    BY <1>1, <1>3, <1>4 DEF Has, Mine, TypeOK
  <2>4. Holding(c)' /\ Private(c)' /\ Described(c)'
    BY <1>1, <1>3, <1>4, <2>3 DEF Holding, Private, Described, DescribedSteps, BridgeSteps
  <2>5. Owned(c)'
    BY <1>1, <1>3, <1>4, <2>3 DEF Owned
  <2>6. Delivered(c)'
    <3>1. ASSUME NEW p \in Outputs(c) PROVE Has(c, p)
      <4>1. p < i
        BY <1>1, <1>2, <1>3, <1>4, PortsOf DEF Delivered, Outputs
      <4> QED
        BY <1>1, <1>2, <1>3, <4>1 DEF Delivered
    <3> QED
      BY <1>1, <1>3, <2>3, <3>1, PortsOf DEF Delivered
  <2> QED
    BY <2>1, <2>2, <2>4, <2>5, <2>6 DEF Local, Fine
<1>5. CASE /\ i \in Outputs(c)
           /\ slots' = [slots EXCEPT ![b][i].value = c]
           /\ values' = [values EXCEPT ![c] = @ \ {i}]
           /\ at' = [at EXCEPT ![c] = i + 1]
           /\ \/ pc' = pc /\ status' = status
              \/ pc' = [pc EXCEPT ![c] = "cleanup"] /\ status' = [status EXCEPT ![c] = "failed"]
  <2>1. i \in 1 .. Len(slots[b]) /\ i \in 1 .. Count(c) /\ i \in Ports /\ i \in values[c]
    <3>1. i \in values[c]
      BY <1>1, <1>2, <1>3, <1>5 DEF Delivered
    <3> QED
      BY <1>1, <1>3, <1>5, <3>1, PortsOf, SliceOf
  <2>2. slots[b][i] \in Slot /\ [slots[b][i] EXCEPT !.value = c] \in Slot
    BY <1>1, <2>1, SliceOf DEF Slot
  <2>3. /\ slots' \in [Buffers -> Seq(Slot)] /\ \A e \in Buffers \ {b} : slots'[e] = slots[e]
        /\ Len(slots'[b]) = Len(slots[b]) /\ DOMAIN slots'[b] = DOMAIN slots[b]
        /\ slots'[b][i].tensor = slots[b][i].tensor /\ slots'[b][i].value = c
        /\ \A p \in DOMAIN slots[b] \ {i} : slots'[b][p] = slots[b][p]
    <3>1. slots[b] \in Seq(Slot) /\ DOMAIN slots[b] = 1 .. Len(slots[b])
      BY <1>1, SliceOf
    <3>2. PICK e \in Slot : e = [slots[b][i] EXCEPT !.value = c]
      BY <2>2
    <3>3. PICK s \in Seq(Slot) : s = [slots[b] EXCEPT ![i] = e]
      <4>1. [slots[b] EXCEPT ![i] = e] \in Seq(Slot)
        BY <2>1, <3>1, ExceptSeq
      <4> QED
        BY <4>1
    <3>4. Len(s) = Len(slots[b]) /\ \A p \in 1 .. Len(slots[b]) :
            s[p] = IF p = i THEN e ELSE slots[b][p]
      BY <2>1, <3>1, <3>3, ExceptSeq
    <3>5. slots' = [slots EXCEPT ![b] = s]
      BY <1>1, <1>5, <2>1, <3>2, <3>3
    <3>6. DOMAIN s = DOMAIN slots[b] /\ e.tensor = slots[b][i].tensor /\ e.value = c
      BY <2>2, <3>2, <3>3 DEF Slot
    <3> QED
      BY <1>1, <2>1, <3>1, <3>4, <3>5, <3>6, OneSlice
  <2>4. \A p \in Ports : Has(c, p)' <=> p = i \/ Has(c, p)
    BY <1>3, <2>1, <2>3, SliceOf, <1>1 DEF Has
  <2>5. values'[c] = values[c] \ {i} /\ at'[c] = i + 1
    BY <1>1, <1>5 DEF TypeOK
  <2>6. TypeOK'
    <3>1. pc' \in [Calls -> Steps] /\ status' \in [Calls -> {"ok", "failed"}]
      BY <1>1, <1>5 DEF TypeOK, Steps, BridgeSteps
    <3>2. values' \in [Calls -> SUBSET Ports] /\ at' \in [Calls -> Nat \ {0}]
      BY <1>1, <1>5 DEF TypeOK
    <3> QED
      BY <1>1, <1>3, <2>3, <3>1, <3>2 DEF TypeOK
  <2>7. OtherSlices(c) /\ Handover(c)
    BY <1>2, <1>3, <2>3 DEF OtherSlices, Handover
  <2>8. Others(c)
    BY <1>1, <1>3, <1>5 DEF Others, TypeOK
  <2>9. Holding(c)'
    BY <1>1, <1>3, <2>3 DEF Holding
  <2>10. Private(c)'
    <3>1. ASSUME NEW p \in DOMAIN slots[b]
          PROVE  /\ slots'[b][p].tensor \in {c, None} /\ slots'[b][p].value \in {c, None}
                 /\ p > Count(c) => slots'[b][p] = Zero
      <4>1. CASE p = i
        BY <1>1, <1>3, <2>1, <2>3, <4>1, PortsOf DEF Private
      <4>2. CASE p # i
        BY <1>1, <1>3, <2>3, <4>2 DEF Private
      <4> QED
        BY <4>1, <4>2
    <3> QED
      BY <1>3, <2>3, <3>1 DEF Private
  <2>11. Described(c)'
    <3>1. \A p \in 1 .. Count(c) : slots'[b][p].tensor = slots[b][p].tensor
      BY <1>3, <2>3
    <3> QED
      BY <1>1, <1>3, <3>1 DEF Described, DescribedSteps, BridgeSteps
  <2>12. Owned(c)'
    <3>1. ASSUME NEW p \in values'[c] PROVE p \in values[c] /\ p # i /\ p \in DOMAIN slots[b]
      BY <1>1, <1>3, <2>5, <3>1 DEF Owned
    <3>2. ASSUME NEW p \in values'[c]
          PROVE  p \in 1 .. Count(c) /\ slots'[b][p].value = None
      BY <1>1, <1>3, <2>3, <3>1, <3>2 DEF Owned
    <3>3. ASSUME NEW p \in Ports
          PROVE  <<c, p>> \in live' <=> p \in values'[c] \/ Has(c, p)'
      BY <1>1, <1>3, <2>1, <2>4, <2>5 DEF Owned
    <3>4. ASSUME NEW p \in Ports, Has(c, p)' PROVE p \in Outputs(c)
      BY <1>1, <1>5, <2>4, <3>4 DEF Owned
    <3> QED
      BY <1>3, <3>2, <3>3, <3>4 DEF Owned
  <2>13. Delivered(c)'
    <3>1. CASE pc' = pc /\ status' = status
      <4>1. i + 1 > arity'[c][1]
        BY <1>1, <1>2, <1>3, PortsOf DEF Delivered
      <4>2. ASSUME NEW p \in Outputs(c), p < i + 1 PROVE Has(c, p)'
        BY <1>1, <1>2, <1>3, <2>4, <4>2, PortsOf DEF Delivered
      <4>3. ASSUME NEW p \in Outputs(c), ~(p < i + 1) PROVE p \in values'[c]
        <5>1. ~(p < i) /\ p # i
          BY <1>1, <1>2, <4>3, PortsOf
        <5> QED
          BY <1>1, <1>2, <1>3, <2>5, <5>1 DEF Delivered
      <4> QED
        BY <1>3, <2>5, <3>1, <4>1, <4>2, <4>3 DEF Delivered
    <3>2. CASE pc' = [pc EXCEPT ![c] = "cleanup"] /\ status' = [status EXCEPT ![c] = "failed"]
      BY <1>1, <3>2 DEF Delivered, TypeOK
    <3> QED
      BY <1>5, <3>1, <3>2
  <2> QED
    BY <2>6, <2>7, <2>8, <2>9, <2>10, <2>11, <2>12, <2>13 DEF Local, Fine
<1> QED
  BY <1>2, <1>4, <1>5 DEF Deliver, Goto, Move, Fail

\* Freeing the outputs releases all that the call still has, and only that.
LEMMA Freed ==
  ASSUME Inv, NEW c \in Calls, NEW b \in Buffers, b = held[c], values[c] = {}, FreeOutputs(c)
  PROVE  /\ slots' \in [Buffers -> Seq(Slot)] /\ \A e \in Buffers \ {b} : slots'[e] = slots[e]
         /\ Len(slots'[b]) = Len(slots[b]) /\ DOMAIN slots'[b] = DOMAIN slots[b]
         /\ \A p \in DOMAIN slots[b] :
              slots'[b][p] = IF p \in Outputs(c) THEN Zero ELSE slots[b][p]
         /\ live' \subseteq live
         /\ \A p \in Ports : <<c, p>> \notin live'
         /\ \A d \in Calls \ {c}, p \in Ports : <<d, p>> \in live' <=> <<d, p>> \in live
<1>1. TypeOK /\ Holding(c) /\ Private(c) /\ Owned(c) /\ b # None
  BY NoneIsNobody DEF Inv, Fine
<1>2. /\ slots[b] \in Seq(Slot) /\ DOMAIN slots[b] = 1 .. Len(slots[b]) /\ Len(slots[b]) \in Nat
      /\ \A p \in DOMAIN slots[b] : slots[b][p] \in Slot
  BY <1>1, SliceOf
<1>3. Outputs(c) \subseteq DOMAIN slots[b] /\ Outputs(c) \subseteq Ports
  BY <1>1, <1>2, PortsOf DEF Holding, Mine
<1>4. PICK s : s = [p \in 1 .. Len(slots[b]) |-> IF p \in Outputs(c) THEN Zero ELSE slots[b][p]]
  OBVIOUS
<1>5. s \in Seq(Slot) /\ Len(s) = Len(slots[b])
  <2>1. \A p \in 1 .. Len(slots[b]) : s[p] \in Slot
    BY <1>2, <1>4, NoneIsNobody
  <2>2. DOMAIN s = 1 .. Len(slots[b]) /\ s = [p \in 1 .. Len(slots[b]) |-> s[p]]
    BY <1>4
  <2> QED
    BY <1>2, <2>1, <2>2, Rebuilt
<1>6. slots' = [slots EXCEPT ![b] = s]
  BY <1>1, <1>2, <1>4 DEF FreeOutputs, Zeroed, TypeOK
<1>7. /\ slots' \in [Buffers -> Seq(Slot)] /\ slots'[b] = s
      /\ \A e \in Buffers \ {b} : slots'[e] = slots[e]
  BY <1>1, <1>5, <1>6, OneSlice
<1>8. live' = live \ {<<slots[b][p].value, p>> : p \in Outputs(c)}
  BY DEF FreeOutputs
<1>9. \A p \in Ports : <<c, p>> \notin live'
  <2>1. SUFFICES ASSUME NEW p \in Ports, <<c, p>> \in live PROVE <<c, p>> \notin live'
    BY <1>8
  <2>2. Has(c, p)
    BY <1>1, <2>1 DEF Owned
  <2>3. p \in Outputs(c) /\ slots[b][p].value = c
    BY <1>1, <2>1, <2>2 DEF Owned, Has, Mine
  <2> QED
    BY <1>8, <2>3
<1>10. \A d \in Calls \ {c}, p \in Ports : <<d, p>> \in live' <=> <<d, p>> \in live
  <2>1. \A p \in Outputs(c) : slots[b][p].value \in {c, None}
    BY <1>1, <1>3 DEF Private, Mine
  <2> QED
    BY <1>8, <2>1, NoneIsNobody
<1> QED
  BY <1>2, <1>4, <1>5, <1>7, <1>8, <1>9, <1>10

\* The bridge frees the outputs of a failed run.
LEMMA DiscardLocal ==
  ASSUME Inv, NEW c \in Calls, Discard(c)
  PROVE  Local(c)
<1>1. TypeOK /\ Holding(c) /\ Private(c) /\ Described(c) /\ Owned(c) /\ Delivered(c)
  BY DEF Inv, Fine
<1>2. PICK b \in Buffers : b = held[c]
  BY <1>1 DEF Discard, At, Holding, TypeOK
<1>3. /\ pc[c] = "discard" /\ pc'[c] = "return" /\ pc' = [pc EXCEPT ![c] = "return"]
      /\ arity' = arity /\ into' = into /\ held' = held /\ status' = status /\ at' = at
      /\ pinned' = pinned /\ values' = values /\ pool' = pool /\ FreeOutputs(c)
      /\ values[c] = {} /\ ~into[c] /\ held[c] # None
      /\ Count(c)' = Count(c) /\ Given(c)' = Given(c) /\ Outputs(c)' = Outputs(c)
      /\ Mine(c) = slots[b] /\ Mine(c)' = slots'[b]
      /\ Count(c) <= Len(slots[b]) /\ 1 .. Count(c) \subseteq DOMAIN slots[b]
  <2>1. /\ pc[c] = "discard" /\ pc'[c] = "return" /\ pc' = [pc EXCEPT ![c] = "return"]
        /\ arity' = arity /\ into' = into /\ held' = held /\ status' = status /\ at' = at
        /\ pinned' = pinned /\ values' = values /\ pool' = pool /\ FreeOutputs(c)
    BY <1>1 DEF Discard, At, Goto, TypeOK, callVars
  <2>2. values[c] = {} /\ ~into[c] /\ held[c] # None /\ Count(c) <= Len(slots[b])
    BY <1>1, <1>2, <2>1 DEF Owned, Delivered, Holding, Mine
  <2> QED
    BY <1>1, <1>2, <2>1, <2>2, PortsOf, SliceOf DEF Count, Given, Inputs, Outputs, Mine
<1>4. /\ slots' \in [Buffers -> Seq(Slot)] /\ \A e \in Buffers \ {b} : slots'[e] = slots[e]
      /\ Len(slots'[b]) = Len(slots[b]) /\ DOMAIN slots'[b] = DOMAIN slots[b]
      /\ \A p \in DOMAIN slots[b] :
           slots'[b][p] = IF p \in Outputs(c) THEN Zero ELSE slots[b][p]
      /\ live' \subseteq live /\ \A p \in Ports : <<c, p>> \notin live'
      /\ \A d \in Calls \ {c}, p \in Ports : <<d, p>> \in live' <=> <<d, p>> \in live
  BY <1>2, <1>3, Freed
<1>5. \A p \in Ports : ~Has(c, p)'
  BY <1>1, <1>2, <1>3, <1>4, NoneIsNobody DEF Has, Owned, Zero
<1>6. TypeOK'
  BY <1>1, <1>3, <1>4 DEF TypeOK, Steps, BridgeSteps
<1>7. Others(c) /\ OtherSlices(c) /\ Handover(c)
  <2>1. OtherSlices(c) /\ Handover(c)
    BY <1>2, <1>3, <1>4 DEF OtherSlices, Handover
  <2>2. Others(c)
    BY <1>1, <1>3, <1>4 DEF Others, TypeOK
  <2> QED
    BY <2>1, <2>2
<1>8. Holding(c)' /\ Private(c)'
  BY <1>1, <1>3, <1>4 DEF Holding, Private, Zero
<1>9. Described(c)'
  <2>1. \A p \in 1 .. Count(c) : p \in Given(c) => p \notin Outputs(c)
    BY <1>1, <1>3, PortsOf DEF Given, Inputs, Outputs
  <2>2. \A p \in 1 .. Count(c) : /\ p \in Given(c) => Mine(c)[p].tensor = c /\ <<c, p>> \in pinned
                                 /\ p \notin Given(c) => Mine(c)[p].tensor = None
    BY <1>1, <1>3 DEF Described, DescribedSteps, BridgeSteps
  <2>3. \A p \in 1 .. Count(c) : p \in Given(c) => Mine(c)'[p] = Mine(c)[p]
    BY <1>3, <1>4, <2>1
  <2>4. \A p \in 1 .. Count(c) : p \notin Given(c) => Mine(c)'[p].tensor = None
    <3>1. TAKE p \in 1 .. Count(c)
    <3>2. p \in DOMAIN slots[b]
      BY <1>3
    <3>3. Mine(c)'[p] = IF p \in Outputs(c) THEN Zero ELSE Mine(c)[p]
      BY <1>3, <1>4, <3>2
    <3>4. Zero.tensor = None
      BY DEF Zero
    <3> QED
      BY <2>2, <3>3, <3>4
  <2> QED
    BY <1>3, <2>2, <2>3, <2>4 DEF Described
<1>10. Owned(c)' /\ Delivered(c)'
  <2>1. \A p \in Outputs(c) : ~Has(c, p)'
    BY <1>1, <1>5, PortsOf
  <2> QED
    BY <1>1, <1>3, <1>4, <1>5, <2>1 DEF Owned, Delivered
<1> QED
  BY <1>6, <1>7, <1>8, <1>9, <1>10 DEF Local, Fine

\* Go frees the outputs, again if the run failed.
LEMMA OutputsFreeLocal ==
  ASSUME Inv, NEW c \in Calls, OutputsFree(c)
  PROVE  Local(c)
<1>1. TypeOK /\ Holding(c) /\ Private(c) /\ Described(c) /\ Owned(c) /\ Delivered(c)
  BY DEF Inv, Fine
<1>2. PICK b \in Buffers : b = held[c]
  BY <1>1 DEF OutputsFree, At, Holding, TypeOK
<1>3. /\ pc[c] = "outputs" /\ pc'[c] = "unpin" /\ pc' = [pc EXCEPT ![c] = "unpin"]
      /\ arity' = arity /\ into' = into /\ held' = held /\ status' = status /\ at' = at
      /\ pinned' = pinned /\ values' = values /\ pool' = pool /\ FreeOutputs(c)
      /\ values[c] = {} /\ ~into[c] /\ held[c] # None
      /\ Count(c)' = Count(c) /\ Given(c)' = Given(c) /\ Outputs(c)' = Outputs(c)
      /\ Mine(c) = slots[b] /\ Mine(c)' = slots'[b]
      /\ Count(c) <= Len(slots[b]) /\ 1 .. Count(c) \subseteq DOMAIN slots[b]
  <2>1. /\ pc[c] = "outputs" /\ pc'[c] = "unpin" /\ pc' = [pc EXCEPT ![c] = "unpin"]
        /\ arity' = arity /\ into' = into /\ held' = held /\ status' = status /\ at' = at
        /\ pinned' = pinned /\ values' = values /\ pool' = pool /\ FreeOutputs(c)
    BY <1>1 DEF OutputsFree, At, Goto, TypeOK, callVars
  <2>2. values[c] = {} /\ ~into[c] /\ held[c] # None /\ Count(c) <= Len(slots[b])
    BY <1>1, <1>2, <2>1 DEF Owned, Delivered, Holding, Mine
  <2> QED
    BY <1>1, <1>2, <2>1, <2>2, PortsOf, SliceOf DEF Count, Given, Inputs, Outputs, Mine
<1>4. /\ slots' \in [Buffers -> Seq(Slot)] /\ \A e \in Buffers \ {b} : slots'[e] = slots[e]
      /\ Len(slots'[b]) = Len(slots[b]) /\ DOMAIN slots'[b] = DOMAIN slots[b]
      /\ \A p \in DOMAIN slots[b] :
           slots'[b][p] = IF p \in Outputs(c) THEN Zero ELSE slots[b][p]
      /\ live' \subseteq live /\ \A p \in Ports : <<c, p>> \notin live'
      /\ \A d \in Calls \ {c}, p \in Ports : <<d, p>> \in live' <=> <<d, p>> \in live
  BY <1>2, <1>3, Freed
<1>5. \A p \in Ports : ~Has(c, p)'
  BY <1>1, <1>2, <1>3, <1>4, NoneIsNobody DEF Has, Owned, Zero
<1>6. TypeOK'
  BY <1>1, <1>3, <1>4 DEF TypeOK, Steps, BridgeSteps
<1>7. Others(c) /\ OtherSlices(c) /\ Handover(c)
  <2>1. OtherSlices(c) /\ Handover(c)
    BY <1>2, <1>3, <1>4 DEF OtherSlices, Handover
  <2>2. Others(c)
    BY <1>1, <1>3, <1>4 DEF Others, TypeOK
  <2> QED
    BY <2>1, <2>2
<1>8. Holding(c)' /\ Private(c)'
  BY <1>1, <1>3, <1>4 DEF Holding, Private, Zero
<1>9. Described(c)'
  <2>1. \A p \in 1 .. Count(c) : p \in Given(c) => p \notin Outputs(c)
    BY <1>1, <1>3, PortsOf DEF Given, Inputs, Outputs
  <2> QED
    BY <1>1, <1>3, <1>4, <2>1 DEF Described, DescribedSteps, BridgeSteps, Zero
<1>10. Owned(c)' /\ Delivered(c)'
  <2>1. \A p \in Outputs(c) : ~Has(c, p)'
    BY <1>1, <1>5, PortsOf
  <2> QED
    BY <1>1, <1>3, <1>4, <1>5, <2>1 DEF Owned, Delivered
<1> QED
  BY <1>6, <1>7, <1>8, <1>9, <1>10 DEF Local, Fine

\* What goes back to the pool is zeroed to the end.
LEMMA ClearLocal ==
  ASSUME Inv, NEW c \in Calls, Clear(c)
  PROVE  Local(c)
<1>1. TypeOK /\ Holding(c) /\ Private(c) /\ Described(c) /\ Owned(c) /\ Delivered(c)
  BY DEF Inv, Fine
<1>2. PICK b \in Buffers : b = held[c]
  BY <1>1 DEF Clear, At, Holding, TypeOK
<1>3. /\ pc[c] = "clear" /\ pc'[c] = "idle" /\ pc' = [pc EXCEPT ![c] = "idle"]
      /\ held'[c] = None /\ held' = [held EXCEPT ![c] = None] /\ pool' = pool \cup {b}
      /\ arity' = arity /\ into' = into /\ status' = status /\ at' = at
      /\ pinned' = pinned /\ values' = values /\ live' = live
  BY <1>1, <1>2 DEF Clear, At, Goto, TypeOK, callVars
<1>4. values[c] = {} /\ \A p \in Ports : <<c, p>> \notin live
  BY <1>1, <1>3 DEF Owned
<1>5. /\ slots' \in [Buffers -> Seq(Slot)] /\ \A e \in Buffers \ {b} : slots'[e] = slots[e]
      /\ \A p \in DOMAIN slots'[b] : slots'[b][p] = Zero
  <2>1. /\ slots[b] \in Seq(Slot) /\ DOMAIN slots[b] = 1 .. Len(slots[b]) /\ Len(slots[b]) \in Nat
        /\ \A p \in DOMAIN slots[b] : slots[b][p] \in Slot
    BY <1>1, SliceOf
  <2>2. \A p \in DOMAIN slots[b] : p \notin Cleared(c) => slots[b][p] = Zero
    BY <1>1, <1>2, <2>1, PortsOf, NoneIsNobody DEF Private, Mine, Cleared
  <2>3. PICK s : s = [p \in 1 .. Len(slots[b]) |-> IF p \in Cleared(c) THEN Zero ELSE slots[b][p]]
    OBVIOUS
  <2>4. s \in Seq(Slot) /\ DOMAIN s = DOMAIN slots[b] /\ \A p \in DOMAIN s : s[p] = Zero
    <3>1. \A p \in 1 .. Len(slots[b]) : s[p] \in Slot /\ s[p] = Zero
      BY <2>1, <2>2, <2>3, NoneIsNobody
    <3> QED
      BY <2>1, <2>3, <3>1, Rebuilt
  <2>5. slots' = [slots EXCEPT ![b] = s]
    BY <1>1, <1>2, <2>1, <2>3 DEF Clear, TypeOK
  <2> QED
    BY <1>1, <2>4, <2>5, OneSlice
<1>6. TypeOK'
  BY <1>1, <1>3, <1>5 DEF TypeOK, Steps
<1>7. Others(c) /\ OtherSlices(c) /\ Handover(c)
  <2>1. OtherSlices(c) /\ Handover(c)
    BY <1>2, <1>3, <1>5 DEF OtherSlices, Handover
  <2>2. Others(c)
    BY <1>1, <1>3 DEF Others, TypeOK
  <2> QED
    BY <2>1, <2>2
<1>8. Holding(c)' /\ Private(c)'
  <2>1. None \notin pool'
    BY <1>6, NoneIsNobody DEF TypeOK
  <2> QED
    BY <1>3, <2>1 DEF Holding, Private
<1>9. Described(c)' /\ Delivered(c)'
  BY <1>3 DEF Described, Delivered, DescribedSteps, BridgeSteps
<1>10. Owned(c)'
  BY <1>3, <1>4 DEF Owned, Has
<1> QED
  BY <1>6, <1>7, <1>8, <1>9, <1>10 DEF Local, Fine

-----------------------------------------------------------------------------
(* The invariant.                                                          *)

\* Every action is local to the call that takes it.
LEMMA NextLocal ==
  ASSUME Inv, Next
  PROVE  \E c \in Calls : Local(c)
  BY StartLocal, GetLocal, FillLocal, WatchLocal, AllocLocal, WrapLocal, InferLocal,
     DeliverLocal,
     CleanupLocal, DiscardLocal, ReturnLocal, CopyLocal, OutputsFreeLocal, UnpinLocal, ClearLocal
  DEF Next

\* A call that does not move sees no change.
LEMMA Unmoved ==
  ASSUME Inv, NEW c \in Calls, Local(c), NEW d \in Calls \ {c}
  PROVE  Fine(d)'
<1>1. TypeOK /\ Holding(d) /\ Private(d) /\ Described(d) /\ Owned(d) /\ Delivered(d)
  BY DEF Inv, Fine
<1>2. /\ pc'[d] = pc[d] /\ arity'[d] = arity[d] /\ into'[d] = into[d] /\ at'[d] = at[d]
      /\ status'[d] = status[d] /\ held'[d] = held[d] /\ values'[d] = values[d]
      /\ \A p \in Ports : /\ <<d, p>> \in pinned' <=> <<d, p>> \in pinned
                          /\ <<d, p>> \in live' <=> <<d, p>> \in live
  BY DEF Local, Others
<1>3. held[d] # None => Mine(d)' = Mine(d)
  <2>1. SUFFICES ASSUME held[d] # None PROVE slots'[held[d]] = slots[held[d]]
    BY <1>2 DEF Mine
  <2>2. held[d] \in Buffers /\ held[d] # held[c] /\ held[d] # held'[c]
    BY <1>1, <2>1 DEF Inv, TypeOK, Distinct, Local, Handover
  <2> QED
    BY <2>2 DEF Local, OtherSlices
<1>4. held[d] \notin pool'
  <2>1. held[d] # None => held[d] # held[c]
    BY DEF Inv, Distinct
  <2> QED
    BY <1>1, <2>1, NoneIsNobody DEF Local, Handover, Holding
<1>5. /\ Count(d)' = Count(d) /\ Given(d)' = Given(d) /\ Outputs(d)' = Outputs(d)
      /\ \A p : Has(d, p)' <=> Has(d, p)
  BY <1>2, <1>3 DEF Count, Given, Inputs, Outputs, Has
<1>6. held[d] = None => pc[d] \in {"idle", "get"}
  BY <1>1 DEF Holding
<1>7. Holding(d)' /\ Private(d)'
  BY <1>1, <1>2, <1>3, <1>4, <1>5 DEF Holding, Private
<1>8. Described(d)'
  BY <1>1, <1>2, <1>3, <1>5, <1>6, PortsOf DEF Described, DescribedSteps, BridgeSteps
<1>9. Owned(d)' /\ Delivered(d)'
  BY <1>1, <1>2, <1>3, <1>5, <1>6 DEF Owned, Delivered
<1> QED
  BY <1>7, <1>8, <1>9 DEF Fine

\* A slice still has one user at most, and is zeroed while it has none.
LEMMA Handed ==
  ASSUME Inv, NEW c \in Calls, Local(c)
  PROVE  Distinct' /\ Clean'
<1>1. \A d \in Calls \ {c} : held'[d] = held[d]
  BY DEF Local, Others
<1>2. TypeOK /\ Distinct /\ Clean /\ held[c] \in Buffers \cup {None}
  BY DEF Inv, TypeOK
<1>3. Distinct'
  BY <1>1, <1>2 DEF Distinct, Local, Handover
<1>4. ASSUME NEW b \in Buffers, \A d \in Calls : held'[d] # b, NEW p \in DOMAIN slots'[b]
      PROVE  slots'[b][p] = Zero
  <2>1. CASE held[c] = b
    BY <1>4, <2>1, NoneIsNobody DEF Local, Handover
  <2>2. CASE held[c] # b
    <3>1. \A d \in Calls : held[d] # b
      BY <1>1, <1>4, <2>2
    <3>2. slots'[b] = slots[b]
      BY <1>4, <2>2 DEF Local, OtherSlices
    <3> QED
      BY <1>2, <1>4, <3>1, <3>2 DEF Clean
  <2> QED
    BY <2>1, <2>2
<1> QED
  BY <1>3, <1>4 DEF Clean

\* At first nobody holds anything and no slice exists.
LEMMA InitInv == Init => Inv
<1> SUFFICES ASSUME Init PROVE Inv
  OBVIOUS
<1>1. TypeOK
  <2>1. <<>> \in Seq(Slot)
    BY EmptySeq
  <2> QED
    BY <2>1 DEF Init, TypeOK, Steps
<1>2. Distinct /\ Clean
  BY DEF Init, Distinct, Clean
<1>3. ASSUME NEW c \in Calls PROVE Fine(c)
  BY
  DEF Init, Fine, Holding, Private, Described, DescribedSteps, BridgeSteps, Owned, Has,
      Delivered
<1> QED
  BY <1>1, <1>2, <1>3 DEF Inv

\* Every step preserves the invariant.
LEMMA NextInv == Inv /\ [Next]_vars => Inv'
<1> SUFFICES ASSUME Inv, [Next]_vars PROVE Inv'
  OBVIOUS
<1>1. CASE Next
  <2>1. PICK c \in Calls : Local(c)
    BY <1>1, NextLocal
  <2>2. TypeOK' /\ Fine(c)'
    BY <2>1 DEF Local
  <2>3. \A d \in Calls \ {c} : Fine(d)'
    BY <2>1, Unmoved
  <2>4. Distinct' /\ Clean'
    BY <2>1, Handed
  <2>5. \A d \in Calls : Fine(d)'
    BY <2>2, <2>3
  <2> QED
    BY <2>2, <2>4, <2>5 DEF Inv
<1>2. CASE UNCHANGED vars
  BY <1>2
  DEF vars, callVars, Inv, TypeOK, Distinct, Clean, Fine, Holding, Private, Described, Owned,
              Delivered, Has, Mine, Count, Given, Inputs, Outputs
<1> QED
  BY <1>1, <1>2

\* The invariant holds in every reachable state.
THEOREM Invariance == Spec => []Inv
<1> QED
  BY InitInv, NextInv, PTL DEF Spec

-----------------------------------------------------------------------------
(* The theorems.                                                           *)

\* Every variable keeps its type; a slice is always a sequence of descriptors.
THEOREM TypeCorrect == Spec => []TypeOK
  BY Invariance, PTL DEF Inv

\* A descriptor with the value of a call is in the slice of that call.
LEMMA SliceOfOwner ==
  ASSUME Inv, NEW c \in Calls, NEW p \in Ports, NEW b \in Buffers,
         p \in DOMAIN slots[b], slots[b][p].value = c
  PROVE  b = held[c] /\ Has(c, p)
<1>1. slots[b][p] # Zero
  BY NoneIsNobody DEF Zero
<1>2. PICK d \in Calls : held[d] = b
  BY <1>1 DEF Inv, Clean
<1>3. b # None /\ slots[b][p].value \in {d, None}
  BY <1>2, NoneIsNobody DEF Inv, Fine, Private, Mine
<1>4. d = c
  BY <1>3, NoneIsNobody
<1> QED
  BY <1>2, <1>3, <1>4 DEF Has, Mine

\* The array of a call and its descriptors: of the two owners a value can have, a
\* live one has exactly one and a released one has none.
LEMMA OwnersOf ==
  ASSUME Inv, NEW c \in Calls, NEW p \in Ports
  PROVE  /\ <<c, p>> \in live => \E o \in Owners(<<c, p>>) : Owners(<<c, p>>) = {o}
         /\ <<c, p>> \notin live => Owners(<<c, p>>) = {}
<1>1. TypeOK /\ Owned(c)
  BY DEF Inv, Fine
<1>2. PICK holders : holders = {b \in Buffers : p \in DOMAIN slots[b] /\ slots[b][p].value = c}
  OBVIOUS
<1>3. Owners(<<c, p>>) = {d \in Calls : d = c /\ p \in values[c]} \cup holders
  BY <1>2 DEF Owners
<1>4. \A b \in holders : b = held[c] /\ Has(c, p)
  BY <1>2, SliceOfOwner
<1>5. Has(c, p) => held[c] \in holders
  BY <1>1, <1>2 DEF Has, Mine, TypeOK
<1>6. ~(p \in values[c] /\ Has(c, p))
  BY <1>1, NoneIsNobody DEF Owned, Has
<1>7. <<c, p>> \in live <=> p \in values[c] \/ Has(c, p)
  BY <1>1 DEF Owned
<1>8. CASE p \in values[c]
  <2>1. Owners(<<c, p>>) = {c}
    BY <1>3, <1>4, <1>6, <1>8
  <2> QED
    BY <1>7, <1>8, <2>1
<1>9. CASE Has(c, p)
  <2>1. Owners(<<c, p>>) = {held[c]}
    BY <1>3, <1>4, <1>5, <1>6, <1>9
  <2> QED
    BY <1>7, <1>9, <2>1
<1>10. CASE p \notin values[c] /\ ~Has(c, p)
  <2>1. Owners(<<c, p>>) = {}
    BY <1>3, <1>4, <1>10
  <2> QED
    BY <1>7, <1>10, <2>1
<1> QED
  BY <1>8, <1>9, <1>10

\* run and oc_outputs_free lose no OrtValue and release none twice, for any
\* numbers of ports and a failure at any native call.
THEOREM ReleasesOnce == Spec => []ReleasedOnce
<1>1. ASSUME Inv PROVE ReleasedOnce
  <2>1. ASSUME NEW v \in Calls \X Ports
        PROVE  /\ v \in live => \E o \in Owners(v) : Owners(v) = {o}
               /\ v \notin live => Owners(v) = {}
    <3>1. PICK c \in Calls, p \in Ports : v = <<c, p>>
      OBVIOUS
    <3> QED
      BY <1>1, <3>1, OwnersOf
  <2> QED
    BY <2>1 DEF ReleasedOnce
<1> QED
  BY <1>1, Invariance, PTL

\* What the bridge reads describes pinned tensors of the call that made it.
THEOREM OwnDescriptors == Spec => []DescriptorsOwn
<1>1. ASSUME Inv, NEW c \in Calls, pc[c] \in BridgeSteps \cup {"return", "copy", "outputs"}
      PROVE  /\ \A p \in Given(c) : slots[held[c]][p].tensor = c /\ <<c, p>> \in pinned
             /\ \A p \in (1 .. Count(c)) \ Given(c) : slots[held[c]][p].tensor = None
  BY <1>1, PortsOf DEF Inv, Fine, Described, DescribedSteps, Mine
<1>2. Inv => DescriptorsOwn
  BY <1>1 DEF DescriptorsOwn
<1> QED
  BY <1>2, Invariance, PTL

\* Nothing of an earlier inference waits in the pool for a later one, however the
\* sessions' numbers of ports differ.
THEOREM CleanPool == Spec => []PoolZeroed
<1>1. ASSUME Inv, NEW b \in pool, NEW p \in DOMAIN slots[b] PROVE slots[b][p] = Zero
  <2>1. b \in Buffers /\ \A c \in Calls : held[c] # b
    BY <1>1 DEF Inv, TypeOK, Fine, Holding
  <2> QED
    BY <1>1, <2>1 DEF Inv, Clean
<1>2. Inv => PoolZeroed
  BY <1>1 DEF PoolZeroed
<1> QED
  BY <1>2, Invariance, PTL

-----------------------------------------------------------------------------
(* Refinement: what Go relies on when it calls the bridge.                 *)

Wanted(c) == IF Phase(c) = "running" THEN Outputs(c) \ Given(c) ELSE {}
Owning(c) == IF Phase(c) = "running" THEN {} ELSE {p \in Ports : <<c, p>> \in live}
Answer(c) == IF Phase(c) = "returned" THEN status[c] ELSE "none"

Phases == [c \in Calls |-> Phase(c)]
Wants == [c \in Calls |-> Wanted(c)]
Owns == [c \in Calls |-> Owning(c)]
Answers == [c \in Calls |-> Answer(c)]

\* What a call owns is nothing, or all outputs of a good Run.
Settled(c) ==
  /\ Phase(c) # "returned" => Owning(c) = {}
  /\ Phase(c) = "returned" /\ status[c] = "failed" => Owning(c) = {}
  /\ pc[c] = "return" /\ status[c] = "ok" => Owning(c) = Outputs(c) \ Given(c)
  /\ status[c] \in {"ok", "failed"}
  /\ Wanted(c) \subseteq Ports

\* The invariant tells it at every step.
LEMMA InvSettled == Inv => \A c \in Calls : Settled(c)
<1> SUFFICES ASSUME Inv, NEW c \in Calls PROVE Settled(c)
  OBVIOUS
<1>0. status[c] \in {"ok", "failed"} /\ Wanted(c) \subseteq Ports
  BY PortsOf DEF Inv, TypeOK, Wanted
<1>1. TypeOK /\ Owned(c) /\ Delivered(c)
  BY DEF Inv, Fine
<1>2. CASE Phase(c) = "running"
  BY <1>0, <1>2 DEF Settled, Owning, Phase
<1>3. CASE Phase(c) = "idle"
  <2>1. pc[c] \in {"idle", "get", "fill", "watch", "unpin", "clear"}
    BY <1>1, <1>3 DEF Phase, TypeOK, Steps
  <2>2. \A p \in Ports : <<c, p>> \notin live
    BY <1>1, <2>1 DEF Owned
  <2> QED
    BY <1>0, <1>3, <2>1, <2>2 DEF Settled, Owning
<1>4. CASE Phase(c) = "returned"
  <2>1. pc[c] \in {"return", "copy", "outputs"}
    BY <1>1, <1>4 DEF Phase, TypeOK, Steps
  <2>2. Owning(c) = {p \in Ports : Has(c, p)}
    BY <1>1, <1>4, <2>1 DEF Owning, Owned
  <2>3. CASE status[c] = "failed"
    <3>1. \A p \in Ports : ~Has(c, p)
      BY <1>1, <2>1, <2>3 DEF Owned, Delivered
    <3> QED
      BY <1>0, <1>4, <2>2, <2>3, <3>1 DEF Settled
  <2>4. CASE status[c] = "ok" /\ into[c]
    <3>1. Outputs(c) \ Given(c) = {} /\ \A p \in Ports : ~Has(c, p)
      BY <1>1, <2>4, PortsOf DEF Given, Owned
    <3> QED
      BY <1>0, <1>4, <2>2, <2>4, <3>1 DEF Settled
  <2>5. CASE status[c] = "ok" /\ ~into[c] /\ pc[c] = "return"
    <3>1. \A p \in Ports : Has(c, p) <=> p \in Outputs(c)
      BY <1>1, <2>5 DEF Owned, Delivered
    <3>2. Outputs(c) \ Given(c) = Outputs(c) /\ Outputs(c) \subseteq Ports
      BY <1>1, <2>5, PortsOf DEF Given, Inputs, Outputs
    <3> QED
      BY <1>0, <1>4, <2>2, <2>5, <3>1, <3>2 DEF Settled
  <2> QED
    BY <1>0, <1>1, <1>4, <2>1, <2>3, <2>4, <2>5 DEF Settled, TypeOK
<1> QED
  BY <1>2, <1>3, <1>4 DEF Phase

\* And so after every step.
LEMMA InvSettledNext == Inv' => (\A c \in Calls : Settled(c))'
  BY InvSettled, PTL

\* How a step moves a call through a native run.
Keeps(c) ==
  /\ Phase(c)' = Phase(c)
  /\ Phase(c) = "running" => arity'[c] = arity[c] /\ into'[c] = into[c]
  /\ Phase(c) = "returned" => status'[c] = status[c] /\ live' = live
Enters(c) == Phase(c) = "idle" /\ Phase(c)' = "running"
Leaves(c) ==
  /\ Phase(c) = "running" /\ pc'[c] = "return"
  /\ arity'[c] = arity[c] /\ into'[c] = into[c]
Ends(c) == Phase(c) = "returned" /\ Phase(c)' = "idle"

\* Every action is one of these moves.
LEMMA Moves ==
  ASSUME Inv, Next
  PROVE  \E c \in Calls : Local(c) /\ (Keeps(c) \/ Enters(c) \/ Leaves(c) \/ Ends(c))
<1>0. TypeOK
  BY DEF Inv
<1>1. ASSUME NEW c \in Calls, Start(c) \/ Get(c) \/ Fill(c) \/ Unpin(c) \/ Clear(c) PROVE Keeps(c)
  BY <1>0, <1>1 DEF TypeOK, Start, Get, Fill, Unpin, Clear, At, Goto, Keeps, Phase, BridgeSteps
<1>2. ASSUME NEW c \in Calls, Watch(c) PROVE Keeps(c) \/ Enters(c)
  BY <1>0, <1>2 DEF TypeOK, Watch, At, Goto, Keeps, Enters, Phase, BridgeSteps
<1>3. ASSUME NEW c \in Calls, Alloc(c) PROVE Keeps(c) \/ Leaves(c)
  BY <1>0, <1>3 DEF TypeOK, Alloc, At, Goto, Keeps, Leaves, Phase, BridgeSteps
<1>4. ASSUME NEW c \in Calls, Cleanup(c) PROVE Keeps(c) \/ Leaves(c)
  BY <1>0, <1>4
  DEF TypeOK, Cleanup, AfterCleanup, At, Goto, callVars, Keeps, Leaves, Phase, BridgeSteps
<1>5. ASSUME NEW c \in Calls, Wrap(c) \/ Infer(c) \/ Deliver(c) PROVE Keeps(c)
  BY <1>0, <1>5 DEF TypeOK, Wrap, Infer, Deliver, At, Goto, Keeps, Phase, BridgeSteps
<1>6. ASSUME NEW c \in Calls, Discard(c) PROVE Leaves(c)
  BY <1>0, <1>6 DEF TypeOK, Discard, At, Goto, callVars, Leaves, Phase, BridgeSteps
<1>7. ASSUME NEW c \in Calls, Return(c) \/ Copy(c) PROVE Keeps(c) \/ Ends(c)
  BY <1>0, <1>7 DEF TypeOK, Return, Copy, At, Goto, callVars, Keeps, Ends, Phase, BridgeSteps
<1>8. ASSUME NEW c \in Calls, OutputsFree(c) PROVE Ends(c)
  BY <1>0, <1>8 DEF TypeOK, OutputsFree, At, Goto, Ends, Phase, BridgeSteps
<1> QED
  BY <1>1, <1>2, <1>3, <1>4, <1>5, <1>6, <1>7, <1>8,
     StartLocal, GetLocal, FillLocal, WatchLocal, AllocLocal, WrapLocal, InferLocal, DeliverLocal,
     CleanupLocal, DiscardLocal, ReturnLocal, CopyLocal, OutputsFreeLocal, UnpinLocal, ClearLocal
  DEF Next

\* Only the view of the call that moves changes.
LEMMA OneView ==
  ASSUME NEW c \in Calls, Local(c)
  PROVE  /\ Phases' = [Phases EXCEPT ![c] = Phase(c)']
         /\ Wants' = [Wants EXCEPT ![c] = Wanted(c)']
         /\ Owns' = [Owns EXCEPT ![c] = Owning(c)']
         /\ Answers' = [Answers EXCEPT ![c] = Answer(c)']
<1>1. ASSUME NEW d \in Calls \ {c}
      PROVE  /\ Phase(d)' = Phase(d) /\ Wanted(d)' = Wanted(d)
             /\ Owning(d)' = Owning(d) /\ Answer(d)' = Answer(d)
  <2>1. /\ pc'[d] = pc[d] /\ arity'[d] = arity[d] /\ into'[d] = into[d] /\ status'[d] = status[d]
        /\ \A p \in Ports : <<d, p>> \in live' <=> <<d, p>> \in live
    BY DEF Local, Others
  <2>2. Phase(d)' = Phase(d) /\ Outputs(d)' = Outputs(d) /\ Given(d)' = Given(d)
    BY <2>1 DEF Phase, Outputs, Given, Inputs, Count
  <2> QED
    BY <2>1, <2>2 DEF Wanted, Owning, Answer
<1> QED
  BY <1>1 DEF Phases, Wants, Owns, Answers

\* Every step is one of NativeRun, or none.
LEMMA NextContract == ASSUME Inv, Inv', [Next]_vars PROVE [Contract!Next]_(Contract!vars)
<1>0. (\A c \in Calls : Settled(c)) /\ (\A c \in Calls : Settled(c)')
  BY InvSettled, InvSettledNext
<1>1. CASE Next
  <2>1. PICK c \in Calls : Local(c) /\ (Keeps(c) \/ Enters(c) \/ Leaves(c) \/ Ends(c))
    BY <1>1, Moves
  <2>2. /\ Phases' = [Phases EXCEPT ![c] = Phase(c)'] /\ Wants' = [Wants EXCEPT ![c] = Wanted(c)']
        /\ Owns' = [Owns EXCEPT ![c] = Owning(c)'] /\ Answers' = [Answers EXCEPT ![c] = Answer(c)']
    BY <2>1, OneView
  <2>3. /\ Phases[c] = Phase(c) /\ Wants[c] = Wanted(c)
        /\ Owns[c] = Owning(c) /\ Answers[c] = Answer(c)
        /\ Phases = [Phases EXCEPT ![c] = @] /\ Wants = [Wants EXCEPT ![c] = @]
        /\ Owns = [Owns EXCEPT ![c] = @] /\ Answers = [Answers EXCEPT ![c] = @]
    BY DEF Phases, Wants, Owns, Answers
  <2>4. /\ Phase(c) # "returned" => Owning(c) = {}
        /\ Phase(c)' # "returned" => Owning(c)' = {}
    BY <1>0 DEF Settled
  <2>5. CASE Keeps(c)
    <3>1. Phase(c)' = Phase(c) /\ Answer(c)' = Answer(c)
      BY <2>5 DEF Keeps, Answer
    <3>2. Wanted(c)' = Wanted(c)
      BY <2>5 DEF Keeps, Wanted, Outputs, Given, Inputs, Count
    <3>3. Owning(c)' = Owning(c)
      BY <2>4, <2>5 DEF Keeps, Owning
    <3>4. UNCHANGED <<Phases, Wants, Owns, Answers>>
      BY <2>2, <2>3, <3>1, <3>2, <3>3
    <3> QED
      BY <3>4 DEF Contract!vars, Phases, Wants, Owns, Answers, Wanted, Owning, Answer
  <2>6. CASE Enters(c)
    <3>1. /\ Phase(c) = "idle" /\ Phase(c)' = "running"
          /\ Owning(c)' = Owning(c) /\ Answer(c)' = Answer(c)
      BY <2>4, <2>6 DEF Enters, Answer
    <3>2. Wanted(c)' \in SUBSET Ports
      <4>1. (Wanted(c) \subseteq Ports)'
        BY <1>0 DEF Settled
      <4> QED
        BY <4>1 DEF Ports
    <3>3. /\ Phases[c] = "idle" /\ Phases' = [Phases EXCEPT ![c] = "running"]
          /\ Owns' = Owns /\ Answers' = Answers
      BY <2>2, <2>3, <3>1
    <3>4. Contract!Start(c)
      BY <2>2, <3>2, <3>3
      DEF Contract!Start, Phases, Wants, Owns, Answers, Wanted, Owning, Answer
    <3> QED
      BY <3>4 DEF Contract!Next
  <2>7. CASE Leaves(c)
    <3>1. Phase(c) = "running" /\ Phase(c)' = "returned" /\ Wanted(c)' = {} /\ Answer(c)' = status'[c]
      BY <2>7 DEF Leaves, Phase, Wanted, Answer, BridgeSteps
    <3>2. Wanted(c) = Outputs(c)' \ Given(c)' /\ Owning(c) = {}
      BY <2>4, <2>7, <3>1 DEF Leaves, Wanted, Outputs, Given, Inputs, Count
    <3>3. /\ status'[c] = "ok" => Owning(c)' = Wanted(c)
          /\ status'[c] = "failed" => Owning(c)' = Owning(c)
          /\ status'[c] \in {"ok", "failed"}
      BY <1>0, <2>7, <3>1, <3>2 DEF Leaves, Settled
    <3>4. Contract!Return(c)
      <4>1. /\ Phases[c] = "running" /\ Phases' = [Phases EXCEPT ![c] = "returned"]
            /\ Wants' = [Wants EXCEPT ![c] = {}]
            /\ \/ Answers' = [Answers EXCEPT ![c] = "ok"] /\ Owns' = [Owns EXCEPT ![c] = Wants[c]]
               \/ Answers' = [Answers EXCEPT ![c] = "failed"] /\ Owns' = Owns
        BY <2>2, <2>3, <3>1, <3>3
      <4> QED
        BY <4>1 DEF Contract!Return, Phases, Wants, Owns, Answers, Wanted, Owning, Answer
    <3> QED
      BY <3>4 DEF Contract!Next
  <2>8. CASE Ends(c)
    <3>1. Phase(c) = "returned" /\ Phase(c)' = "idle" /\ Wanted(c)' = Wanted(c) /\ Owning(c)' = {}
          /\ Answer(c)' = "none"
      BY <2>4, <2>8 DEF Ends, Wanted, Answer
    <3>2. /\ Phases[c] = "returned" /\ Phases' = [Phases EXCEPT ![c] = "idle"] /\ Wants' = Wants
          /\ Owns' = [Owns EXCEPT ![c] = {}] /\ Answers' = [Answers EXCEPT ![c] = "none"]
      BY <2>2, <2>3, <3>1
    <3>3. Contract!Free(c)
      BY <3>2 DEF Contract!Free, Phases, Wants, Owns, Answers, Wanted, Owning, Answer
    <3> QED
      BY <3>3 DEF Contract!Next
  <2> QED
    BY <2>1, <2>5, <2>6, <2>7, <2>8
<1>2. CASE UNCHANGED vars
  <2>1. UNCHANGED <<Phases, Wants, Owns, Answers>>
    BY <1>2 DEF vars, callVars, Phases, Wants, Owns, Answers, Wanted, Owning, Answer, Phase,
                Outputs, Given, Inputs, Count
  <2> QED
    BY <2>1 DEF Contract!vars, Phases, Wants, Owns, Answers, Wanted, Owning, Answer
<1> QED
  BY <1>1, <1>2

\* For any calls, slices and sessions, the bridge gives what NativeRun promises: all
\* outputs after a good run, nothing after a failed one, nothing after the free.
THEOREM ContractKept == Spec => ImplementsNativeRun
<1>1. Init => Contract!Init
  BY DEF Init, Contract!Init, Phase, BridgeSteps
<1>2. Inv /\ Inv' /\ [Next]_vars => [Contract!Next]_(Contract!vars)
  BY NextContract
<1> QED
  BY <1>1, <1>2, Invariance, PTL DEF Spec, ImplementsNativeRun, Contract!Spec

=============================================================================
