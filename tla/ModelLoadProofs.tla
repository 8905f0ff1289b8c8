--------------------------- MODULE ModelLoadProofs ---------------------------
(***************************************************************************)
(* Proofs about module ModelLoad, for any sessions, numbers of ports and   *)
(* dimensions, and widths of size_t and int: what is allocated at every    *)
(* step of a load, and the refinement of LoadContract.                     *)
(***************************************************************************)
EXTENDS ModelLoad, TLAPS

\* The steps in addProvider, in the loop over the ports, and those at which the
\* load has an oc_session.
ProviderSteps == {"pairs", "provider", "update", "append", "releaseProvider", "providerFree"}
PortSteps == {"name", "info", "describe", "shape", "dimensions", "releaseInfo"}
BuildSteps == {"widen", "create", "counts", "tables", "fail", "check"} \cup PortSteps

\* When a load may have a temporary object.
Temporary(k, j) ==
  \/ k \in {"key", "value"} /\ j = 0 /\ pc \in {"entry", "entryFree"}
  \/ k \in {"key", "value"} /\ j \in 1 .. i /\ pc \in ProviderSteps
  \/ k = "options" /\ j = 0 /\ pc \notin {"idle", "options", "optionsFailed"}
  \/ k = "provider" /\ j = 0 /\ pc \in ProviderSteps
  \/ k = "providerOptions" /\ j = 0 /\ pc \in {"update", "append", "releaseProvider"}
  \/ k = "path" /\ j = 0 /\ pc \in {"alloc", "error", "finish"} \cup BuildSteps
  \/ k = "wide" /\ j = 0 /\ pc = "create"
  \/ k = "status" /\ j = 0 /\ pc \in {"optionsFailed", "entryFree", "releaseProvider",
                                      "providerFree", "fail", "error"}
  \/ k = "info" /\ j = 0 /\ pc \in {"describe", "shape", "dimensions", "releaseInfo", "fail"}

\* When a session may have a part: oc_session_free finds every name and shape
\* through the table of ports.
Part(k, s, j) ==
  /\ s \in loaded \/ (s = cur /\ pc \in BuildSteps)
  /\ k \in {"ports", "names", "name", "shape"} =>
       s \in loaded \/ pc \in PortSteps \cup {"fail", "check"}
  /\ k \in {"name", "shape"} => j \in 1 .. Total(s) /\ <<"ports", s, 0>> \in live
  /\ k \notin {"name", "shape"} => j = 0

Justified == \A k \in Kinds, s \in Sessions, j \in Index : <<k, s, j>> \in live =>
  /\ k \in LoadKinds => s = cur /\ Temporary(k, j)
  /\ k \in SessionKinds => Part(k, s, j)

\* The sum of the counts did not wrap around and the table of ports has a size.
Fits(s) == /\ Total(s) = ports[s].inputs + ports[s].outputs
           /\ 1 <= Total(s) /\ Total(s) <= SIZE_MAX \div PortSize
Sized == \A s \in Sessions : <<"ports", s, 0>> \in live => Fits(s)

\* What a session has for certain.
Complete(s) ==
  /\ {<<"session", s, 0>>, <<"handle", s, 0>>, <<"ports", s, 0>>, <<"names", s, 0>>} \subseteq live
  /\ \A p \in 1 .. Total(s) : <<"name", s, p>> \in live
Built ==
  /\ \A s \in loaded : Complete(s)
  /\ pc = "check" => Complete(cur)
  /\ pc \notin {"idle", "options", "optionsFailed"} => Obj("options") \in live
  /\ pc \in {"widen", "create", "counts", "tables"} \cup PortSteps => Obj("session") \in live
  /\ pc \in {"counts", "tables"} \cup PortSteps => Obj("handle") \in live
  /\ pc \in PortSteps => /\ Obj("ports") \in live /\ Obj("names") \in live
                         /\ \A p \in 1 .. i - 1 : <<"name", cur, p>> \in live
  /\ pc \in PortSteps \ {"name"} => <<"name", cur, i>> \in live

\* What the steps say of the other variables.
Control ==
  /\ pc = "idle" <=> cur = None
  /\ cur \in loaded => pc = "finish"
  /\ pc \in ProviderSteps => i <= MaxPairs
  /\ pc = "tables" => Fits(cur)
  /\ pc \in PortSteps => 1 <= i /\ i <= Total(cur)
  /\ pc = "dimensions" => RankValid /\ room = Wrap(rank * DimSize)
  /\ pc \in {"options", "configure"} => Acceptable(asked.threads, asked.level)

Inv == TypeOK /\ Tracked /\ Justified /\ Sized /\ Built /\ Control


\* The index 0 and the indices of ports are indices; SIZE_MAX is a number.
LEMMA Numbers ==
  /\ SIZE_MAX \in Nat /\ SIZE_MAX \div PortSize \in Nat /\ MaxPairs \in Nat
  /\ 0 \in Index /\ Index \subseteq Nat
  /\ \A p \in Nat : p <= SIZE_MAX \div PortSize \/ p <= MaxPairs => p \in Index
  BY ModelLoadAssumption DEF ModelLoadAssumption, SIZE_MAX, Index

\* Sums of sizes are sizes.
LEMMA Totals == ASSUME TypeOK, NEW s \in Sessions PROVE Total(s) \in Nat /\ Total(s) <= SIZE_MAX
  BY ModelLoadAssumption DEF ModelLoadAssumption, TypeOK, Total, Wrap, SIZE_MAX

\* A sum of two sizes that is not less than the first did not wrap around.
LEMMA NoWrap ==
  ASSUME NEW m \in 0 .. Word - 1, NEW n \in 0 .. Word - 1, ~(Wrap(m + n) < m)
  PROVE  Wrap(m + n) = m + n
<1>1. Word \in Nat \ {0}
  BY ModelLoadAssumption DEF ModelLoadAssumption
<1>2. CASE m + n < Word
  BY <1>1, <1>2 DEF Wrap
<1>3. CASE m + n >= Word
  <2>1. (m + n) % Word = m + n - Word
    BY <1>1, <1>3
  <2> QED
    BY <1>1, <2>1 DEF Wrap
<1> QED
  BY <1>1, <1>2, <1>3

\* The ports of a session with a table are indices.
LEMMA PortsIndexed ==
  ASSUME Inv, NEW s \in Sessions, <<"ports", s, 0>> \in live, NEW p \in 1 .. Total(s)
  PROVE  p \in Index
  BY Numbers, Totals DEF Inv, Sized, Fits

\* A session that loses no part stays complete.
LEMMA StillComplete ==
  ASSUME NEW s, Complete(s), ports'[s] = ports[s],
         \A k \in SessionKinds, j \in Nat : <<k, s, j>> \in live => <<k, s, j>> \in live'
  PROVE  Complete(s)'
<1>1. Total(s)' = Total(s)
  BY DEF Total
<1> QED
  BY <1>1 DEF Complete, SessionKinds

\* The options exist from here, or a status.
LEMMA OptionsNewInv ==
  ASSUME Inv, OptionsNew
  PROVE  Inv'
<1>1. TypeOK /\ Tracked /\ Justified /\ Sized /\ Built /\ Control
  BY DEF Inv
<1>2. (pc # "idle" => cur \in Sessions) /\ None \notin Sessions
  BY <1>1, ModelLoadAssumption DEF ModelLoadAssumption, TypeOK, Control
<1>3. TypeOK'
  BY <1>1, <1>2, Numbers, Totals
  DEF OptionsNew, Goto, Obj, Obtain, Fails, TypeOK, Control, Kinds, LoadKinds, SessionKinds,
      Steps, Default, PortSteps
<1>4. Tracked'
  BY <1>1, <1>2
  DEF OptionsNew, Goto, Obj, Obtain, Fails, Tracked, TypeOK, Justified, Kinds, LoadKinds,
      SessionKinds, Temporary, Part, ProviderSteps
<1>5. Justified'
  BY <1>1, <1>2, <1>3, Numbers
  DEF OptionsNew, Goto, Obj, Obtain, Fails, TypeOK, Justified, Kinds, LoadKinds, SessionKinds,
      Temporary, Part, ProviderSteps, PortSteps, BuildSteps, Control, Total
<1>6. Sized'
  BY <1>1, <1>2 DEF OptionsNew, Goto, Obj, Obtain, Fails, Sized, Fits, Total, Control
<1>7. Built'
  BY <1>1, <1>2
  DEF OptionsNew, Goto, Obj, Obtain, Fails, TypeOK, Built, Complete, Total, PortSteps, Control
<1>8. Control'
  BY <1>1, <1>2
  DEF OptionsNew, Goto, Obj, Obtain, Fails, TypeOK, Control, Total, Fits, PortSteps,
      ProviderSteps, RankValid
<1> QED
  BY <1>3, <1>4, <1>5, <1>6, <1>7, <1>8 DEF Inv

\* A failed setting releases the options in the bridge.
LEMMA OptionsSetInv ==
  ASSUME Inv, OptionsSet
  PROVE  Inv'
<1>1. TypeOK /\ Tracked /\ Justified /\ Sized /\ Built /\ Control
  BY DEF Inv
<1>2. (pc # "idle" => cur \in Sessions) /\ None \notin Sessions
  BY <1>1, ModelLoadAssumption DEF ModelLoadAssumption, TypeOK, Control
<1>3. TypeOK'
  BY <1>1, <1>2, Numbers, Totals
  DEF OptionsSet, Goto, Obj, Keep, AfterRelease, TypeOK, Control, Kinds, LoadKinds,
      SessionKinds, Steps, Default, PortSteps
<1>4. Tracked'
  BY <1>1, <1>2
  DEF OptionsSet, Goto, Obj, Keep, AfterRelease, Tracked, TypeOK, Justified, Kinds, LoadKinds,
      SessionKinds, Temporary, Part, ProviderSteps
<1>5. Justified'
  BY <1>1, <1>2, <1>3, Numbers
  DEF OptionsSet, Goto, Obj, Keep, AfterRelease, TypeOK, Justified, Kinds, LoadKinds,
      SessionKinds, Temporary, Part, ProviderSteps, PortSteps, BuildSteps, Control, Total
<1>6. Sized'
  BY <1>1, <1>2 DEF OptionsSet, Goto, Obj, Keep, AfterRelease, Sized, Fits, Total, Control
<1>7. Built'
  BY <1>1, <1>2
  DEF OptionsSet, Goto, Obj, Keep, AfterRelease, TypeOK, Built, Complete, Total, PortSteps,
      Control
<1>8. Control'
  BY <1>1, <1>2
  DEF OptionsSet, Goto, Obj, Keep, AfterRelease, TypeOK, Control, Total, Fits, PortSteps,
      ProviderSteps, RankValid
<1> QED
  BY <1>3, <1>4, <1>5, <1>6, <1>7, <1>8 DEF Inv

\* The status is released, and nothing else is left.
LEMMA OptionsFailedInv ==
  ASSUME Inv, OptionsFailed
  PROVE  Inv'
<1>1. TypeOK /\ Tracked /\ Justified /\ Sized /\ Built /\ Control
  BY DEF Inv
<1>2. (pc # "idle" => cur \in Sessions) /\ None \notin Sessions
  BY <1>1, ModelLoadAssumption DEF ModelLoadAssumption, TypeOK, Control
<1>3. TypeOK'
  BY <1>1, <1>2, Numbers, Totals
  DEF OptionsFailed, Goto, Obj, Release, TypeOK, Control, Kinds, LoadKinds, SessionKinds, Steps,
      Default, PortSteps
<1>4. Tracked'
  BY <1>1, <1>2
  DEF OptionsFailed, Goto, Obj, Release, Tracked, TypeOK, Justified, Kinds, LoadKinds,
      SessionKinds, Temporary, Part, ProviderSteps
<1>5. Justified'
  <2> SUFFICES ASSUME NEW k \in Kinds, NEW r \in Sessions, NEW j \in Index, <<k, r, j>> \in live'
               PROVE  /\ k \in LoadKinds => r = cur' /\ Temporary(k, j)'
                      /\ k \in SessionKinds => Part(k, r, j)'
    BY DEF Justified
  <2>1. <<k, r, j>> \in live => /\ k \in LoadKinds => r = cur /\ Temporary(k, j)
                                /\ k \in SessionKinds => Part(k, r, j)
    BY <1>1 DEF Justified
  <2>2. ASSUME k \in LoadKinds PROVE r = cur' /\ Temporary(k, j)'
    BY <1>1, <1>2, <2>1, <2>2, Numbers
    DEF OptionsFailed, Goto, Obj, Release, Tracked, LoadKinds, Temporary, ProviderSteps,
        BuildSteps, PortSteps
  <2>3. ASSUME k \in SessionKinds PROVE Part(k, r, j)'
    BY <1>1, <1>2, <2>1, <2>3
    DEF OptionsFailed, Goto, Obj, Release, Tracked, SessionKinds, Part, BuildSteps, PortSteps,
        Total, Control
  <2> QED
    BY <2>2, <2>3
<1>6. Sized'
  BY <1>1, <1>2 DEF OptionsFailed, Goto, Obj, Release, Sized, Fits, Total, Control
<1>7. Built'
  BY <1>1, <1>2
  DEF OptionsFailed, Goto, Obj, Release, TypeOK, Built, Complete, Total, PortSteps, Control
<1>8. Control'
  BY <1>1, <1>2
  DEF OptionsFailed, Goto, Obj, Release, TypeOK, Control, Total, Fits, PortSteps, ProviderSteps,
      RankValid
<1> QED
  BY <1>3, <1>4, <1>5, <1>6, <1>7, <1>8 DEF Inv

\* The strings of an entry are made together.
LEMMA NextEntryInv ==
  ASSUME Inv, NextEntry
  PROVE  Inv'
<1>1. TypeOK /\ Tracked /\ Justified /\ Sized /\ Built /\ Control
  BY DEF Inv
<1>2. (pc # "idle" => cur \in Sessions) /\ None \notin Sessions
  BY <1>1, ModelLoadAssumption DEF ModelLoadAssumption, TypeOK, Control
<1>3. TypeOK'
  BY <1>1, <1>2, Numbers, Totals
  DEF NextEntry, Goto, Obj, Obtain, Keep, TypeOK, Control, Kinds, LoadKinds, SessionKinds,
      Steps, Default, PortSteps
<1>4. Tracked'
  BY <1>1, <1>2
  DEF NextEntry, Goto, Obj, Obtain, Keep, Tracked, TypeOK, Justified, Kinds, LoadKinds,
      SessionKinds, Temporary, Part, ProviderSteps
<1>5. Justified'
  BY <1>1, <1>2, <1>3, Numbers
  DEF NextEntry, Goto, Obj, Obtain, Keep, TypeOK, Justified, Kinds, LoadKinds, SessionKinds,
      Temporary, Part, ProviderSteps, PortSteps, BuildSteps, Control, Total
<1>6. Sized'
  BY <1>1, <1>2 DEF NextEntry, Goto, Obj, Obtain, Keep, Sized, Fits, Total, Control
<1>7. Built'
  BY <1>1, <1>2
  DEF NextEntry, Goto, Obj, Obtain, Keep, TypeOK, Built, Complete, Total, PortSteps, Control
<1>8. Control'
  BY <1>1, <1>2
  DEF NextEntry, Goto, Obj, Obtain, Keep, TypeOK, Control, Total, Fits, PortSteps,
      ProviderSteps, RankValid
<1> QED
  BY <1>3, <1>4, <1>5, <1>6, <1>7, <1>8 DEF Inv

\* A refused entry leaves a status.
LEMMA SetEntryInv ==
  ASSUME Inv, SetEntry
  PROVE  Inv'
<1>1. TypeOK /\ Tracked /\ Justified /\ Sized /\ Built /\ Control
  BY DEF Inv
<1>2. (pc # "idle" => cur \in Sessions) /\ None \notin Sessions
  BY <1>1, ModelLoadAssumption DEF ModelLoadAssumption, TypeOK, Control
<1>3. TypeOK'
  <2>1. pc' \in Steps /\ failed' \in BOOLEAN
    BY DEF SetEntry, Goto, Fails, Steps
  <2>2. live' \subseteq Kinds \X Sessions \X Index /\ ptrs' \subseteq Kinds \X Sessions \X Index
    BY <1>1, <1>2, Numbers DEF SetEntry, Obj, Obtain, Keep, Fails, TypeOK, Kinds, LoadKinds
  <2> QED
    BY <1>1, <2>1, <2>2 DEF SetEntry, TypeOK
<1>4. Tracked'
  BY <1>1, <1>2
  DEF SetEntry, Goto, Obj, Obtain, Keep, Fails, Tracked, TypeOK, Justified, Kinds, LoadKinds,
      SessionKinds, Temporary, Part, ProviderSteps
<1>5. Justified'
  BY <1>1, <1>2, <1>3, Numbers
  DEF SetEntry, Goto, Obj, Obtain, Keep, Fails, TypeOK, Justified, Kinds, LoadKinds,
      SessionKinds, Temporary, Part, ProviderSteps, PortSteps, BuildSteps, Control, Total
<1>6. Sized'
  BY <1>1, <1>2 DEF SetEntry, Goto, Obj, Obtain, Keep, Fails, Sized, Fits, Total, Control
<1>7. Built'
  BY <1>1, <1>2
  DEF SetEntry, Goto, Obj, Obtain, Keep, Fails, TypeOK, Built, Complete, Total, PortSteps,
      Control
<1>8. Control'
  BY <1>1, <1>2
  DEF SetEntry, Goto, Obj, Obtain, Keep, Fails, TypeOK, Control, Total, Fits, PortSteps,
      ProviderSteps, RankValid
<1> QED
  BY <1>3, <1>4, <1>5, <1>6, <1>7, <1>8 DEF Inv

\* The strings of an entry go, and its status.
LEMMA EntryFreeInv ==
  ASSUME Inv, EntryFree
  PROVE  Inv'
<1>1. TypeOK /\ Tracked /\ Justified /\ Sized /\ Built /\ Control
  BY DEF Inv
<1>2. (pc # "idle" => cur \in Sessions) /\ None \notin Sessions
  BY <1>1, ModelLoadAssumption DEF ModelLoadAssumption, TypeOK, Control
<1>3. TypeOK'
  BY <1>1, <1>2, Numbers, Totals
  DEF EntryFree, Goto, Obj, Release, EntryStrings, TypeOK, Control, Kinds, LoadKinds,
      SessionKinds, Steps, Default, PortSteps
<1>4. Tracked'
  BY <1>1, <1>2
  DEF EntryFree, Goto, Obj, Release, EntryStrings, Tracked, TypeOK, Justified, Kinds, LoadKinds,
      SessionKinds, Temporary, Part, ProviderSteps
<1>5. Justified'
  <2> SUFFICES ASSUME NEW k \in Kinds, NEW r \in Sessions, NEW j \in Index, <<k, r, j>> \in live'
               PROVE  /\ k \in LoadKinds => r = cur' /\ Temporary(k, j)'
                      /\ k \in SessionKinds => Part(k, r, j)'
    BY DEF Justified
  <2>1. <<k, r, j>> \in live => /\ k \in LoadKinds => r = cur /\ Temporary(k, j)
                                /\ k \in SessionKinds => Part(k, r, j)
    BY <1>1 DEF Justified
  <2>2. ASSUME k \in LoadKinds PROVE r = cur' /\ Temporary(k, j)'
    BY <1>1, <1>2, <2>1, <2>2, Numbers
    DEF EntryFree, Goto, Obj, Release, EntryStrings, Tracked, LoadKinds, Temporary,
        ProviderSteps, BuildSteps, PortSteps
  <2>3. ASSUME k \in SessionKinds PROVE Part(k, r, j)'
    BY <1>1, <1>2, <2>1, <2>3
    DEF EntryFree, Goto, Obj, Release, EntryStrings, Tracked, SessionKinds, Part, BuildSteps,
        PortSteps, Total, Control
  <2> QED
    BY <2>2, <2>3
<1>6. Sized'
  BY <1>1, <1>2 DEF EntryFree, Goto, Obj, Release, EntryStrings, Sized, Fits, Total, Control
<1>7. Built'
  BY <1>1, <1>2
  DEF EntryFree, Goto, Obj, Release, EntryStrings, TypeOK, Built, Complete, Total, PortSteps,
      Control
<1>8. Control'
  BY <1>1, <1>2
  DEF EntryFree, Goto, Obj, Release, EntryStrings, TypeOK, Control, Total, Fits, PortSteps,
      ProviderSteps, RankValid
<1> QED
  BY <1>3, <1>4, <1>5, <1>6, <1>7, <1>8 DEF Inv

\* The name of a provider is made before its options.
LEMMA NextProviderInv ==
  ASSUME Inv, NextProvider
  PROVE  Inv'
<1>1. TypeOK /\ Tracked /\ Justified /\ Sized /\ Built /\ Control
  BY DEF Inv
<1>2. (pc # "idle" => cur \in Sessions) /\ None \notin Sessions
  BY <1>1, ModelLoadAssumption DEF ModelLoadAssumption, TypeOK, Control
<1>3. TypeOK'
  BY <1>1, <1>2, Numbers, Totals
  DEF NextProvider, Goto, Obj, Obtain, Keep, TypeOK, Control, Kinds, LoadKinds, SessionKinds,
      Steps, Default, PortSteps
<1>4. Tracked'
  BY <1>1, <1>2
  DEF NextProvider, Goto, Obj, Obtain, Keep, Tracked, TypeOK, Justified, Kinds, LoadKinds,
      SessionKinds, Temporary, Part, ProviderSteps
<1>5. Justified'
  BY <1>1, <1>2, <1>3, Numbers
  DEF NextProvider, Goto, Obj, Obtain, Keep, TypeOK, Justified, Kinds, LoadKinds, SessionKinds,
      Temporary, Part, ProviderSteps, PortSteps, BuildSteps, Control, Total
<1>6. Sized'
  BY <1>1, <1>2 DEF NextProvider, Goto, Obj, Obtain, Keep, Sized, Fits, Total, Control
<1>7. Built'
  BY <1>1, <1>2
  DEF NextProvider, Goto, Obj, Obtain, Keep, TypeOK, Built, Complete, Total, PortSteps, Control
<1>8. Control'
  BY <1>1, <1>2, Numbers
  DEF NextProvider, Goto, TypeOK, Control, Total, Fits, PortSteps, ProviderSteps, RankValid
<1> QED
  BY <1>3, <1>4, <1>5, <1>6, <1>7, <1>8 DEF Inv

\* The strings of the options made so far are those with indices up to i.
LEMMA NextPairInv ==
  ASSUME Inv, NextPair
  PROVE  Inv'
<1>1. TypeOK /\ Tracked /\ Justified /\ Sized /\ Built /\ Control
  BY DEF Inv
<1>2. (pc # "idle" => cur \in Sessions) /\ None \notin Sessions
  BY <1>1, ModelLoadAssumption DEF ModelLoadAssumption, TypeOK, Control
<1>3. TypeOK'
  <2>1. pc' \in Steps /\ i' \in Nat
    BY <1>1 DEF NextPair, TypeOK, Goto, Steps
  <2>2. failed' \in BOOLEAN
    BY <1>1 DEF NextPair, TypeOK
  <2>3. i < MaxPairs => i + 1 \in Index
    BY <1>1, Numbers DEF TypeOK
  <2>4. live' \subseteq Kinds \X Sessions \X Index /\ ptrs' \subseteq Kinds \X Sessions \X Index
    BY <1>1, <1>2, <2>3 DEF NextPair, Obtain, Keep, TypeOK, Kinds, LoadKinds
  <2> QED
    BY <1>1, <2>1, <2>2, <2>4 DEF NextPair, TypeOK
<1>4. Tracked'
  BY <1>1, <1>2
  DEF NextPair, Goto, Obtain, Keep, Tracked, TypeOK, Justified, Kinds, LoadKinds, SessionKinds,
      Temporary, Part, ProviderSteps
<1>5. Justified'
  BY <1>1, <1>2, <1>3, Numbers
  DEF NextPair, Goto, Obtain, Keep, TypeOK, Justified, Kinds, LoadKinds, SessionKinds,
      Temporary, Part, ProviderSteps, PortSteps, BuildSteps, Control, Total
<1>6. Sized'
  BY <1>1, <1>2 DEF NextPair, Goto, Obtain, Keep, Sized, Fits, Total, Control
<1>7. Built'
  BY <1>1, <1>2
  DEF NextPair, Goto, Obtain, Keep, TypeOK, Built, Complete, Total, PortSteps, Control, Obj
<1>8. Control'
  <2>1. pc' \in {"pairs", "providerFree", "provider"} /\ i' <= MaxPairs
    BY <1>1, Numbers DEF NextPair, Goto, TypeOK, Control, ProviderSteps
  <2> QED
    BY <1>1, <1>2, <2>1 DEF NextPair, TypeOK, Control, PortSteps, ProviderSteps
<1> QED
  BY <1>3, <1>4, <1>5, <1>6, <1>7, <1>8 DEF Inv

\* The object for the provider exists only until its release.
LEMMA ProviderNewInv ==
  ASSUME Inv, ProviderNew
  PROVE  Inv'
<1>1. TypeOK /\ Tracked /\ Justified /\ Sized /\ Built /\ Control
  BY DEF Inv
<1>2. (pc # "idle" => cur \in Sessions) /\ None \notin Sessions
  BY <1>1, ModelLoadAssumption DEF ModelLoadAssumption, TypeOK, Control
<1>3. TypeOK'
  BY <1>1, <1>2, Numbers, Totals
  DEF ProviderNew, Goto, Obj, Obtain, Keep, Fails, TypeOK, Control, Kinds, LoadKinds,
      SessionKinds, Steps, Default, PortSteps
<1>4. Tracked'
  BY <1>1 DEF ProviderNew, Obtain, Keep, Fails, Tracked
<1>5. Justified'
  <2> SUFFICES ASSUME NEW k \in Kinds, NEW r \in Sessions, NEW j \in Index, <<k, r, j>> \in live'
               PROVE  /\ k \in LoadKinds => r = cur' /\ Temporary(k, j)'
                      /\ k \in SessionKinds => Part(k, r, j)'
    BY DEF Justified
  <2>1. <<k, r, j>> \in live => /\ k \in LoadKinds => r = cur /\ Temporary(k, j)
                                /\ k \in SessionKinds => Part(k, r, j)
    BY <1>1 DEF Justified
  <2>2. ASSUME k \in LoadKinds PROVE r = cur' /\ Temporary(k, j)'
    BY <1>1, <1>2, <2>1, <2>2, Numbers
    DEF ProviderNew, Goto, Obj, Obtain, Keep, Fails, Tracked, LoadKinds, Temporary,
        ProviderSteps, BuildSteps, PortSteps
  <2>3. ASSUME k \in SessionKinds PROVE Part(k, r, j)'
    BY <1>1, <1>2, <2>1, <2>3
    DEF ProviderNew, Goto, Obj, Obtain, Keep, Fails, Tracked, SessionKinds, Part, BuildSteps,
        PortSteps, Total, Control
  <2> QED
    BY <2>2, <2>3
<1>6. Sized'
  BY <1>1, <1>2 DEF ProviderNew, Goto, Obj, Obtain, Keep, Fails, Sized, Fits, Total, Control
<1>7. Built'
  BY <1>1, <1>2
  DEF ProviderNew, Goto, Obj, Obtain, Keep, Fails, TypeOK, Built, Complete, Total, PortSteps,
      Control
<1>8. Control'
  BY <1>1, <1>2
  DEF ProviderNew, Goto, Obj, Obtain, Keep, Fails, TypeOK, Control, Total, Fits, PortSteps,
      ProviderSteps, RankValid
<1> QED
  BY <1>3, <1>4, <1>5, <1>6, <1>7, <1>8 DEF Inv

\* A failed update leaves a status.
LEMMA ProviderUpdateInv ==
  ASSUME Inv, ProviderUpdate
  PROVE  Inv'
<1>1. TypeOK /\ Tracked /\ Justified /\ Sized /\ Built /\ Control
  BY DEF Inv
<1>2. (pc # "idle" => cur \in Sessions) /\ None \notin Sessions
  BY <1>1, ModelLoadAssumption DEF ModelLoadAssumption, TypeOK, Control
<1>3. TypeOK'
  BY <1>1, <1>2, Numbers, Totals
  DEF ProviderUpdate, Goto, Obj, Obtain, Keep, Fails, TypeOK, Control, Kinds, LoadKinds,
      SessionKinds, Steps, Default, PortSteps
<1>4. Tracked'
  BY <1>1, <1>2
  DEF ProviderUpdate, Goto, Obj, Obtain, Keep, Fails, Tracked, TypeOK, Justified, Kinds,
      LoadKinds, SessionKinds, Temporary, Part, ProviderSteps
<1>5. Justified'
  BY <1>1, <1>2, <1>3, Numbers
  DEF ProviderUpdate, Goto, Obj, Obtain, Keep, Fails, TypeOK, Justified, Kinds, LoadKinds,
      SessionKinds, Temporary, Part, ProviderSteps, PortSteps, BuildSteps, Control, Total
<1>6. Sized'
  BY <1>1, <1>2 DEF ProviderUpdate, Goto, Obj, Obtain, Keep, Fails, Sized, Fits, Total, Control
<1>7. Built'
  <2>1. live \subseteq live' /\ cur' = cur /\ ports' = ports /\ loaded' = loaded
    BY DEF ProviderUpdate, Obtain, Fails, Keep
  <2>2. \A s \in loaded : Complete(s)'
    BY <1>1, <2>1, StillComplete DEF Built
  <2> QED
    BY <1>1, <2>1, <2>2 DEF ProviderUpdate, Goto, Fails, Built, Obj, PortSteps
<1>8. Control'
  BY <1>1, <1>2
  DEF ProviderUpdate, Goto, Obj, Obtain, Keep, Fails, TypeOK, Control, Total, Fits, PortSteps,
      ProviderSteps, RankValid
<1> QED
  BY <1>3, <1>4, <1>5, <1>6, <1>7, <1>8 DEF Inv

\* A failed append leaves a status.
LEMMA ProviderAppendInv ==
  ASSUME Inv, ProviderAppend
  PROVE  Inv'
<1>1. TypeOK /\ Tracked /\ Justified /\ Sized /\ Built /\ Control
  BY DEF Inv
<1>2. (pc # "idle" => cur \in Sessions) /\ None \notin Sessions
  BY <1>1, ModelLoadAssumption DEF ModelLoadAssumption, TypeOK, Control
<1>3. TypeOK'
  BY <1>1, <1>2, Numbers, Totals
  DEF ProviderAppend, Goto, Obj, Obtain, Keep, Fails, TypeOK, Control, Kinds, LoadKinds,
      SessionKinds, Steps, Default, PortSteps
<1>4. Tracked'
  BY <1>1, <1>2
  DEF ProviderAppend, Goto, Obj, Obtain, Keep, Fails, Tracked, TypeOK, Justified, Kinds,
      LoadKinds, SessionKinds, Temporary, Part, ProviderSteps
<1>5. Justified'
  BY <1>1, <1>2, <1>3, Numbers
  DEF ProviderAppend, Goto, Obj, Obtain, Keep, Fails, TypeOK, Justified, Kinds, LoadKinds,
      SessionKinds, Temporary, Part, ProviderSteps, PortSteps, BuildSteps, Control, Total
<1>6. Sized'
  BY <1>1, <1>2 DEF ProviderAppend, Goto, Obj, Obtain, Keep, Fails, Sized, Fits, Total, Control
<1>7. Built'
  BY <1>1, <1>2
  DEF ProviderAppend, Goto, Obj, Obtain, Keep, Fails, TypeOK, Built, Complete, Total, PortSteps,
      Control
<1>8. Control'
  BY <1>1, <1>2
  DEF ProviderAppend, Goto, Obj, Obtain, Keep, Fails, TypeOK, Control, Total, Fits, PortSteps,
      ProviderSteps, RankValid
<1> QED
  BY <1>3, <1>4, <1>5, <1>6, <1>7, <1>8 DEF Inv

\* The object for the provider goes either way.
LEMMA ProviderReleaseInv ==
  ASSUME Inv, ProviderRelease
  PROVE  Inv'
<1>1. TypeOK /\ Tracked /\ Justified /\ Sized /\ Built /\ Control
  BY DEF Inv
<1>2. (pc # "idle" => cur \in Sessions) /\ None \notin Sessions
  BY <1>1, ModelLoadAssumption DEF ModelLoadAssumption, TypeOK, Control
<1>3. TypeOK'
  BY <1>1, <1>2, Numbers, Totals
  DEF ProviderRelease, Goto, Obj, Release, TypeOK, Control, Kinds, LoadKinds, SessionKinds,
      Steps, Default, PortSteps
<1>4. Tracked'
  BY <1>1, <1>2
  DEF ProviderRelease, Goto, Obj, Release, Tracked, TypeOK, Justified, Kinds, LoadKinds,
      SessionKinds, Temporary, Part, ProviderSteps
<1>5. Justified'
  <2> SUFFICES ASSUME NEW k \in Kinds, NEW r \in Sessions, NEW j \in Index, <<k, r, j>> \in live'
               PROVE  /\ k \in LoadKinds => r = cur' /\ Temporary(k, j)'
                      /\ k \in SessionKinds => Part(k, r, j)'
    BY DEF Justified
  <2>1. <<k, r, j>> \in live => /\ k \in LoadKinds => r = cur /\ Temporary(k, j)
                                /\ k \in SessionKinds => Part(k, r, j)
    BY <1>1 DEF Justified
  <2>2. ASSUME k \in LoadKinds PROVE r = cur' /\ Temporary(k, j)'
    BY <1>1, <1>2, <2>1, <2>2, Numbers
    DEF ProviderRelease, Goto, Obj, Release, Tracked, LoadKinds, Temporary, ProviderSteps,
        BuildSteps, PortSteps
  <2>3. ASSUME k \in SessionKinds PROVE Part(k, r, j)'
    BY <1>1, <1>2, <2>1, <2>3
    DEF ProviderRelease, Goto, Obj, Release, Tracked, SessionKinds, Part, BuildSteps, PortSteps,
        Total, Control
  <2> QED
    BY <2>2, <2>3
<1>6. Sized'
  BY <1>1, <1>2 DEF ProviderRelease, Goto, Obj, Release, Sized, Fits, Total, Control
<1>7. Built'
  BY <1>1, <1>2
  DEF ProviderRelease, Goto, Obj, Release, TypeOK, Built, Complete, Total, PortSteps, Control
<1>8. Control'
  BY <1>1, <1>2
  DEF ProviderRelease, Goto, Obj, Release, TypeOK, Control, Total, Fits, PortSteps,
      ProviderSteps, RankValid
<1> QED
  BY <1>3, <1>4, <1>5, <1>6, <1>7, <1>8 DEF Inv

\* All strings made so far go, and the status.
LEMMA ProviderFreeInv ==
  ASSUME Inv, ProviderFree
  PROVE  Inv'
<1>1. TypeOK /\ Tracked /\ Justified /\ Sized /\ Built /\ Control
  BY DEF Inv
<1>2. (pc # "idle" => cur \in Sessions) /\ None \notin Sessions
  BY <1>1, ModelLoadAssumption DEF ModelLoadAssumption, TypeOK, Control
<1>3. TypeOK'
  <2>1. pc' \in Steps /\ failed' \in BOOLEAN /\ i' \in Nat
    BY DEF ProviderFree, Goto, Steps
  <2>2. live' \subseteq Kinds \X Sessions \X Index /\ ptrs' \subseteq Kinds \X Sessions \X Index
    BY <1>1 DEF ProviderFree, Release, TypeOK
  <2> QED
    BY <1>1, <2>1, <2>2 DEF ProviderFree, TypeOK
<1>4. Tracked'
  BY <1>1, <1>2
  DEF ProviderFree, Goto, Obj, Release, PairStrings, Tracked, TypeOK, Justified, Kinds,
      LoadKinds, SessionKinds, Temporary, Part, ProviderSteps
<1>5. Justified'
  <2> SUFFICES ASSUME NEW k \in Kinds, NEW r \in Sessions, NEW j \in Index, <<k, r, j>> \in live'
               PROVE  /\ k \in LoadKinds => r = cur' /\ Temporary(k, j)'
                      /\ k \in SessionKinds => Part(k, r, j)'
    BY DEF Justified
  <2>1. <<k, r, j>> \in live => /\ k \in LoadKinds => r = cur /\ Temporary(k, j)
                                /\ k \in SessionKinds => Part(k, r, j)
    BY <1>1 DEF Justified
  <2>2. ASSUME k \in LoadKinds PROVE r = cur' /\ Temporary(k, j)'
    BY <1>1, <1>2, <2>1, <2>2, Numbers
    DEF ProviderFree, Goto, Obj, Release, PairStrings, Tracked, LoadKinds, Temporary,
        ProviderSteps, BuildSteps, PortSteps
  <2>3. ASSUME k \in SessionKinds PROVE Part(k, r, j)'
    BY <1>1, <1>2, <2>1, <2>3
    DEF ProviderFree, Goto, Obj, Release, PairStrings, Tracked, SessionKinds, Part, BuildSteps,
        PortSteps, Total, Control
  <2> QED
    BY <2>2, <2>3
<1>6. Sized'
  BY <1>1, <1>2 DEF ProviderFree, Goto, Obj, Release, PairStrings, Sized, Fits, Total, Control
<1>7. Built'
  BY <1>1, <1>2
  DEF ProviderFree, Goto, Obj, Release, PairStrings, TypeOK, Built, Complete, Total, PortSteps,
      Control
<1>8. Control'
  BY <1>1, <1>2
  DEF ProviderFree, Goto, Obj, Release, PairStrings, TypeOK, Control, Total, Fits, PortSteps,
      ProviderSteps, RankValid
<1> QED
  BY <1>3, <1>4, <1>5, <1>6, <1>7, <1>8 DEF Inv

\* A load from memory has no path.
LEMMA LoadPathInv ==
  ASSUME Inv, LoadPath
  PROVE  Inv'
<1>1. TypeOK /\ Tracked /\ Justified /\ Sized /\ Built /\ Control
  BY DEF Inv
<1>2. (pc # "idle" => cur \in Sessions) /\ None \notin Sessions
  BY <1>1, ModelLoadAssumption DEF ModelLoadAssumption, TypeOK, Control
<1>3. TypeOK'
  BY <1>1, <1>2, Numbers, Totals
  DEF LoadPath, Goto, Obj, Obtain, Keep, TypeOK, Control, Kinds, LoadKinds, SessionKinds, Steps,
      Default, PortSteps
<1>4. Tracked'
  BY <1>1, <1>2
  DEF LoadPath, Goto, Obj, Obtain, Keep, Tracked, TypeOK, Justified, Kinds, LoadKinds,
      SessionKinds, Temporary, Part, ProviderSteps
<1>5. Justified'
  <2> SUFFICES ASSUME NEW k \in Kinds, NEW r \in Sessions, NEW j \in Index, <<k, r, j>> \in live'
               PROVE  /\ k \in LoadKinds => r = cur' /\ Temporary(k, j)'
                      /\ k \in SessionKinds => Part(k, r, j)'
    BY DEF Justified
  <2>1. <<k, r, j>> \in live => /\ k \in LoadKinds => r = cur /\ Temporary(k, j)
                                /\ k \in SessionKinds => Part(k, r, j)
    BY <1>1 DEF Justified
  <2>2. ASSUME k \in LoadKinds PROVE r = cur' /\ Temporary(k, j)'
    BY <1>1, <1>2, <2>1, <2>2, Numbers
    DEF LoadPath, Goto, Obj, Obtain, Keep, Tracked, LoadKinds, Temporary, ProviderSteps,
        BuildSteps, PortSteps
  <2>3. ASSUME k \in SessionKinds PROVE Part(k, r, j)'
    BY <1>1, <1>2, <2>1, <2>3
    DEF LoadPath, Goto, Obj, Obtain, Keep, Tracked, SessionKinds, Part, BuildSteps, PortSteps,
        Total, Control
  <2> QED
    BY <2>2, <2>3
<1>6. Sized'
  BY <1>1, <1>2 DEF LoadPath, Goto, Obj, Obtain, Keep, Sized, Fits, Total, Control
<1>7. Built'
  BY <1>1, <1>2
  DEF LoadPath, Goto, Obj, Obtain, Keep, TypeOK, Built, Complete, Total, PortSteps, Control
<1>8. Control'
  BY <1>1, <1>2
  DEF LoadPath, Goto, Obj, Obtain, Keep, TypeOK, Control, Total, Fits, PortSteps, ProviderSteps,
      RankValid
<1> QED
  BY <1>3, <1>4, <1>5, <1>6, <1>7, <1>8 DEF Inv

\* The oc_session is empty: no table, and counts of zero.
LEMMA SessionAllocInv ==
  ASSUME Inv, SessionAlloc
  PROVE  Inv'
<1>1. TypeOK /\ Tracked /\ Justified /\ Sized /\ Built /\ Control
  BY DEF Inv
<1>2. (pc # "idle" => cur \in Sessions) /\ None \notin Sessions
  BY <1>1, ModelLoadAssumption DEF ModelLoadAssumption, TypeOK, Control
<1>3. TypeOK'
  BY <1>1, <1>2, Numbers, Totals
  DEF SessionAlloc, Goto, Obj, Obtain, Fails, TypeOK, Control, Kinds, LoadKinds, SessionKinds,
      Steps, Default, PortSteps
<1>4. Tracked'
  BY <1>1, <1>2
  DEF SessionAlloc, Goto, Obj, Obtain, Fails, Tracked, TypeOK, Justified, Kinds, LoadKinds,
      SessionKinds, Temporary, Part, ProviderSteps
<1>5. Justified'
  BY <1>1, <1>2, <1>3, Numbers
  DEF SessionAlloc, Goto, Obj, Obtain, Fails, TypeOK, Justified, Kinds, LoadKinds, SessionKinds,
      Temporary, Part, ProviderSteps, PortSteps, BuildSteps, Control, Total
<1>6. Sized'
  <2>1. <<"ports", cur, 0>> \notin live
    BY <1>1, <1>2, Numbers
    DEF SessionAlloc, Justified, Part, Control, BuildSteps, PortSteps, Kinds, SessionKinds
  <2>2. ASSUME NEW s \in Sessions, <<"ports", s, 0>> \in live'
        PROVE  s # cur /\ <<"ports", s, 0>> \in live
    BY <2>1, <2>2 DEF SessionAlloc, Obj, Obtain, Fails
  <2>3. \A s \in Sessions \ {cur} : ports'[s] = ports[s]
    BY <1>1 DEF SessionAlloc, TypeOK
  <2> QED
    BY <1>1, <2>2, <2>3 DEF Sized, Fits, Total
<1>7. Built'
  <2>1. pc = "alloc" /\ pc' \in {"widen", "create", "error"} /\ live \subseteq live' /\ cur' = cur
    BY DEF SessionAlloc, Goto, Obtain, Fails
  <2>2. pc' # "error" => Obj("session") \in live'
    BY DEF SessionAlloc, Goto, Obtain, Fails
  <2>3. ASSUME NEW s \in loaded PROVE Complete(s)'
    <3>1. s # cur /\ ports'[s] = ports[s]
      BY <1>1, <2>1 DEF SessionAlloc, TypeOK, Control
    <3> QED
      BY <1>1, <2>1, <3>1, StillComplete DEF Built
  <2> QED
    BY <1>1, <2>1, <2>2, <2>3 DEF SessionAlloc, Built, Obj, PortSteps
<1>8. Control'
  BY <1>1, <1>2
  DEF SessionAlloc, Goto, Obj, Obtain, Fails, TypeOK, Control, Total, Fits, PortSteps,
      ProviderSteps, RankValid
<1> QED
  BY <1>3, <1>4, <1>5, <1>6, <1>7, <1>8 DEF Inv

\* The wide path exists until the session is created.
LEMMA WidenPathInv ==
  ASSUME Inv, WidenPath
  PROVE  Inv'
<1>1. TypeOK /\ Tracked /\ Justified /\ Sized /\ Built /\ Control
  BY DEF Inv
<1>2. (pc # "idle" => cur \in Sessions) /\ None \notin Sessions
  BY <1>1, ModelLoadAssumption DEF ModelLoadAssumption, TypeOK, Control
<1>3. TypeOK'
  BY <1>1, <1>2, Numbers, Totals
  DEF WidenPath, Goto, Obj, Obtain, Fails, TypeOK, Control, Kinds, LoadKinds, SessionKinds,
      Steps, Default, PortSteps
<1>4. Tracked'
  BY <1>1, <1>2
  DEF WidenPath, Goto, Obj, Obtain, Fails, Tracked, TypeOK, Justified, Kinds, LoadKinds,
      SessionKinds, Temporary, Part, ProviderSteps
<1>5. Justified'
  BY <1>1, <1>2, <1>3, Numbers
  DEF WidenPath, Goto, Obj, Obtain, Fails, TypeOK, Justified, Kinds, LoadKinds, SessionKinds,
      Temporary, Part, ProviderSteps, PortSteps, BuildSteps, Control, Total
<1>6. Sized'
  BY <1>1, <1>2 DEF WidenPath, Goto, Obj, Obtain, Fails, Sized, Fits, Total, Control
<1>7. Built'
  <2>1. live \subseteq live' /\ cur' = cur /\ ports' = ports /\ loaded' = loaded
    BY DEF WidenPath, Obtain, Fails
  <2>2. \A s \in loaded : Complete(s)'
    BY <1>1, <2>1, StillComplete DEF Built
  <2> QED
    BY <1>1, <2>1, <2>2 DEF WidenPath, Goto, Fails, Built, Obj, PortSteps
<1>8. Control'
  BY <1>1, <1>2
  DEF WidenPath, Goto, Obj, Obtain, Fails, TypeOK, Control, Total, Fits, PortSteps,
      ProviderSteps, RankValid
<1> QED
  BY <1>3, <1>4, <1>5, <1>6, <1>7, <1>8 DEF Inv

\* There is a native session or a status.
LEMMA CreateSessionInv ==
  ASSUME Inv, CreateSession
  PROVE  Inv'
<1>1. TypeOK /\ Tracked /\ Justified /\ Sized /\ Built /\ Control
  BY DEF Inv
<1>2. (pc # "idle" => cur \in Sessions) /\ None \notin Sessions
  BY <1>1, ModelLoadAssumption DEF ModelLoadAssumption, TypeOK, Control
<1>3. TypeOK'
  BY <1>1, <1>2, Numbers, Totals
  DEF CreateSession, Goto, Obj, TypeOK, Control, Kinds, LoadKinds, SessionKinds, Steps, Default,
      PortSteps
<1>4. Tracked'
  BY <1>1, <1>2
  DEF CreateSession, Goto, Obj, Tracked, TypeOK, Justified, Kinds, LoadKinds, SessionKinds,
      Temporary, Part, ProviderSteps
<1>5. Justified'
  BY <1>1, <1>2, <1>3, Numbers
  DEF CreateSession, Goto, Obj, TypeOK, Justified, Kinds, LoadKinds, SessionKinds, Temporary,
      Part, ProviderSteps, PortSteps, BuildSteps, Control, Total
<1>6. Sized'
  BY <1>1, <1>2 DEF CreateSession, Goto, Obj, Sized, Fits, Total, Control
<1>7. Built'
  BY <1>1, <1>2 DEF CreateSession, Goto, Obj, TypeOK, Built, Complete, Total, PortSteps, Control
<1>8. Control'
  BY <1>1, <1>2
  DEF CreateSession, Goto, Obj, TypeOK, Control, Total, Fits, PortSteps, ProviderSteps,
      RankValid
<1> QED
  BY <1>3, <1>4, <1>5, <1>6, <1>7, <1>8 DEF Inv

\* Counts that pass the check did not wrap around and fit a table.
LEMMA GetCountsInv ==
  ASSUME Inv, GetCounts
  PROVE  Inv'
<1>1. TypeOK /\ Tracked /\ Justified /\ Sized /\ Built /\ Control
  BY DEF Inv
<1>2. (pc # "idle" => cur \in Sessions) /\ None \notin Sessions
  BY <1>1, ModelLoadAssumption DEF ModelLoadAssumption, TypeOK, Control
<1>3. TypeOK'
  <2>1. pc' \in Steps
    BY DEF GetCounts, Goto, Fails, Steps
  <2>2. ports' \in [Sessions -> [inputs : 0 .. SIZE_MAX, outputs : 0 .. SIZE_MAX]]
    BY <1>1, <1>2, ModelLoadAssumption DEF ModelLoadAssumption, GetCounts, TypeOK, SIZE_MAX
  <2>3. live' \subseteq Kinds \X Sessions \X Index /\ ptrs' \subseteq Kinds \X Sessions \X Index
    BY <1>1, <1>2, Numbers DEF GetCounts, Obj, Obtain, Keep, Fails, TypeOK, Kinds, LoadKinds
  <2> QED
    BY <1>1, <2>1, <2>2, <2>3 DEF GetCounts, TypeOK
<1>4. Tracked'
  BY <1>1, <1>2
  DEF GetCounts, Goto, Obj, Obtain, Keep, Fails, CountsValid, Wrap, Fits, Tracked, TypeOK,
      Justified, Kinds, LoadKinds, SessionKinds, Temporary, Part, ProviderSteps
<1>5. Justified'
  BY <1>1, <1>2, <1>3, Numbers
  DEF GetCounts, Goto, Obj, Obtain, Keep, Fails, CountsValid, Wrap, Fits, TypeOK, Justified,
      Kinds, LoadKinds, SessionKinds, Temporary, Part, ProviderSteps, PortSteps, BuildSteps,
      Control, Total
<1>6. /\ pc = "counts" /\ cur \in Sessions /\ cur \notin loaded /\ <<"ports", cur, 0>> \notin live
      /\ pc' \in {"tables", "fail"} /\ cur' = cur /\ loaded' = loaded
      /\ \A o \in Kinds \X Sessions \X Index : o # Obj("status") => (o \in live' <=> o \in live)
      /\ live \subseteq live'
      /\ \A s \in Sessions \ {cur} : ports'[s] = ports[s]
  <2>1. pc = "counts" /\ cur \in Sessions /\ cur \notin loaded
    BY <1>1, <1>2 DEF GetCounts, Control
  <2>2. <<"ports", cur, 0>> \notin live
    BY <1>1, <2>1, Numbers DEF Justified, Part, PortSteps, Kinds, SessionKinds
  <2>3. \A s \in Sessions \ {cur} : ports'[s] = ports[s]
    BY <1>1 DEF GetCounts, TypeOK
  <2> QED
    BY <2>1, <2>2, <2>3 DEF GetCounts, Goto, Obj, Obtain, Keep, Fails
<1>7. Sized'
  <2>1. ASSUME NEW s \in Sessions, <<"ports", s, 0>> \in live'
        PROVE  s # cur /\ <<"ports", s, 0>> \in live
    BY <1>6, <2>1, Numbers DEF Obj, Kinds, SessionKinds
  <2> QED
    BY <1>1, <1>6, <2>1 DEF Sized, Fits, Total
<1>8. Built'
  <2>1. \A s \in loaded : s \in Sessions \ {cur} /\ Complete(s)
    BY <1>1, <1>6 DEF TypeOK, Built
  <2>2. \A s \in loaded : Complete(s)'
    BY <1>6, <2>1 DEF Complete, Total
  <2> QED
    BY <1>1, <1>6, <2>2 DEF Built, Obj, PortSteps
<1>9. Control'
  <2>1. CASE pc' = "fail"
    BY <1>1, <1>6, <2>1 DEF Control, ProviderSteps, PortSteps
  <2>2. CASE pc' = "tables"
    <3>1. PICK ins, outs \in Counts :
            /\ ports' = [ports EXCEPT ![cur] = [inputs |-> ins, outputs |-> outs]]
            /\ CountsValid(ins, outs)
      BY <2>2 DEF GetCounts, Goto, Fails
    <3>2. ins \in 0 .. Word - 1 /\ outs \in 0 .. Word - 1 /\ Word \in Nat \ {0}
      BY ModelLoadAssumption DEF ModelLoadAssumption
    <3>3. Wrap(ins + outs) = ins + outs
      BY <3>1, <3>2, NoWrap DEF CountsValid
    <3>4. ports'[cur] = [inputs |-> ins, outputs |-> outs]
      BY <1>1, <1>6, <3>1 DEF TypeOK
    <3>5. Fits(cur)'
      BY <1>6, <3>1, <3>2, <3>3, <3>4 DEF Fits, Total, CountsValid
    <3> QED
      BY <1>1, <1>6, <2>2, <3>5 DEF Control, ProviderSteps, PortSteps
  <2> QED
    BY <1>6, <2>1, <2>2
<1> QED
  BY <1>3, <1>4, <1>5, <1>7, <1>8, <1>9 DEF Inv

\* With both tables the loop begins, with one of them it does not.
LEMMA AllocTablesInv ==
  ASSUME Inv, AllocTables
  PROVE  Inv'
<1>1. TypeOK /\ Tracked /\ Justified /\ Sized /\ Built /\ Control
  BY DEF Inv
<1>2. (pc # "idle" => cur \in Sessions) /\ None \notin Sessions
  BY <1>1, ModelLoadAssumption DEF ModelLoadAssumption, TypeOK, Control
<1>3. TypeOK'
  BY <1>1, <1>2, Numbers, Totals
  DEF AllocTables, Goto, Obj, Obtain, TypeOK, Control, Kinds, LoadKinds, SessionKinds, Steps,
      Default, PortSteps
<1>4. Tracked'
  BY <1>1, <1>2
  DEF AllocTables, Goto, Obj, Obtain, Tracked, TypeOK, Justified, Kinds, LoadKinds,
      SessionKinds, Temporary, Part, ProviderSteps
<1>5. Justified'
  BY <1>1, <1>2, <1>3, Numbers
  DEF AllocTables, Goto, Obj, Obtain, TypeOK, Justified, Kinds, LoadKinds, SessionKinds,
      Temporary, Part, ProviderSteps, PortSteps, BuildSteps, Control, Total
<1>6. Sized'
  BY <1>1, <1>2 DEF AllocTables, Goto, Obj, Obtain, Sized, Fits, Total, Control
<1>7. Built'
  BY <1>1, <1>2
  DEF AllocTables, Goto, Obj, Obtain, TypeOK, Built, Complete, Total, PortSteps, Control
<1>8. Control'
  BY <1>1, <1>2
  DEF AllocTables, Goto, Obj, Obtain, TypeOK, Control, Total, Fits, PortSteps, ProviderSteps,
      RankValid
<1> QED
  BY <1>3, <1>4, <1>5, <1>6, <1>7, <1>8 DEF Inv

\* A name is in the table, which oc_session_free will walk.
LEMMA GetNameInv ==
  ASSUME Inv, GetName
  PROVE  Inv'
<1>1. TypeOK /\ Tracked /\ Justified /\ Sized /\ Built /\ Control
  BY DEF Inv
<1>2. (pc # "idle" => cur \in Sessions) /\ None \notin Sessions
  BY <1>1, ModelLoadAssumption DEF ModelLoadAssumption, TypeOK, Control
<1>3. TypeOK'
  <2>1. i \in 1 .. Total(cur) /\ <<"ports", cur, 0>> \in live
    BY <1>1, <1>2, Totals DEF GetName, Control, Built, PortSteps, Obj, TypeOK
  <2>2. i \in Index
    BY <1>2, <2>1, PortsIndexed DEF GetName
  <2>3. live' \subseteq Kinds \X Sessions \X Index /\ ptrs' \subseteq Kinds \X Sessions \X Index
    BY <1>1, <1>2, <2>2, Numbers
    DEF GetName, Obj, Obtain, Fails, TypeOK, Kinds, LoadKinds, SessionKinds
  <2>4. pc' \in Steps
    BY <1>1, ModelLoadAssumption
    DEF ModelLoadAssumption, GetName, Goto, Fails, TypeOK, Steps, Wrap, SIZE_MAX
  <2> QED
    BY <1>1, <2>3, <2>4 DEF GetName, TypeOK
<1>4. Tracked'
  BY <1>1, <1>2
  DEF GetName, Goto, Obj, Obtain, Fails, Tracked, TypeOK, Justified, Kinds, LoadKinds,
      SessionKinds, Temporary, Part, ProviderSteps
<1>5. Justified'
  <2> SUFFICES ASSUME NEW k \in Kinds, NEW r \in Sessions, NEW j \in Index, <<k, r, j>> \in live'
               PROVE  /\ k \in LoadKinds => r = cur' /\ Temporary(k, j)'
                      /\ k \in SessionKinds => Part(k, r, j)'
    BY DEF Justified
  <2>1. <<k, r, j>> \in live => /\ k \in LoadKinds => r = cur /\ Temporary(k, j)
                                /\ k \in SessionKinds => Part(k, r, j)
    BY <1>1 DEF Justified
  <2>2. ASSUME k \in LoadKinds PROVE r = cur' /\ Temporary(k, j)'
    BY <1>1, <1>2, <2>1, <2>2, Numbers
    DEF GetName, Goto, Obj, Obtain, Fails, Tracked, LoadKinds, Temporary, ProviderSteps,
        BuildSteps, PortSteps
  <2>3. ASSUME k \in SessionKinds PROVE Part(k, r, j)'
    <3>1. Total(r)' = Total(r) /\ loaded' = loaded /\ cur' = cur /\ live \subseteq live'
      BY DEF GetName, Total, Obtain, Fails
    <3>2. CASE <<k, r, j>> \in live
      BY <2>1, <2>3, <3>1, <3>2 DEF GetName, Goto, Fails, Part, BuildSteps, PortSteps
    <3>3. CASE <<k, r, j>> = <<"name", cur, i>>
      <4>1. <<"ports", cur, 0>> \in live /\ i \in 1 .. Total(cur)
        BY <1>1, <1>2, Totals DEF GetName, Control, Built, PortSteps, Obj, TypeOK
      <4> QED
        BY <3>1, <3>3, <4>1 DEF GetName, Goto, Fails, Part, BuildSteps, PortSteps
    <3> QED
      BY <2>3, <3>2, <3>3 DEF GetName, Obtain, Fails, Obj, SessionKinds
  <2> QED
    BY <2>2, <2>3
<1>6. Sized'
  BY <1>1, <1>2 DEF GetName, Goto, Obj, Obtain, Fails, Sized, Fits, Total, Control
<1>7. Built'
  BY <1>1, <1>2
  DEF GetName, Goto, Obj, Obtain, Fails, TypeOK, Built, Complete, Total, PortSteps, Control
<1>8. Control'
  BY <1>1, <1>2
  DEF GetName, Goto, Obj, Obtain, Fails, TypeOK, Control, Total, Fits, PortSteps, ProviderSteps,
      RankValid
<1> QED
  BY <1>3, <1>4, <1>5, <1>6, <1>7, <1>8 DEF Inv

\* The type information of one port exists at a time.
LEMMA GetTypeInfoInv ==
  ASSUME Inv, GetTypeInfo
  PROVE  Inv'
<1>1. TypeOK /\ Tracked /\ Justified /\ Sized /\ Built /\ Control
  BY DEF Inv
<1>2. (pc # "idle" => cur \in Sessions) /\ None \notin Sessions
  BY <1>1, ModelLoadAssumption DEF ModelLoadAssumption, TypeOK, Control
<1>3. TypeOK'
  BY <1>1, <1>2, Numbers, Totals
  DEF GetTypeInfo, Goto, Obj, Obtain, Fails, TypeOK, Control, Kinds, LoadKinds, SessionKinds,
      Steps, Default, PortSteps
<1>4. Tracked'
  BY <1>1, <1>2
  DEF GetTypeInfo, Goto, Obj, Obtain, Fails, Tracked, TypeOK, Justified, Kinds, LoadKinds,
      SessionKinds, Temporary, Part, ProviderSteps
<1>5. Justified'
  BY <1>1, <1>2, <1>3, Numbers
  DEF GetTypeInfo, Goto, Obj, Obtain, Fails, TypeOK, Justified, Kinds, LoadKinds, SessionKinds,
      Temporary, Part, ProviderSteps, PortSteps, BuildSteps, Control, Total
<1>6. Sized'
  BY <1>1, <1>2 DEF GetTypeInfo, Goto, Obj, Obtain, Fails, Sized, Fits, Total, Control
<1>7. Built'
  BY <1>1, <1>2
  DEF GetTypeInfo, Goto, Obj, Obtain, Fails, TypeOK, Built, Complete, Total, PortSteps, Control
<1>8. Control'
  BY <1>1, <1>2
  DEF GetTypeInfo, Goto, Obj, Obtain, Fails, TypeOK, Control, Total, Fits, PortSteps,
      ProviderSteps, RankValid
<1> QED
  BY <1>3, <1>4, <1>5, <1>6, <1>7, <1>8 DEF Inv

\* The rank is a size.
LEMMA DescribeInv ==
  ASSUME Inv, Describe
  PROVE  Inv'
<1>1. TypeOK /\ Tracked /\ Justified /\ Sized /\ Built /\ Control
  BY DEF Inv
<1>2. (pc # "idle" => cur \in Sessions) /\ None \notin Sessions
  BY <1>1, ModelLoadAssumption DEF ModelLoadAssumption, TypeOK, Control
<1>3. TypeOK'
  <2>1. pc' \in Steps /\ rank' \in 0 .. SIZE_MAX
    BY <1>1, ModelLoadAssumption
    DEF ModelLoadAssumption, Describe, Goto, Fails, TypeOK, Steps, SIZE_MAX
  <2>2. live' \subseteq Kinds \X Sessions \X Index /\ ptrs' \subseteq Kinds \X Sessions \X Index
    BY <1>1, <1>2, Numbers DEF Describe, Obj, Obtain, Keep, Fails, TypeOK, Kinds, LoadKinds
  <2> QED
    BY <1>1, <2>1, <2>2 DEF Describe, TypeOK
<1>4. Tracked'
  BY <1>1, <1>2
  DEF Describe, Goto, Obj, Obtain, Keep, Fails, Tracked, TypeOK, Justified, Kinds, LoadKinds,
      SessionKinds, Temporary, Part, ProviderSteps
<1>5. Justified'
  <2> SUFFICES ASSUME NEW k \in Kinds, NEW r \in Sessions, NEW j \in Index, <<k, r, j>> \in live'
               PROVE  /\ k \in LoadKinds => r = cur' /\ Temporary(k, j)'
                      /\ k \in SessionKinds => Part(k, r, j)'
    BY DEF Justified
  <2>1. <<k, r, j>> \in live => /\ k \in LoadKinds => r = cur /\ Temporary(k, j)
                                /\ k \in SessionKinds => Part(k, r, j)
    BY <1>1 DEF Justified
  <2>2. ASSUME k \in LoadKinds PROVE r = cur' /\ Temporary(k, j)'
    BY <1>1, <1>2, <2>1, <2>2, Numbers
    DEF Describe, Goto, Obj, Obtain, Keep, Fails, Tracked, LoadKinds, Temporary, ProviderSteps,
        BuildSteps, PortSteps
  <2>3. ASSUME k \in SessionKinds PROVE Part(k, r, j)'
    BY <1>1, <1>2, <2>1, <2>3
    DEF Describe, Goto, Obj, Obtain, Keep, Fails, Tracked, SessionKinds, Part, BuildSteps,
        PortSteps, Total, Control
  <2> QED
    BY <2>2, <2>3
<1>6. Sized'
  BY <1>1, <1>2 DEF Describe, Goto, Obj, Obtain, Keep, Fails, Sized, Fits, Total, Control
<1>7. Built'
  <2>1. live \subseteq live' /\ cur' = cur /\ ports' = ports /\ loaded' = loaded
    BY DEF Describe, Obtain, Fails, Keep
  <2>2. \A s \in loaded : Complete(s)'
    BY <1>1, <2>1, StillComplete DEF Built
  <2> QED
    BY <1>1, <2>1, <2>2 DEF Describe, Goto, Fails, Built, Obj, PortSteps
<1>8. Control'
  BY <1>1, <1>2
  DEF Describe, Goto, Obj, Obtain, Keep, Fails, TypeOK, Control, Total, Fits, PortSteps,
      ProviderSteps, RankValid
<1> QED
  BY <1>3, <1>4, <1>5, <1>6, <1>7, <1>8 DEF Inv

\* A shape is in the table, and its size did not wrap around.
LEMMA AllocShapeInv ==
  ASSUME Inv, AllocShape
  PROVE  Inv'
<1>1. TypeOK /\ Tracked /\ Justified /\ Sized /\ Built /\ Control
  BY DEF Inv
<1>2. (pc # "idle" => cur \in Sessions) /\ None \notin Sessions
  BY <1>1, ModelLoadAssumption DEF ModelLoadAssumption, TypeOK, Control
<1>3. TypeOK'
  <2>1. i \in 1 .. Total(cur) /\ <<"ports", cur, 0>> \in live
    BY <1>1, <1>2, Totals DEF AllocShape, Control, Built, PortSteps, Obj, TypeOK
  <2>2. i \in Index
    BY <1>2, <2>1, PortsIndexed DEF AllocShape
  <2>3. live' \subseteq Kinds \X Sessions \X Index /\ ptrs' \subseteq Kinds \X Sessions \X Index
    BY <1>1, <1>2, <2>2, Numbers
    DEF AllocShape, Obj, Obtain, Fails, TypeOK, Kinds, LoadKinds, SessionKinds
  <2>4. pc' \in Steps /\ room' \in 0 .. SIZE_MAX
    BY <1>1, ModelLoadAssumption
    DEF ModelLoadAssumption, AllocShape, Goto, Fails, TypeOK, Steps, Wrap, SIZE_MAX
  <2> QED
    BY <1>1, <2>3, <2>4 DEF AllocShape, TypeOK
<1>4. Tracked'
  BY <1>1, <1>2
  DEF AllocShape, Goto, Obj, Obtain, Fails, RankValid, Tracked, TypeOK, Justified, Kinds,
      LoadKinds, SessionKinds, Temporary, Part, ProviderSteps
<1>5. Justified'
  <2> SUFFICES ASSUME NEW k \in Kinds, NEW r \in Sessions, NEW j \in Index, <<k, r, j>> \in live'
               PROVE  /\ k \in LoadKinds => r = cur' /\ Temporary(k, j)'
                      /\ k \in SessionKinds => Part(k, r, j)'
    BY DEF Justified
  <2>1. <<k, r, j>> \in live => /\ k \in LoadKinds => r = cur /\ Temporary(k, j)
                                /\ k \in SessionKinds => Part(k, r, j)
    BY <1>1 DEF Justified
  <2>2. ASSUME k \in LoadKinds PROVE r = cur' /\ Temporary(k, j)'
    BY <1>1, <1>2, <2>1, <2>2, Numbers
    DEF AllocShape, Goto, Obj, Obtain, Fails, RankValid, Tracked, LoadKinds, Temporary,
        ProviderSteps, BuildSteps, PortSteps
  <2>3. ASSUME k \in SessionKinds PROVE Part(k, r, j)'
    <3>1. Total(r)' = Total(r) /\ loaded' = loaded /\ cur' = cur /\ live \subseteq live'
      BY DEF AllocShape, Total, Obtain, Fails
    <3>2. CASE <<k, r, j>> \in live
      BY <2>1, <2>3, <3>1, <3>2 DEF AllocShape, Goto, Fails, Part, BuildSteps, PortSteps
    <3>3. CASE <<k, r, j>> = <<"shape", cur, i>>
      <4>1. <<"ports", cur, 0>> \in live /\ i \in 1 .. Total(cur)
        BY <1>1, <1>2, Totals DEF AllocShape, Control, Built, PortSteps, Obj, TypeOK
      <4> QED
        BY <3>1, <3>3, <4>1 DEF AllocShape, Goto, Fails, Part, BuildSteps, PortSteps
    <3> QED
      BY <2>3, <3>2, <3>3 DEF AllocShape, Obtain, Fails, Obj, SessionKinds
  <2> QED
    BY <2>2, <2>3
<1>6. Sized'
  BY <1>1, <1>2 DEF AllocShape, Goto, Obj, Obtain, Fails, RankValid, Sized, Fits, Total, Control
<1>7. Built'
  BY <1>1, <1>2
  DEF AllocShape, Goto, Obj, Obtain, Fails, RankValid, TypeOK, Built, Complete, Total,
      PortSteps, Control
<1>8. Control'
  BY <1>1, <1>2
  DEF AllocShape, Goto, Obj, Obtain, Fails, RankValid, TypeOK, Control, Total, Fits, PortSteps,
      ProviderSteps
<1> QED
  BY <1>3, <1>4, <1>5, <1>6, <1>7, <1>8 DEF Inv

\* The dimensions were written to a buffer of their size.
LEMMA GetDimensionsInv ==
  ASSUME Inv, GetDimensions
  PROVE  Inv'
<1>1. TypeOK /\ Tracked /\ Justified /\ Sized /\ Built /\ Control
  BY DEF Inv
<1>2. (pc # "idle" => cur \in Sessions) /\ None \notin Sessions
  BY <1>1, ModelLoadAssumption DEF ModelLoadAssumption, TypeOK, Control
<1>3. TypeOK'
  BY <1>1, <1>2, Numbers, Totals
  DEF GetDimensions, Goto, Obj, Obtain, Keep, Fails, TypeOK, Control, Kinds, LoadKinds,
      SessionKinds, Steps, Default, PortSteps
<1>4. Tracked'
  BY <1>1, <1>2
  DEF GetDimensions, Goto, Obj, Obtain, Keep, Fails, Tracked, TypeOK, Justified, Kinds,
      LoadKinds, SessionKinds, Temporary, Part, ProviderSteps
<1>5. Justified'
  <2> SUFFICES ASSUME NEW k \in Kinds, NEW r \in Sessions, NEW j \in Index, <<k, r, j>> \in live'
               PROVE  /\ k \in LoadKinds => r = cur' /\ Temporary(k, j)'
                      /\ k \in SessionKinds => Part(k, r, j)'
    BY DEF Justified
  <2>1. <<k, r, j>> \in live => /\ k \in LoadKinds => r = cur /\ Temporary(k, j)
                                /\ k \in SessionKinds => Part(k, r, j)
    BY <1>1 DEF Justified
  <2>2. ASSUME k \in LoadKinds PROVE r = cur' /\ Temporary(k, j)'
    BY <1>1, <2>1, <2>2
    DEF GetDimensions, Goto, Obj, Obtain, Keep, Fails, LoadKinds, Temporary, ProviderSteps,
        BuildSteps, PortSteps
  <2>3. ASSUME k \in SessionKinds PROVE Part(k, r, j)'
    BY <1>1, <2>1, <2>3
    DEF GetDimensions, Goto, Obj, Obtain, Keep, Fails, SessionKinds, Part, BuildSteps, PortSteps,
        Total
  <2> QED
    BY <2>2, <2>3
<1>6. Sized'
  BY <1>1, <1>2 DEF GetDimensions, Goto, Obj, Obtain, Keep, Fails, Sized, Fits, Total, Control
<1>7. Built'
  <2>1. live \subseteq live' /\ cur' = cur /\ ports' = ports /\ loaded' = loaded
    BY DEF GetDimensions, Obtain, Fails, Keep
  <2>2. \A s \in loaded : Complete(s)'
    BY <1>1, <2>1, StillComplete DEF Built
  <2> QED
    BY <1>1, <2>1, <2>2 DEF GetDimensions, Goto, Fails, Built, Obj, PortSteps
<1>8. Control'
  BY <1>1, <1>2
  DEF GetDimensions, Goto, Obj, Obtain, Keep, Fails, TypeOK, Control, Total, Fits, PortSteps,
      ProviderSteps, RankValid
<1> QED
  BY <1>3, <1>4, <1>5, <1>6, <1>7, <1>8 DEF Inv

\* After the last port the session is complete.
LEMMA ReleaseInfoInv ==
  ASSUME Inv, ReleaseInfo
  PROVE  Inv'
<1>1. TypeOK /\ Tracked /\ Justified /\ Sized /\ Built /\ Control
  BY DEF Inv
<1>2. (pc # "idle" => cur \in Sessions) /\ None \notin Sessions
  BY <1>1, ModelLoadAssumption DEF ModelLoadAssumption, TypeOK, Control
<1>3. TypeOK'
  BY <1>1, <1>2, Numbers, Totals
  DEF ReleaseInfo, Goto, Obj, Forget, TypeOK, Control, Kinds, LoadKinds, SessionKinds, Steps,
      Default, PortSteps
<1>4. Tracked'
  BY <1>1, <1>2
  DEF ReleaseInfo, Goto, Obj, Forget, Tracked, TypeOK, Justified, Kinds, LoadKinds,
      SessionKinds, Temporary, Part, ProviderSteps
<1>5. Justified'
  BY <1>1, <1>2, <1>3, Numbers
  DEF ReleaseInfo, Goto, Obj, Forget, TypeOK, Justified, Kinds, LoadKinds, SessionKinds,
      Temporary, Part, ProviderSteps, PortSteps, BuildSteps, Control, Total
<1>6. Sized'
  BY <1>1, <1>2 DEF ReleaseInfo, Goto, Obj, Forget, Sized, Fits, Total, Control
<1>7. /\ pc = "releaseInfo" /\ cur \in Sessions /\ cur' = cur /\ ports' = ports /\ loaded' = loaded
      /\ 1 <= i /\ i <= Total(cur) /\ Total(cur) \in Nat /\ i \in Nat
      /\ \A s \in Sessions : Total(s)' = Total(s)
      /\ \A o \in live : o # Obj("info") => o \in live'
      /\ \/ i = Total(cur) /\ pc' = "check" /\ i' = 0
         \/ i # Total(cur) /\ pc' = "name" /\ i' = i + 1
  BY <1>1, <1>2, Totals DEF ReleaseInfo, Goto, Control, PortSteps, TypeOK, Total
<1>8. Built'
  <2>1. \A p \in 1 .. i : <<"name", cur, p>> \in live'
    <3>1. \A p \in 1 .. i - 1 : <<"name", cur, p>> \in live
      BY <1>1, <1>7 DEF Built, PortSteps
    <3>2. <<"name", cur, i>> \in live
      BY <1>1, <1>7 DEF Built, PortSteps
    <3> QED
      BY <1>7, <3>1, <3>2 DEF Obj
  <2>2. /\ Obj("session") \in live' /\ Obj("handle") \in live'
        /\ Obj("ports") \in live' /\ Obj("names") \in live' /\ Obj("options") \in live'
    BY <1>1, <1>7 DEF Built, PortSteps, Obj
  <2>3. \A s \in loaded : Complete(s)'
    BY <1>1, <1>7 DEF TypeOK, Built, Complete, Obj
  <2>4. CASE i = Total(cur) /\ pc' = "check"
    BY <1>7, <2>1, <2>2, <2>3, <2>4 DEF Built, Complete, PortSteps, Obj
  <2>5. CASE pc' = "name" /\ i' = i + 1
    <3>1. i' - 1 = i
      BY <1>7, <2>5
    <3> QED
      BY <1>7, <2>1, <2>2, <2>3, <2>5, <3>1 DEF Built, PortSteps, Obj
  <2> QED
    BY <1>7, <2>4, <2>5
<1>9. Control'
  BY <1>1, <1>7 DEF Control, ProviderSteps, PortSteps
<1> QED
  BY <1>3, <1>4, <1>5, <1>6, <1>8, <1>9 DEF Inv

\* The cleanup finds all that the load has made for its session.
LEMMA LoadFailInv ==
  ASSUME Inv, LoadFail
  PROVE  Inv'
<1>1. TypeOK /\ Tracked /\ Justified /\ Sized /\ Built /\ Control
  BY DEF Inv
<1>2. (pc # "idle" => cur \in Sessions) /\ None \notin Sessions
  BY <1>1, ModelLoadAssumption DEF ModelLoadAssumption, TypeOK, Control
<1>3. TypeOK'
  BY <1>1, <1>2, Numbers, Totals
  DEF LoadFail, Goto, Obj, Freed, Structure, Walked, TypeOK, Control, Kinds, LoadKinds,
      SessionKinds, Steps, Default, PortSteps
<1>4. Tracked'
  BY <1>1, <1>2
  DEF LoadFail, Goto, Obj, Freed, Structure, Walked, Tracked, TypeOK, Justified, Kinds,
      LoadKinds, SessionKinds, Temporary, Part, ProviderSteps
<1>5. Justified'
  <2> SUFFICES ASSUME NEW k \in Kinds, NEW r \in Sessions, NEW j \in Index, <<k, r, j>> \in live'
               PROVE  /\ k \in LoadKinds => r = cur' /\ Temporary(k, j)'
                      /\ k \in SessionKinds => Part(k, r, j)'
    BY DEF Justified
  <2>1. <<k, r, j>> \in live => /\ k \in LoadKinds => r = cur /\ Temporary(k, j)
                                /\ k \in SessionKinds => Part(k, r, j)
    BY <1>1 DEF Justified
  <2>2. ASSUME k \in LoadKinds PROVE r = cur' /\ Temporary(k, j)'
    BY <1>1, <1>2, <2>1, <2>2, Numbers
    DEF LoadFail, Goto, Obj, Freed, Structure, Walked, Tracked, LoadKinds, Temporary,
        ProviderSteps, BuildSteps, PortSteps
  <2>3. ASSUME k \in SessionKinds PROVE Part(k, r, j)'
    BY <1>1, <1>2, <2>1, <2>3
    DEF LoadFail, Goto, Obj, Freed, Structure, Walked, Tracked, SessionKinds, Part, BuildSteps,
        PortSteps, Total, Control
  <2> QED
    BY <2>2, <2>3
<1>6. Sized'
  BY <1>1, <1>2 DEF LoadFail, Goto, Obj, Freed, Structure, Walked, Sized, Fits, Total, Control
<1>7. Built'
  BY <1>1, <1>2
  DEF LoadFail, Goto, Obj, Freed, Structure, Walked, TypeOK, Built, Complete, Total, PortSteps,
      Control
<1>8. Control'
  BY <1>1, <1>2
  DEF LoadFail, Goto, Obj, Freed, Structure, Walked, TypeOK, Control, Total, Fits, PortSteps,
      ProviderSteps, RankValid
<1> QED
  BY <1>3, <1>4, <1>5, <1>6, <1>7, <1>8 DEF Inv

\* The status of oc_load goes.
LEMMA LoadErrorInv ==
  ASSUME Inv, LoadError
  PROVE  Inv'
<1>1. TypeOK /\ Tracked /\ Justified /\ Sized /\ Built /\ Control
  BY DEF Inv
<1>2. (pc # "idle" => cur \in Sessions) /\ None \notin Sessions
  BY <1>1, ModelLoadAssumption DEF ModelLoadAssumption, TypeOK, Control
<1>3. TypeOK'
  BY <1>1, <1>2, Numbers, Totals
  DEF LoadError, Goto, Obj, Release, TypeOK, Control, Kinds, LoadKinds, SessionKinds, Steps,
      Default, PortSteps
<1>4. Tracked'
  BY <1>1, <1>2
  DEF LoadError, Goto, Obj, Release, Tracked, TypeOK, Justified, Kinds, LoadKinds, SessionKinds,
      Temporary, Part, ProviderSteps
<1>5. Justified'
  <2> SUFFICES ASSUME NEW k \in Kinds, NEW r \in Sessions, NEW j \in Index, <<k, r, j>> \in live'
               PROVE  /\ k \in LoadKinds => r = cur' /\ Temporary(k, j)'
                      /\ k \in SessionKinds => Part(k, r, j)'
    BY DEF Justified
  <2>1. <<k, r, j>> \in live => /\ k \in LoadKinds => r = cur /\ Temporary(k, j)
                                /\ k \in SessionKinds => Part(k, r, j)
    BY <1>1 DEF Justified
  <2>2. ASSUME k \in LoadKinds PROVE r = cur' /\ Temporary(k, j)'
    BY <1>1, <1>2, <2>1, <2>2, Numbers
    DEF LoadError, Goto, Obj, Release, Tracked, LoadKinds, Temporary, ProviderSteps, BuildSteps,
        PortSteps
  <2>3. ASSUME k \in SessionKinds PROVE Part(k, r, j)'
    BY <1>1, <1>2, <2>1, <2>3
    DEF LoadError, Goto, Obj, Release, Tracked, SessionKinds, Part, BuildSteps, PortSteps,
        Total, Control
  <2> QED
    BY <2>2, <2>3
<1>6. Sized'
  BY <1>1, <1>2 DEF LoadError, Goto, Obj, Release, Sized, Fits, Total, Control
<1>7. Built'
  BY <1>1, <1>2
  DEF LoadError, Goto, Obj, Release, TypeOK, Built, Complete, Total, PortSteps, Control
<1>8. Control'
  BY <1>1, <1>2
  DEF LoadError, Goto, Obj, Release, TypeOK, Control, Total, Fits, PortSteps, ProviderSteps,
      RankValid
<1> QED
  BY <1>3, <1>4, <1>5, <1>6, <1>7, <1>8 DEF Inv

\* The session is kept as it is, or all its parts go.
LEMMA CheckTypesInv ==
  ASSUME Inv, CheckTypes
  PROVE  Inv'
<1>1. TypeOK /\ Tracked /\ Justified /\ Sized /\ Built /\ Control
  BY DEF Inv
<1>2. (pc # "idle" => cur \in Sessions) /\ None \notin Sessions
  BY <1>1, ModelLoadAssumption DEF ModelLoadAssumption, TypeOK, Control
<1>3. TypeOK'
  BY <1>1, <1>2, Numbers, Totals
  DEF CheckTypes, Goto, Keep, Freed, Structure, Walked, TypeOK, Control, Kinds, LoadKinds,
      SessionKinds, Steps, Default, PortSteps
<1>4. Tracked'
  <2>1. CASE Keep
    BY <1>1, <2>1 DEF Keep, Tracked
  <2>2. CASE live' = live \ Freed(cur) /\ ptrs' = ptrs \ Structure(cur)
    <3>1. \A o \in live : o \in Freed(cur) <=> o \in Structure(cur)
      BY <1>1, <1>2
      DEF Freed, Structure, Walked, Tracked, TypeOK, Justified, Kinds, SessionKinds, Part
    <3> QED
      BY <1>1, <2>2, <3>1 DEF Tracked
  <2> QED
    BY <2>1, <2>2 DEF CheckTypes
<1>5. Justified'
  <2> SUFFICES ASSUME NEW k \in Kinds, NEW r \in Sessions, NEW j \in Index, <<k, r, j>> \in live'
               PROVE  /\ k \in LoadKinds => r = cur' /\ Temporary(k, j)'
                      /\ k \in SessionKinds => Part(k, r, j)'
    BY DEF Justified
  <2>1. <<k, r, j>> \in live => /\ k \in LoadKinds => r = cur /\ Temporary(k, j)
                                /\ k \in SessionKinds => Part(k, r, j)
    BY <1>1 DEF Justified
  <2>2. ASSUME k \in LoadKinds PROVE r = cur' /\ Temporary(k, j)'
    BY <1>1, <1>2, <2>1, <2>2, Numbers
    DEF CheckTypes, Goto, Keep, Freed, Structure, Walked, Tracked, LoadKinds, Temporary,
        ProviderSteps, BuildSteps, PortSteps
  <2>3. ASSUME k \in SessionKinds PROVE Part(k, r, j)'
    BY <1>1, <1>2, <2>1, <2>3
    DEF CheckTypes, Goto, Keep, Freed, Structure, Walked, Tracked, SessionKinds, Part,
        BuildSteps, PortSteps, Total, Control
  <2> QED
    BY <2>2, <2>3
<1>6. Sized'
  BY <1>1, <1>2
  DEF CheckTypes, Goto, Keep, Freed, Structure, Walked, Sized, Fits, Total, Control
<1>7. Built'
  <2>1. pc = "check" /\ pc' = "finish" /\ ports' = ports /\ cur \in Sessions /\ cur \notin loaded
    BY <1>1, <1>2 DEF CheckTypes, Goto, Control
  <2>2. ASSUME NEW s \in loaded' PROVE Complete(s)'
    <3>1. Complete(s)
      BY <1>1, <2>1 DEF CheckTypes, Built
    <3>2. CASE live' = live
      BY <2>1, <3>1, <3>2 DEF Complete, Total
    <3>3. CASE live' = live \ Freed(cur) /\ loaded' = loaded
      <4>1. s # cur /\ \A o \in Freed(cur) : o[2] = cur
        BY <2>1, <3>3 DEF Freed
      <4> QED
        BY <2>1, <3>1, <3>3, <4>1 DEF Complete, Total
    <3> QED
      BY <3>2, <3>3 DEF CheckTypes, Keep
  <2>3. Obj("options") \in live'
    BY <1>1, <2>1 DEF CheckTypes, Keep, Freed, Walked, Built, Obj
  <2> QED
    BY <2>1, <2>2, <2>3 DEF CheckTypes, Built, PortSteps, Obj
<1>8. Control'
  BY <1>1, <1>2
  DEF CheckTypes, Goto, Keep, Freed, Structure, Walked, TypeOK, Control, Total, Fits, PortSteps,
      ProviderSteps, RankValid
<1> QED
  BY <1>3, <1>4, <1>5, <1>6, <1>7, <1>8 DEF Inv

\* The path and the options go.
LEMMA FinishInv ==
  ASSUME Inv, Finish
  PROVE  Inv'
<1>1. TypeOK /\ Tracked /\ Justified /\ Sized /\ Built /\ Control
  BY DEF Inv
<1>2. (pc # "idle" => cur \in Sessions) /\ None \notin Sessions
  BY <1>1, ModelLoadAssumption DEF ModelLoadAssumption, TypeOK, Control
<1>3. TypeOK'
  BY <1>1, <1>2, Numbers, Totals
  DEF Finish, Goto, Obj, Release, TypeOK, Control, Kinds, LoadKinds, SessionKinds, Steps,
      Default, PortSteps
<1>4. Tracked'
  BY <1>1, <1>2
  DEF Finish, Goto, Obj, Release, Tracked, TypeOK, Justified, Kinds, LoadKinds, SessionKinds,
      Temporary, Part, ProviderSteps
<1>5. Justified'
  <2> SUFFICES ASSUME NEW k \in Kinds, NEW r \in Sessions, NEW j \in Index, <<k, r, j>> \in live'
               PROVE  /\ k \in LoadKinds => r = cur' /\ Temporary(k, j)'
                      /\ k \in SessionKinds => Part(k, r, j)'
    BY DEF Justified
  <2>1. <<k, r, j>> \in live => /\ k \in LoadKinds => r = cur /\ Temporary(k, j)
                                /\ k \in SessionKinds => Part(k, r, j)
    BY <1>1 DEF Justified
  <2>2. ASSUME k \in LoadKinds PROVE r = cur' /\ Temporary(k, j)'
    BY <1>1, <1>2, <2>1, <2>2, Numbers
    DEF Finish, Goto, Obj, Release, Tracked, LoadKinds, Temporary, ProviderSteps, BuildSteps,
        PortSteps
  <2>3. ASSUME k \in SessionKinds PROVE Part(k, r, j)'
    BY <1>1, <1>2, <2>1, <2>3
    DEF Finish, Goto, Obj, Release, Tracked, SessionKinds, Part, BuildSteps, PortSteps, Total,
        Control
  <2> QED
    BY <2>2, <2>3
<1>6. Sized'
  BY <1>1, <1>2 DEF Finish, Goto, Obj, Release, Sized, Fits, Total, Control
<1>7. Built'
  BY <1>1, <1>2
  DEF Finish, Goto, Obj, Release, TypeOK, Built, Complete, Total, PortSteps, Control
<1>8. Control'
  BY <1>1, <1>2
  DEF Finish, Goto, Obj, Release, TypeOK, Control, Total, Fits, PortSteps, ProviderSteps,
      RankValid
<1> QED
  BY <1>3, <1>4, <1>5, <1>6, <1>7, <1>8 DEF Inv

\* Nothing exists for the next load yet.
LEMMA LoadStartInv ==
  ASSUME Inv, NEW s \in Sessions, LoadStart(s)
  PROVE  Inv'
<1>1. TypeOK /\ Tracked /\ Justified /\ Sized /\ Built /\ Control
  BY DEF Inv
<1>2. (pc # "idle" => cur \in Sessions) /\ None \notin Sessions
  BY <1>1, ModelLoadAssumption DEF ModelLoadAssumption, TypeOK, Control
<1>3. TypeOK'
  <2>1. pc' \in Steps /\ cur' \in Sessions \cup {None}
    BY DEF LoadStart, Goto, Steps
  <2>2. asked' \in [threads : Int, level : Nat]
    BY ModelLoadAssumption DEF ModelLoadAssumption, LoadStart
  <2> QED
    BY <1>1, <2>1, <2>2 DEF LoadStart, TypeOK
<1>4. Tracked'
  BY <1>1, <1>2
  DEF LoadStart, Goto, Tracked, TypeOK, Justified, Kinds, LoadKinds, SessionKinds, Temporary,
      Part, ProviderSteps
<1>5. Justified'
  BY <1>1, <1>2, <1>3, Numbers
  DEF LoadStart, Goto, TypeOK, Justified, Kinds, LoadKinds, SessionKinds, Temporary, Part,
      ProviderSteps, PortSteps, BuildSteps, Control, Total
<1>6. Sized'
  BY <1>1, <1>2 DEF LoadStart, Goto, Sized, Fits, Total, Control
<1>7. Built'
  BY <1>1, <1>2 DEF LoadStart, Goto, TypeOK, Built, Complete, Total, PortSteps, Control
<1>8. Control'
  BY <1>1, <1>2
  DEF LoadStart, Goto, TypeOK, Control, Total, Fits, PortSteps, ProviderSteps, RankValid
<1> QED
  BY <1>3, <1>4, <1>5, <1>6, <1>7, <1>8 DEF Inv

\* All parts of a closed session go, and nothing else.
LEMMA SessionFreeInv ==
  ASSUME Inv, NEW s \in Sessions, SessionFree(s)
  PROVE  Inv'
<1>1. TypeOK /\ Tracked /\ Justified /\ Sized /\ Built /\ Control
  BY DEF Inv
<1>2. (pc # "idle" => cur \in Sessions) /\ None \notin Sessions
  BY <1>1, ModelLoadAssumption DEF ModelLoadAssumption, TypeOK, Control
<1>3. TypeOK'
  BY <1>1, <1>2, Numbers, Totals
  DEF SessionFree, Freed, Structure, Walked, TypeOK, Control, Kinds, LoadKinds, SessionKinds,
      Steps, Default, PortSteps
<1>4. Tracked'
  BY <1>1, <1>2
  DEF SessionFree, Freed, Structure, Walked, Tracked, TypeOK, Justified, Kinds, LoadKinds,
      SessionKinds, Temporary, Part, ProviderSteps
<1>5. Justified'
  <2> SUFFICES ASSUME NEW k \in Kinds, NEW r \in Sessions, NEW j \in Index, <<k, r, j>> \in live'
               PROVE  /\ k \in LoadKinds => r = cur' /\ Temporary(k, j)'
                      /\ k \in SessionKinds => Part(k, r, j)'
    BY DEF Justified
  <2>1. <<k, r, j>> \in live => /\ k \in LoadKinds => r = cur /\ Temporary(k, j)
                                /\ k \in SessionKinds => Part(k, r, j)
    BY <1>1 DEF Justified
  <2>2. ASSUME k \in LoadKinds PROVE r = cur' /\ Temporary(k, j)'
    BY <1>1, <1>2, <2>1, <2>2, Numbers
    DEF SessionFree, Freed, Structure, Walked, Tracked, LoadKinds, Temporary, ProviderSteps,
        BuildSteps, PortSteps
  <2>3. ASSUME k \in SessionKinds PROVE Part(k, r, j)'
    BY <1>1, <1>2, <2>1, <2>3
    DEF SessionFree, Freed, Structure, Walked, Tracked, SessionKinds, Part, BuildSteps,
        PortSteps, Total, Control
  <2> QED
    BY <2>2, <2>3
<1>6. Sized'
  BY <1>1, <1>2 DEF SessionFree, Freed, Structure, Walked, Sized, Fits, Total, Control
<1>7. Built'
  <2>1. /\ pc' = pc /\ cur' = cur /\ i' = i /\ ports' = ports /\ loaded' = loaded \ {s}
        /\ s # cur /\ \A o \in live : o[2] # s => o \in live'
    BY DEF SessionFree, Freed
  <2>2. \A r \in Sessions \ {s} : Complete(r) => Complete(r)'
    BY <2>1, StillComplete
  <2>3. \A r \in loaded' : Complete(r)'
    BY <1>1, <2>1, <2>2 DEF TypeOK, Built
  <2>4. pc = "check" => Complete(cur)'
    BY <1>1, <1>2, <2>1, <2>2 DEF Built
  <2> QED
    BY <1>1, <2>1, <2>3, <2>4 DEF Built, Obj, PortSteps
<1>8. Control'
  BY <1>1, <1>2
  DEF SessionFree, Freed, Structure, Walked, TypeOK, Control, Total, Fits, PortSteps,
      ProviderSteps, RankValid
<1> QED
  BY <1>3, <1>4, <1>5, <1>6, <1>7, <1>8 DEF Inv

-----------------------------------------------------------------------------
(* The invariant.                                                          *)

\* Nothing exists at first.
LEMMA InitInv == Init => Inv
<1> SUFFICES ASSUME Init PROVE Inv
  OBVIOUS
<1>1. TypeOK
  <2>1. SIZE_MAX \in Nat
    BY Numbers
  <2>2. asked \in [threads : Int, level : Nat] /\ pc \in Steps
    BY DEF Init, Default, Steps
  <2>3. ports \in [Sessions -> [inputs : 0 .. SIZE_MAX, outputs : 0 .. SIZE_MAX]]
    BY <2>1 DEF Init
  <2>4. failed \in BOOLEAN
    BY DEF Init
  <2> QED
    BY <2>1, <2>2, <2>3, <2>4 DEF Init, TypeOK
<1>2. Tracked /\ Justified /\ Sized
  BY DEF Init, Tracked, Justified, Sized
<1>3. Built /\ Control
  BY ModelLoadAssumption DEF ModelLoadAssumption, Init, Built, Control, ProviderSteps, PortSteps
<1> QED
  BY <1>1, <1>2, <1>3 DEF Inv

\* Every step preserves the invariant.
LEMMA NextInv == Inv /\ [Next]_vars => Inv'
<1> SUFFICES ASSUME Inv, [Next]_vars PROVE Inv'
  OBVIOUS
<1>1. CASE Next
  BY <1>1, OptionsNewInv, OptionsSetInv, OptionsFailedInv, NextEntryInv, SetEntryInv,
     EntryFreeInv,
     NextProviderInv, NextPairInv, ProviderNewInv, ProviderUpdateInv, ProviderAppendInv,
     ProviderReleaseInv, ProviderFreeInv, LoadPathInv, SessionAllocInv, WidenPathInv,
     CreateSessionInv, GetCountsInv, AllocTablesInv, GetNameInv, GetTypeInfoInv, DescribeInv,
     AllocShapeInv, GetDimensionsInv, ReleaseInfoInv, LoadFailInv, LoadErrorInv, CheckTypesInv,
     FinishInv, LoadStartInv, SessionFreeInv
  DEF Next
<1>2. CASE UNCHANGED vars
  <2>1. TypeOK' /\ Tracked' /\ Justified'
    BY <1>2 DEF vars, Inv, TypeOK, Tracked, Justified, Part, Temporary, Total
  <2>2. Sized' /\ Built' /\ Control'
    BY <1>2 DEF vars, Inv, Sized, Fits, Total, Built, Complete, Obj, Control, RankValid
  <2> QED
    BY <2>1, <2>2 DEF Inv
<1> QED
  BY <1>1, <1>2

\* The invariant holds in every reachable state.
THEOREM Invariance == Spec => []Inv
<1> QED
  BY InitInv, NextInv, PTL DEF Spec

-----------------------------------------------------------------------------
(* The theorems.                                                           *)

\* Every variable keeps its type.
THEOREM TypeCorrect == Spec => []TypeOK
  BY Invariance, PTL DEF Inv

\* Whatever fails, nothing is lost and no pointer outlives what it points to.
THEOREM NothingLost == Spec => []Tracked
  BY Invariance, PTL DEF Inv

\* A load leaves a complete session or nothing at all.
THEOREM AllOrNothing == Spec => []LoadsAllOrNothing
<1>1. ASSUME Inv, pc = "idle", NEW o \in live PROVE o[2] \in loaded /\ o[1] \in SessionKinds
  <2>1. PICK k \in Kinds, s \in Sessions, j \in Index : o = <<k, s, j>>
    BY <1>1 DEF Inv, TypeOK
  <2>2. /\ k \in LoadKinds => s = cur /\ Temporary(k, j)
        /\ k \in SessionKinds => Part(k, s, j)
    BY <1>1, <2>1 DEF Inv, Justified
  <2>3. k \notin LoadKinds
    BY <1>1, <2>2, ModelLoadAssumption DEF ModelLoadAssumption, Inv, Control
  <2> QED
    BY <1>1, <2>1, <2>2, <2>3 DEF Kinds, Part, BuildSteps, PortSteps
<1>2. ASSUME Inv, NEW s \in loaded
      PROVE  {<<k, s, 0>> : k \in {"session", "handle", "ports", "names"}}
             \cup {<<"name", s, p>> : p \in 1 .. ports[s].inputs + ports[s].outputs} \subseteq live
  <2>1. Complete(s) /\ s \in Sessions
    BY <1>2 DEF Inv, Built, TypeOK
  <2>2. Total(s) = ports[s].inputs + ports[s].outputs
    BY <1>2, <2>1 DEF Inv, Sized, Complete, Fits
  <2> QED
    BY <2>1, <2>2 DEF Complete
<1>3. Inv => LoadsAllOrNothing
  BY <1>1, <1>2 DEF LoadsAllOrNothing
<1> QED
  BY <1>3, Invariance, PTL

\* What does not exceed a quotient can be multiplied by the divisor.
LEMMA Product ==
  ASSUME NEW n \in Nat, NEW m \in Nat, NEW d \in Nat \ {0}, n <= m \div d
  PROVE  n * d <= m
  OBVIOUS

\* No table and no buffer is shorter than what is written to it, for every width
\* of size_t and every size of an element.
THEOREM TablesWide == Spec => []TablesFit
<1>0. /\ Word \in Nat \ {0} /\ PortSize \in Nat \ {0} /\ DimSize \in Nat \ {0}
      /\ SIZE_MAX \in Nat /\ SIZE_MAX < Word
  BY ModelLoadAssumption DEF ModelLoadAssumption, SIZE_MAX
<1>1. ASSUME Inv, NEW s \in Sessions, <<"ports", s, 0>> \in live
      PROVE  Total(s) = ports[s].inputs + ports[s].outputs /\ Total(s) * PortSize < Word
  <2>1. Fits(s) /\ Total(s) \in Nat
    BY <1>1, Totals DEF Inv, Sized
  <2>2. Total(s) * PortSize <= SIZE_MAX
    BY <1>0, <2>1, Product DEF Fits
  <2>3. Total(s) * PortSize \in Nat
    BY <1>0, <2>1
  <2> QED
    BY <1>0, <2>1, <2>2, <2>3 DEF Fits
<1>2. ASSUME Inv, pc = "dimensions" PROVE room >= rank * DimSize
  <2>1. rank \in Nat /\ rank <= SIZE_MAX \div DimSize /\ room = Wrap(rank * DimSize)
    BY <1>0, <1>2 DEF Inv, TypeOK, Control, RankValid
  <2>2. rank * DimSize \in Nat /\ rank * DimSize <= SIZE_MAX
    BY <1>0, <2>1, Product
  <2>3. Wrap(rank * DimSize) = rank * DimSize
    BY <1>0, <2>2 DEF Wrap
  <2> QED
    BY <2>1, <2>2, <2>3
<1>3. Inv => TablesFit
  BY <1>1, <1>2 DEF TablesFit
<1> QED
  BY <1>3, Invariance, PTL

\* What load accepts survives its way into a C int, for every width of an int.
THEOREM OptionsKept == Spec => []OptionsExact
<1>1. ASSUME Inv, pc \in {"options", "configure"}
      PROVE  Given = asked /\ Given.level \in 0 .. 3
  <2>1. /\ asked \in [threads : Int, level : Nat] /\ IntSize \in Nat \ {0}
        /\ 0 <= asked.threads /\ asked.threads < IntSize /\ asked.level <= 3
    BY <1>1, ModelLoadAssumption DEF ModelLoadAssumption, Inv, TypeOK, Control, Acceptable
  <2>2. ((asked.threads + IntSize) % (2 * IntSize)) - IntSize = asked.threads
    <3>1. asked.threads + IntSize \in 0 .. 2 * IntSize - 1
      BY <2>1
    <3>2. (asked.threads + IntSize) % (2 * IntSize) = asked.threads + IntSize
      BY <2>1, <3>1
    <3> QED
      BY <2>1, <3>2
  <2>3. Given = asked
    BY <2>1, <2>2 DEF Given
  <2> QED
    BY <2>1, <2>3
<1>2. Inv => OptionsExact
  BY <1>1 DEF OptionsExact
<1> QED
  BY <1>2, Invariance, PTL

-----------------------------------------------------------------------------
(* Refinement: what Runtime relies on when it loads a model.               *)

\* The options that exist and are not about to be released by oc_options_new.
Configured == \E s \in Sessions : <<"options", s, 0>> \in live /\ pc # "configure"
Handles == loaded \cup (IF pc = "check" THEN {cur} ELSE {})

\* The invariant tells at which steps they exist.
LEMMA InvConfigured ==
  Inv => (Configured <=> pc \notin {"idle", "options", "optionsFailed", "configure"})
<1> SUFFICES ASSUME Inv
             PROVE  Configured <=> pc \notin {"idle", "options", "optionsFailed", "configure"}
  OBVIOUS
<1>1. ASSUME pc \notin {"idle", "options", "optionsFailed", "configure"} PROVE Configured
  BY <1>1 DEF Inv, TypeOK, Built, Control, Obj, Configured
<1>2. ASSUME Configured PROVE pc \notin {"idle", "options", "optionsFailed", "configure"}
  BY <1>2, Numbers DEF Inv, Justified, Temporary, Configured, Kinds, LoadKinds
<1> QED
  BY <1>1, <1>2

\* And so after every step.
LEMMA InvConfiguredNext ==
  Inv' => (Configured <=> pc \notin {"idle", "options", "optionsFailed", "configure"})'
  BY InvConfigured, PTL

\* Most steps show nothing of themselves.
LEMMA Hidden ==
  ASSUME Configured' <=> Configured, Handles' = Handles, cur' = cur
  PROVE  UNCHANGED Contract!vars
  BY DEF Contract!vars, Configured, Handles

\* Every step is one of LoadContract, or none.
LEMMA NextContract == ASSUME Inv, Inv', [Next]_vars PROVE [Contract!Next]_(Contract!vars)
<1>0. /\ Configured <=> pc \notin {"idle", "options", "optionsFailed", "configure"}
      /\ Configured' <=> pc' \notin {"idle", "options", "optionsFailed", "configure"}
      /\ TypeOK /\ Control
  BY InvConfigured, InvConfiguredNext DEF Inv
<1>1. ASSUME NEW s \in Sessions, LoadStart(s) PROVE [Contract!Next]_(Contract!vars)
  <2>1. /\ cur = None /\ s \notin Handles /\ cur' = s
        /\ (Configured' <=> Configured) /\ Handles' = Handles
    BY <1>0, <1>1 DEF LoadStart, Goto, Control, Handles
  <2>2. Contract!Begin(s)
    BY <2>1 DEF Contract!Begin, Configured, Handles
  <2> QED
    BY <2>2 DEF Contract!Next
<1>2. ASSUME NEW s \in Sessions, SessionFree(s) PROVE [Contract!Next]_(Contract!vars)
  <2>1. /\ s \in Handles /\ s # cur /\ Handles' = Handles \ {s}
        /\ cur' = cur /\ (Configured' <=> Configured)
    BY <1>0, <1>2 DEF SessionFree, Handles
  <2>2. Contract!Free(s)
    BY <2>1 DEF Contract!Free, Configured, Handles
  <2> QED
    BY <2>2 DEF Contract!Next
<1>3. ASSUME OptionsSet PROVE [Contract!Next]_(Contract!vars)
  <2>1. pc = "configure" /\ pc' \in {"entries", "optionsFailed"} /\ Handles' = Handles /\ cur' = cur
        /\ cur \notin Handles /\ cur # None
    BY <1>0, <1>3 DEF OptionsSet, AfterRelease, Goto, Handles, Control
  <2>2. CASE pc' = "entries"
    <3>1. ~Configured /\ Configured'
      BY <1>0, <2>1, <2>2
    <3>2. Contract!Configure
      BY <2>1, <3>1 DEF Contract!Configure, Configured, Handles
    <3> QED
      BY <3>2 DEF Contract!Next
  <2>3. CASE pc' = "optionsFailed"
    BY <1>0, <2>1, <2>3, Hidden
  <2> QED
    BY <2>1, <2>2, <2>3
<1>4. ASSUME OptionsFailed \/ Finish PROVE [Contract!Next]_(Contract!vars)
  <2>1. cur # None /\ cur' = None /\ ~Configured' /\ Handles' = Handles
    BY <1>0, <1>4 DEF OptionsFailed, Finish, Goto, Control, Handles
  <2>2. Contract!Finish
    BY <2>1 DEF Contract!Finish, Configured, Handles
  <2> QED
    BY <2>2 DEF Contract!Next
<1>5. ASSUME ReleaseInfo PROVE [Contract!Next]_(Contract!vars)
  <2>1. /\ pc = "releaseInfo" /\ pc' \in {"check", "name"}
        /\ cur' = cur /\ loaded' = loaded /\ cur \notin loaded
    BY <1>0, <1>5 DEF ReleaseInfo, Goto, Control
  <2>2. CASE pc' = "check"
    <3>1. Configured /\ Configured' /\ cur \notin Handles /\ Handles' = Handles \cup {cur}
      BY <1>0, <2>1, <2>2 DEF Handles
    <3>2. Contract!Create
      BY <2>1, <3>1 DEF Contract!Create, Configured, Handles
    <3> QED
      BY <3>2 DEF Contract!Next
  <2>3. CASE pc' = "name"
    BY <1>0, <2>1, <2>3, Hidden DEF Handles
  <2> QED
    BY <2>1, <2>2, <2>3
<1>6. ASSUME CheckTypes PROVE [Contract!Next]_(Contract!vars)
  <2>1. pc = "check" /\ pc' = "finish" /\ cur' = cur /\ cur \notin loaded /\ Configured /\ Configured'
    BY <1>0, <1>6 DEF CheckTypes, Goto, Control
  <2>2. CASE loaded' = loaded \cup {cur}
    BY <1>0, <2>1, <2>2, Hidden DEF Handles
  <2>3. CASE loaded' = loaded
    <3>1. cur \in Handles /\ Handles' = Handles \ {cur}
      BY <2>1, <2>3 DEF Handles
    <3>2. Contract!RollBack
      BY <2>1, <3>1 DEF Contract!RollBack, Configured, Handles
    <3> QED
      BY <3>2 DEF Contract!Next
  <2> QED
    BY <1>6, <2>2, <2>3 DEF CheckTypes
<1>7. ASSUME OptionsNew \/ NextEntry \/ SetEntry \/ EntryFree PROVE UNCHANGED Contract!vars
  BY <1>0, <1>7, Hidden DEF OptionsNew, NextEntry, SetEntry, EntryFree, Goto, Fails, Handles
<1>8. ASSUME NextProvider \/ NextPair \/ ProviderNew \/ ProviderUpdate \/ ProviderAppend
             \/ ProviderRelease \/ ProviderFree
      PROVE  UNCHANGED Contract!vars
  BY <1>0, <1>8, Hidden DEF NextProvider, NextPair, ProviderNew, ProviderUpdate, ProviderAppend,
                            ProviderRelease, ProviderFree, Goto, Fails, Handles
<1>9. ASSUME LoadPath \/ SessionAlloc \/ WidenPath \/ CreateSession \/ GetCounts \/ AllocTables
      PROVE  UNCHANGED Contract!vars
  BY <1>0, <1>9, Hidden
  DEF LoadPath, SessionAlloc, WidenPath, CreateSession, GetCounts, AllocTables,
                            Goto, Fails, Handles
<1>10. ASSUME GetName \/ GetTypeInfo \/ Describe \/ AllocShape \/ GetDimensions
              \/ LoadFail \/ LoadError
       PROVE  UNCHANGED Contract!vars
  BY <1>0, <1>10, Hidden
  DEF GetName, GetTypeInfo, Describe, AllocShape, GetDimensions, LoadFail,
                             LoadError, Goto, Fails, Handles
<1>11. CASE UNCHANGED vars
  BY <1>0, <1>11, Hidden DEF vars, Handles
<1> QED
  BY <1>1, <1>2, <1>3, <1>4, <1>5, <1>6, <1>7, <1>8, <1>9, <1>10, <1>11 DEF Next

\* A load ends with one session more or with none, and its options are read only
\* while they exist, whatever fails and whichever sessions are freed meanwhile.
THEOREM ContractKept == Spec => ImplementsContract
<1>1. Init => Contract!Init
  BY DEF Init, Contract!Init
<1>2. Inv /\ Inv' /\ [Next]_vars => [Contract!Next]_(Contract!vars)
  BY NextContract
<1> QED
  BY <1>1, <1>2, Invariance, PTL DEF Spec, ImplementsContract, Contract!Spec

=============================================================================
