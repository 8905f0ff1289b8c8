------------------------------ MODULE ModelLoad ------------------------------
(***************************************************************************)
(* Runtime.load and addProvider of runtime.go with what they call in       *)
(* bridge.c (oc_options_new, oc_config, oc_provider, oc_load), and         *)
(* oc_session_free, call by call, any of which may fail.  Loads exclude    *)
(* each other by r.mu; sessions loaded before are freed meanwhile.         *)
(*                                                                         *)
(* An object is <<k, s, i>>: of kind k, made by the load of s, the i-th of *)
(* its kind or the only one (i = 0).  live is what is allocated, ptrs what *)
(* the program's variables and structures point to.  Only cleanup that     *)
(* follows a pointer releases anything, so the two differ when a path      *)
(* forgets an object or keeps a pointer to a released one.                 *)
(*                                                                         *)
(* A size_t has the values below Word.  Names such as Forget_Dangling are  *)
(* faulty variants of the definition after them and not part of the model. *)
(***************************************************************************)
EXTENDS Integers

CONSTANTS
  Sessions,  \* native sessions, reused once freed
  None,      \* no session
  Word,      \* SIZE_MAX + 1
  PortSize,  \* sizeof(oc_port)
  DimSize,   \* sizeof(int64_t)
  IntSize,   \* INT32_MAX + 1
  Counts,    \* numbers of ports a model may report
  Ranks,     \* numbers of dimensions a port may report
  Threads,   \* thread counts a caller may ask for
  MaxPairs,  \* bound on the options of one provider
  Windows    \* the platform: paths are UTF-16

ASSUME ModelLoadAssumption ==
  /\ None \notin Sessions
  /\ {Word, PortSize, DimSize, IntSize} \subseteq Nat \ {0}
  /\ PortSize < Word /\ DimSize < Word
  /\ Counts \subseteq 0 .. Word - 1 /\ Ranks \subseteq 0 .. Word - 1
  /\ Threads \subseteq Int /\ MaxPairs \in Nat /\ Windows \in BOOLEAN

VARIABLES
  pc,      \* what the load does next
  cur,     \* the session it loads
  asked,   \* the thread count and graph optimization asked for
  failed,  \* err != nil in addProvider or for a config entry
  i,       \* the port or provider option a loop has reached
  rank,    \* the number of dimensions of that port
  room,    \* the bytes allocated for them
  ports,   \* inputs and outputs of each oc_session
  live, ptrs,
  loaded   \* native sessions that load has returned

vars == <<pc, cur, asked, failed, i, rank, room, ports, live, ptrs, loaded>>

SIZE_MAX == Word - 1
Wrap(n) == n % Word
Total(s) == Wrap(ports[s].inputs + ports[s].outputs)

\* What makes up an oc_session, and what a load needs temporarily.
SessionKinds == {"session", "handle", "ports", "names", "name", "shape"}
LoadKinds == {"options", "key", "value", "provider", "providerOptions", "path", "wide", "status", "info"}
Kinds == SessionKinds \cup LoadKinds
Index == 0 .. (SIZE_MAX \div PortSize) \cup 0 .. MaxPairs

Steps == {"idle", "options", "configure", "optionsFailed", "entries", "entry", "entryFree",
          "providers", "pairs", "provider", "update", "append", "releaseProvider", "providerFree",
          "path", "alloc", "widen", "create", "counts", "tables", "name", "info", "describe", "shape",
          "dimensions", "releaseInfo", "fail", "error", "check", "finish"}

TypeOK ==
  /\ pc \in Steps /\ cur \in Sessions \cup {None}
  /\ asked \in [threads : Int, level : Nat]
  /\ failed \in BOOLEAN
  /\ i \in Nat /\ rank \in 0 .. SIZE_MAX /\ room \in 0 .. SIZE_MAX
  /\ ports \in [Sessions -> [inputs : 0 .. SIZE_MAX, outputs : 0 .. SIZE_MAX]]
  /\ live \subseteq Kinds \X Sessions \X Index /\ ptrs \subseteq Kinds \X Sessions \X Index
  /\ loaded \subseteq Sessions

Default == [threads |-> 0, level |-> 0]
Init ==
  /\ pc = "idle" /\ cur = None /\ asked = Default /\ failed = FALSE
  /\ i = 0 /\ rank = 0 /\ room = 0
  /\ ports = [s \in Sessions |-> [inputs |-> 0, outputs |-> 0]]
  /\ live = {} /\ ptrs = {} /\ loaded = {}

Goto(step) == pc' = step
Obj(k) == <<k, cur, 0>>
Obtain(objects) == live' = live \cup objects /\ ptrs' = ptrs \cup objects
\* The variables that point to scope go out of scope, after what they point to
\* among freed is released.
Release(freed, scope) == live' = live \ (freed \cap ptrs) /\ ptrs' = ptrs \ scope
Keep == UNCHANGED <<live, ptrs>>
\* A call that fails with a status.
Fails(step) == Obtain({Obj("status")}) /\ Goto(step)

-----------------------------------------------------------------------------
(* load: the session options.                                              *)

\* Thread counts that no C int holds and unknown optimizations are refused.
Acceptable_Unchecked(n, level) == n >= 0 /\ level <= 3
Acceptable(n, level) == n >= 0 /\ n < IntSize /\ level <= 3
LoadStart(s) ==
  /\ pc = "idle" /\ s \notin loaded
  /\ \E n \in Threads, level \in 0 .. 4 :
       Acceptable(n, level) /\ asked' = [threads |-> n, level |-> level]
  /\ cur' = s /\ Goto("options")
  /\ UNCHANGED <<failed, i, rank, room, ports, live, ptrs, loaded>>

\* The oc_options that oc_options_new reads, its fields being C ints.
Given == [asked EXCEPT !.threads = ((@ + IntSize) % (2 * IntSize)) - IntSize]

OptionsNew ==
  /\ pc = "options"
  /\ \/ Obtain({Obj("options")}) /\ Goto("configure")
     \/ Fails("optionsFailed")
  /\ UNCHANGED <<cur, asked, failed, i, rank, room, ports, loaded>>

\* The four settings.  asked is of no more use.
AfterRelease_Ignored == "entries"
AfterRelease == "optionsFailed"
OptionsSet ==
  /\ pc = "configure"
  /\ \/ Goto("entries") /\ Keep
     \/ /\ live' = (live \ {Obj("options")}) \cup {Obj("status")}
        /\ ptrs' = (ptrs \ {Obj("options")}) \cup {Obj("status")}
        /\ Goto(AfterRelease)
  /\ asked' = Default
  /\ UNCHANGED <<cur, failed, i, rank, room, ports, loaded>>

\* nativeError; there are no options to free.
OptionsFailed ==
  /\ pc = "optionsFailed"
  /\ Release({Obj("status")}, {Obj("status")})
  /\ Goto("idle") /\ cur' = None /\ asked' = Default
  /\ UNCHANGED <<failed, i, rank, room, ports, loaded>>

\* One configuration entry: refused, or its strings made; or no more of them.
NextEntry ==
  /\ pc = "entries"
  /\ \/ Obtain({Obj("key"), Obj("value")}) /\ Goto("entry")
     \/ Goto("providers") /\ Keep
     \/ Goto("finish") /\ Keep
  /\ UNCHANGED <<cur, asked, failed, i, rank, room, ports, loaded>>

SetEntry ==
  /\ pc = "entry"
  /\ \/ failed' = FALSE /\ Goto("entryFree") /\ Keep
     \/ failed' = TRUE /\ Fails("entryFree")
  /\ UNCHANGED <<cur, asked, i, rank, room, ports, loaded>>

EntryStrings == {Obj("key"), Obj("value")}
EntryFree ==
  /\ pc = "entryFree"
  /\ Release(EntryStrings \cup {Obj("status")}, {Obj("key"), Obj("value"), Obj("status")})
  /\ Goto(IF failed THEN "finish" ELSE "entries")
  /\ failed' = FALSE
  /\ UNCHANGED <<cur, asked, i, rank, room, ports, loaded>>

-----------------------------------------------------------------------------
(* addProvider and oc_provider.                                            *)

NextProvider ==
  /\ pc = "providers"
  /\ \/ Obtain({Obj("provider")}) /\ i' = 0 /\ Goto("pairs")
     \/ (Goto("path") \/ Goto("finish")) /\ Keep /\ UNCHANGED i
  /\ UNCHANGED <<cur, asked, failed, rank, room, ports, loaded>>

\* The strings of one option, a refused option, or the end of the options.
NextPair ==
  /\ pc = "pairs"
  /\ \/ /\ i < MaxPairs /\ i' = i + 1
        /\ Obtain({<<"key", cur, i + 1>>, <<"value", cur, i + 1>>})
        /\ UNCHANGED <<pc, failed>>
     \/ failed' = TRUE /\ Goto("providerFree") /\ Keep /\ UNCHANGED i
     \/ Goto("provider") /\ Keep /\ UNCHANGED <<i, failed>>
  /\ UNCHANGED <<cur, asked, rank, room, ports, loaded>>

\* CUDA and TensorRT need an options object of their own, others do not.
ProviderNew ==
  /\ pc = "provider"
  /\ \/ Obtain({Obj("providerOptions")}) /\ Goto("update")
     \/ Fails("releaseProvider")
     \/ Goto("append") /\ Keep
  /\ UNCHANGED <<cur, asked, failed, i, rank, room, ports, loaded>>

ProviderUpdate ==
  /\ pc = "update"
  /\ \/ Goto("append") /\ Keep
     \/ Fails("releaseProvider")
  /\ UNCHANGED <<cur, asked, failed, i, rank, room, ports, loaded>>

ProviderAppend ==
  /\ pc = "append"
  /\ \/ Goto("releaseProvider") /\ Keep
     \/ Fails("releaseProvider")
  /\ UNCHANGED <<cur, asked, failed, i, rank, room, ports, loaded>>

ProviderRelease ==
  /\ pc = "releaseProvider"
  /\ Release({Obj("providerOptions")}, {Obj("providerOptions")})
  /\ failed' = (Obj("status") \in live)
  /\ Goto("providerFree")
  /\ UNCHANGED <<cur, asked, i, rank, room, ports, loaded>>

\* nativeError, then the deferred frees of all strings.
PairStrings == {<<k, cur, j>> : k \in {"key", "value"}, j \in 1 .. i}
ProviderFree ==
  /\ pc = "providerFree"
  /\ Release({Obj("status"), Obj("provider")} \cup PairStrings,
             {Obj("status"), Obj("provider")} \cup {o \in ptrs : o[1] \in {"key", "value"}})
  /\ Goto(IF failed THEN "finish" ELSE "providers")
  /\ failed' = FALSE /\ i' = 0
  /\ UNCHANGED <<cur, asked, rank, room, ports, loaded>>

-----------------------------------------------------------------------------
(* oc_load.                                                                *)

\* Load has a path, LoadBytes none.
LoadPath ==
  /\ pc = "path"
  /\ Obtain({Obj("path")}) \/ Keep
  /\ Goto("alloc")
  /\ UNCHANGED <<cur, asked, failed, i, rank, room, ports, loaded>>

SessionAlloc ==
  /\ pc = "alloc"
  /\ \/ /\ Obtain({Obj("session")})
        /\ Goto(IF Windows /\ Obj("path") \in ptrs THEN "widen" ELSE "create")
     \/ Fails("error")
  /\ ports' = [ports EXCEPT ![cur] = [inputs |-> 0, outputs |-> 0]]
  /\ UNCHANGED <<cur, asked, failed, i, rank, room, loaded>>

\* wide_path, of a path that may be invalid UTF-8.
WidenPath ==
  /\ pc = "widen"
  /\ \/ Obtain({Obj("wide")}) /\ Goto("create")
     \/ Fails("fail")
  /\ UNCHANGED <<cur, asked, failed, i, rank, room, ports, loaded>>

\* The wide path goes whether there is a session or not.
CreateSession ==
  /\ pc = "create"
  /\ \E made \in {"handle", "status"} :
       /\ live' = (live \ {Obj("wide")}) \cup {Obj(made)}
       /\ ptrs' = (ptrs \ {Obj("wide")}) \cup {Obj(made)}
       /\ Goto(IF made = "handle" THEN "counts" ELSE "fail")
  /\ UNCHANGED <<cur, asked, failed, i, rank, room, ports, loaded>>

\* The calls for the two counts, and the check of what they report.
CountsValid_Wrapped(ins, outs) == outs # 0 /\ Wrap(ins + outs) <= SIZE_MAX \div PortSize
CountsValid(ins, outs) ==
  LET n == Wrap(ins + outs) IN ~(n < ins) /\ outs # 0 /\ n <= SIZE_MAX \div PortSize
GetCounts ==
  /\ pc = "counts"
  /\ \/ \E ins, outs \in Counts :
          /\ ports' = [ports EXCEPT ![cur] = [inputs |-> ins, outputs |-> outs]]
          /\ IF CountsValid(ins, outs) THEN Goto("tables") /\ Keep ELSE Fails("fail")
     \/ Fails("fail") /\ UNCHANGED ports
  /\ UNCHANGED <<cur, asked, failed, i, rank, room, loaded>>

\* Both tables, or one of them or none if memory is short.
AllocTables ==
  /\ pc = "tables"
  /\ \/ Obtain({Obj("ports"), Obj("names")}) /\ Goto("name")
     \/ \E got \in {{}, {Obj("ports")}, {Obj("names")}} :
          Obtain(got \cup {Obj("status")}) /\ Goto("fail")
  /\ i' = 1
  /\ UNCHANGED <<cur, asked, failed, rank, room, ports, loaded>>

GetName ==
  /\ pc = "name"
  /\ \/ Obtain({<<"name", cur, i>>}) /\ Goto("info")
     \/ Fails("fail")
  /\ UNCHANGED <<cur, asked, failed, i, rank, room, ports, loaded>>

GetTypeInfo ==
  /\ pc = "info"
  /\ \/ Obtain({Obj("info")}) /\ Goto("describe")
     \/ Fails("fail")
  /\ UNCHANGED <<cur, asked, failed, i, rank, room, ports, loaded>>

\* Kind, element type and number of dimensions of the port.
Describe ==
  /\ pc = "describe"
  /\ \/ rank' \in Ranks /\ Keep /\ Goto(IF rank' = 0 THEN "releaseInfo" ELSE "shape")
     \/ Fails("fail") /\ UNCHANGED rank
  /\ UNCHANGED <<cur, asked, failed, i, room, ports, loaded>>

RankValid == rank <= SIZE_MAX \div DimSize
AllocShape ==
  /\ pc = "shape"
  /\ \/ /\ RankValid
        /\ Obtain({<<"shape", cur, i>>}) /\ room' = Wrap(rank * DimSize) /\ Goto("dimensions")
     \/ Fails("fail") /\ UNCHANGED room
  /\ UNCHANGED <<cur, asked, failed, i, rank, ports, loaded>>

GetDimensions ==
  /\ pc = "dimensions"
  /\ \/ Goto("releaseInfo") /\ Keep
     \/ Fails("fail")
  /\ room' = 0
  /\ UNCHANGED <<cur, asked, failed, i, rank, ports, loaded>>

\* Release the type information and forget it; then the next port or the end.
Forget_Dangling == ptrs
Forget == ptrs \ {Obj("info")}
ReleaseInfo ==
  /\ pc = "releaseInfo"
  /\ live' = live \ {Obj("info")} /\ ptrs' = Forget
  /\ rank' = 0
  /\ IF i = Total(cur) THEN Goto("check") /\ i' = 0 ELSE Goto("name") /\ i' = i + 1
  /\ UNCHANGED <<cur, asked, failed, room, ports, loaded>>

\* oc_session_free walks the structure of s, which is gone afterwards.
Walked_Names(s) == {o \in ptrs : o[1] = "name" /\ o[3] \in 1 .. Total(s)}
Walked(s) == {o \in ptrs : o[1] \in {"name", "shape"} /\ o[3] \in 1 .. Total(s)}
Freed(s) ==
  {o \in IF <<"ports", s, 0>> \in ptrs THEN Walked(s) ELSE {} : o[2] = s} \cup
  {o \in ptrs : o[2] = s /\ o[1] \in {"session", "handle", "ports", "names"}}
Structure(s) == {o \in ptrs : o[2] = s /\ o[1] \in SessionKinds}

\* The label fail: one cleanup path for a failure anywhere above.
LoadFail ==
  /\ pc = "fail"
  /\ live' = live \ (Freed(cur) \cup ({Obj("info")} \cap ptrs))
  /\ ptrs' = ptrs \ (Structure(cur) \cup {Obj("info")})
  /\ i' = 0 /\ rank' = 0 /\ Goto("error")
  /\ UNCHANGED <<cur, asked, failed, room, ports, loaded>>

-----------------------------------------------------------------------------
(* load after oc_load.                                                     *)

LoadError ==
  /\ pc = "error"
  /\ Release({Obj("status")}, {Obj("status")}) /\ Goto("finish")
  /\ UNCHANGED <<cur, asked, failed, i, rank, room, ports, loaded>>

\* Return the session, or free it because a port has an unsupported type.
CheckTypes ==
  /\ pc = "check" /\ Goto("finish")
  /\ \/ loaded' = loaded \cup {cur} /\ Keep
     \/ /\ live' = live \ Freed(cur) /\ ptrs' = ptrs \ Structure(cur)
        /\ UNCHANGED loaded
  /\ UNCHANGED <<cur, asked, failed, i, rank, room, ports>>

\* The deferred frees of the path and the options.
Finish ==
  /\ pc = "finish"
  /\ Release({Obj("path"), Obj("options")}, {Obj("path"), Obj("options")})
  /\ Goto("idle") /\ cur' = None
  /\ UNCHANGED <<asked, failed, i, rank, room, ports, loaded>>

\* Session.Close, of a session that load has returned to its caller.
SessionFree(s) ==
  /\ s \in loaded /\ s # cur
  /\ live' = live \ Freed(s) /\ ptrs' = ptrs \ Structure(s)
  /\ loaded' = loaded \ {s}
  /\ UNCHANGED <<pc, cur, asked, failed, i, rank, room, ports>>

Next ==
  \/ \E s \in Sessions : LoadStart(s) \/ SessionFree(s)
  \/ OptionsNew \/ OptionsSet \/ OptionsFailed \/ NextEntry \/ SetEntry \/ EntryFree
  \/ NextProvider \/ NextPair \/ ProviderNew \/ ProviderUpdate \/ ProviderAppend
  \/ ProviderRelease \/ ProviderFree
  \/ LoadPath \/ SessionAlloc \/ WidenPath \/ CreateSession \/ GetCounts \/ AllocTables
  \/ GetName \/ GetTypeInfo \/ Describe \/ AllocShape \/ GetDimensions \/ ReleaseInfo
  \/ LoadFail \/ LoadError \/ CheckTypes \/ Finish

Spec == Init /\ [][Next]_vars
-----------------------------------------------------------------------------
\* No path loses an object (it is live, but nothing points to it) or keeps a
\* pointer that a later cleanup would release again.
Tracked == live = ptrs

\* Between loads only the objects of loaded sessions exist, and each of these
\* sessions has all its parts.
LoadsAllOrNothing ==
  pc = "idle" =>
    /\ \A o \in live : o[2] \in loaded /\ o[1] \in SessionKinds
    /\ \A s \in loaded :
         {<<k, s, 0>> : k \in {"session", "handle", "ports", "names"}}
         \cup {<<"name", s, p>> : p \in 1 .. ports[s].inputs + ports[s].outputs} \subseteq live

\* The tables of a session are as long as it has ports and their size does not
\* wrap around, nor does that of the buffer GetDimensions fills.
TablesFit ==
  /\ \A s \in Sessions : <<"ports", s, 0>> \in live =>
       /\ Total(s) = ports[s].inputs + ports[s].outputs
       /\ Total(s) * PortSize < Word
  /\ pc = "dimensions" => room >= rank * DimSize

\* ORT is given the very thread count that was asked for, as a C int, and an
\* optimization the bridge has a level for.
OptionsExact == pc \in {"options", "configure"} => Given = asked /\ Given.level \in 0 .. 3
-----------------------------------------------------------------------------
\* A load as Runtime sees it.
Contract == INSTANCE LoadContract WITH
  loading <- cur,
  options <- \E s \in Sessions : <<"options", s, 0>> \in live /\ pc # "configure",
  handles <- loaded \cup (IF pc = "check" THEN {cur} ELSE {})

\* ModelLoad implements LoadContract.
ImplementsContract == Contract!Spec
=============================================================================
