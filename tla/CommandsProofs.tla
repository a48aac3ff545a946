----------------------------- MODULE CommandsProofs -----------------------------
(***************************************************************************)
(* Proofs about the commands, whatever the command lines, the objects and  *)
(* the other writers.                                                      *)
(*                                                                         *)
(* They implement OneChange: a command changes nothing but the one         *)
(* workload it settled on, and nothing at all unless it was asked to.      *)
(* What is needed beside the steps is that every call which writes comes   *)
(* after the name was settled, and that the keys are keys.  Of that        *)
(* workload they leave alone what they were not asked to change, and an    *)
(* apply what the operator cannot change: for that the invariant relates   *)
(* the manifest, what was read and what the cluster has.  And a command    *)
(* ends with one of the errors there are.                                  *)
(***************************************************************************)
EXTENDS Commands, FiniteSetTheorems, WellFoundedInduction, TLAPS

(* "No value" is not a key. *)
NoneIsNoKey == \A kind, ns, name : None # <<kind, ns, name>>

(* The Vertex objects of two pipelines do not share a name.  The code joins *)
(* the two names with a hyphen, so that this is an assumption about the     *)
(* names in use: vertex c of a-b and vertex b-c of a have the same object.  *)
ObjectNamesApart ==
  \A p, v, q, w : ObjectName(p, v) = ObjectName(q, w) => p = q

-----------------------------------------------------------------------------
(* The inductive invariant.                                                *)

KeyOfKind(kind, k) == k = <<kind, k[2], k[3]>>
IsKey(k) == k # None /\ \E kind \in {"Pipeline", "MonoVertex", "Isb"} : KeyOfKind(kind, k)
Kinds == {"Pipeline", "MonoVertex"}

StoreKeys == \A k \in DOMAIN pipelines : KeyOfKind("Pipeline", k)

ListedKeys ==
  /\ DOMAIN listed = Kinds
  /\ listed = [kind \in Kinds |-> listed[kind]]
  /\ \A kind \in Kinds : listed[kind] = None \/ \A w \in listed[kind] : IsKey(w.key)

\* Until the name is settled there is no key, and after that there is one.
KeyAtCall ==
  /\ pc \in {"find", "lists", "isb"} => key = None
  /\ pc \in {"call", "wait", "back", "resume", "read", "backlog", "write"} => IsKey(key)
  /\ pc = "call" /\ cmd.verb \in PipelineVerbs => KeyOfKind("Pipeline", key)

\* What a command is about to call fits what it was asked.
CallFits ==
  /\ pc # "done" => cmd.verb \in Verbs
  /\ pc = "find" => cmd.verb \in PipelineVerbs \cup MonoVertexVerbs
  /\ pc = "lists" => cmd.verb \in {"ls", "get"}
  /\ pc = "resume" => cmd.verb = "recycle"
  /\ pc \in {"read", "backlog", "write"} => cmd.verb = "apply"
  /\ pc = "write" => ~cmd.check

TouchedOne == touched = {} \/ (key # None /\ touched = {key})

IInv == StoreKeys /\ ListedKeys /\ KeyAtCall /\ CallFits /\ TouchedOne

\* A step keeps the invariant and is one of OneChange.
Good == IInv' /\ [Change!Next]_(Change!vars)

-----------------------------------------------------------------------------
(* The shapes a step of a command has.                                     *)

\* A command that ends without a call that writes.
LEMMA EndStep ==
  ASSUME IInv, pc # "done", pc' = "done",
         UNCHANGED <<cmd, key, listed, pipelines, touched>>
  PROVE  Good
<1>1. IInv'
  BY DEF IInv, StoreKeys, ListedKeys, KeyAtCall, CallFits, TouchedOne
<1>2. Change!Next
  BY DEF Change!Next, Change!End, Armed
<1> QED BY <1>1, <1>2 DEF Good

\* A command that goes on without having written anything.
LEMMA MoveStep ==
  ASSUME IInv, pc # "done", pc' # "done",
         UNCHANGED <<cmd, key, pipelines, touched>>,
         ListedKeys', KeyAtCall', CallFits'
  PROVE  Good
<1>1. IInv'
  BY DEF IInv, StoreKeys, TouchedOne
<1>2. UNCHANGED Change!vars
  BY DEF Change!vars, Armed
<1> QED BY <1>1, <1>2 DEF Good

\* A command that settles on its target.
LEMMA SettleStep ==
  ASSUME IInv, pc # "done", pc' # "done", key = None, IsKey(key'),
         UNCHANGED <<cmd, pipelines, touched>>,
         ListedKeys', KeyAtCall', CallFits'
  PROVE  Good
<1>1. IInv'
  BY DEF IInv, StoreKeys, TouchedOne
<1>2. Change!Next
  BY DEF Change!Next, Change!Settle, Armed, IsKey
<1> QED BY <1>1, <1>2 DEF Good

\* A call that writes, whether its answer ends the command or not.
LEMMA WriteStep ==
  ASSUME IInv, pc # "done", IsKey(key), UNCHANGED <<cmd, key, listed>>,
         touched' = touched \/ (Armed /\ touched' = touched \cup {key}),
         StoreKeys', KeyAtCall', CallFits'
  PROVE  Good
<1>1. touched = {} \/ touched = {key}
  BY DEF IInv, TouchedOne
<1>2. key # None
  BY DEF IsKey
<1>3. IInv'
  BY <1>1, <1>2 DEF IInv, ListedKeys, TouchedOne
<1>4. CASE touched' = touched /\ pc' # "done"
  BY <1>3, <1>4 DEF Change!vars, Armed, Good
<1>5. CASE touched' = touched /\ pc' = "done"
  BY <1>3, <1>5 DEF Change!Next, Change!End, Armed, Good
<1>6. CASE Armed /\ touched' = touched \cup {key}
  <2>1. touched' = {key}
    BY <1>1, <1>6
  <2>2. Change!Next
    BY <1>2, <1>6, <2>1 DEF Change!Next, Change!Change, Armed
  <2> QED BY <1>3, <2>2 DEF Good
<1> QED BY <1>4, <1>5, <1>6
-----------------------------------------------------------------------------
(* What the cluster answers has keys.                                      *)

LEMMA KeysAreKeys ==
  ASSUME NoneIsNoKey, NEW kind \in {"Pipeline", "MonoVertex", "Isb"}, NEW ns, NEW name
  PROVE  KeyOfKind(kind, <<kind, ns, name>>) /\ IsKey(<<kind, ns, name>>)
BY DEF NoneIsNoKey, KeyOfKind, IsKey

LEMMA PipelineHasKey ==
  ASSUME NoneIsNoKey, NEW o, IntoPipeline(o) # Invalid
  PROVE  KeyOfKind("Pipeline", IntoPipeline(o).key) /\ IsKey(IntoPipeline(o).key)
<1>1. IntoPipeline(o).key = <<"Pipeline", o.namespace, o.name>>
  BY DEF IntoPipeline
<1> QED BY <1>1, KeysAreKeys

LEMMA MonoVertexHasKey ==
  ASSUME NoneIsNoKey, NEW o, IntoMonoVertex(o) # Invalid
  PROVE  IsKey(IntoMonoVertex(o).key)
<1>1. IntoMonoVertex(o).key = <<"MonoVertex", o.namespace, o.name>>
  BY DEF IntoMonoVertex
<1> QED BY <1>1, KeysAreKeys

LEMMA IsbHasKey ==
  ASSUME NoneIsNoKey, NEW o, IntoIsb(o) # Invalid
  PROVE  IsKey(IntoIsb(o).key)
<1>1. IntoIsb(o).key = <<"Isb", o.namespace, o.name>>
  BY DEF IntoIsb
<1> QED BY <1>1, KeysAreKeys

\* The objects of a list that is not refused have all been converted.
LEMMA PipelinesHaveKeys ==
  ASSUME NoneIsNoKey, NEW store, NEW scope, ListPipelines(store, scope).err = "none",
         NEW w \in ListPipelines(store, scope).value
  PROVE  KeyOfKind("Pipeline", w.key) /\ IsKey(w.key)
<1> DEFINE all == {IntoPipeline(store[k]) : k \in ScopedKeys(store, scope)}
<1>1. ListPipelines(store, scope) = IF Invalid \in all THEN Fail("Invalid") ELSE Found(all)
  BY DEF ListPipelines, List
<1>2. Invalid \notin all /\ ListPipelines(store, scope).value = all
  BY <1>1 DEF Fail, Found
<1>3. PICK k \in ScopedKeys(store, scope) : w = IntoPipeline(store[k])
  BY <1>2
<1> QED BY <1>2, <1>3, PipelineHasKey

LEMMA MonoVerticesHaveKeys ==
  ASSUME NoneIsNoKey, NEW store, NEW scope, ListMonoVertices(store, scope).err = "none",
         NEW w \in ListMonoVertices(store, scope).value
  PROVE  IsKey(w.key)
<1> DEFINE all == {IntoMonoVertex(store[k]) : k \in ScopedKeys(store, scope)}
<1>1. ListMonoVertices(store, scope) = IF Invalid \in all THEN Fail("Invalid") ELSE Found(all)
  BY DEF ListMonoVertices, List
<1>2. Invalid \notin all /\ ListMonoVertices(store, scope).value = all
  BY <1>1 DEF Fail, Found
<1>3. PICK k \in ScopedKeys(store, scope) : w = IntoMonoVertex(store[k])
  BY <1>2
<1> QED BY <1>2, <1>3, MonoVertexHasKey

LEMMA IsbsHaveKeys ==
  ASSUME NoneIsNoKey, NEW store, NEW scope, ListIsb(store, scope).err = "none",
         NEW w \in ListIsb(store, scope).value
  PROVE  IsKey(w.key)
<1> DEFINE all == {IntoIsb(store[k]) : k \in ScopedKeys(store, scope)}
<1>1. ListIsb(store, scope) = IF Invalid \in all THEN Fail("Invalid") ELSE Found(all)
  BY DEF ListIsb, List
<1>2. Invalid \notin all /\ ListIsb(store, scope).value = all
  BY <1>1 DEF Fail, Found
<1>3. PICK k \in ScopedKeys(store, scope) : w = IntoIsb(store[k])
  BY <1>2
<1> QED BY <1>2, <1>3, IsbHasKey

\* Settle takes one of the matches, or ends the command.
LEMMA SettleIs ==
  ASSUME NEW found, NEW next, Settle(found, next)
  PROVE  \/ pc' = "done" /\ key' = key
         \/ key' \in found /\ pc' = next
<1>1. CASE found = {}
  <2>1. Cardinality(found) = 0
    BY <1>1, FS_EmptySet
  <2>2. Unique(found) = Fail("NotFound")
    BY <1>1, <2>1 DEF Unique
  <2> QED BY <2>2 DEF Settle, Finish, Fail
<1>2. CASE found # {} /\ Cardinality(found) = 1
  <2>1. Unique(found) = Found(CHOOSE k \in found : TRUE)
    BY <1>2 DEF Unique
  <2>2. (CHOOSE k \in found : TRUE) \in found
    BY <1>2
  <2> QED BY <2>1, <2>2 DEF Settle, Found
<1>3. CASE found # {} /\ Cardinality(found) # 1
  <2>1. Unique(found) = Fail("Usage")
    BY <1>3 DEF Unique
  <2> QED BY <2>1 DEF Settle, Finish, Fail
<1> QED BY <1>1, <1>2, <1>3

LEMMA MatchesAreListed ==
  ASSUME NEW answer, NEW name, NEW k \in Matches(answer, name)
  PROVE  \E w \in answer.value : k = w.key
BY DEF Matches

-----------------------------------------------------------------------------
(* Where a command begins, and how it finds its target.                    *)

LEMMA StartGood ==
  ASSUME NoneIsNoKey, IInv, NEW c \in CommandLines, Start(c)
  PROVE  Good
<1> DEFINE parsed == IF c.verb = "apply" THEN ParseManifest(c.file, Or(c.ns, DefaultNs)) ELSE None
           named == CASE c.verb = "apply" -> parsed.key
                      [] c.verb \in PipelineVerbs -> <<"Pipeline", c.ns, c.name>>
                      [] OTHER -> <<"MonoVertex", c.ns, c.name>>
           known == \/ c.verb = "apply"
                    \/ c.ns # None /\ c.verb \in PipelineVerbs \cup MonoVertexVerbs
<1>1. pc = "done" /\ cmd' = c /\ touched' = {} /\ listed' = NoMatches /\ UNCHANGED pipelines
  BY DEF Start, cluster
<1>2. \/ pc' = "done" /\ key' = None
      \/ /\ pc' = FirstCall(c) /\ key' = IF known THEN named ELSE None
         /\ parsed # Invalid
  BY DEF Start, Finish
<1>3. c.verb \in Verbs
  BY CommandsAssumption DEF CommandsAssumption
<1>4. StoreKeys' /\ TouchedOne'
  BY <1>1 DEF IInv, StoreKeys, TouchedOne
<1>5. ListedKeys'
  <2>1. listed' = [kind \in Kinds |-> None]
    BY <1>1 DEF NoMatches, Kinds
  <2> QED BY <2>1 DEF ListedKeys
<1>6. Change!Next
  BY <1>1 DEF Change!Next, Change!Begin
<1>7. CASE pc' = "done"
  <2>1. KeyAtCall' /\ CallFits'
    BY <1>7 DEF KeyAtCall, CallFits
  <2> QED BY <1>4, <1>5, <1>6, <2>1 DEF IInv, Good
<1>8. CASE pc' = FirstCall(c) /\ key' = (IF known THEN named ELSE None) /\ parsed # Invalid
  <2>1. CASE c.verb = "apply"
    <3>1. pc' = "read"
      BY <1>8, <2>1 DEF FirstCall
    <3>0. c.verb \notin PipelineVerbs
      BY <2>1 DEF PipelineVerbs, PipelineReads, PipelineWrites
    <3>2. key' = parsed.key
      BY <1>8, <2>1, <3>0
    <3>3. IsKey(parsed.key)
      BY <1>8, <2>1, PipelineHasKey DEF ParseManifest
    <3> QED BY <1>1, <1>3, <1>4, <1>5, <1>6, <2>1, <3>1, <3>2, <3>3 DEF IInv, Good, KeyAtCall, CallFits
  <2>2. CASE c.verb \in {"ls", "get", "isb"}
    <3>1. pc' \in {"lists", "isb"}
      BY <1>8, <2>2 DEF FirstCall
    <3>2. key' = None
      BY <1>8, <2>2 DEF PipelineVerbs, MonoVertexVerbs, PipelineReads, PipelineWrites, MonoVertexWrites
    <3>3. KeyAtCall'
      BY <3>1, <3>2 DEF KeyAtCall
    <3>4. CallFits'
      BY <1>1, <1>3, <1>8, <2>2, <3>1 DEF CallFits, FirstCall
    <3> QED BY <1>4, <1>5, <1>6, <3>3, <3>4 DEF IInv, Good
  <2>3. CASE c.verb \in PipelineVerbs \cup MonoVertexVerbs
    <3>0. c.verb \notin {"ls", "get", "isb", "apply"}
      BY <2>3 DEF PipelineVerbs, MonoVertexVerbs, PipelineReads, PipelineWrites, MonoVertexWrites
    <3>1. pc' = IF c.ns = None THEN "find" ELSE "call"
      BY <1>8, <3>0 DEF FirstCall
    <3>2. c.ns = None => key' = None
      BY <1>8, <3>0
    <3>3. c.ns # None => \/ c.verb \in PipelineVerbs /\ key' = <<"Pipeline", c.ns, c.name>>
                         \/ c.verb \notin PipelineVerbs /\ key' = <<"MonoVertex", c.ns, c.name>>
      BY <1>8, <2>3, <3>0
    <3>4. KeyAtCall'
      BY <1>1, <3>1, <3>2, <3>3, KeysAreKeys DEF KeyAtCall
    <3>5. CallFits'
      BY <1>1, <1>3, <2>3, <3>1 DEF CallFits
    <3> QED BY <1>4, <1>5, <1>6, <3>4, <3>5 DEF IInv, Good
  <2> QED BY <1>3, <2>1, <2>2, <2>3 DEF Verbs
<1> QED BY <1>2, <1>7, <1>8
LEMMA FindGood ==
  ASSUME NoneIsNoKey, IInv, Find
  PROVE  Good
<1>1. pc = "find" /\ key = None /\ UNCHANGED <<cmd, listed, pipelines, touched>>
  BY DEF Find, rest, cluster, IInv, KeyAtCall
<1>2. cmd.verb \in PipelineVerbs \cup MonoVertexVerbs
  BY <1>1 DEF IInv, CallFits
<1> DEFINE answer == IF cmd.verb \in PipelineVerbs THEN ListPipelines(pipelines, None)
                     ELSE ListMonoVertices(monovertices, None)
<1>3. \/ pc' = "done" /\ key' = key
      \/ answer.err = "none" /\ Settle(Matches(answer, cmd.name), "call")
  BY DEF Find, Finish
<1>4. CASE pc' = "done" /\ key' = key
  BY <1>1, <1>4, EndStep
<1>5. CASE answer.err = "none" /\ key' \in Matches(answer, cmd.name) /\ pc' = "call"
  <2>1. PICK w \in answer.value : key' = w.key
    BY <1>5, MatchesAreListed
  <2>2. IsKey(key') /\ (cmd.verb \in PipelineVerbs => KeyOfKind("Pipeline", key'))
    BY <1>5, <2>1, PipelinesHaveKeys, MonoVerticesHaveKeys
  <2>3. KeyAtCall'
    BY <1>1, <1>5, <2>2 DEF KeyAtCall
  <2>4. CallFits'
    BY <1>1, <1>5 DEF IInv, CallFits
  <2>5. ListedKeys'
    BY <1>1 DEF IInv, ListedKeys
  <2> QED BY <1>1, <1>5, <2>2, <2>3, <2>4, <2>5, SettleStep
<1> QED BY <1>3, <1>4, <1>5, SettleIs

LEMMA InspectIsbGood ==
  ASSUME NoneIsNoKey, IInv, InspectIsb
  PROVE  Good
<1>1. pc = "isb" /\ key = None /\ UNCHANGED <<cmd, listed, pipelines, touched>>
  BY DEF InspectIsb, rest, cluster, IInv, KeyAtCall
<1> DEFINE answer == ListIsb(IsbServices, cmd.ns)
<1>3. \/ pc' = "done" /\ key' = key
      \/ answer.err = "none" /\ Settle(Matches(answer, cmd.name), "users")
  BY DEF InspectIsb, Finish
<1>4. CASE pc' = "done" /\ key' = key
  BY <1>1, <1>4, EndStep
<1>5. CASE answer.err = "none" /\ key' \in Matches(answer, cmd.name) /\ pc' = "users"
  <2>1. PICK w \in answer.value : key' = w.key
    BY <1>5, MatchesAreListed
  <2>2. IsKey(key')
    BY <1>5, <2>1, IsbsHaveKeys
  <2>3. KeyAtCall' /\ CallFits' /\ ListedKeys'
    BY <1>1, <1>5 DEF IInv, KeyAtCall, CallFits, ListedKeys
  <2> QED BY <1>1, <1>5, <2>2, <2>3, SettleStep
<1> QED BY <1>3, <1>4, <1>5, SettleIs

LEMMA ListOneGood ==
  ASSUME NoneIsNoKey, IInv, NEW kind \in Kinds, ListOne(kind)
  PROVE  Good
<1>1. /\ pc = "lists" /\ key = None /\ listed[kind] = None
      /\ UNCHANGED <<cmd, pipelines, touched>>
  BY DEF ListOne, rest, cluster, IInv, KeyAtCall
<1> DEFINE answer == IF kind = "Pipeline" THEN ListPipelines(pipelines, cmd.ns)
                     ELSE ListMonoVertices(monovertices, cmd.ns)
           after == [listed EXCEPT ![kind] = answer.value]
           both == after.Pipeline \cup after.MonoVertex
           named == {w.key : w \in {x \in both : x.key[3] = cmd.name}}
<1>2. CASE answer.err # "none"
  BY <1>1, <1>2, EndStep DEF ListOne, Finish
<1>3. CASE answer.err = "none"
  <2>1. listed' = after
    BY <1>3 DEF ListOne
  <2>2. \A w \in answer.value : IsKey(w.key)
    BY <1>3, PipelinesHaveKeys, MonoVerticesHaveKeys
  <2>3. ListedKeys'
    BY <2>1, <2>2 DEF IInv, ListedKeys
  <2>4. CASE None \in {after.Pipeline, after.MonoVertex}
    <3>1. UNCHANGED <<pc, key>>
      BY <1>3, <2>4 DEF ListOne
    <3>2. KeyAtCall' /\ CallFits'
      BY <1>1, <3>1 DEF IInv, KeyAtCall, CallFits
    <3> QED BY <1>1, <2>3, <3>1, <3>2, MoveStep
  <2>5. CASE None \notin {after.Pipeline, after.MonoVertex}
    <3>1. \/ pc' = "done" /\ key' = key
          \/ cmd.verb # "ls" /\ Settle(named, "call")
      BY <1>3, <2>5 DEF ListOne, Finish
    <3>2. CASE pc' = "done" /\ key' = key
      <4>1. IInv'
        BY <1>1, <2>3, <3>2 DEF IInv, StoreKeys, KeyAtCall, CallFits, TouchedOne
      <4>2. Change!Next
        BY <1>1, <3>2 DEF Change!Next, Change!End, Armed
      <4> QED BY <4>1, <4>2 DEF Good
    <3>3. CASE key' \in named /\ pc' = "call"
      <4>1. PICK w \in both : key' = w.key
        BY <3>3
      <4>2. IsKey(key')
        BY <2>1, <2>3, <2>5, <4>1 DEF ListedKeys, Kinds
      <4>3. CallFits' /\ cmd.verb \in {"ls", "get"}
        BY <1>1, <3>3 DEF IInv, CallFits
      <4>4. KeyAtCall'
        BY <1>1, <3>3, <4>2, <4>3
           DEF KeyAtCall, PipelineVerbs, PipelineReads, PipelineWrites
      <4> QED BY <1>1, <2>3, <3>3, <4>2, <4>3, <4>4, SettleStep
    <3> QED BY <3>1, <3>2, <3>3, SettleIs
  <2> QED BY <2>4, <2>5
<1> QED BY <1>2, <1>3
-----------------------------------------------------------------------------
(* The commands once they have their target.                               *)

\* Calls that write nothing, and the end of a command.
LEMMA ReadingGood ==
  ASSUME IInv,
         \/ Show \/ Wait \/ WaitTimesOut \/ IsbUsers \/ ReadBack \/ Said \/ RecycleVertex
         \/ LogBreaks \/ ShowLogs \/ CallFails
  PROVE  Good
<1>1. UNCHANGED <<cmd, key, listed, pipelines, touched>>
  BY DEF Show, Wait, WaitTimesOut, IsbUsers, ReadBack, Said, RecycleVertex,
         LogBreaks, ShowLogs, CallFails, rest, cluster
<1>2. pc # "done"
  BY DEF Show, Wait, WaitTimesOut, Waiting, IsbUsers, ReadBack, Said, RecycleVertex,
         LogBreaks, ShowLogs, CallFails, Calls
<1>3. \/ pc' = "done"
      \/ pc \in {"wait", "call", "back"} /\ pc' = "resume" /\ cmd.verb = "recycle"
  BY DEF Show, Wait, WaitTimesOut, Waiting, IsbUsers, ReadBack, Said, RecycleVertex,
         LogBreaks, ShowLogs, CallFails, Finish
<1>4. CASE pc' = "done"
  BY <1>1, <1>2, <1>4, EndStep
<1>5. CASE pc \in {"wait", "call", "back"} /\ pc' = "resume" /\ cmd.verb = "recycle"
  <2>1. KeyAtCall' /\ CallFits' /\ ListedKeys'
    BY <1>1, <1>5 DEF IInv, KeyAtCall, CallFits, ListedKeys
  <2> QED BY <1>1, <1>2, <1>5, <2>1, MoveStep
<1> QED BY <1>3, <1>4, <1>5

LEMMA ApplyReadsGood ==
  ASSUME IInv, ReadLive \/ CheckManifest
  PROVE  Good
<1>1. UNCHANGED <<cmd, key, listed, pipelines, touched>> /\ pc \in {"read", "backlog"}
  BY DEF ReadLive, CheckManifest, cluster
<1>2. \/ pc' = "done"
      \/ pc' = "backlog"
      \/ pc' = "write" /\ ~cmd.check
  BY DEF ReadLive, CheckManifest, Finish
<1>3. CASE pc' = "done"
  BY <1>1, <1>3, EndStep
<1>4. CASE pc' = "backlog" \/ (pc' = "write" /\ ~cmd.check)
  <2>1. KeyAtCall' /\ CallFits' /\ ListedKeys'
    BY <1>1, <1>4 DEF IInv, KeyAtCall, CallFits, ListedKeys
  <2> QED BY <1>1, <1>4, <2>1, MoveStep
<1> QED BY <1>2, <1>3, <1>4

LEMMA LogReadsGood ==
  ASSUME IInv, ListLogPods \/ ReadLog
  PROVE  Good
<1>1. UNCHANGED <<cmd, key, listed, pipelines, touched>> /\ pc \in {"call", "logs"}
  BY DEF ListLogPods, ReadLog, cluster
<1>2. pc' \in {"done", "logs"}
  BY DEF ListLogPods, ReadLog, Finish
<1>3. CASE pc' = "done"
  BY <1>1, <1>3, EndStep
<1>4. CASE pc' = "logs"
  <2>1. KeyAtCall' /\ CallFits' /\ ListedKeys'
    BY <1>1, <1>4 DEF IInv, KeyAtCall, CallFits, ListedKeys
  <2> QED BY <1>1, <1>4, <2>1, MoveStep
<1> QED BY <1>2, <1>3, <1>4

-----------------------------------------------------------------------------
(* The calls that write.                                                   *)

\* A patch changes no key, and under a dry run nothing.
LEMMA PatchKeepsKeys ==
  ASSUME NEW store, NEW k, NEW desired, NEW resume, NEW dry
  PROVE  /\ DOMAIN SetLifecycle(store, k, desired, resume, dry).store = DOMAIN store
         /\ dry => SetLifecycle(store, k, desired, resume, dry).store = store
BY DEF SetLifecycle, Wrote, Refused

LEMMA PatchGood ==
  ASSUME IInv, NEW desired, NEW strategy, NEW next, Patch(desired, strategy, next),
         pc \in {"call", "resume"}, cmd.verb \in PipelineWrites,
         next \in {"wait", "back", "said"}
  PROVE  Good
<1> DEFINE did == SetLifecycle(pipelines, key, desired, strategy, cmd.dry)
<1>1. /\ UNCHANGED <<cmd, key, listed>> /\ pipelines' = did.store
      /\ touched' = IF did.store = pipelines THEN touched ELSE touched \cup {key}
      /\ pc' \in {"done", next}
  BY DEF Patch, calling, Touch, Answered, Finish
<1>2. cmd.verb \in PipelineWrites => cmd # NoCommand /\ cmd.verb # "apply"
  BY DEF PipelineWrites, NoCommand
<1>3. touched' = touched \/ (Armed /\ touched' = touched \cup {key})
  BY <1>1, <1>2, PatchKeepsKeys DEF Armed
<1>4. StoreKeys'
  BY <1>1, PatchKeepsKeys DEF IInv, StoreKeys
<1>5. IsKey(key) /\ KeyAtCall' /\ CallFits'
  BY <1>1 DEF IInv, KeyAtCall, CallFits
<1> QED BY <1>1, <1>3, <1>4, <1>5, WriteStep

LEMMA LifecycleGood ==
  ASSUME IInv, Pause \/ Resume
  PROVE  Good
<1>1. CASE Pause
  <2>1. pc = "call" /\ cmd.verb \in PipelineWrites
    BY <1>1 DEF Pause, PipelineWrites
  <2>2. Patch("Paused", None, IF Waits THEN "wait" ELSE "back")
    BY <1>1 DEF Pause
  <2> QED BY <2>1, <2>2, PatchGood
<1>2. CASE Resume
  <2>1. pc \in {"call", "resume"} /\ cmd.verb \in PipelineWrites
    BY <1>2 DEF Resume, PipelineWrites, IInv, CallFits
  <2>2. Patch("Running", IF cmd.verb = "recycle" THEN "fast" ELSE cmd.strategy, "said")
    BY <1>2 DEF Resume
  <2> QED BY <2>1, <2>2, PatchGood
<1> QED BY <1>1, <1>2

\* The only pipeline that owns the Vertex object is the target.
LEMMA ScaleGood ==
  ASSUME ObjectNamesApart, IInv, Scale
  PROVE  Good
<1> DEFINE object == ObjectName(key[3], cmd.vertex)
           owners == Owners(key[2], object)
           done == NameOk(cmd.vertex, Label) /\ owners # {} /\ ~cmd.dry
<1>1. /\ pc = "call" /\ cmd.verb = "scale"
      /\ UNCHANGED <<cmd, key, listed, pipelines>>
      /\ touched' = (IF done THEN touched \cup owners ELSE touched)
      /\ pc' \in {"done", "said"}
  BY DEF Scale, calling, Answered, Finish
<1>2. IsKey(key) /\ KeyOfKind("Pipeline", key)
  BY <1>1 DEF IInv, KeyAtCall, PipelineVerbs, PipelineWrites
<1>3. owners \subseteq {key}
  <2> SUFFICES ASSUME NEW k \in owners PROVE k = key
    OBVIOUS
  <2>1. KeyOfKind("Pipeline", k) /\ k[2] = key[2]
    BY DEF Owners, IInv, StoreKeys
  <2>2. k[3] = key[3]
    BY DEF Owners, ObjectNamesApart
  <2> QED BY <1>2, <2>1, <2>2 DEF KeyOfKind
<1>4. Armed \/ cmd.dry
  BY <1>1 DEF Armed, PipelineWrites, NoCommand
<1>5. touched' = touched \/ (Armed /\ touched' = touched \cup {key})
  BY <1>1, <1>3, <1>4
<1>6. StoreKeys' /\ KeyAtCall' /\ CallFits'
  BY <1>1 DEF IInv, StoreKeys, KeyAtCall, CallFits
<1> QED BY <1>1, <1>2, <1>5, <1>6, WriteStep

LEMMA MonoVertexGood ==
  ASSUME IInv, MonoVertexLifecycle
  PROVE  Good
<1> DEFINE desired == IF cmd.verb = "mvtx pause" THEN "Paused" ELSE "Running"
           did == SetMonoVertexLifecycle(monovertices, key, desired, cmd.dry)
<1>1. /\ pc = "call" /\ cmd.verb \in MonoVertexWrites
      /\ UNCHANGED <<cmd, key, listed, pipelines>>
      /\ touched' = (IF did.store = monovertices THEN touched ELSE touched \cup {key})
      /\ pc' \in {"done", "said"}
  BY DEF MonoVertexLifecycle, calling, Touch, Answered, Finish
<1>2. cmd.dry => did.store = monovertices
  BY DEF SetMonoVertexLifecycle, Wrote, Refused
<1>3. Armed \/ cmd.dry
  <2>1. cmd.verb \notin {"none", "apply"}
    BY <1>1 DEF MonoVertexWrites
  <2>2. cmd # NoCommand
    BY <2>1 DEF NoCommand
  <2> QED BY <1>1, <2>1, <2>2 DEF Armed
<1>4. IsKey(key) /\ StoreKeys' /\ KeyAtCall' /\ CallFits'
  BY <1>1 DEF IInv, StoreKeys, KeyAtCall, CallFits
<1> QED BY <1>1, <1>2, <1>3, <1>4, WriteStep

LEMMA SendManifestGood ==
  ASSUME IInv, SendManifest
  PROVE  Good
<1> DEFINE doc == Addressed(cmd.file, Or(cmd.ns, DefaultNs))
           own == IF key \in DOMAIN owned THEN owned[key] ELSE {}
           did == ApplyManifest(pipelines, doc, own, cmd.dry)
<1>1. /\ pc = "write" /\ UNCHANGED <<cmd, key, listed>> /\ pipelines' = did.store
      /\ touched' = (IF did.store = pipelines THEN touched ELSE touched \cup {key})
      /\ pc' = "done"
  BY DEF SendManifest, calling, Touch, Finish
<1>2. cmd.dry => did.store = pipelines
  BY DEF ApplyManifest, Wrote
<1>3. Armed \/ cmd.dry
  BY <1>1 DEF IInv, CallFits, Armed, NoCommand
<1>4. DOMAIN did.store \subseteq DOMAIN pipelines \cup {KeyOf(doc)}
  BY DEF ApplyManifest, Wrote
<1>5. StoreKeys'
  BY <1>1, <1>4 DEF IInv, StoreKeys, KeyOf, KeyOfKind
<1>6. IsKey(key) /\ KeyAtCall' /\ CallFits'
  BY <1>1 DEF IInv, KeyAtCall, CallFits
<1> QED BY <1>1, <1>2, <1>3, <1>5, <1>6, WriteStep

-----------------------------------------------------------------------------
(* The others write objects at keys, and leave the command alone.          *)

LEMMA OthersGood ==
  ASSUME IInv, OthersWrite \/ OthersDelete \/ OthersMonoVertex
  PROVE  Good
<1>1. UNCHANGED <<cmd, key, listed, pc, touched>>
  BY DEF OthersWrite, OthersDelete, OthersMonoVertex, Elsewhere, command
<1>2. StoreKeys'
  <2>1. CASE OthersWrite
    <3>1. PICK o \in Objects : DOMAIN pipelines' = DOMAIN pipelines \cup {KeyOf(o)}
      BY <2>1 DEF OthersWrite
    <3> QED BY <3>1 DEF IInv, StoreKeys, KeyOf, KeyOfKind
  <2>2. CASE OthersDelete
    <3>1. PICK k \in DOMAIN pipelines :
            pipelines' = Restrict(pipelines, DOMAIN pipelines \ {k})
      BY <2>2 DEF OthersDelete
    <3>2. DOMAIN pipelines' \subseteq DOMAIN pipelines
      BY <3>1 DEF Restrict
    <3> QED BY <3>2 DEF IInv, StoreKeys
  <2>3. CASE OthersMonoVertex
    BY <2>3 DEF OthersMonoVertex, IInv, StoreKeys
  <2> QED BY <2>1, <2>2, <2>3
<1>3. IInv'
  BY <1>1, <1>2 DEF IInv, ListedKeys, KeyAtCall, CallFits, TouchedOne
<1>4. UNCHANGED Change!vars
  BY <1>1 DEF Change!vars, Armed
<1> QED BY <1>3, <1>4 DEF Good

-----------------------------------------------------------------------------
(* The theorem.                                                            *)

LEMMA InitGood ==
  ASSUME Init
  PROVE  IInv /\ Change!Init
<1>1. StoreKeys
  <2>1. \A k \in DOMAIN pipelines : k = KeyOf(pipelines[k])
    BY CommandsAssumption DEF Init, CommandsAssumption
  <2> QED BY <2>1 DEF StoreKeys, KeyOf, KeyOfKind
<1>2. ListedKeys
  <2>1. listed = [kind \in Kinds |-> None]
    BY DEF Init, NoMatches, Kinds
  <2> QED BY <2>1 DEF ListedKeys
<1>3. KeyAtCall /\ CallFits /\ TouchedOne
  BY DEF Init, KeyAtCall, CallFits, TouchedOne
<1>4. Change!Init
  BY DEF Init, Change!Init, Armed
<1> QED BY <1>1, <1>2, <1>3, <1>4 DEF IInv

LEMMA NextGood ==
  ASSUME NoneIsNoKey, ObjectNamesApart, IInv, [Next]_vars
  PROVE  Good
<1>1. ASSUME NEW c \in CommandLines, Start(c) PROVE Good
  BY <1>1, StartGood
<1>2. ASSUME NEW kind \in Kinds, ListOne(kind) PROVE Good
  BY <1>2, ListOneGood
<1>3. CASE Step
  BY <1>2, <1>3, FindGood, InspectIsbGood, ReadingGood, ApplyReadsGood, LogReadsGood,
     LifecycleGood, ScaleGood, MonoVertexGood, SendManifestGood DEF Step, Kinds
<1>4. CASE OthersWrite \/ OthersDelete \/ OthersMonoVertex
  BY <1>4, OthersGood
<1>5. CASE UNCHANGED vars
  <2>1. UNCHANGED <<pipelines, cmd, pc, key, listed, touched>>
    BY <1>5 DEF vars, cluster, command
  <2>2. IInv'
    BY <2>1 DEF IInv, StoreKeys, ListedKeys, KeyAtCall, CallFits, TouchedOne
  <2>3. UNCHANGED Change!vars
    BY <2>1 DEF Change!vars, Armed
  <2> QED BY <2>2, <2>3 DEF Good
<1> QED BY <1>1, <1>3, <1>4, <1>5 DEF Next

(* The commands implement OneChange (commands.rs:448-661, :777-812).       *)
THEOREM CommandsImplementOneChange ==
  ASSUME NoneIsNoKey, ObjectNamesApart
  PROVE  Spec => ChangesOnlyItsTarget
<1>1. Init => IInv /\ Change!Init
  BY InitGood
<1>2. IInv /\ [Next]_vars => IInv' /\ [Change!Next]_(Change!vars)
  BY NextGood DEF Good
<1> QED BY <1>1, <1>2, PTL DEF Spec, ChangesOnlyItsTarget, Change!Spec

-----------------------------------------------------------------------------
(* What applies and patches leave alone.  The objects of the cluster are   *)
(* wire objects at their keys, the manifest that is sent was converted     *)
(* before, and what the check compared it with is what the cluster has, as *)
(* long as nobody else has written it.                                     *)

(* "No value" and "not converted" are not pipelines. *)
OutcomesApart ==
  \A k, m, s, st : [key |-> k, meta |-> m, spec |-> s, status |-> st] \notin {None, Invalid}

StoreObjects ==
  \A k \in DOMAIN pipelines : IsPipelineObject(pipelines[k]) /\ KeyOf(pipelines[k]) = k

\* What apply sends goes to its key; the half of recycle that resumes follows.
ManifestInv ==
  /\ pc \in {"read", "backlog", "write"} =>
       cmd \in CommandLines /\ cmd.verb = "apply" /\ Parsed # Invalid /\ Parsed.key = key
  /\ pc = "resume" => cmd.verb = "recycle"

\* What apply has read, if nobody has written the pipeline since ...
ReadInv ==
  pc \in {"backlog", "write"} /\ seen # None /\ key \in DOMAIN pipelines =>
    live = IntoPipeline(pipelines[key]) /\ live # Invalid

\* ... is what the manifest was checked against.
CheckedInv == pc = "write" => live = None \/ Blocks(live, Parsed) = {}

ApplyInv == StoreObjects /\ ManifestInv /\ ReadInv /\ CheckedInv /\ others \in Nat

\* A step keeps the invariant, changes nothing it was not asked to, and keeps
\* what the operator cannot change.
KeepsFixed ==
  pc = "write" /\ others' = others /\ seen # None /\ key \in DOMAIN pipelines =>
    SameFixed(pipelines[key], pipelines'[key])
Careful == ApplyInv' /\ ChangesOnlyWhatWasAsked /\ KeepsFixed

-----------------------------------------------------------------------------
(* Objects.                                                                *)

LEMMA UpTo ==
  ASSUME NEW n \in Nat
  PROVE  IsFiniteSet(1..n) /\ Cardinality(1..n) = n
<1>1. IsFiniteSet(1..n) /\ Cardinality(1..n) = IF 1 > n THEN 0 ELSE n - 1 + 1
  BY FS_Interval
<1> QED BY <1>1

\* In a list whose names are as many as its members, a name is one member's.
LEMMA NamesAreUnique ==
  ASSUME NEW s, s \in Seq(ToSet(s)), Cardinality({v.name : v \in ToSet(s)}) = Len(s),
         NEW x \in ToSet(s), NEW y \in ToSet(s), x.name = y.name
  PROVE  x = y
<1> DEFINE n == Len(s)
           f == [i \in 1..n |-> s[i].name]
           T == {v.name : v \in ToSet(s)}
<1>1. n \in Nat /\ ToSet(s) = {s[i] : i \in 1..n}
  BY DEF ToSet
<1>0. Cardinality(T) = n
  OBVIOUS
<1> HIDE DEF n
<1>2. T = {s[i].name : i \in 1..n}
  BY <1>1
<1>3. f \in Surjection(1..n, T)
  BY <1>2 DEF Surjection
<1>4. IsFiniteSet(1..n) /\ Cardinality(1..n) = n
  BY <1>1, UpTo
<1>5. f \in Injection(1..n, T)
  BY <1>0, <1>3, <1>4, FS_Surjection
<1> HIDE DEF T
<1>6. PICK i \in 1..n, j \in 1..n : x = s[i] /\ y = s[j]
  BY <1>1
<1>7. f[i] = f[j] /\ \A a, b \in 1..n : f[a] = f[b] => a = b
  BY <1>5, <1>6 DEF Injection, IsInjective
<1> QED BY <1>6, <1>7

\* When an object becomes a pipeline.
Converts(o) ==
  /\ o.name # None /\ o.namespace # None
  /\ NameOk(o.name, Label) /\ NameOk(o.namespace, Label) /\ NameOk(Or(o.isb, "default"), Label)
  /\ Invalid \notin ToSet(VerticesFrom(o)) \cup ToSet(EdgesFrom(o))
  /\ WellFormed(TopologyFrom(o))
  /\ o.resume \in ResumeStrategies \cup {None}
  /\ Desired(o.desired_phase) # Invalid

LEMMA Conversion ==
  ASSUME NEW o
  PROVE  /\ ~Converts(o) => IntoPipeline(o) = Invalid
         /\ Converts(o) =>
              /\ \E st, lc, lim :
                   IntoPipeline(o) =
                     [key |-> KeyOf(o),
                      meta |-> [generation |-> o.generation, instance |-> o.instance,
                                resume_strategy |-> o.resume, created |-> o.created],
                      spec |-> [isb |-> Or(o.isb, "default"), lifecycle |-> lc,
                                limits |-> lim, topology |-> TopologyFrom(o)],
                      status |-> st]
BY DEF IntoPipeline, Converts, TopologyFrom, KeyOf, LifecycleFrom

LEMMA ConvertedParts ==
  ASSUME NEW o, Converts(o)
  PROVE  /\ IntoPipeline(o).key = KeyOf(o)
         /\ IntoPipeline(o).meta.instance = o.instance
         /\ IntoPipeline(o).spec.isb = Or(o.isb, "default")
         /\ IntoPipeline(o).spec.topology = TopologyFrom(o)
BY Conversion

LEMMA ConvertedIsPipeline ==
  ASSUME OutcomesApart, NEW o
  PROVE  Converts(o) <=> IntoPipeline(o) # Invalid
BY Conversion DEF OutcomesApart

\* A pipeline's vertices have names of their own.
LEMMA VerticesNamed ==
  ASSUME NEW o, IsPipelineObject(o), Converts(o),
         NEW x \in ToSet(VerticesFrom(o)), NEW y \in ToSet(VerticesFrom(o)), x.name = y.name
  PROVE  x = y
<1> DEFINE s == VerticesFrom(o)
           list == Or(o.vertices, << >>)
<1>1. list \in Seq(ToSet(list))
  <2>1. \A T : << >> \in Seq(T)
    OBVIOUS
  <2>2. list = << >> \/ (list = o.vertices /\ o.vertices # None)
    BY DEF Or
  <2> QED BY <2>1, <2>2 DEF IsPipelineObject
<1>2. s \in Seq(ToSet(s))
  <2>1. s \in [1..Len(list) -> ToSet(s)] /\ Len(list) \in Nat
    BY <1>1 DEF VerticesFrom, ToSet
  <2> QED BY <2>1
<1>3. Cardinality({v.name : v \in ToSet(s)}) = Len(s)
  BY DEF Converts, WellFormed, TopologyFrom, VertexNames
<1> QED BY <1>2, <1>3, NamesAreUnique

LEMMA VertexIs ==
  ASSUME NEW o, IsPipelineObject(o), Converts(o), NEW x \in ToSet(VerticesFrom(o))
  PROVE  /\ x.name \in VertexNames(TopologyFrom(o))
         /\ VertexOf(TopologyFrom(o), x.name) = x
<1>1. TopologyFrom(o).vertices = VerticesFrom(o)
  BY DEF TopologyFrom
<1>2. x.name \in VertexNames(TopologyFrom(o))
  BY <1>1 DEF VertexNames
<1>3. \A y \in ToSet(VerticesFrom(o)) : y.name = x.name => y = x
  BY VerticesNamed
<1> DEFINE y == VertexOf(TopologyFrom(o), x.name)
<1>4. y \in ToSet(VerticesFrom(o)) /\ y.name = x.name
  BY <1>1 DEF VertexOf
<1> QED BY <1>2, <1>3, <1>4

\* What the check lets pass has the parts the operator cannot change.
LEMMA Unblocked ==
  ASSUME NEW old, IsPipelineObject(old), Converts(old),
         NEW doc, IsPipelineObject(doc), Converts(doc),
         Blocks(IntoPipeline(old), IntoPipeline(doc)) = {}
  PROVE  /\ Or(old.isb, "default") = Or(doc.isb, "default") /\ old.instance = doc.instance
         /\ \A x \in ToSet(VerticesFrom(old)), y \in ToSet(VerticesFrom(doc)) :
              x.name = y.name => x.kind = y.kind /\ (x.kind = "reduce" => x.partitions = y.partitions)
<1> DEFINE a == IntoPipeline(old)
           b == IntoPipeline(doc)
           d == Diff(TopologyFrom(old), TopologyFrom(doc))
<1>1. /\ a.meta.instance = old.instance /\ b.meta.instance = doc.instance
      /\ a.spec.isb = Or(old.isb, "default") /\ b.spec.isb = Or(doc.isb, "default")
      /\ a.spec.topology = TopologyFrom(old) /\ b.spec.topology = TopologyFrom(doc)
  BY ConvertedParts
<1> HIDE DEF a, b
<1>2. /\ "isb" \notin Blocks(a, b) /\ "instance" \notin Blocks(a, b)
      /\ "kind" \notin Blocks(a, b) /\ "partitions" \notin Blocks(a, b)
  BY DEF a, b
<1>3. /\ a.spec.isb = b.spec.isb /\ a.meta.instance = b.meta.instance
      /\ d.kind_changed = {}
      /\ \A v \in d.partitions_changed : VertexOf(TopologyFrom(doc), v).kind # "reduce"
  BY <1>1, <1>2 DEF Blocks
<1>4. ASSUME NEW x \in ToSet(VerticesFrom(old)), NEW y \in ToSet(VerticesFrom(doc)), x.name = y.name
      PROVE  x.kind = y.kind /\ (x.kind = "reduce" => x.partitions = y.partitions)
  <2>1. /\ x.name \in VertexNames(TopologyFrom(old)) \cap VertexNames(TopologyFrom(doc))
        /\ VertexOf(TopologyFrom(old), x.name) = x /\ VertexOf(TopologyFrom(doc), x.name) = y
    BY <1>4, VertexIs
  <2>2. x.name \notin d.kind_changed /\ (x.name \in d.partitions_changed => y.kind # "reduce")
    BY <1>3, <2>1
  <2> QED BY <2>1, <2>2 DEF Diff
<1> QED BY <1>1, <1>3, <1>4

\* Two objects with the same fixed parts.
LEMMA FixedSame ==
  ASSUME NEW old, NEW new,
         Or(old.isb, "default") = Or(new.isb, "default"), old.instance = new.instance,
         \A x \in ToSet(VerticesFrom(old)), y \in ToSet(VerticesFrom(new)) :
           x.name = y.name => x.kind = y.kind /\ (x.kind = "reduce" => x.partitions = y.partitions)
  PROVE  SameFixed(old, new)
<1> DEFINE a == Fixed(old)
           b == Fixed(new)
<1>1. a.isb = b.isb /\ a.instance = b.instance
  BY DEF Fixed
<1>2. ASSUME NEW v \in a.vertices, NEW w \in b.vertices, v[1] = w[1]
      PROVE  v = w
  <2>1. PICK x \in ToSet(VerticesFrom(old)) :
          v = <<x.name, x.kind, IF x.kind = "reduce" THEN x.partitions ELSE 0>>
    BY DEF Fixed
  <2>2. PICK y \in ToSet(VerticesFrom(new)) :
          w = <<y.name, y.kind, IF y.kind = "reduce" THEN y.partitions ELSE 0>>
    BY DEF Fixed
  <2>3. x.name = y.name
    BY <1>2, <2>1, <2>2
  <2>4. x.kind = y.kind /\ (x.kind = "reduce" => x.partitions = y.partitions)
    BY <2>3
  <2> QED BY <2>1, <2>2, <2>3, <2>4
<1> QED BY <1>1, <1>2 DEF SameFixed

LEMMA FixedStays ==
  ASSUME NEW o, IsPipelineObject(o), Converts(o)
  PROVE  SameFixed(o, o)
BY FixedSame, VerticesNamed

\* A manifest that was not blocked, merged into what it was checked against.
LEMMA MergeKeepsFixed ==
  ASSUME NEW own,
         NEW old, IsPipelineObject(old), Converts(old),
         NEW doc, IsPipelineObject(doc), Converts(doc),
         Blocks(IntoPipeline(old), IntoPipeline(doc)) = {}
  PROVE  SameFixed(old, Merge(old, doc, own))
<1> DEFINE new == Merge(old, doc, own)
<1>1. \A f \in PipelineFields : new[f] = IF doc[f] # None THEN doc[f] ELSE IF f \in own THEN None ELSE old[f]
  BY DEF Merge, IsPipelineObject
<1> HIDE DEF new
<1>2. /\ new.isb \in {doc.isb, old.isb} \/ (new.isb = None /\ doc.isb = None)
      /\ new.instance \in {doc.instance, old.instance} \/ (new.instance = None /\ doc.instance = None)
      /\ doc.vertices # None => new.vertices = doc.vertices
  BY <1>1 DEF PipelineFields
<1>3. /\ Or(old.isb, "default") = Or(doc.isb, "default") /\ old.instance = doc.instance
      /\ \A x \in ToSet(VerticesFrom(old)), y \in ToSet(VerticesFrom(doc)) :
           x.name = y.name => x.kind = y.kind /\ (x.kind = "reduce" => x.partitions = y.partitions)
  BY Unblocked
<1>4. Or(new.isb, "default") = Or(doc.isb, "default") /\ new.instance = doc.instance
  BY <1>2, <1>3
<1>5. VerticesFrom(new) = VerticesFrom(doc)
  <2>1. VerticesFrom(doc) # << >>
    BY DEF Converts, WellFormed, TopologyFrom
  <2>2. doc.vertices # None
    <3> SUFFICES ASSUME doc.vertices = None PROVE FALSE
      OBVIOUS
    <3>1. VerticesFrom(doc) = [k \in {} |-> IntoVertex(<< >>[k])]
      BY DEF VerticesFrom, Or
    <3> QED BY <2>1, <3>1
  <2> QED BY <1>2, <2>2 DEF VerticesFrom
<1> QED BY <1>3, <1>4, <1>5, FixedSame DEF new

-----------------------------------------------------------------------------
(* The steps.                                                              *)

\* A step that writes no pipeline, and after which no call of apply follows.
LEMMA QuietStep ==
  ASSUME OutcomesApart, ApplyInv, UNCHANGED <<pipelines, others>>,
         pc' \notin {"read", "backlog", "write"},
         pc' = "resume" => cmd'.verb = "recycle"
  PROVE  Careful
<1>1. ApplyInv'
  BY DEF ApplyInv, StoreObjects, ManifestInv, ReadInv, CheckedInv
<1>2. ChangesOnlyWhatWasAsked
  BY DEF ChangesOnlyWhatWasAsked
<1>3. KeepsFixed
  <2> SUFFICES ASSUME pc = "write", seen # None, key \in DOMAIN pipelines
               PROVE  SameFixed(pipelines[key], pipelines[key])
    BY DEF KeepsFixed
  <2>1. IsPipelineObject(pipelines[key]) /\ IntoPipeline(pipelines[key]) # Invalid
    BY DEF ApplyInv, StoreObjects, ReadInv
  <2> QED BY <2>1, FixedStays, ConvertedIsPipeline
<1> QED BY <1>1, <1>2, <1>3 DEF Careful

LEMMA StartCareful ==
  ASSUME OutcomesApart, ApplyInv, NEW c \in CommandLines, Start(c)
  PROVE  Careful
<1> DEFINE parsed == IF c.verb = "apply" THEN ParseManifest(c.file, Or(c.ns, DefaultNs)) ELSE None
           named == CASE c.verb = "apply" -> parsed.key
                      [] c.verb \in PipelineVerbs -> <<"Pipeline", c.ns, c.name>>
                      [] OTHER -> <<"MonoVertex", c.ns, c.name>>
           known == \/ c.verb = "apply"
                    \/ c.ns # None /\ c.verb \in PipelineVerbs \cup MonoVertexVerbs
<1>1. pc = "done" /\ cmd' = c /\ UNCHANGED <<pipelines, others>>
  BY DEF Start, cluster
<1>2. \/ pc' = "done"
      \/ /\ pc' = FirstCall(c) /\ key' = IF known THEN named ELSE None
         /\ parsed # Invalid
  BY DEF Start, Finish
<1>3. CASE pc' = "done"
  BY <1>1, <1>3, QuietStep
<1>4. CASE pc' = FirstCall(c) /\ key' = (IF known THEN named ELSE None) /\ parsed # Invalid
  <2>1. CASE c.verb # "apply"
    <3>1. pc' \in {"lists", "isb", "find", "call"}
      BY <1>4, <2>1 DEF FirstCall
    <3> QED BY <1>1, <3>1, QuietStep
  <2>2. CASE c.verb = "apply"
    <3>1. pc' = "read"
      BY <1>4, <2>2 DEF FirstCall
    <3>2. c.verb \notin PipelineVerbs
      BY <2>2 DEF PipelineVerbs, PipelineReads, PipelineWrites
    <3>3. key' = parsed.key /\ Parsed' = parsed
      BY <1>1, <1>4, <2>2, <3>2 DEF Parsed
    <3>4. ManifestInv'
      BY <1>1, <1>4, <2>2, <3>1, <3>3 DEF ManifestInv
    <3>5. ApplyInv'
      BY <1>1, <3>1, <3>4 DEF ApplyInv, StoreObjects, ReadInv, CheckedInv
    <3> QED BY <1>1, <3>5 DEF Careful, ChangesOnlyWhatWasAsked, KeepsFixed
  <2> QED BY <2>1, <2>2
<1> QED BY <1>2, <1>3, <1>4

\* The calls that only look something up, or write something else.
LEMMA OtherCallsCareful ==
  ASSUME OutcomesApart, ApplyInv,
         \/ Find \/ Show \/ Wait \/ WaitTimesOut \/ InspectIsb \/ IsbUsers \/ ReadBack \/ Said
         \/ \E kind \in {"Pipeline", "MonoVertex"} : ListOne(kind)
         \/ RecycleVertex \/ Scale \/ MonoVertexLifecycle
         \/ ListLogPods \/ ReadLog \/ LogBreaks \/ ShowLogs \/ CallFails
  PROVE  Careful
<1>1. CASE Find \/ InspectIsb
  BY <1>1, QuietStep DEF Find, InspectIsb, Settle, Finish, rest, cluster, counters
<1>2. CASE \E kind \in {"Pipeline", "MonoVertex"} : ListOne(kind)
  BY <1>2, QuietStep DEF ListOne, Settle, Finish, rest, cluster, counters
<1>3. CASE Show \/ WaitTimesOut \/ IsbUsers \/ Said \/ RecycleVertex
  BY <1>3, QuietStep DEF Show, WaitTimesOut, IsbUsers, Said, RecycleVertex, Finish,
                         rest, cluster, counters
<1>4. CASE Wait \/ ReadBack
  BY <1>4, QuietStep DEF Wait, ReadBack, Finish, rest, cluster, counters
<1>5. CASE Scale \/ MonoVertexLifecycle
  BY <1>5, QuietStep DEF Scale, MonoVertexLifecycle, Answered, Finish, calling, counters
<1>6. CASE LogBreaks \/ ShowLogs \/ CallFails
  BY <1>6, QuietStep DEF LogBreaks, ShowLogs, CallFails, Finish, rest, cluster, counters
<1>7. CASE ListLogPods \/ ReadLog
  BY <1>7, QuietStep DEF ListLogPods, ReadLog, Finish, cluster, counters
<1> QED BY <1>1, <1>2, <1>3, <1>4, <1>5, <1>6, <1>7

\* A patch changes two fields of one object.
LEMMA PatchedObjects ==
  ASSUME NEW k, NEW desired, NEW strategy, NEW dry, StoreObjects,
         NEW store, store = SetLifecycle(pipelines, k, desired, strategy, dry).store
  PROVE  /\ DOMAIN store = DOMAIN pipelines
         /\ \A x \in DOMAIN pipelines :
              /\ DOMAIN store[x] = DOMAIN pipelines[x]
              /\ \A f \in DOMAIN pipelines[x] :
                   store[x][f] # pipelines[x][f] => f \in {"desired_phase", "resume"}
              /\ IsPipelineObject(store[x]) /\ KeyOf(store[x]) = x
<1>1. \/ store = pipelines
      \/ /\ k \in DOMAIN pipelines
         /\ store = [pipelines EXCEPT ![k].desired_phase = desired,
                                      ![k].resume = IF strategy = None THEN @ ELSE strategy]
  BY DEF SetLifecycle, Wrote, Refused
<1>2. DOMAIN store = DOMAIN pipelines
  BY <1>1
<1>3. ASSUME NEW x \in DOMAIN pipelines
      PROVE  /\ DOMAIN store[x] = DOMAIN pipelines[x]
             /\ \A f \in DOMAIN pipelines[x] :
                  f \notin {"desired_phase", "resume"} => store[x][f] = pipelines[x][f]
  BY <1>1, <1>3
<1>4. ASSUME NEW x \in DOMAIN pipelines
      PROVE  IsPipelineObject(store[x]) /\ KeyOf(store[x]) = x
  <2>1. IsPipelineObject(pipelines[x]) /\ KeyOf(pipelines[x]) = x
    BY DEF StoreObjects
  <2>2. /\ store[x].name = pipelines[x].name /\ store[x].namespace = pipelines[x].namespace
        /\ store[x].vertices = pipelines[x].vertices /\ store[x].edges = pipelines[x].edges
    BY <1>3, <2>1 DEF IsPipelineObject, PipelineFields
  <2> QED BY <1>3, <2>1, <2>2 DEF IsPipelineObject, KeyOf
<1> QED BY <1>2, <1>3, <1>4

LEMMA PatchCareful ==
  ASSUME ApplyInv, NEW desired, NEW strategy, NEW next, Patch(desired, strategy, next),
         pc # "write", cmd.verb # "apply", next \in {"wait", "back", "said"}
  PROVE  Careful
<1>1. /\ pipelines' = SetLifecycle(pipelines, key, desired, strategy, cmd.dry).store
      /\ pc' \in {"done", next} /\ UNCHANGED <<others, cmd, key>>
  BY DEF Patch, Answered, Finish, calling, counters
<1>2. /\ DOMAIN pipelines' = DOMAIN pipelines
      /\ \A x \in DOMAIN pipelines :
           /\ DOMAIN pipelines'[x] = DOMAIN pipelines[x]
           /\ \A f \in DOMAIN pipelines[x] :
                pipelines'[x][f] # pipelines[x][f] => f \in {"desired_phase", "resume"}
           /\ IsPipelineObject(pipelines'[x]) /\ KeyOf(pipelines'[x]) = x
  BY <1>1, PatchedObjects DEF ApplyInv
<1>3. ApplyInv'
  BY <1>1, <1>2 DEF ApplyInv, StoreObjects, ManifestInv, ReadInv, CheckedInv
<1>4. ChangesOnlyWhatWasAsked
  BY <1>2 DEF ChangesOnlyWhatWasAsked, AskedFor
<1> QED BY <1>3, <1>4 DEF Careful, KeepsFixed

LEMMA LifecycleCareful ==
  ASSUME ApplyInv, Pause \/ Resume
  PROVE  Careful
<1>1. CASE Pause
  <2>1. Patch("Paused", None, IF Waits THEN "wait" ELSE "back")
    BY <1>1 DEF Pause
  <2> QED BY <1>1, <2>1, PatchCareful DEF Pause
<1>2. CASE Resume
  <2>1. Patch("Running", IF cmd.verb = "recycle" THEN "fast" ELSE cmd.strategy, "said")
    BY <1>2 DEF Resume
  <2>2. pc # "write" /\ cmd.verb # "apply"
    BY <1>2 DEF Resume, ApplyInv, ManifestInv
  <2> QED BY <2>1, <2>2, PatchCareful
<1> QED BY <1>1, <1>2

LEMMA ReadLiveCareful ==
  ASSUME OutcomesApart, ApplyInv, ReadLive
  PROVE  Careful
<1>1. pc = "read" /\ UNCHANGED <<pipelines, others, cmd, key>>
  BY DEF ReadLive, cluster, counters
<1>2. CASE pc' = "done"
  BY <1>1, <1>2, QuietStep
<1>3. CASE pc' # "done"
  <2>1. /\ pc' = "backlog" /\ live' = GetPipeline(pipelines, key).value
        /\ GetPipeline(pipelines, key).err \in {"none", "NotFound"}
    BY <1>3 DEF ReadLive, Finish
  <2>2. key \in DOMAIN pipelines =>
          live' = IntoPipeline(pipelines[key]) /\ live' # Invalid
    BY <2>1 DEF GetPipeline, Checked, Fail, Found
  <2>3. ApplyInv'
    BY <1>1, <2>1, <2>2 DEF ApplyInv, StoreObjects, ManifestInv, ReadInv, CheckedInv, Parsed
  <2> QED BY <1>1, <2>3 DEF Careful, ChangesOnlyWhatWasAsked, KeepsFixed
<1> QED BY <1>2, <1>3

LEMMA CheckCareful ==
  ASSUME OutcomesApart, ApplyInv, CheckManifest
  PROVE  Careful
<1>1. pc = "backlog" /\ UNCHANGED <<pipelines, others, cmd, key, live, seen>>
  BY DEF CheckManifest, cluster, counters
<1>2. CASE pc' = "done"
  BY <1>1, <1>2, QuietStep
<1>3. CASE pc' # "done"
  <2>1. pc' = "write" /\ Check(live, Parsed, backlog').blocks = {}
    BY <1>3 DEF CheckManifest, Finish
  <2>2. live = None \/ Blocks(live, Parsed) = {}
    BY <2>1 DEF Check
  <2>3. ApplyInv'
    BY <1>1, <2>1, <2>2 DEF ApplyInv, StoreObjects, ManifestInv, ReadInv, CheckedInv, Parsed
  <2> QED BY <1>1, <2>3 DEF Careful, ChangesOnlyWhatWasAsked, KeepsFixed
<1> QED BY <1>2, <1>3

\* What is sent is the object of the file, at the key of the command.
LEMMA ManifestSent ==
  ASSUME OutcomesApart, ApplyInv, pc = "write",
         NEW doc, doc = Addressed(cmd.file, Or(cmd.ns, DefaultNs))
  PROVE  /\ IsPipelineObject(doc) /\ Converts(doc) /\ IntoPipeline(doc) = Parsed
         /\ KeyOf(doc) = key
         /\ \A f \in PipelineFields : f # "namespace" => doc[f] = cmd.file.object[f]
<1> DEFINE o == cmd.file.object
           ns == Or(cmd.ns, DefaultNs)
           addressed == [o EXCEPT !.namespace = Or(@, ns)]
<1>1. cmd \in CommandLines /\ cmd.verb = "apply" /\ Parsed # Invalid /\ Parsed.key = key
  BY DEF ApplyInv, ManifestInv
<1>2. IsPipelineObject(o)
  BY <1>1, CommandsAssumption DEF CommandsAssumption
<1>3. ParsePipelineObject(cmd.file) = o /\ o # Invalid /\ Parsed = IntoPipeline(addressed)
  BY <1>1 DEF Parsed, ParseManifest, ParsePipelineObject
<1>4. doc = addressed
  BY <1>1, <1>3 DEF Addressed
<1>5. Converts(doc)
  BY <1>1, <1>3, <1>4, ConvertedIsPipeline
<1>6. KeyOf(doc) = key
  BY <1>1, <1>3, <1>4, <1>5, ConvertedParts
<1>7. DOMAIN doc = PipelineFields /\ \A f \in PipelineFields : f # "namespace" => doc[f] = o[f]
  BY <1>2, <1>4 DEF IsPipelineObject
<1>8. IsPipelineObject(doc)
  BY <1>2, <1>7 DEF IsPipelineObject, PipelineFields
<1> QED BY <1>3, <1>4, <1>5, <1>6, <1>7, <1>8

\* The object after the merge.
LEMMA MergedObject ==
  ASSUME NEW old, IsPipelineObject(old), NEW doc, IsPipelineObject(doc), Converts(doc),
         KeyOf(old) = KeyOf(doc), NEW own
  PROVE  /\ IsPipelineObject(Merge(old, doc, own)) /\ KeyOf(Merge(old, doc, own)) = KeyOf(doc)
         /\ Merge(old, doc, own).namespace = old.namespace
         /\ \A f \in PipelineFields :
              doc[f] = None /\ f \notin own => Merge(old, doc, own)[f] = old[f]
<1> DEFINE new == Merge(old, doc, own)
<1>1. /\ DOMAIN new = PipelineFields
      /\ \A f \in PipelineFields :
           new[f] = IF doc[f] # None THEN doc[f] ELSE IF f \in own THEN None ELSE old[f]
  BY DEF Merge, IsPipelineObject
<1> HIDE DEF new
<1>2. /\ new.name = doc.name /\ new.namespace = doc.namespace
      /\ new.vertices \in {doc.vertices, old.vertices, None}
      /\ new.edges \in {doc.edges, old.edges, None}
  BY <1>1 DEF PipelineFields, Converts
<1>3. IsPipelineObject(new) /\ KeyOf(new) = KeyOf(doc) /\ new.namespace = old.namespace
  BY <1>1, <1>2 DEF IsPipelineObject, KeyOf
<1> QED BY <1>1, <1>3 DEF new

LEMMA SendCareful ==
  ASSUME OutcomesApart, ApplyInv, SendManifest
  PROVE  Careful
<1> DEFINE doc == Addressed(cmd.file, Or(cmd.ns, DefaultNs))
           own == IF key \in DOMAIN owned THEN owned[key] ELSE {}
           old == pipelines[key]
<1>1. pc = "write" /\ pc' = "done" /\ UNCHANGED <<others, cmd, key, seen>>
  BY DEF SendManifest, Finish, calling, counters
<1>2. /\ IsPipelineObject(doc) /\ Converts(doc) /\ IntoPipeline(doc) = Parsed
      /\ KeyOf(doc) = key
      /\ \A f \in PipelineFields : f # "namespace" => doc[f] = cmd.file.object[f]
  BY <1>1, ManifestSent
<1>3. CASE pipelines' = pipelines
  BY <1>1, <1>3, QuietStep
<1>4. CASE pipelines' = [k \in DOMAIN pipelines \cup {key} |->
                           IF k # key THEN pipelines[k]
                           ELSE IF key \in DOMAIN pipelines THEN Merge(old, doc, own) ELSE doc]
  <2>1. key \in DOMAIN pipelines => IsPipelineObject(old) /\ KeyOf(old) = key
    BY DEF ApplyInv, StoreObjects
  <2>2. IsPipelineObject(pipelines'[key]) /\ KeyOf(pipelines'[key]) = key
    BY <1>2, <1>4, <2>1, MergedObject
  <2>3. \A k \in DOMAIN pipelines' : k # key => k \in DOMAIN pipelines /\ pipelines'[k] = pipelines[k]
    BY <1>4
  <2>4. StoreObjects'
    BY <2>2, <2>3 DEF ApplyInv, StoreObjects
  <2>5. ApplyInv'
    BY <1>1, <2>4 DEF ApplyInv, ManifestInv, ReadInv, CheckedInv
  <2>6. ChangesOnlyWhatWasAsked
    <3> SUFFICES ASSUME key \in DOMAIN pipelines, NEW f \in DOMAIN old, pipelines'[key][f] # old[f]
                 PROVE  AskedFor(f)
      BY DEF ChangesOnlyWhatWasAsked
    <3>1. f \in PipelineFields /\ pipelines'[key] = Merge(old, doc, own)
      BY <1>4, <2>1 DEF IsPipelineObject
    <3>2. f # "namespace" /\ (doc[f] # None \/ f \in own)
      BY <1>2, <2>1, <3>1, MergedObject
    <3>3. cmd.verb = "apply"
      BY <1>1 DEF ApplyInv, ManifestInv
    <3> QED BY <1>2, <3>1, <3>2, <3>3 DEF AskedFor
  <2>7. KeepsFixed
    <3> SUFFICES ASSUME seen # None, key \in DOMAIN pipelines
                 PROVE  SameFixed(old, pipelines'[key])
      BY DEF KeepsFixed
    <3>1. live = IntoPipeline(old) /\ live # Invalid
      BY <1>1 DEF ApplyInv, ReadInv
    <3>2. Converts(old)
      BY <3>1, ConvertedIsPipeline
    <3>3. live # None
      BY <3>1, <3>2, Conversion DEF OutcomesApart
    <3>4. Blocks(IntoPipeline(old), IntoPipeline(doc)) = {}
      BY <1>1, <1>2, <3>1, <3>3 DEF ApplyInv, CheckedInv
    <3>5. pipelines'[key] = Merge(old, doc, own)
      BY <1>4
    <3> QED BY <1>2, <2>1, <3>2, <3>4, <3>5, MergeKeepsFixed
  <2> QED BY <2>5, <2>6, <2>7 DEF Careful
<1>5. \/ pipelines' = pipelines
      \/ pipelines' = [k \in DOMAIN pipelines \cup {key} |->
                          IF k # key THEN pipelines[k]
                          ELSE IF key \in DOMAIN pipelines THEN Merge(old, doc, own) ELSE doc]
  <2>1. pipelines' = ApplyManifest(pipelines, doc, own, cmd.dry).store
    BY DEF SendManifest
  <2> HIDE DEF doc, own
  <2> QED BY <1>2, <2>1 DEF ApplyManifest, Wrote
<1> QED BY <1>3, <1>4, <1>5

\* Others write wire objects at their keys; then nothing is known of what was read.
LEMMA OthersCareful ==
  ASSUME ApplyInv, OthersWrite \/ OthersDelete \/ OthersMonoVertex
  PROVE  Careful
<1>1. UNCHANGED <<cmd, key, live, pc>> /\ others' = others + 1
  BY DEF OthersWrite, OthersDelete, OthersMonoVertex, Elsewhere, command
<1>2. others \in Nat /\ others' \in Nat /\ others' # others
  BY <1>1 DEF ApplyInv
<1>3. StoreObjects' /\ (seen' # None =>
                          /\ seen # None
                          /\ key \in DOMAIN pipelines' => /\ key \in DOMAIN pipelines
                                                           /\ pipelines'[key] = pipelines[key])
  <2>1. CASE OthersWrite
    <3>1. PICK o \in Objects :
            /\ pipelines' = [x \in DOMAIN pipelines \cup {KeyOf(o)} |->
                               IF x = KeyOf(o) THEN o ELSE pipelines[x]]
            /\ seen' = IF KeyOf(o) = key THEN None ELSE seen
      BY <2>1 DEF OthersWrite, Elsewhere
    <3>2. IsPipelineObject(o)
      BY CommandsAssumption DEF CommandsAssumption
    <3> QED BY <3>1, <3>2 DEF ApplyInv, StoreObjects
  <2>2. CASE OthersDelete
    <3>1. PICK k \in DOMAIN pipelines :
            /\ pipelines' = Restrict(pipelines, DOMAIN pipelines \ {k})
            /\ seen' = IF k = key THEN None ELSE seen
      BY <2>2 DEF OthersDelete, Elsewhere
    <3>2. \A x \in DOMAIN pipelines' : x \in DOMAIN pipelines /\ pipelines'[x] = pipelines[x]
      BY <3>1 DEF Restrict
    <3> QED BY <3>1, <3>2 DEF ApplyInv, StoreObjects
  <2>3. CASE OthersMonoVertex
    BY <2>3 DEF OthersMonoVertex, Elsewhere, ApplyInv, StoreObjects
  <2> QED BY <2>1, <2>2, <2>3
<1>4. ApplyInv'
  BY <1>1, <1>2, <1>3 DEF ApplyInv, ManifestInv, ReadInv, CheckedInv, Parsed
<1> QED BY <1>2, <1>4 DEF Careful, ChangesOnlyWhatWasAsked, KeepsFixed

LEMMA InitCareful == Init => ApplyInv
<1>1. \A store \in Pipelines0 : \A k \in DOMAIN store : k = KeyOf(store[k]) /\ IsPipelineObject(store[k])
  BY CommandsAssumption DEF CommandsAssumption
<1> QED BY <1>1 DEF Init, ApplyInv, StoreObjects, ManifestInv, ReadInv, CheckedInv

LEMMA NextCareful ==
  ASSUME OutcomesApart, ApplyInv, Next
  PROVE  Careful
<1>1. ASSUME NEW c \in CommandLines, Start(c) PROVE Careful
  BY <1>1, StartCareful
<1>2. CASE Step
  BY <1>2, OtherCallsCareful, LifecycleCareful, ReadLiveCareful, CheckCareful, SendCareful DEF Step
<1>3. CASE OthersWrite \/ OthersDelete \/ OthersMonoVertex
  BY <1>3, OthersCareful
<1> QED BY <1>1, <1>2, <1>3 DEF Next

LEMMA StepCareful ==
  ASSUME OutcomesApart, ApplyInv, [Next]_vars
  PROVE  ApplyInv' /\ [ChangesOnlyWhatWasAsked]_vars /\ [KeepsFixed]_vars
<1>1. CASE Next
  BY <1>1, NextCareful DEF Careful
<1>2. CASE UNCHANGED vars
  <2>1. UNCHANGED <<pipelines, others, cmd, pc, key, live, seen>>
    BY <1>2 DEF vars, cluster, counters, command
  <2>2. ApplyInv'
    BY <2>1 DEF ApplyInv, StoreObjects, ManifestInv, ReadInv, CheckedInv, Parsed
  <2> QED BY <1>2, <2>2
<1> QED BY <1>1, <1>2

\* What a command was not asked to change stays: whatever the objects, what others
\* do, and which fields nfctl applied before (cluster.rs:219-265, :180-208).
THEOREM AbsentStaysThm ==
  ASSUME OutcomesApart
  PROVE  Spec => AbsentStays
<1>1. Init => ApplyInv
  BY InitCareful
<1>2. ApplyInv /\ [Next]_vars => ApplyInv' /\ [ChangesOnlyWhatWasAsked]_vars
  BY StepCareful
<1> QED BY <1>1, <1>2, PTL DEF Spec, AbsentStays

\* An apply that goes through leaves what the operator cannot change as it was,
\* unless somebody else wrote the pipeline after it was read: whatever the
\* manifest, and whatever it says nothing of (commands.rs:605-646, apply.rs).
THEOREM AppliesKeepWhatIsFixedThm ==
  ASSUME OutcomesApart
  PROVE  Spec => AppliesKeepWhatIsFixed
<1>1. Init => ApplyInv
  BY InitCareful
<1>2. ApplyInv /\ [Next]_vars => ApplyInv' /\ [KeepsFixed]_vars
  BY StepCareful
<1> QED BY <1>1, <1>2, PTL DEF Spec, AppliesKeepWhatIsFixed, KeepsFixed
-----------------------------------------------------------------------------
(***************************************************************************)
(* What a command ends with.  Beside the type invariant, the lists that    *)
(* were answered hold workloads.                                           *)
(***************************************************************************)
OfAKind(k) == k[1] \in {"Pipeline", "MonoVertex", "Isb"}
AllOfAKind(found) == \A w \in found : OfAKind(w.key)
ListedKinds ==
  /\ listed = [kind \in Kinds |-> listed[kind]]
  /\ \A kind \in Kinds : listed[kind] = None \/ AllOfAKind(listed[kind])
TypeInv == CommandsTypeOK /\ ListedKinds

Endings == Errors \ {"pending"}

\* What an answer may be.
Answer(a) == a.err \in {"none", "Invalid", "NotFound"} /\ (a.err # "none" => a.value = None)

LEMMA ReadsAnswer ==
  ASSUME NEW store, NEW k
  PROVE  Answer(GetPipeline(store, k)) /\ Answer(GetMonoVertex(store, k)) /\ Answer(Lookup(k))
<1>1. \A v : Answer(Checked(v))
  BY DEF Answer, Checked, Fail, Found
<1>2. Answer(Fail("NotFound"))
  BY DEF Answer, Fail
<1>3. \A s : Answer(GetPipeline(s, k)) /\ Answer(GetMonoVertex(s, k))
  BY <1>1, <1>2 DEF GetPipeline, GetMonoVertex
<1> QED BY <1>3 DEF Lookup

\* A list is refused, or all of it is workloads.
ListAnswer(a) == Answer(a) /\ (a.err = "none" => AllOfAKind(a.value))

LEMMA ListsAnswer ==
  ASSUME NEW store, NEW scope
  PROVE  /\ ListAnswer(ListPipelines(store, scope))
         /\ ListAnswer(ListMonoVertices(store, scope))
         /\ ListAnswer(ListIsb(store, scope))
<1>1. ASSUME NEW all, \A w \in all : w # Invalid => OfAKind(w.key)
      PROVE  ListAnswer(List(all))
  <2>1. CASE Invalid \in all
    BY <2>1 DEF List, ListAnswer, Answer, Fail
  <2>2. CASE Invalid \notin all
    BY <1>1, <2>2 DEF List, ListAnswer, Answer, AllOfAKind, Found
  <2> QED BY <2>1, <2>2
<1>2. \A o : IntoPipeline(o) # Invalid => OfAKind(IntoPipeline(o).key)
  BY DEF IntoPipeline, OfAKind
<1>3. \A o : IntoMonoVertex(o) # Invalid => OfAKind(IntoMonoVertex(o).key)
  BY DEF IntoMonoVertex, OfAKind
<1>4. \A o : IntoIsb(o) # Invalid => OfAKind(IntoIsb(o).key)
  BY DEF IntoIsb, OfAKind
<1>5. ListAnswer(ListPipelines(store, scope))
  BY <1>1, <1>2 DEF ListPipelines
<1>6. ListAnswer(ListMonoVertices(store, scope))
  BY <1>1, <1>3 DEF ListMonoVertices
<1>7. ListAnswer(ListIsb(store, scope))
  BY <1>1, <1>4 DEF ListIsb
<1> QED BY <1>5, <1>6, <1>7

\* The shapes a step has: the command ends with a result, or goes on without one.
LEMMA Ends ==
  ASSUME TypeInv, UNCHANGED <<cmd, key, listed>>, NEW e, NEW v, Finish(e, v),
         e \in Endings, e \in {"none", "CheckFailed"} \/ v = None
  PROVE  TypeInv'
<1>1. pc' = "done" /\ result'.err = e /\ result'.value = v
  BY DEF Finish
<1>2. CommandsTypeOK'
  BY <1>1 DEF TypeInv, CommandsTypeOK, Endings
<1> QED BY <1>2 DEF TypeInv, ListedKinds

LEMMA GoesOn ==
  ASSUME TypeInv, pc # "done", pc' # "done", UNCHANGED <<cmd, result>>,
         key' \in {key, None} \/ OfAKind(key'), ListedKinds'
  PROVE  TypeInv'
BY DEF TypeInv, CommandsTypeOK, OfAKind

LEMMA AnsweredKeeps ==
  ASSUME TypeInv, pc # "done", UNCHANGED <<cmd, key, listed>>, NEW e, NEW next,
         Answered(e, next), e \in Endings, next # "done"
  PROVE  TypeInv'
<1>1. CASE e # "none" /\ Finish(e, None)
  BY <1>1, Ends
<1>2. CASE pc' = next /\ UNCHANGED result
  BY <1>2, GoesOn DEF TypeInv, ListedKinds
<1>3. CASE Finish("Cluster", None)
  <2>1. "Cluster" \in Endings
    BY DEF Endings, Errors
  <2> QED BY <1>3, <2>1, Ends
<1> QED BY <1>1, <1>2, <1>3 DEF Answered

\* Settle takes one of what was found, or says why not.
LEMMA SettleKeeps ==
  ASSUME TypeInv, pc # "done", UNCHANGED cmd, ListedKinds', NEW found, NEW next, next # "done",
         Settle(found, next), \A k \in found : OfAKind(k)
  PROVE  TypeInv'
<1>1. Unique(found) \in {Fail("NotFound"), Fail("Usage")}
      \/ \E k \in found : Unique(found) = Found(k)
  <2>1. CASE found = {}
    <3>1. Cardinality(found) = 0
      BY <2>1, FS_EmptySet
    <3> QED BY <2>1, <3>1 DEF Unique
  <2>2. CASE found # {} /\ Cardinality(found) = 1
    BY <2>2 DEF Unique
  <2>3. CASE found # {} /\ Cardinality(found) # 1
    BY <2>3 DEF Unique
  <2> QED BY <2>1, <2>2, <2>3
<1>2. CASE \E e \in {"NotFound", "Usage"} : Unique(found) = Fail(e)
  <2>1. PICK e \in {"NotFound", "Usage"} : Unique(found) = Fail(e)
    BY <1>2
  <2>2. pc' = "done" /\ result' = [err |-> e, value |-> None] /\ key' = key
    BY <2>1 DEF Settle, Fail, Finish
  <2>3. CommandsTypeOK'
    BY <2>2 DEF TypeInv, CommandsTypeOK, Errors
  <2> QED BY <2>3 DEF TypeInv
<1>3. CASE \E k \in found : Unique(found) = Found(k)
  <2>1. PICK k \in found : Unique(found) = Found(k)
    BY <1>3
  <2>2. key' = k /\ pc' = next /\ result' = result
    BY <2>1 DEF Settle, Found
  <2> QED BY <2>2, GoesOn
<1> QED BY <1>1, <1>2, <1>3

LEMMA StartTypes ==
  ASSUME TypeInv, NEW c \in CommandLines, Start(c)
  PROVE  TypeInv'
<1> DEFINE parsed == IF c.verb = "apply" THEN ParseManifest(c.file, Or(c.ns, DefaultNs)) ELSE None
           named == CASE c.verb = "apply" -> parsed.key
                      [] c.verb \in PipelineVerbs -> <<"Pipeline", c.ns, c.name>>
                      [] OTHER -> <<"MonoVertex", c.ns, c.name>>
           known == \/ c.verb = "apply"
                    \/ c.ns # None /\ c.verb \in PipelineVerbs \cup MonoVertexVerbs
<1>1. cmd' = c /\ listed' = NoMatches
  BY DEF Start
<1>2. ListedKinds'
  <2>1. listed' = [kind \in Kinds |-> None]
    BY <1>1 DEF NoMatches, Kinds
  <2> QED BY <2>1 DEF ListedKinds
<1>3. \/ \E e \in {"Usage", "Invalid"} : Finish(e, None) /\ key' = None
      \/ /\ pc' = FirstCall(c) /\ result' = Pending
         /\ key' = IF known THEN named ELSE None
         /\ parsed # Invalid
  BY DEF Start
<1>4. CASE \E e \in {"Usage", "Invalid"} : Finish(e, None) /\ key' = None
  BY <1>1, <1>2, <1>4 DEF Finish, TypeInv, CommandsTypeOK, Errors
<1>5. CASE pc' = FirstCall(c) /\ result' = Pending /\ key' = (IF known THEN named ELSE None)
           /\ parsed # Invalid
  <2>1. FirstCall(c) # "done"
    BY DEF FirstCall
  <2>2. c.verb = "apply" => c.verb \notin PipelineVerbs
    BY DEF PipelineVerbs, PipelineReads, PipelineWrites
  <2>3. CASE c.verb = "apply"
    <3>1. key' = parsed.key /\ \E o : parsed = IntoPipeline(o)
      BY <1>5, <2>2, <2>3 DEF ParseManifest
    <3>2. OfAKind(key')
      BY <1>5, <3>1 DEF OfAKind, IntoPipeline
    <3> QED BY <1>1, <1>2, <1>5, <2>1, <3>2
            DEF TypeInv, CommandsTypeOK, OfAKind, Pending, Errors
  <2>4. CASE c.verb # "apply"
    <3>1. key' = None \/ OfAKind(key')
      BY <1>5, <2>4 DEF OfAKind
    <3> QED BY <1>1, <1>2, <1>5, <2>1, <3>1
            DEF TypeInv, CommandsTypeOK, OfAKind, Pending, Errors
  <2> QED BY <2>3, <2>4
<1> QED BY <1>3, <1>4, <1>5

\* The calls that search: one list of the whole cluster, the two lists, the services.
LEMMA SearchTypes ==
  ASSUME TypeInv, Find \/ InspectIsb
  PROVE  TypeInv'
<1>1. pc # "done" /\ UNCHANGED <<cmd, listed>> /\ ListedKinds'
  BY DEF Find, InspectIsb, rest, TypeInv, ListedKinds
<1>2. PICK answer, next : /\ ListAnswer(answer) /\ next # "done"
                          /\ IF answer.err # "none" THEN Finish(answer.err, None) /\ UNCHANGED key
                             ELSE Settle(Matches(answer, cmd.name), next)
  <2>1. CASE Find
    BY <2>1, ListsAnswer DEF Find
  <2>2. CASE InspectIsb
    BY <2>2, ListsAnswer DEF InspectIsb
  <2> QED BY <2>1, <2>2
<1>3. CASE answer.err # "none"
  <2>1. answer.err \in Endings
    BY <1>2, <1>3 DEF ListAnswer, Answer, Endings, Errors
  <2> QED BY <1>1, <1>2, <1>3, <2>1, Ends
<1>4. CASE answer.err = "none"
  <2>1. \A k \in Matches(answer, cmd.name) : OfAKind(k)
    BY <1>2, <1>4 DEF ListAnswer, AllOfAKind, Matches
  <2> QED BY <1>1, <1>2, <1>4, <2>1, SettleKeeps
<1> QED BY <1>3, <1>4

LEMMA ListTypes ==
  ASSUME TypeInv, NEW kind \in {"Pipeline", "MonoVertex"}, ListOne(kind)
  PROVE  TypeInv'
<1> DEFINE answer == IF kind = "Pipeline" THEN ListPipelines(pipelines, cmd.ns)
                     ELSE ListMonoVertices(monovertices, cmd.ns)
           after == [listed EXCEPT ![kind] = answer.value]
           both == after.Pipeline \cup after.MonoVertex
           named == {w.key : w \in {x \in both : x.key[3] = cmd.name}}
<1>1. pc # "done" /\ UNCHANGED cmd /\ kind \in Kinds
  BY DEF ListOne, rest, Kinds
<1>2. ListAnswer(answer)
  BY ListsAnswer
<1>3. CASE answer.err # "none"
  <2>1. Finish(answer.err, None) /\ UNCHANGED <<key, listed>>
    BY <1>3 DEF ListOne
  <2>2. answer.err \in Endings
    BY <1>2, <1>3 DEF ListAnswer, Answer, Endings, Errors
  <2> HIDE DEF answer
  <2> QED BY <1>1, <2>1, <2>2, Ends
<1>4. CASE answer.err = "none"
  <2>1. /\ listed' = after
        /\ IF None \in {after.Pipeline, after.MonoVertex} THEN UNCHANGED <<pc, key, result>>
           ELSE IF cmd.verb = "ls" THEN Finish("none", both) /\ UNCHANGED key
           ELSE Settle(named, "call")
    BY <1>4 DEF ListOne
  <2>2. /\ after = [k \in Kinds |-> after[k]]
        /\ \A k \in Kinds : after[k] = None \/ AllOfAKind(after[k])
    <3>1. AllOfAKind(answer.value)
      BY <1>2, <1>4 DEF ListAnswer
    <3> HIDE DEF answer
    <3> QED BY <1>1, <3>1 DEF TypeInv, ListedKinds, Kinds
  <2>3. ListedKinds'
    BY <2>1, <2>2 DEF ListedKinds
  <2>4. CASE None \in {after.Pipeline, after.MonoVertex}
    BY <1>1, <2>1, <2>3, <2>4, GoesOn
  <2>5. CASE None \notin {after.Pipeline, after.MonoVertex} /\ cmd.verb = "ls"
    <3>1. Finish("none", both) /\ UNCHANGED key
      BY <2>1, <2>5
    <3> QED BY <1>1, <2>3, <3>1 DEF TypeInv, CommandsTypeOK, Finish, Errors
  <2>6. CASE None \notin {after.Pipeline, after.MonoVertex} /\ cmd.verb # "ls"
    <3>1. Settle(named, "call")
      BY <2>1, <2>6
    <3>2. AllOfAKind(after.Pipeline) /\ AllOfAKind(after.MonoVertex)
      <4> HIDE DEF after
      <4> QED BY <2>2, <2>6 DEF Kinds
    <3>3. \A k \in named : OfAKind(k)
      <4> HIDE DEF after
      <4> QED BY <3>2 DEF AllOfAKind
    <3> HIDE DEF named
    <3> QED BY <1>1, <2>3, <3>1, <3>3, SettleKeeps
  <2> QED BY <2>4, <2>5, <2>6
<1> QED BY <1>3, <1>4

\* The calls that read one object, or wait for one.
LEMMA ReadTypes ==
  ASSUME TypeInv, Show \/ Wait \/ WaitTimesOut \/ IsbUsers \/ ReadBack \/ Said \/ ReadLive
  PROVE  TypeInv'
<1>0. UNCHANGED <<cmd, key, listed>> /\ ListedKinds'
  BY DEF Show, Wait, WaitTimesOut, IsbUsers, ReadBack, Said, ReadLive, rest, TypeInv, ListedKinds
<1>1. \A a : Answer(a) => a.err \in Endings /\ (a.err # "none" => a.value = None)
  BY DEF Answer, Endings, Errors
<1>2. "none" \in Endings /\ "Timeout" \in Endings
  BY DEF Endings, Errors
<1>3. Answer(Lookup(key)) /\ Answer(GetPipeline(pipelines, key))
  BY ReadsAnswer
<1>4. CASE Show
  <2>1. Finish(Lookup(key).err, Lookup(key).value)
    BY <1>4 DEF Show
  <2> QED BY <1>0, <1>1, <1>3, <2>1, Ends
<1>5. CASE Wait
  <2>1. \/ Finish(Lookup(key).err, None)
        \/ Finish("none", Lookup(key).value)
        \/ pc # "done" /\ pc' = "resume" /\ UNCHANGED result
    BY <1>5 DEF Wait, Waiting
  <2>2. CASE Finish(Lookup(key).err, None)
    BY <1>0, <1>1, <1>3, <2>2, Ends
  <2>3. CASE Finish("none", Lookup(key).value)
    BY <1>0, <1>2, <2>3, Ends
  <2>4. CASE pc # "done" /\ pc' = "resume" /\ UNCHANGED result
    BY <1>0, <2>4, GoesOn
  <2> QED BY <2>1, <2>2, <2>3, <2>4
<1>6. CASE WaitTimesOut
  BY <1>0, <1>2, <1>6, Ends DEF WaitTimesOut
<1>7. CASE IsbUsers
  <2> DEFINE answer == ListPipelines(pipelines, key[2])
  <2>1. Answer(answer)
    BY ListsAnswer DEF ListAnswer
  <2>2. CASE answer.err # "none"
    <3>1. Finish(answer.err, None)
      BY <1>7, <2>2 DEF IsbUsers
    <3> HIDE DEF answer
    <3> QED BY <1>0, <1>1, <2>1, <3>1, Ends
  <2>3. CASE answer.err = "none"
    <3>1. \E v : Finish("none", v)
      BY <1>7, <2>3 DEF IsbUsers
    <3> QED BY <1>0, <1>2, <3>1, Ends
  <2> QED BY <2>2, <2>3
<1>8. CASE ReadBack
  <2> DEFINE answer == GetPipeline(pipelines, key)
  <2>1. \/ Finish(answer.err, answer.value)
        \/ pc # "done" /\ pc' = "resume" /\ UNCHANGED result
    BY <1>8 DEF ReadBack
  <2> QED BY <1>0, <1>1, <1>3, <2>1, Ends, GoesOn
<1>9. CASE Said
  BY <1>0, <1>2, <1>9, Ends DEF Said
<1>10. CASE ReadLive
  <2> DEFINE answer == GetPipeline(pipelines, key)
  <2>1. \/ Finish(answer.err, None)
        \/ pc # "done" /\ pc' = "backlog" /\ UNCHANGED result
    BY <1>10 DEF ReadLive
  <2> QED BY <1>0, <1>1, <1>3, <2>1, Ends, GoesOn
<1> QED BY <1>4, <1>5, <1>6, <1>7, <1>8, <1>9, <1>10

\* The calls that write one field or one object, and the restart of a vertex.
LEMMA WriteTypes ==
  ASSUME TypeInv, Pause \/ Resume \/ RecycleVertex \/ Scale \/ MonoVertexLifecycle
  PROVE  TypeInv'
<1>0. UNCHANGED <<cmd, key, listed>> /\ pc # "done"
  BY DEF Pause, Resume, Patch, RecycleVertex, Scale, MonoVertexLifecycle, calling, rest
<1>1. "none" \in Endings /\ "NotFound" \in Endings /\ "Usage" \in Endings /\ "Invalid" \in Endings
  BY DEF Endings, Errors
<1>2. \A desired, resume : SetLifecycle(pipelines, key, desired, resume, cmd.dry).err \in Endings
  BY <1>1 DEF SetLifecycle, Refused, Wrote
<1>3. \A desired : SetMonoVertexLifecycle(monovertices, key, desired, cmd.dry).err \in Endings
  BY <1>1 DEF SetMonoVertexLifecycle, Refused, Wrote
<1>4. CASE Pause \/ Resume
  <2>1. PICK desired, resume, next : next # "done" /\ Patch(desired, resume, next)
    <3>1. (IF Waits THEN "wait" ELSE "back") # "done"
      OBVIOUS
    <3> QED BY <1>4, <3>1 DEF Pause, Resume
  <2>2. Answered(SetLifecycle(pipelines, key, desired, resume, cmd.dry).err, next)
    BY <2>1 DEF Patch
  <2> QED BY <1>0, <1>2, <2>1, <2>2, AnsweredKeeps
<1>5. CASE RecycleVertex
  <2>1. Answer(GetPipeline(pipelines, key))
    BY ReadsAnswer
  <2>2. \E e \in Endings : Finish(e, None)
    BY <1>1, <1>5, <2>1 DEF RecycleVertex, Answer
  <2> QED BY <1>0, <2>2, Ends
<1>6. CASE Scale
  <2>1. \E e \in Endings : Answered(e, "said")
    BY <1>1, <1>6 DEF Scale
  <2> QED BY <1>0, <2>1, AnsweredKeeps
<1>7. CASE MonoVertexLifecycle
  <2>1. \E e \in Endings : Answered(e, "said")
    BY <1>3, <1>7 DEF MonoVertexLifecycle
  <2> QED BY <1>0, <2>1, AnsweredKeeps
<1> QED BY <1>4, <1>5, <1>6, <1>7

\* The check of a manifest, and its sending.
LEMMA ApplyTypes ==
  ASSUME TypeInv, CheckManifest \/ SendManifest
  PROVE  TypeInv'
<1>0. UNCHANGED <<cmd, key, listed>> /\ pc # "done" /\ ListedKinds'
  BY DEF CheckManifest, SendManifest, calling, TypeInv, ListedKinds
<1>1. {"none", "CheckFailed", "Invalid", "Cluster"} \subseteq Endings
  BY DEF Endings, Errors
<1>2. CASE CheckManifest
  <2>1. \/ \E v : Finish("CheckFailed", v) \/ Finish("none", v)
        \/ pc' = "write" /\ UNCHANGED result
    BY <1>2 DEF CheckManifest
  <2> QED BY <1>0, <1>1, <2>1, Ends, GoesOn
<1>3. CASE SendManifest
  <2> DEFINE doc == Addressed(cmd.file, Or(cmd.ns, DefaultNs))
             did == ApplyManifest(pipelines, doc, IF key \in DOMAIN owned THEN owned[key] ELSE {}, cmd.dry)
             said == IF did.err # "none" THEN None
                     ELSE IF live = None THEN "created" ELSE "configured"
  <2>1. did.err \in {"none", "Invalid"}
    BY DEF ApplyManifest
  <2>2. Finish(did.err, said) \/ Finish("Cluster", None)
    BY <1>3 DEF SendManifest
  <2> HIDE DEF did
  <2>3. did.err # "none" => said = None
    OBVIOUS
  <2> HIDE DEF said
  <2> QED BY <1>0, <1>1, <2>1, <2>2, <2>3, Ends
<1> QED BY <1>2, <1>3

LEMMA LogTypes ==
  ASSUME TypeInv, ListLogPods \/ ReadLog \/ LogBreaks \/ ShowLogs \/ CallFails
  PROVE  TypeInv'
<1>0. UNCHANGED <<cmd, key, listed>> /\ pc # "done" /\ ListedKinds'
  BY DEF ListLogPods, ReadLog, LogBreaks, ShowLogs, CallFails, Calls, rest, TypeInv, ListedKinds
<1>1. {"none", "Usage", "Panic", "NotFound", "Cluster", "Forbidden"} \subseteq Endings
  BY DEF Endings, Errors
<1>2. CASE ListLogPods
  <2>1. SinceError(cmd.since) \in Endings
    BY <1>1 DEF SinceError
  <2>2. \/ \E e \in Endings : Finish(e, None)
        \/ pc' = "logs" /\ UNCHANGED result
    BY <1>1, <1>2, <2>1 DEF ListLogPods
  <2> QED BY <1>0, <2>2, Ends, GoesOn
<1>3. CASE ReadLog
  BY <1>0, <1>3, GoesOn DEF ReadLog
<1>4. CASE LogBreaks \/ ShowLogs \/ CallFails
  <2>1. \E e \in Endings : \E v : Finish(e, v) /\ (e # "none" => v = None)
    BY <1>1, <1>4 DEF LogBreaks, ShowLogs, CallFails
  <2> QED BY <1>0, <2>1, Ends
<1> QED BY <1>2, <1>3, <1>4

LEMMA InitTypes == Init => TypeInv
<1> SUFFICES ASSUME Init PROVE TypeInv
  OBVIOUS
<1>1. cmd = NoCommand /\ key = None /\ result = Pending /\ listed = NoMatches
  BY DEF Init
<1>2. listed = [kind \in Kinds |-> None]
  BY <1>1 DEF NoMatches, Kinds
<1>3. ListedKinds
  BY <1>2 DEF ListedKinds
<1>4. CommandsTypeOK
  BY <1>1 DEF CommandsTypeOK, Pending, Errors
<1> QED BY <1>3, <1>4 DEF TypeInv

LEMMA NextTypes ==
  ASSUME TypeInv, [Next]_vars
  PROVE  TypeInv'
<1>1. ASSUME NEW c \in CommandLines, Start(c) PROVE TypeInv'
  BY <1>1, StartTypes
<1>2. CASE Step
  <2>1. ASSUME NEW kind \in {"Pipeline", "MonoVertex"}, ListOne(kind) PROVE TypeInv'
    BY <2>1, ListTypes
  <2> QED BY <1>2, <2>1, SearchTypes, ReadTypes, WriteTypes, ApplyTypes, LogTypes DEF Step
<1>3. CASE OthersWrite \/ OthersDelete \/ OthersMonoVertex \/ UNCHANGED vars
  <2>1. UNCHANGED <<command, pc>>
    BY <1>3 DEF OthersWrite, OthersDelete, OthersMonoVertex, Elsewhere, vars
  <2>2. UNCHANGED <<cmd, key, listed, result, pc>>
    BY <2>1 DEF command
  <2> QED BY <2>2 DEF TypeInv, CommandsTypeOK, ListedKinds
<1> QED BY <1>1, <1>2, <1>3 DEF Next

\* A command that runs has no result, one that ended has one of the errors there
\* are, and one that failed shows nothing but the report of a check: whatever the
\* command lines, the objects and the failures of calls (commands.rs:258-866).
THEOREM CommandsTypeOKThm == Spec => []CommandsTypeOK
<1>1. Init => TypeInv
  BY InitTypes
<1>2. TypeInv /\ [Next]_vars => TypeInv'
  BY NextTypes
<1>3. TypeInv => CommandsTypeOK
  BY DEF TypeInv
<1> QED BY <1>1, <1>2, <1>3, PTL DEF Spec
-----------------------------------------------------------------------------
(***************************************************************************)
(* What a command says it found.  The histories are related to the present *)
(* while the command searches: what existed all along still does, and      *)
(* whatever there is was remembered.  Once the name is settled the target  *)
(* is one the command could mean; what the command then writes itself is   *)
(* not remembered, but a pipeline it has patched is odd only if it was.    *)
(***************************************************************************)
SettledAt == {"call", "wait", "back", "resume", "said", "logs"}

MonoVertexObjects ==
  \A k \in DOMAIN monovertices :
    /\ IsMonoVertexObject(monovertices[k])
    /\ k = <<"MonoVertex", monovertices[k].namespace, monovertices[k].name>>

FiniteStores ==
  IsFiniteSet(DOMAIN pipelines) /\ IsFiniteSet(DOMAIN monovertices) /\ IsFiniteSet(ever)

Routes ==
  /\ cmd = NoCommand => pc = "done"
  /\ pc \in {"find", "lists"} => key = None
  /\ pc = "find" => cmd.ns = None /\ cmd.verb \in PipelineVerbs \cup MonoVertexVerbs
  /\ pc = "lists" => cmd.verb \in {"ls", "get"}
  /\ pc \in {"isb", "users"} => cmd.verb = "isb"
  /\ pc \in {"read", "backlog", "write"} => cmd.verb = "apply"
  /\ pc \in {"wait", "back"} => cmd.verb \in {"pause", "recycle"}
  /\ pc = "resume" => cmd.verb = "recycle"
  /\ pc = "said" => cmd.verb \in PipelineWrites \cup MonoVertexWrites
  /\ pc = "logs" => cmd.verb \in {"logs", "mvtx logs"}
  /\ pc \in SettledAt => Searched /\ key # None /\ Meant(cmd, key)

Remembered ==
  /\ pc \in {"find", "lists"} => always \subseteq Existing(cmd)
  /\ pc \in {"find", "lists", "call"} => Everything \subseteq ever
  /\ pc \in {"wait", "back"} /\ key \in DOMAIN pipelines =>
       \E w \in ever : w[1] = key /\ (IntoPipeline(pipelines[key]) = Invalid => IsOdd(w))

\* A list that was answered: what is in it was there, what was there all along is in it.
ListedThere ==
  pc = "lists" =>
    \A kind \in Kinds : listed[kind] # None =>
      /\ \A w \in listed[kind] : /\ w.key # None /\ cmd.ns \in {None, w.key[2]}
                                 /\ \E x \in ever : x[1] = w.key
      /\ \A k \in always : k[1] = kind => \E w \in listed[kind] : w.key = k

FoundThere ==
  cmd # NoCommand /\ Searched /\ cmd.ns = None /\ key # None => \E w \in ever : w[1] = key

\* The workloads with the name asked for that there were.
Namesakes == {w[1] : w \in {x \in ever : Meant(cmd, x[1])}}

Present0 == MonoVertexObjects /\ FiniteStores
SearchInv == Present0 /\ Routes /\ Remembered /\ ListedThere /\ FoundThere /\ FindsWhatIsThere

-----------------------------------------------------------------------------
(* The verbs, and the workloads of the cluster.                            *)

LEMMA VerbsApart ==
  /\ PipelineVerbs \cap MonoVertexVerbs = {}
  /\ {"ls", "get", "isb", "apply"} \cap (PipelineVerbs \cup MonoVertexVerbs) = {}
BY DEF PipelineVerbs, MonoVertexVerbs, PipelineReads, PipelineWrites, MonoVertexWrites

LEMMA EverythingIs ==
  /\ \A k \in DOMAIN pipelines : <<k, pipelines[k]>> \in Everything
  /\ \A k \in DOMAIN monovertices : <<k, monovertices[k]>> \in Everything
  /\ \A w \in Everything : \/ w[1] \in DOMAIN pipelines /\ w = <<w[1], pipelines[w[1]]>>
                           \/ w[1] \in DOMAIN monovertices /\ w = <<w[1], monovertices[w[1]]>>
BY DEF Everything

LEMMA FiniteImage ==
  ASSUME NEW S, IsFiniteSet(S), NEW f
  PROVE  IsFiniteSet({f[x] : x \in S})
<1> DEFINE T == {f[x] : x \in S}
           g == [x \in S |-> f[x]]
<1>1. g \in Surjection(S, T)
  BY DEF Surjection
<1> QED BY <1>1, FS_Surjection

LEMMA EverythingFinite ==
  ASSUME IsFiniteSet(DOMAIN pipelines), IsFiniteSet(DOMAIN monovertices)
  PROVE  IsFiniteSet(Everything)
<1> DEFINE f == [k \in DOMAIN pipelines |-> <<k, pipelines[k]>>]
           g == [k \in DOMAIN monovertices |-> <<k, monovertices[k]>>]
<1>1. Everything = {f[k] : k \in DOMAIN pipelines} \cup {g[k] : k \in DOMAIN monovertices}
  BY DEF Everything
<1> HIDE DEF f, g
<1>2. /\ IsFiniteSet({f[k] : k \in DOMAIN pipelines})
      /\ IsFiniteSet({g[k] : k \in DOMAIN monovertices})
  BY FiniteImage
<1> QED BY <1>1, <1>2, FS_Union

LEMMA KeysOfKinds ==
  ASSUME NoneIsNoKey, StoreObjects, MonoVertexObjects
  PROVE  /\ \A k \in DOMAIN pipelines : k # None /\ k[1] = "Pipeline"
         /\ \A k \in DOMAIN monovertices : k # None /\ k[1] = "MonoVertex"
BY DEF NoneIsNoKey, StoreObjects, MonoVertexObjects, KeyOf

\* A list says what there is of its kind in its scope, or that something of it is odd.
Lists(answer, kind, scope) ==
  \/ /\ answer.err = "Invalid"
     /\ \E x \in Everything : x[1][1] = kind /\ scope \in {None, x[1][2]} /\ IsOdd(x)
  \/ /\ answer.err = "none"
     /\ \A w \in answer.value : /\ w.key[1] = kind /\ scope \in {None, w.key[2]}
                                /\ \E x \in Everything : x[1] = w.key
     /\ \A x \in Everything : x[1][1] = kind /\ scope \in {None, x[1][2]} =>
          \E w \in answer.value : w.key = x[1]

LEMMA PipelinesListed ==
  ASSUME NoneIsNoKey, StoreObjects, MonoVertexObjects, NEW scope
  PROVE  Lists(ListPipelines(pipelines, scope), "Pipeline", scope)
<1> DEFINE all == {IntoPipeline(pipelines[k]) : k \in ScopedKeys(pipelines, scope)}
<1>1. ListPipelines(pipelines, scope) = IF Invalid \in all THEN Fail("Invalid") ELSE Found(all)
  BY DEF ListPipelines, List
<1>2. CASE Invalid \in all
  <2>1. PICK k \in ScopedKeys(pipelines, scope) : IntoPipeline(pipelines[k]) = Invalid
    BY <1>2
  <2>2. k \in DOMAIN pipelines /\ scope \in {None, k[2]} /\ k[1] = "Pipeline"
    BY KeysOfKinds DEF ScopedKeys
  <2>3. IsOdd(<<k, pipelines[k]>>) /\ <<k, pipelines[k]>> \in Everything
    BY <2>1, <2>2, EverythingIs DEF IsOdd
  <2> QED BY <1>1, <1>2, <2>2, <2>3 DEF Lists, Fail
<1>3. CASE Invalid \notin all
  <2>1. \A k \in ScopedKeys(pipelines, scope) : IntoPipeline(pipelines[k]).key = k
    <3> SUFFICES ASSUME NEW k \in ScopedKeys(pipelines, scope)
                 PROVE  IntoPipeline(pipelines[k]).key = k
      OBVIOUS
    <3>1. IntoPipeline(pipelines[k]) # Invalid /\ k \in DOMAIN pipelines
      BY <1>3 DEF ScopedKeys
    <3>2. IntoPipeline(pipelines[k]).key = KeyOf(pipelines[k])
      BY <3>1 DEF IntoPipeline, KeyOf
    <3> QED BY <3>1, <3>2 DEF StoreObjects
  <2>2. \A w \in all : w.key \in ScopedKeys(pipelines, scope)
    BY <2>1
  <2>3. \A w \in all : /\ w.key[1] = "Pipeline" /\ scope \in {None, w.key[2]}
                       /\ \E x \in Everything : x[1] = w.key
    BY <2>2, KeysOfKinds, EverythingIs DEF ScopedKeys
  <2>4. ASSUME NEW x \in Everything, x[1][1] = "Pipeline", scope \in {None, x[1][2]}
        PROVE  \E w \in all : w.key = x[1]
    <3>1. x[1] \in ScopedKeys(pipelines, scope)
      BY <2>4, EverythingIs, KeysOfKinds DEF ScopedKeys
    <3> QED BY <2>1, <3>1
  <2> HIDE DEF all
  <2> QED BY <1>1, <1>3, <2>3, <2>4 DEF Lists, Found
<1> QED BY <1>2, <1>3

LEMMA MonoVerticesListed ==
  ASSUME NoneIsNoKey, StoreObjects, MonoVertexObjects, NEW scope
  PROVE  Lists(ListMonoVertices(monovertices, scope), "MonoVertex", scope)
<1> DEFINE all == {IntoMonoVertex(monovertices[k]) : k \in ScopedKeys(monovertices, scope)}
<1>1. ListMonoVertices(monovertices, scope) = IF Invalid \in all THEN Fail("Invalid") ELSE Found(all)
  BY DEF ListMonoVertices, List
<1>2. CASE Invalid \in all
  <2>1. PICK k \in ScopedKeys(monovertices, scope) : IntoMonoVertex(monovertices[k]) = Invalid
    BY <1>2
  <2>2. k \in DOMAIN monovertices /\ scope \in {None, k[2]} /\ k[1] = "MonoVertex"
    BY KeysOfKinds DEF ScopedKeys
  <2>3. IsOdd(<<k, monovertices[k]>>) /\ <<k, monovertices[k]>> \in Everything
    BY <2>1, <2>2, EverythingIs DEF IsOdd
  <2> QED BY <1>1, <1>2, <2>2, <2>3 DEF Lists, Fail
<1>3. CASE Invalid \notin all
  <2>1. \A k \in ScopedKeys(monovertices, scope) : IntoMonoVertex(monovertices[k]).key = k
    <3> SUFFICES ASSUME NEW k \in ScopedKeys(monovertices, scope)
                 PROVE  IntoMonoVertex(monovertices[k]).key = k
      OBVIOUS
    <3>1. IntoMonoVertex(monovertices[k]) # Invalid /\ k \in DOMAIN monovertices
      BY <1>3 DEF ScopedKeys
    <3>2. IntoMonoVertex(monovertices[k]).key =
            <<"MonoVertex", monovertices[k].namespace, monovertices[k].name>>
      BY <3>1 DEF IntoMonoVertex
    <3> QED BY <3>1, <3>2 DEF MonoVertexObjects
  <2>2. \A w \in all : w.key \in ScopedKeys(monovertices, scope)
    BY <2>1
  <2>3. \A w \in all : /\ w.key[1] = "MonoVertex" /\ scope \in {None, w.key[2]}
                       /\ \E x \in Everything : x[1] = w.key
    BY <2>2, KeysOfKinds, EverythingIs DEF ScopedKeys
  <2>4. ASSUME NEW x \in Everything, x[1][1] = "MonoVertex", scope \in {None, x[1][2]}
        PROVE  \E w \in all : w.key = x[1]
    <3>1. x[1] \in ScopedKeys(monovertices, scope)
      BY <2>4, EverythingIs, KeysOfKinds DEF ScopedKeys
    <3> QED BY <2>1, <3>1
  <2> HIDE DEF all
  <2> QED BY <1>1, <1>3, <2>3, <2>4 DEF Lists, Found
<1> QED BY <1>2, <1>3

-----------------------------------------------------------------------------
(* The shapes the steps have.                                              *)

\* A command that ends: what remains to be seen is that it tells the truth.
LEMMA EndSearch ==
  ASSUME SearchInv, pc' = "done", UNCHANGED <<cmd, key, ever>>, Present0', FindsWhatIsThere'
  PROVE  SearchInv'
BY DEF SearchInv, Routes, Remembered, ListedThere, FoundThere, SettledAt, Searched

\* A command that ends once it has its target.
LEMMA SettledEnd ==
  ASSUME SearchInv, pc \in SettledAt, NEW e, NEW v, Finish(e, v),
         UNCHANGED <<cmd, key, ever>>, Present0',
         e = "Invalid" => \E w \in ever : w[1] = key /\ IsOdd(w),
         e = "none" /\ cmd.verb \in ShowVerbs \cup {"wait"} => \E w \in ever : w[1] = key
  PROVE  SearchInv'
<1>1. pc' = "done" /\ result'.err = e
  BY DEF Finish
<1>2. Searched /\ key # None /\ Meant(cmd, key) /\ cmd # NoCommand
  BY DEF SearchInv, Routes, SettledAt
<1>3. InScope(key)
  BY <1>2 DEF Meant, InScope
<1>4. cmd.ns = None => \E w \in ever : w[1] = key
  BY <1>2 DEF SearchInv, FoundThere
<1>5. FindsWhatIsThere'
  BY <1>1, <1>2, <1>3, <1>4 DEF FindsWhatIsThere, InScope
<1> QED BY <1>1, <1>5, EndSearch

\* A command that goes on once it has its target, or never looks for one.
LEMMA SettledMove ==
  ASSUME SearchInv, UNCHANGED <<cmd, key, ever>>, Present0',
         pc' \in {"wait", "back", "resume", "said", "logs"}, pc \in SettledAt,
         pc' \in {"wait", "back"} => cmd.verb \in {"pause", "recycle"},
         pc' = "resume" => cmd.verb = "recycle",
         pc' = "said" => cmd.verb \in PipelineWrites \cup MonoVertexWrites,
         pc' = "logs" => cmd.verb \in {"logs", "mvtx logs"},
         pc' \in {"wait", "back"} /\ key \in DOMAIN pipelines' =>
           \E w \in ever : w[1] = key /\ (IntoPipeline(pipelines'[key]) = Invalid => IsOdd(w))
  PROVE  SearchInv'
<1>1. Searched /\ key # None /\ Meant(cmd, key) /\ cmd # NoCommand
  BY DEF SearchInv, Routes, SettledAt
<1>2. Routes'
  BY <1>1 DEF Routes, SettledAt, Searched
<1>3. Remembered'
  BY DEF Remembered
<1>4. ListedThere' /\ FoundThere' /\ FindsWhatIsThere'
  BY <1>1 DEF SearchInv, ListedThere, FoundThere, FindsWhatIsThere, Searched
<1> QED BY <1>2, <1>3, <1>4 DEF SearchInv

\* A command that never searches.
LEMMA OtherCommand ==
  ASSUME SearchInv, UNCHANGED <<cmd, ever>>, Present0', ~Searched,
         pc' # "done" => cmd # NoCommand,
         pc' \in {"isb", "users", "done"} => cmd.verb = "isb" \/ pc' = "done",
         pc' \in {"read", "backlog", "write"} => cmd.verb = "apply",
         pc' \notin {"find", "lists"} \cup SettledAt
  PROVE  SearchInv'
BY DEF SearchInv, Routes, Remembered, ListedThere, FoundThere, FindsWhatIsThere,
       SettledAt, Searched

\* Settle takes one of what was found, or says why not.
LEMMA SettleSays ==
  ASSUME NEW found, NEW next, Settle(found, next)
  PROVE  \/ found = {} /\ pc' = "done" /\ key' = key /\ result'.err = "NotFound"
         \/ /\ found # {} /\ Cardinality(found) # 1
            /\ pc' = "done" /\ key' = key /\ result'.err = "Usage"
         \/ key' \in found /\ pc' = next
<1>1. CASE found = {}
  <2>1. Cardinality(found) = 0
    BY <1>1, FS_EmptySet
  <2>2. Unique(found) = Fail("NotFound")
    BY <1>1, <2>1 DEF Unique
  <2> QED BY <1>1, <2>2 DEF Settle, Finish, Fail
<1>2. CASE found # {} /\ Cardinality(found) = 1
  <2>1. Unique(found) = Found(CHOOSE k \in found : TRUE)
    BY <1>2 DEF Unique
  <2>2. (CHOOSE k \in found : TRUE) \in found
    BY <1>2
  <2> QED BY <2>1, <2>2 DEF Settle, Found
<1>3. CASE found # {} /\ Cardinality(found) # 1
  <2>1. Unique(found) = Fail("Usage")
    BY <1>3 DEF Unique
  <2> QED BY <1>3, <2>1 DEF Settle, Finish, Fail
<1> QED BY <1>1, <1>2, <1>3

\* The names there were are many when many were found.
LEMMA ManyNamesakes ==
  ASSUME NEW T, IsFiniteSet(T), NEW found, found # {}, Cardinality(found) # 1,
         found \subseteq {w[1] : w \in {x \in T : Meant(cmd, x[1])}}
  PROVE  Cardinality({w[1] : w \in {x \in T : Meant(cmd, x[1])}}) > 1
<1> DEFINE named == {x \in T : Meant(cmd, x[1])}
           f == [w \in named |-> w[1]]
           names == {w[1] : w \in named}
<1>1. IsFiniteSet(named)
  BY FS_Subset
<1>2. names = {f[w] : w \in named}
  OBVIOUS
<1>3. found \subseteq names
  OBVIOUS
<1> HIDE DEF named, f, names
<1>4. IsFiniteSet(names)
  BY <1>1, <1>2, FiniteImage
<1>5. IsFiniteSet(found) /\ Cardinality(found) <= Cardinality(names)
  BY <1>3, <1>4, FS_Subset
<1>6. Cardinality(found) \in Nat /\ Cardinality(names) \in Nat /\ Cardinality(found) # 0
  BY <1>4, <1>5, FS_CardinalityType, FS_EmptySet
<1>7. Cardinality(names) > 1
  BY <1>5, <1>6
<1> QED BY <1>7 DEF names, named

\* Settling on what was found, when it was there and all that existed was found.
LEMMA SettlesHonestly ==
  ASSUME SearchInv, pc \in {"find", "lists"}, Searched, NEW found, Settle(found, "call"),
         \A k \in found : k # None /\ Meant(cmd, k) /\ \E x \in ever : x[1] = k,
         always \subseteq found,
         UNCHANGED <<cmd, always, ever, pipelines, monovertices>>
  PROVE  SearchInv'
<1>1. key = None /\ cmd # NoCommand
  BY DEF SearchInv, Routes
<1>2. Present0'
  BY DEF SearchInv, Present0, MonoVertexObjects, FiniteStores
<1>3. found \subseteq Namesakes
  BY DEF Namesakes
<1>4. CASE found = {} /\ pc' = "done" /\ key' = key /\ result'.err = "NotFound"
  <2>1. FindsWhatIsThere'
    BY <1>4 DEF FindsWhatIsThere
  <2> QED BY <1>2, <1>4, <2>1, EndSearch
<1>5. CASE found # {} /\ Cardinality(found) # 1 /\ pc' = "done" /\ key' = key /\ result'.err = "Usage"
  <2>1. Cardinality(Namesakes) > 1
    BY <1>3, <1>5, ManyNamesakes DEF SearchInv, Present0, FiniteStores, Namesakes
  <2>2. FindsWhatIsThere'
    BY <1>5, <2>1 DEF FindsWhatIsThere, Namesakes
  <2> QED BY <1>2, <1>5, <2>2, EndSearch
<1>6. CASE key' \in found /\ pc' = "call"
  <2>1. Routes'
    BY <1>1, <1>6 DEF Routes, SettledAt, Searched
  <2>2. Remembered'
    BY <1>6 DEF SearchInv, Remembered, Everything
  <2>3. ListedThere' /\ FoundThere' /\ FindsWhatIsThere'
    BY <1>6 DEF ListedThere, FoundThere, FindsWhatIsThere
  <2> QED BY <1>2, <2>1, <2>2, <2>3 DEF SearchInv
<1> QED BY <1>4, <1>5, <1>6, SettleSays

-----------------------------------------------------------------------------
(* The steps.                                                              *)

LEMMA StartSearch ==
  ASSUME NoneIsNoKey, SearchInv, NEW c \in CommandLines, Start(c)
  PROVE  SearchInv'
<1> DEFINE parsed == IF c.verb = "apply" THEN ParseManifest(c.file, Or(c.ns, DefaultNs)) ELSE None
           named == CASE c.verb = "apply" -> parsed.key
                      [] c.verb \in PipelineVerbs -> <<"Pipeline", c.ns, c.name>>
                      [] OTHER -> <<"MonoVertex", c.ns, c.name>>
           known == \/ c.verb = "apply"
                    \/ c.ns # None /\ c.verb \in PipelineVerbs \cup MonoVertexVerbs
<1>1. /\ cmd' = c /\ listed' = NoMatches /\ UNCHANGED <<pipelines, monovertices>>
      /\ always' = Existing(c) /\ ever' = Everything
  BY DEF Start, cluster, Remember
<1>2. \/ BadUsage(c) /\ Finish("Usage", None) /\ key' = None
      \/ c.verb = "apply" /\ Finish("Invalid", None) /\ key' = None
      \/ pc' = FirstCall(c) /\ key' = IF known THEN named ELSE None
  BY CommandsAssumption DEF CommandsAssumption, Start
<1>3. c.verb \in Verbs /\ c # NoCommand /\ NameOk(DefaultNs, Label)
  <2>1. c.verb \in Verbs /\ NameOk(DefaultNs, Label)
    BY CommandsAssumption DEF CommandsAssumption
  <2>2. NoCommand.verb \notin Verbs
    BY DEF Verbs, NoCommand, PipelineVerbs, MonoVertexVerbs, PipelineReads, PipelineWrites,
           MonoVertexWrites
  <2> QED BY <2>1, <2>2
<1>4. Present0'
  BY <1>1, EverythingFinite DEF SearchInv, Present0, MonoVertexObjects, FiniteStores
<1>5. Everything' = Everything /\ always' = Existing(cmd)'
  BY <1>1 DEF Everything, Existing
<1>6. FoundThere'
  <2> SUFFICES ASSUME c.verb \in {"get"} \cup PipelineVerbs \cup MonoVertexVerbs, c.ns = None, key' # None
               PROVE  FALSE
    BY <1>1 DEF FoundThere, Searched
  <2>1. ~known
    BY VerbsApart
  <2> QED BY <1>2, <2>1
<1>7. CASE pc' = "done"
  <2>1. Routes' /\ Remembered' /\ ListedThere'
    BY <1>1, <1>7 DEF Routes, Remembered, ListedThere, SettledAt
  <2>2. FirstCall(c) # "done"
    BY DEF FirstCall
  <2>3. Searched' => result'.err = "Usage" /\ BadUsage(c)
    BY <1>1, <1>2, <1>7, <2>2, VerbsApart DEF Finish, Searched
  <2>4. FindsWhatIsThere'
    BY <1>1, <1>3, <2>3 DEF FindsWhatIsThere, BadUsage
  <2> QED BY <1>4, <1>6, <2>1, <2>4 DEF SearchInv
<1>8. CASE pc' = FirstCall(c) /\ key' = IF known THEN named ELSE None
  <2>1. /\ pc' \in {"lists", "read", "isb", "find", "call"}
        /\ pc' = "lists" => c.verb \in {"get", "ls"}
        /\ pc' = "read" => c.verb = "apply"
        /\ pc' = "isb" => c.verb = "isb"
        /\ pc' = "find" => c.ns = None /\ c.verb \in PipelineVerbs \cup MonoVertexVerbs
        /\ pc' = "call" => c.ns # None /\ c.verb \in PipelineVerbs \cup MonoVertexVerbs
    BY <1>3, <1>8 DEF FirstCall, Verbs
  <2>2. pc' \in {"find", "lists"} => key' = None
    BY <1>8, <2>1, VerbsApart
  <2>3. pc' = "call" => key' # None /\ Meant(c, key')
    <3> SUFFICES ASSUME pc' = "call" PROVE key' # None /\ Meant(c, key')
      OBVIOUS
    <3>1. key' = IF c.verb \in PipelineVerbs THEN <<"Pipeline", c.ns, c.name>>
                 ELSE <<"MonoVertex", c.ns, c.name>>
      BY <1>8, <2>1, VerbsApart
    <3> QED BY <2>1, <3>1, VerbsApart DEF Meant, NoneIsNoKey
  <2>4. Routes'
    BY <1>1, <1>3, <2>1, <2>2, <2>3 DEF Routes, SettledAt, Searched
  <2>5. Remembered'
    BY <1>1, <1>5, <2>1 DEF Remembered
  <2>6. ListedThere' /\ FindsWhatIsThere'
    BY <1>1, <2>1 DEF ListedThere, FindsWhatIsThere, NoMatches, Kinds
  <2> QED BY <1>4, <1>6, <2>4, <2>5, <2>6 DEF SearchInv
<1> QED BY <1>2, <1>7, <1>8 DEF Finish

\* A list that is refused ends the search with something odd that is in scope.
LEMMA RefusedList ==
  ASSUME SearchInv, pc \in {"find", "lists"}, NEW kind \in Kinds, NEW answer,
         Lists(answer, kind, cmd.ns), answer.err # "none", Finish(answer.err, None),
         pc = "lists" \/ kind = (IF cmd.verb \in PipelineVerbs THEN "Pipeline" ELSE "MonoVertex"),
         UNCHANGED <<cmd, key, always, ever, pipelines, monovertices>>
  PROVE  SearchInv'
<1>1. Present0'
  BY DEF SearchInv, Present0, MonoVertexObjects, FiniteStores
<1>2. PICK x \in Everything : cmd.ns \in {None, x[1][2]} /\ IsOdd(x)
  BY DEF Lists
<1>3. x \in ever
  BY DEF SearchInv, Remembered
<1>4. InScope(x[1])
  BY <1>2, VerbsApart DEF InScope, SearchInv, Routes
<1>5. pc' = "done" /\ result'.err = "Invalid"
  BY DEF Finish, Lists
<1>6. FindsWhatIsThere'
  BY <1>2, <1>3, <1>4, <1>5 DEF FindsWhatIsThere, InScope
<1> QED BY <1>1, <1>5, <1>6, EndSearch

LEMMA FindSearch ==
  ASSUME NoneIsNoKey, StoreObjects, SearchInv, Find
  PROVE  SearchInv'
<1> DEFINE kind == IF cmd.verb \in PipelineVerbs THEN "Pipeline" ELSE "MonoVertex"
           answer == IF cmd.verb \in PipelineVerbs THEN ListPipelines(pipelines, None)
                     ELSE ListMonoVertices(monovertices, None)
<1>1. /\ pc = "find" /\ UNCHANGED <<cmd, always, ever, pipelines, monovertices>>
      /\ IF answer.err # "none" THEN Finish(answer.err, None) /\ UNCHANGED key
         ELSE Settle(Matches(answer, cmd.name), "call")
  BY DEF Find, rest, cluster
<1>2. cmd.ns = None /\ cmd.verb \in PipelineVerbs \cup MonoVertexVerbs
  BY <1>1 DEF SearchInv, Routes
<1>3. Lists(answer, kind, cmd.ns) /\ kind \in Kinds
  BY <1>2, PipelinesListed, MonoVerticesListed DEF SearchInv, Present0, Kinds
<1> HIDE DEF answer
<1>4. CASE answer.err # "none"
  BY <1>1, <1>3, <1>4, RefusedList
<1>5. CASE answer.err = "none"
  <2> DEFINE found == Matches(answer, cmd.name)
  <2>1. found = {w.key : w \in {x \in answer.value : x.key[3] = cmd.name}}
    BY DEF Matches
  <2>2. ASSUME NEW k \in found
        PROVE  k # None /\ Meant(cmd, k) /\ \E x \in ever : x[1] = k
    <3>1. PICK w \in answer.value : k = w.key /\ k[3] = cmd.name
      BY <2>1, <2>2
    <3>2. k[1] = kind /\ \E x \in Everything : x[1] = k
      BY <1>3, <1>5, <3>1 DEF Lists
    <3>3. k # None
      BY <3>2, EverythingIs, KeysOfKinds DEF SearchInv, Present0
    <3>4. Meant(cmd, k)
      BY <1>2, <3>1, <3>2, VerbsApart DEF Meant
    <3>5. Everything \subseteq ever
      BY <1>1 DEF SearchInv, Remembered
    <3> QED BY <3>2, <3>3, <3>4, <3>5
  <2>3. ASSUME NEW k \in always
        PROVE  k \in found
    <3>1. k \in DOMAIN pipelines \cup DOMAIN monovertices /\ Meant(cmd, k)
      BY <1>1 DEF SearchInv, Remembered, Existing
    <3>2. \E x \in Everything : x[1] = k
      BY <3>1, EverythingIs
    <3>3. k[1] = kind /\ k[3] = cmd.name
      BY <1>2, <3>1 DEF Meant
    <3>4. PICK w \in answer.value : w.key = k
      BY <1>2, <1>3, <1>5, <3>2, <3>3 DEF Lists
    <3> QED BY <2>1, <3>3, <3>4
  <2>4. Searched
    BY <1>2 DEF Searched
  <2> HIDE DEF found
  <2>5. Settle(found, "call")
    BY <1>1, <1>5 DEF found
  <2> QED BY <1>1, <2>2, <2>3, <2>4, <2>5, SettlesHonestly
<1> QED BY <1>4, <1>5

LEMMA ListSearch ==
  ASSUME NoneIsNoKey, StoreObjects, TypeInv, SearchInv, NEW kind \in Kinds, ListOne(kind)
  PROVE  SearchInv'
<1> DEFINE answer == IF kind = "Pipeline" THEN ListPipelines(pipelines, cmd.ns)
                     ELSE ListMonoVertices(monovertices, cmd.ns)
           after == [listed EXCEPT ![kind] = answer.value]
           both == after.Pipeline \cup after.MonoVertex
           found == {w.key : w \in {x \in both : x.key[3] = cmd.name}}
<1>1. /\ pc = "lists" /\ UNCHANGED <<cmd, always, ever, pipelines, monovertices>>
      /\ IF answer.err # "none" THEN Finish(answer.err, None) /\ UNCHANGED <<key, listed>>
         ELSE /\ listed' = after
              /\ IF None \in {after.Pipeline, after.MonoVertex} THEN UNCHANGED <<pc, key, result>>
                 ELSE IF cmd.verb = "ls" THEN Finish("none", both) /\ UNCHANGED key
                 ELSE Settle(found, "call")
  BY DEF ListOne, rest, cluster
<1>2. Lists(answer, kind, cmd.ns)
  BY PipelinesListed, MonoVerticesListed DEF SearchInv, Present0, Kinds
<1>3. Present0'
  BY <1>1 DEF SearchInv, Present0, MonoVertexObjects, FiniteStores
<1>4. cmd.verb \in {"ls", "get"} /\ key = None /\ cmd # NoCommand
  BY <1>1 DEF SearchInv, Routes
<1>5. Everything \subseteq ever /\ always \subseteq Existing(cmd)
  BY <1>1 DEF SearchInv, Remembered
<1> HIDE DEF answer
<1>6. CASE answer.err # "none"
  BY <1>1, <1>2, <1>6, RefusedList
<1>7. CASE answer.err = "none"
  <2>1. /\ after = [x \in Kinds |-> after[x]] /\ after[kind] = answer.value
        /\ \A x \in Kinds : x # kind => after[x] = listed[x]
    BY DEF TypeInv, ListedKinds
  <2> HIDE DEF after
  \* what the answered list has, and what it must have
  <2>2. /\ \A w \in answer.value : /\ w.key # None /\ cmd.ns \in {None, w.key[2]}
                                   /\ \E x \in ever : x[1] = w.key
        /\ \A k \in always : k[1] = kind => \E w \in answer.value : w.key = k
    <3>1. ASSUME NEW w \in answer.value
          PROVE  w.key # None /\ cmd.ns \in {None, w.key[2]} /\ \E x \in ever : x[1] = w.key
      <4>1. cmd.ns \in {None, w.key[2]} /\ \E x \in Everything : x[1] = w.key
        BY <1>2, <1>7 DEF Lists
      <4>2. w.key # None
        BY <4>1, EverythingIs, KeysOfKinds DEF SearchInv, Present0
      <4> QED BY <1>5, <4>1, <4>2
    <3>2. ASSUME NEW k \in always, k[1] = kind
          PROVE  \E w \in answer.value : w.key = k
      <4>1. k \in DOMAIN pipelines \cup DOMAIN monovertices /\ cmd.ns \in {None, k[2]}
        BY <1>5 DEF Existing, Meant
      <4>2. \E x \in Everything : x[1] = k
        BY <4>1, EverythingIs
      <4> QED BY <1>2, <1>7, <3>2, <4>1, <4>2 DEF Lists
    <3> QED BY <3>1, <3>2
  <2>3. ASSUME NEW x \in Kinds, after[x] # None
        PROVE  /\ \A w \in after[x] : /\ w.key # None /\ cmd.ns \in {None, w.key[2]}
                                      /\ \E y \in ever : y[1] = w.key
               /\ \A k \in always : k[1] = x => \E w \in after[x] : w.key = k
    <3>1. CASE x = kind
      BY <2>1, <2>2, <3>1
    <3>2. CASE x # kind
      BY <1>1, <2>1, <2>3, <3>2 DEF SearchInv, ListedThere
    <3> QED BY <3>1, <3>2
  <2>4. CASE None \in {after.Pipeline, after.MonoVertex}
    <3>1. UNCHANGED <<pc, key, result>> /\ listed' = after
      BY <1>1, <1>7, <2>4
    <3>2. Routes' /\ FoundThere'
      BY <1>1, <3>1 DEF SearchInv, Routes, FoundThere, SettledAt, Searched
    <3>3. Remembered'
      BY <1>1, <1>5, <3>1 DEF Remembered, Everything, Existing
    <3>4. ListedThere'
      BY <1>1, <2>3, <3>1 DEF ListedThere
    <3>5. FindsWhatIsThere'
      BY <1>1, <3>1 DEF FindsWhatIsThere
    <3> QED BY <1>3, <3>2, <3>3, <3>4, <3>5 DEF SearchInv
  <2>5. CASE None \notin {after.Pipeline, after.MonoVertex} /\ cmd.verb = "ls"
    <3>1. Finish("none", both) /\ UNCHANGED key
      BY <1>1, <1>7, <2>5
    <3>2. ~Searched
      BY <2>5, VerbsApart DEF Searched
    <3> QED BY <1>1, <1>3, <3>1, <3>2, OtherCommand DEF Finish, SettledAt
  <2>6. CASE None \notin {after.Pipeline, after.MonoVertex} /\ cmd.verb # "ls"
    <3>1. Settle(found, "call") /\ cmd.verb = "get" /\ Searched
      BY <1>1, <1>4, <1>7, <2>6 DEF Searched
    <3>2. \A k : Meant(cmd, k) <=> k[3] = cmd.name /\ cmd.ns \in {None, k[2]}
      BY <3>1, VerbsApart DEF Meant
    <3>3. \A x \in Kinds : after[x] # None
      BY <2>6 DEF Kinds
    <3>4. both = after["Pipeline"] \cup after["MonoVertex"] /\ Kinds = {"Pipeline", "MonoVertex"}
      BY DEF Kinds
    <3> HIDE DEF both
    <3>5. \A k \in found : k # None /\ Meant(cmd, k) /\ \E x \in ever : x[1] = k
      <4> SUFFICES ASSUME NEW k \in found PROVE k # None /\ Meant(cmd, k) /\ \E x \in ever : x[1] = k
        OBVIOUS
      <4>1. PICK w \in both : w.key = k /\ k[3] = cmd.name
        OBVIOUS
      <4>2. k # None /\ cmd.ns \in {None, k[2]} /\ \E x \in ever : x[1] = k
        BY <2>3, <3>3, <3>4, <4>1
      <4> QED BY <3>2, <4>1, <4>2
    <3>6. always \subseteq found
      <4> SUFFICES ASSUME NEW k \in always PROVE k \in found
        OBVIOUS
      <4>1. k \in DOMAIN pipelines \cup DOMAIN monovertices /\ k[3] = cmd.name
        BY <1>5, <3>2 DEF Existing
      <4>2. k[1] \in Kinds
        BY <4>1, KeysOfKinds DEF SearchInv, Present0, Kinds
      <4>3. \E w \in after[k[1]] : w.key = k
        BY <2>3, <3>3, <4>2
      <4> QED BY <3>4, <4>1, <4>2, <4>3
    <3> HIDE DEF found
    <3> QED BY <1>1, <3>1, <3>5, <3>6, SettlesHonestly
  <2> QED BY <2>4, <2>5, <2>6
<1> QED BY <1>6, <1>7

\* The target is read: what the command says of it was there.
LEMMA TargetRead ==
  ASSUME SearchInv, key # None, Meant(cmd, key), pc \in {"call", "wait", "back"}
  PROVE  /\ pc = "call" => LET a == Lookup(key)
                           IN  /\ a.err = "Invalid" => \E w \in ever : w[1] = key /\ IsOdd(w)
                               /\ a.err = "none" => \E w \in ever : w[1] = key
         /\ LET a == GetPipeline(pipelines, key)
            IN  key[1] = "Pipeline" =>
                  /\ a.err = "Invalid" => \E w \in ever : w[1] = key /\ IsOdd(w)
                  /\ a.err = "none" => \E w \in ever : w[1] = key
<1>1. pc = "call" => Everything \subseteq ever
  BY DEF SearchInv, Remembered
<1>2. ASSUME pc = "call", key[1] # "Pipeline"
      PROVE  LET a == GetMonoVertex(monovertices, key)
             IN  /\ a.err = "Invalid" => \E w \in ever : w[1] = key /\ IsOdd(w)
                 /\ a.err = "none" => \E w \in ever : w[1] = key
  <2> DEFINE w == <<key, monovertices[key]>>
  <2>1. CASE key \in DOMAIN monovertices
    <3>1. w \in ever /\ w[1] = key
      BY <1>1, <1>2, <2>1, EverythingIs
    <3>2. IntoMonoVertex(monovertices[key]) = Invalid => IsOdd(w)
      BY <1>2 DEF IsOdd
    <3> QED BY <2>1, <3>1, <3>2 DEF GetMonoVertex, Checked, Fail, Found
  <2>2. CASE key \notin DOMAIN monovertices
    BY <2>2 DEF GetMonoVertex, Fail
  <2> QED BY <2>1, <2>2
<1>3. ASSUME key[1] = "Pipeline"
      PROVE  LET a == GetPipeline(pipelines, key)
             IN  /\ a.err = "Invalid" => \E w \in ever : w[1] = key /\ IsOdd(w)
                 /\ a.err = "none" => \E w \in ever : w[1] = key
  <2>1. CASE key \in DOMAIN pipelines
    <3>1. \E w \in ever : w[1] = key /\ (IntoPipeline(pipelines[key]) = Invalid => IsOdd(w))
      <4>1. CASE pc = "call"
        <5> DEFINE w == <<key, pipelines[key]>>
        <5>1. w \in ever /\ w[1] = key
          BY <1>1, <2>1, <4>1, EverythingIs
        <5>2. IntoPipeline(pipelines[key]) = Invalid => IsOdd(w)
          BY <1>3 DEF IsOdd
        <5> QED BY <5>1, <5>2
      <4>2. CASE pc \in {"wait", "back"}
        BY <2>1, <4>2 DEF SearchInv, Remembered
      <4> QED BY <4>1, <4>2
    <3> QED BY <2>1, <3>1 DEF GetPipeline, Checked, Fail, Found
  <2>2. CASE key \notin DOMAIN pipelines
    BY <2>2 DEF GetPipeline, Fail
  <2> QED BY <2>1, <2>2
<1> QED BY <1>2, <1>3 DEF Lookup

\* The calls that write nothing, once the command has its target; and failed calls.
LEMMA ReadingSearch ==
  ASSUME SearchInv,
         \/ Show \/ Wait \/ WaitTimesOut \/ ReadBack \/ Said \/ RecycleVertex
         \/ ListLogPods \/ ReadLog \/ LogBreaks \/ ShowLogs \/ CallFails
  PROVE  SearchInv'
<1>0. UNCHANGED <<cmd, key, always, ever, pipelines, monovertices>>
  BY DEF Show, Wait, WaitTimesOut, ReadBack, Said, RecycleVertex, ListLogPods, ReadLog, LogBreaks,
         ShowLogs, CallFails, rest, cluster
<1>1. Present0'
  BY <1>0 DEF SearchInv, Present0, MonoVertexObjects, FiniteStores
<1>2. pc \in SettledAt => key # None /\ Meant(cmd, key) /\ Searched
  BY DEF SearchInv, Routes
<1>3. pc \in {"wait", "back"} => cmd.verb \in {"pause", "recycle"} /\ key[1] = "Pipeline"
  <2>1. pc \in {"wait", "back"} => cmd.verb \in {"pause", "recycle"}
    BY DEF SearchInv, Routes
  <2> QED BY <1>2, <2>1 DEF SettledAt, Meant, PipelineVerbs, PipelineWrites
<1>4. CASE Show
  <2>1. pc = "call" /\ Finish(Lookup(key).err, Lookup(key).value)
    BY <1>4 DEF Show
  <2> QED BY <1>0, <1>1, <1>2, <2>1, TargetRead, SettledEnd DEF SettledAt
<1>5. CASE Wait
  <2>1. pc = "wait" \/ (pc = "call" /\ cmd.verb = "wait")
    BY <1>5 DEF Wait, Waiting
  <2>2. /\ Lookup(key).err = "Invalid" => \E w \in ever : w[1] = key /\ IsOdd(w)
        /\ Lookup(key).err = "none" => \E w \in ever : w[1] = key
    BY <1>2, <1>3, <2>1, TargetRead DEF Lookup, SettledAt
  <2>3. \/ Finish(Lookup(key).err, None)
        \/ Lookup(key).err = "none" /\ Finish("none", Lookup(key).value)
        \/ pc' = "resume" /\ cmd.verb = "recycle"
    BY <1>5 DEF Wait
  <2>4. CASE Finish(Lookup(key).err, None)
    BY <1>0, <1>1, <2>1, <2>2, <2>4, SettledEnd DEF SettledAt
  <2>5. CASE Lookup(key).err = "none" /\ Finish("none", Lookup(key).value)
    BY <1>0, <1>1, <2>1, <2>2, <2>5, SettledEnd DEF SettledAt
  <2>6. CASE pc' = "resume" /\ cmd.verb = "recycle"
    BY <1>0, <1>1, <2>1, <2>6, SettledMove DEF SettledAt
  <2> QED BY <2>3, <2>4, <2>5, <2>6
<1>6. CASE WaitTimesOut
  <2>1. pc \in SettledAt /\ Finish("Timeout", None)
    BY <1>6 DEF WaitTimesOut, Waiting, SettledAt
  <2> QED BY <1>0, <1>1, <2>1, SettledEnd
<1>7. CASE ReadBack
  <2> DEFINE answer == GetPipeline(pipelines, key)
  <2>1. /\ pc = "back" /\ pc \in SettledAt
        /\ \/ Finish(answer.err, answer.value)
           \/ pc' = "resume" /\ cmd.verb = "recycle"
    BY <1>7 DEF ReadBack, SettledAt
  <2>2. /\ answer.err = "Invalid" => \E w \in ever : w[1] = key /\ IsOdd(w)
        /\ answer.err = "none" => \E w \in ever : w[1] = key
    BY <1>2, <1>3, <2>1, TargetRead
  <2> HIDE DEF answer
  <2> QED BY <1>0, <1>1, <2>1, <2>2, SettledEnd, SettledMove
<1>8. CASE Said
  <2>1. pc = "said" /\ pc \in SettledAt /\ Finish("none", None)
    BY <1>8 DEF Said, SettledAt
  <2>2. cmd.verb \in ShowVerbs \cup {"wait"} => \E w \in ever : w[1] = key
    BY <2>1 DEF SearchInv, Routes, ShowVerbs, PipelineWrites, MonoVertexWrites
  <2> QED BY <1>0, <1>1, <2>1, <2>2, SettledEnd
<1>9. CASE RecycleVertex
  <2>1. pc = "call" /\ pc \in SettledAt /\ cmd.verb = "recycle"
    BY <1>9 DEF RecycleVertex, SettledAt
  <2>2. key[1] = "Pipeline"
    BY <1>2, <2>1 DEF Meant, PipelineVerbs, PipelineWrites
  <2>3. \E e \in {"Usage", "NotFound", "none", GetPipeline(pipelines, key).err} : Finish(e, None)
    BY <1>9 DEF RecycleVertex
  <2> QED BY <1>0, <1>1, <1>2, <2>1, <2>2, <2>3, TargetRead, SettledEnd DEF ShowVerbs
<1>10. CASE ListLogPods
  <2>1. pc = "call" /\ pc \in SettledAt /\ cmd.verb \in {"logs", "mvtx logs"}
    BY <1>10 DEF ListLogPods, SettledAt
  <2>2. \/ \E e \in {"Usage", "Panic", "NotFound"} : Finish(e, None)
        \/ pc' = "logs"
    BY <1>10 DEF ListLogPods, SinceError
  <2> QED BY <1>0, <1>1, <2>1, <2>2, SettledEnd, SettledMove
<1>11. CASE ReadLog
  <2>1. pc' = "logs" /\ pc \in SettledAt /\ cmd.verb \in {"logs", "mvtx logs"}
    BY <1>11 DEF ReadLog, SettledAt, SearchInv, Routes
  <2> QED BY <1>0, <1>1, <2>1, SettledMove
<1>12. CASE LogBreaks
  <2>1. pc \in SettledAt /\ Finish("Cluster", None)
    BY <1>12 DEF LogBreaks, SettledAt
  <2> QED BY <1>0, <1>1, <2>1, SettledEnd
<1>13. CASE ShowLogs
  <2>1. pc = "logs" /\ pc \in SettledAt /\ Finish("none", lines)
    BY <1>13 DEF ShowLogs, SettledAt
  <2>2. cmd.verb \notin ShowVerbs \cup {"wait"}
    BY <2>1 DEF SearchInv, Routes, ShowVerbs
  <2> QED BY <1>0, <1>1, <2>1, <2>2, SettledEnd
<1>14. CASE CallFails
  <2>1. pc' = "done" /\ result'.err \in {"Cluster", "Forbidden"}
    BY <1>14 DEF CallFails, Finish
  <2>2. FindsWhatIsThere'
    BY <2>1 DEF FindsWhatIsThere
  <2> QED BY <1>0, <1>1, <2>1, <2>2, EndSearch
<1> QED BY <1>4, <1>5, <1>6, <1>7, <1>8, <1>9, <1>10, <1>11, <1>12, <1>13, <1>14

\* A patch takes nothing away, and a pipeline told to pause is odd only if it was.
LEMMA PausedIsOdd ==
  ASSUME OutcomesApart, StoreObjects, NEW dry,
         NEW store, store = SetLifecycle(pipelines, key, "Paused", None, dry).store,
         key \in DOMAIN store, IntoPipeline(store[key]) = Invalid
  PROVE  key \in DOMAIN pipelines /\ IntoPipeline(pipelines[key]) = Invalid
<1>1. DOMAIN store = DOMAIN pipelines
  BY PatchKeepsKeys
<1> DEFINE old == pipelines[key]
<1>2. IsPipelineObject(old)
  BY <1>1 DEF StoreObjects
<1>3. \/ store[key] = old
      \/ /\ store[key].desired_phase = "Paused" /\ store[key].resume = old.resume
         /\ \A f \in PipelineFields : f \notin {"desired_phase", "resume"} => store[key][f] = old[f]
  BY <1>1, <1>2 DEF SetLifecycle, Wrote, Refused, IsPipelineObject, PipelineFields
<1>4. ASSUME Converts(old), store[key] # old
      PROVE  Converts(store[key])
  <2>1. /\ store[key].name = old.name /\ store[key].namespace = old.namespace
        /\ store[key].isb = old.isb /\ store[key].resume = old.resume
        /\ store[key].vertices = old.vertices /\ store[key].edges = old.edges
        /\ store[key].desired_phase = "Paused"
    BY <1>3, <1>4 DEF PipelineFields
  <2>2. VerticesFrom(store[key]) = VerticesFrom(old) /\ EdgesFrom(store[key]) = EdgesFrom(old)
    BY <2>1 DEF VerticesFrom, EdgesFrom
  <2>3. Desired("Paused") # Invalid
    BY CommandsAssumption DEF Desired, Or, DesiredPhases, CommandsAssumption
  <2> QED BY <1>4, <2>1, <2>2, <2>3 DEF Converts, TopologyFrom
<1>5. ~Converts(store[key])
  BY ConvertedIsPipeline
<1> QED BY <1>1, <1>4, <1>5, Conversion

\* The calls that write an object of the target.
LEMMA PatchSearch ==
  ASSUME OutcomesApart, StoreObjects, SearchInv, Pause \/ Resume
  PROVE  SearchInv'
<1>1. PICK desired, resume, next :
        /\ Patch(desired, resume, next)
        /\ next \in {"wait", "back", "said"}
        /\ next \in {"wait", "back"} =>
             desired = "Paused" /\ resume = None /\ cmd.verb \in {"pause", "recycle"} /\ pc = "call"
        /\ next = "said" => cmd.verb \in {"resume", "recycle"}
        /\ pc \in {"call", "resume"}
  <2>1. CASE Pause
    <3>1. (IF Waits THEN "wait" ELSE "back") \in {"wait", "back"}
      OBVIOUS
    <3> QED BY <2>1, <3>1 DEF Pause
  <2>2. CASE Resume
    <3>1. cmd.verb \in {"resume", "recycle"}
      <4>1. CASE pc = "resume"
        BY <4>1 DEF SearchInv, Routes
      <4>2. CASE pc # "resume"
        BY <2>2, <4>2 DEF Resume
      <4> QED BY <4>1, <4>2
    <3> QED BY <2>2, <3>1 DEF Resume
  <2> QED BY <2>1, <2>2
<1> DEFINE did == SetLifecycle(pipelines, key, desired, resume, cmd.dry)
<1>2. /\ pipelines' = did.store /\ UNCHANGED <<cmd, key, always, ever, monovertices>>
      /\ Answered(did.err, next)
  BY <1>1 DEF Patch, calling
<1>3. DOMAIN pipelines' = DOMAIN pipelines
  BY <1>2, PatchKeepsKeys
<1>4. Present0'
  BY <1>2, <1>3 DEF SearchInv, Present0, MonoVertexObjects, FiniteStores
<1>5. pc \in SettledAt /\ key # None /\ Meant(cmd, key)
  BY <1>1 DEF SearchInv, Routes, SettledAt
<1>6. did.err \in {"none", "NotFound"}
  BY DEF SetLifecycle, Refused, Wrote
<1>7. \/ \E e \in {"NotFound", "Cluster"} : Finish(e, None)
      \/ pc' = next
  BY <1>2, <1>6 DEF Answered
<1>8. CASE pc' = next
  <2>1. ASSUME next \in {"wait", "back"}, key \in DOMAIN pipelines'
        PROVE  \E w \in ever : w[1] = key /\ (IntoPipeline(pipelines'[key]) = Invalid => IsOdd(w))
    <3> DEFINE w == <<key, pipelines[key]>>
    <3>1. w \in ever /\ w[1] = key
      BY <1>1, <1>3, <2>1, EverythingIs DEF SearchInv, Remembered
    <3>2. key[1] = "Pipeline"
      BY <1>1, <1>5, <2>1 DEF Meant, PipelineVerbs, PipelineWrites
    <3>3. IntoPipeline(pipelines'[key]) = Invalid => IntoPipeline(pipelines[key]) = Invalid
      BY <1>1, <1>2, <2>1, PausedIsOdd
    <3>4. IntoPipeline(pipelines[key]) = Invalid => IsOdd(w)
      BY <3>2 DEF IsOdd
    <3> QED BY <3>1, <3>3, <3>4
  <2>2. next = "said" => cmd.verb \in PipelineWrites \cup MonoVertexWrites
    BY <1>1 DEF PipelineWrites
  <2> HIDE DEF did
  <2> QED BY <1>1, <1>2, <1>4, <1>5, <1>8, <2>1, <2>2, SettledMove
<1>9. CASE \E e \in {"NotFound", "Cluster"} : Finish(e, None)
  BY <1>2, <1>4, <1>5, <1>9, SettledEnd
<1> QED BY <1>7, <1>8, <1>9

LEMMA WritingSearch ==
  ASSUME SearchInv, Scale \/ MonoVertexLifecycle
  PROVE  SearchInv'
<1>1. /\ pc = "call" /\ pc \in SettledAt /\ UNCHANGED <<cmd, key, always, ever, pipelines>>
      /\ cmd.verb \in PipelineWrites \cup MonoVertexWrites
  BY DEF Scale, MonoVertexLifecycle, calling, SettledAt, PipelineWrites
<1>2. \/ \E e \in {"Usage", "NotFound", "Cluster"} : Finish(e, None)
      \/ pc' = "said"
  <2>1. CASE Scale
    <3>1. \E e \in {"Usage", "NotFound", "none"} : Answered(e, "said")
      BY <2>1 DEF Scale
    <3> QED BY <3>1 DEF Answered
  <2>2. CASE MonoVertexLifecycle
    <3> DEFINE desired == IF cmd.verb = "mvtx pause" THEN "Paused" ELSE "Running"
               did == SetMonoVertexLifecycle(monovertices, key, desired, cmd.dry)
    <3>1. did.err \in {"none", "NotFound"}
      BY DEF SetMonoVertexLifecycle, Refused, Wrote
    <3>2. Answered(did.err, "said")
      BY <2>2 DEF MonoVertexLifecycle
    <3> HIDE DEF did
    <3> QED BY <3>1, <3>2 DEF Answered
  <2> QED BY <2>1, <2>2
<1>3. Present0'
  <2>1. CASE Scale
    BY <1>1, <2>1 DEF Scale, SearchInv, Present0, MonoVertexObjects, FiniteStores
  <2>2. CASE MonoVertexLifecycle
    <3>1. PICK desired :
            monovertices' = SetMonoVertexLifecycle(monovertices, key, desired, cmd.dry).store
      BY <2>2 DEF MonoVertexLifecycle
    <3>2. \/ monovertices' = monovertices
          \/ /\ key \in DOMAIN monovertices
             /\ monovertices' =
                  [monovertices EXCEPT ![key].desired_phase = desired,
                                       ![key].spec_replicas = IF desired = "Running" THEN None ELSE @]
      BY <3>1 DEF SetMonoVertexLifecycle, Refused, Wrote
    <3>3. DOMAIN monovertices' = DOMAIN monovertices
      BY <3>2
    <3>4. ASSUME NEW k \in DOMAIN monovertices
          PROVE  /\ DOMAIN monovertices'[k] = DOMAIN monovertices[k]
                 /\ monovertices'[k].name = monovertices[k].name
                 /\ monovertices'[k].namespace = monovertices[k].namespace
      <4>1. IsMonoVertexObject(monovertices[k])
        BY DEF SearchInv, Present0, MonoVertexObjects
      <4> QED BY <3>2, <4>1 DEF IsMonoVertexObject
    <3> QED BY <1>1, <3>3, <3>4
            DEF SearchInv, Present0, MonoVertexObjects, FiniteStores, IsMonoVertexObject
  <2> QED BY <2>1, <2>2
<1> QED BY <1>1, <1>2, <1>3, SettledEnd, SettledMove

\* The commands that look for no workload: the services, and apply.
LEMMA OtherSearch ==
  ASSUME NoneIsNoKey, StoreObjects, SearchInv,
         InspectIsb \/ IsbUsers \/ ReadLive \/ CheckManifest \/ SendManifest
  PROVE  SearchInv'
<1>1. UNCHANGED <<cmd, ever, monovertices>>
  BY DEF InspectIsb, IsbUsers, ReadLive, CheckManifest, SendManifest, calling, rest, cluster
<1>2. cmd.verb \in {"isb", "apply"} /\ cmd # NoCommand /\ ~Searched
  <2>1. pc \in {"isb", "users", "read", "backlog", "write"}
    BY DEF InspectIsb, IsbUsers, ReadLive, CheckManifest, SendManifest
  <2> QED BY <2>1, VerbsApart DEF SearchInv, Routes, Searched
<1>3. IsFiniteSet(DOMAIN pipelines')
  <2>1. CASE ~SendManifest
    <3>1. UNCHANGED pipelines
      BY <2>1 DEF InspectIsb, IsbUsers, ReadLive, CheckManifest, rest, cluster
    <3> QED BY <3>1 DEF SearchInv, Present0, FiniteStores
  <2>2. CASE SendManifest
    <3>1. PICK k : DOMAIN pipelines' \subseteq DOMAIN pipelines \cup {k}
      BY <2>2 DEF SendManifest, ApplyManifest, Wrote
    <3>2. IsFiniteSet(DOMAIN pipelines \cup {k})
      BY FS_AddElement DEF SearchInv, Present0, FiniteStores
    <3> QED BY <3>1, <3>2, FS_Subset
  <2> QED BY <2>1, <2>2
<1>4. Present0'
  BY <1>1, <1>3 DEF SearchInv, Present0, MonoVertexObjects, FiniteStores
<1>5. \/ pc' \in {"done"}
      \/ pc' = "users" /\ cmd.verb = "isb"
      \/ pc' \in {"backlog", "write"} /\ cmd.verb = "apply"
  <2>1. CASE InspectIsb
    BY <1>2, <2>1, SettleSays DEF InspectIsb, Finish, SearchInv, Routes
  <2>2. CASE ~InspectIsb
    BY <2>2 DEF IsbUsers, ReadLive, CheckManifest, SendManifest, Finish, SearchInv, Routes
  <2> QED BY <2>1, <2>2
<1> QED BY <1>1, <1>2, <1>4, <1>5, OtherCommand DEF SettledAt

\* Others only add to what there was, and take from what existed all along.
LEMMA OthersSearch ==
  ASSUME SearchInv, OthersWrite \/ OthersDelete \/ OthersMonoVertex
  PROVE  SearchInv'
<1>1. /\ UNCHANGED <<cmd, pc, key, listed, result>>
      /\ always' = (IF cmd = NoCommand THEN {} ELSE always \cap Existing(cmd)')
      /\ ever' = (IF cmd = NoCommand THEN {} ELSE ever \cup Everything')
  BY DEF OthersWrite, OthersDelete, OthersMonoVertex, Elsewhere, command
<1>2. MonoVertexObjects'
  <2>1. CASE ~OthersMonoVertex
    BY <2>1 DEF OthersWrite, OthersDelete, SearchInv, Present0, MonoVertexObjects
  <2>2. CASE OthersMonoVertex
    BY <2>2, CommandsAssumption DEF OthersMonoVertex, CommandsAssumption, MonoVertexObjects
  <2> QED BY <2>1, <2>2
<1>3. IsFiniteSet(DOMAIN pipelines') /\ IsFiniteSet(DOMAIN monovertices')
  <2>0. IsFiniteSet(DOMAIN pipelines) /\ IsFiniteSet(DOMAIN monovertices)
    BY DEF SearchInv, Present0, FiniteStores
  <2>1. CASE OthersWrite
    <3>1. PICK k : DOMAIN pipelines' = DOMAIN pipelines \cup {k} /\ UNCHANGED monovertices
      BY <2>1 DEF OthersWrite
    <3> QED BY <2>0, <3>1, FS_AddElement
  <2>2. CASE OthersDelete
    <3>1. DOMAIN pipelines' \subseteq DOMAIN pipelines /\ UNCHANGED monovertices
      BY <2>2 DEF OthersDelete, Restrict
    <3> QED BY <2>0, <3>1, FS_Subset
  <2>3. CASE OthersMonoVertex
    BY <2>0, <2>3, CommandsAssumption DEF OthersMonoVertex, CommandsAssumption
  <2> QED BY <2>1, <2>2, <2>3
<1>4. IsFiniteSet(Everything')
  <2> DEFINE f == [k \in DOMAIN pipelines' |-> <<k, pipelines'[k]>>]
             g == [k \in DOMAIN monovertices' |-> <<k, monovertices'[k]>>]
  <2>1. Everything' = {f[k] : k \in DOMAIN pipelines'} \cup {g[k] : k \in DOMAIN monovertices'}
    BY DEF Everything
  <2> HIDE DEF f, g
  <2>2. /\ IsFiniteSet({f[k] : k \in DOMAIN pipelines'})
        /\ IsFiniteSet({g[k] : k \in DOMAIN monovertices'})
    BY <1>3, FiniteImage
  <2> QED BY <2>1, <2>2, FS_Union
<1>5. Present0'
  <2>1. IsFiniteSet(ever')
    BY <1>1, <1>4, FS_Union, FS_EmptySet DEF SearchInv, Present0, FiniteStores
  <2> QED BY <1>2, <1>3, <2>1 DEF Present0, FiniteStores
<1>6. CASE cmd = NoCommand
  <2>1. pc = "done"
    BY <1>6 DEF SearchInv, Routes
  <2> QED BY <1>1, <1>5, <1>6, <2>1
          DEF SearchInv, Routes, Remembered, ListedThere, FoundThere, FindsWhatIsThere, SettledAt
<1>7. CASE cmd # NoCommand
  <2>1. always' \subseteq always /\ always' \subseteq Existing(cmd)' /\ ever \subseteq ever'
        /\ Everything' \subseteq ever'
    BY <1>1, <1>7
  <2>2. Routes'
    BY <1>1 DEF SearchInv, Routes, Searched
  <2>3. Remembered'
    <3>1. ASSUME pc \in {"wait", "back"}, key \in DOMAIN pipelines'
          PROVE  \E w \in ever' : w[1] = key /\ (IntoPipeline(pipelines'[key]) = Invalid => IsOdd(w))
      <4> DEFINE w == <<key, pipelines'[key]>>
      <4>1. w \in ever' /\ w[1] = key
        BY <2>1, <3>1 DEF Everything
      <4>2. key[1] = "Pipeline"
        BY <3>1 DEF SearchInv, Routes, SettledAt, Meant, PipelineVerbs, PipelineWrites
      <4>3. IntoPipeline(pipelines'[key]) = Invalid => IsOdd(w)
        BY <4>2 DEF IsOdd
      <4> QED BY <4>1, <4>3
    <3> QED BY <1>1, <2>1, <3>1 DEF Remembered
  <2>4. ListedThere' /\ FoundThere'
    BY <1>1, <2>1 DEF SearchInv, ListedThere, FoundThere, Searched
  <2>5. FindsWhatIsThere'
    <3>1. result.err = "Usage" /\ Cardinality(Namesakes) > 1 => Cardinality(Namesakes') > 1
      <4> SUFFICES ASSUME Cardinality(Namesakes) > 1
                   PROVE  Cardinality(Namesakes') > 1
        OBVIOUS
      <4>1. Namesakes \subseteq Namesakes'
        BY <1>1, <2>1 DEF Namesakes
      <4>2. Namesakes # {} /\ Cardinality(Namesakes) # 1
        BY FS_EmptySet
      <4>3. IsFiniteSet(ever')
        BY <1>5 DEF Present0, FiniteStores
      <4> QED BY <1>1, <4>1, <4>2, <4>3, ManyNamesakes DEF Namesakes
    <3> QED BY <1>1, <2>1, <3>1 DEF SearchInv, FindsWhatIsThere, Namesakes, Searched, InScope
  <2> QED BY <1>5, <2>2, <2>3, <2>4, <2>5 DEF SearchInv
<1> QED BY <1>6, <1>7

LEMMA InitSearch == Init => SearchInv
<1> SUFFICES ASSUME Init PROVE SearchInv
  OBVIOUS
<1>1. cmd = NoCommand /\ pc = "done" /\ ever = {} /\ pipelines \in Pipelines0 /\ monovertices \in MonoVertices0
  BY DEF Init
<1>2. Present0
  BY <1>1, CommandsAssumption, FS_EmptySet
     DEF CommandsAssumption, Present0, MonoVertexObjects, FiniteStores
<1> QED BY <1>1, <1>2 DEF SearchInv, Routes, Remembered, ListedThere, FoundThere, FindsWhatIsThere, SettledAt

LEMMA NextSearch ==
  ASSUME NoneIsNoKey, OutcomesApart, StoreObjects, TypeInv, SearchInv, [Next]_vars
  PROVE  SearchInv'
<1>1. ASSUME NEW c \in CommandLines, Start(c) PROVE SearchInv'
  BY <1>1, StartSearch
<1>2. ASSUME NEW kind \in {"Pipeline", "MonoVertex"}, ListOne(kind) PROVE SearchInv'
  BY <1>2, ListSearch DEF Kinds
<1>3. CASE Step
  BY <1>2, <1>3, FindSearch, ReadingSearch, PatchSearch, WritingSearch, OtherSearch DEF Step
<1>4. CASE OthersWrite \/ OthersDelete \/ OthersMonoVertex
  BY <1>4, OthersSearch
<1>5. CASE UNCHANGED vars
  <2>1. UNCHANGED <<pipelines, monovertices, cmd, pc, key, listed, result, always, ever>>
    BY <1>5 DEF vars, cluster, command
  <2>2. Present0' /\ Routes'
    BY <2>1 DEF SearchInv, Present0, MonoVertexObjects, FiniteStores, Routes, Searched
  <2>3. Remembered' /\ ListedThere' /\ FoundThere'
    BY <2>1 DEF SearchInv, Remembered, Everything, Existing, ListedThere, FoundThere, Searched
  <2>4. FindsWhatIsThere'
    BY <2>1 DEF SearchInv, FindsWhatIsThere, Searched, InScope
  <2> QED BY <2>2, <2>3, <2>4 DEF SearchInv
<1> QED BY <1>1, <1>3, <1>4, <1>5 DEF Next

-----------------------------------------------------------------------------
(***************************************************************************)
(* One-shot logs.  FlattenSeq is defined with a recursive function: that   *)
(* the recursion has a solution, and what it holds, is proved by the least *)
(* counterexample.                                                         *)
(***************************************************************************)
\* A set of naturals has a least element.
LEMMA LeastNat ==
  ASSUME NEW S \in SUBSET Nat, S # {}
  PROVE  Min(S) \in S /\ \A y \in S : Min(S) <= y
<1> DEFINE below(x) == {y \in S : y <= x}
           T == {below(x) : x \in S}
<1>1. ASSUME NEW x \in S PROVE below(x) \in FiniteSubsetsOf(Nat)
  <2>0. x \in Nat /\ \A z \in S : z \in Nat
    OBVIOUS
  <2>3. ASSUME NEW y \in S, y <= x PROVE y \in 0..x
    BY <2>0, <2>3
  <2>4. IsFiniteSet(0..x)
    BY <2>0, FS_Interval
  <2>1. below(x) \in SUBSET (0..x) /\ IsFiniteSet(0..x)
    BY <2>3, <2>4
  <2>2. IsFiniteSet(below(x))
    BY <2>1, FS_Subset
  <2> QED BY <2>2 DEF FiniteSubsetsOf
<1>2. T \subseteq FiniteSubsetsOf(Nat) /\ T # {}
  BY <1>1
<1>3. PICK B \in T : \A C \in T : <<C, B>> \notin StrictSubsetOrdering(Nat)
  <2> HIDE DEF T
  <2> QED BY <1>2, FS_StrictSubsetOrderingWellFounded, WFMin
<1>4. PICK x \in S : B = below(x)
  BY <1>3
<1>5. ASSUME NEW y \in S PROVE x <= y
  <2>0. x \in Nat /\ y \in Nat /\ \A z \in S : z \in Nat
    OBVIOUS
  <2> SUFFICES ASSUME y < x PROVE FALSE
    BY <2>0
  <2>1. below(y) \subseteq below(x) /\ x \in below(x) /\ x \notin below(y)
    <3>1. x <= x /\ ~(x <= y)
      BY <2>0
    <3>2. ASSUME NEW z \in S, z <= y PROVE z <= x
      BY <2>0, <3>2
    <3> QED BY <3>1, <3>2
  <2>2. <<below(y), below(x)>> \in StrictSubsetOrdering(Nat)
    BY <2>1 DEF StrictSubsetOrdering
  <2> QED BY <1>3, <1>4, <2>2
<1> HIDE DEF T, below
<1> QED BY <1>5 DEF Min

\* Two sequences joined have the members of both.

LEMMA JoinHasBoth ==
  ASSUME NEW T, NEW a \in Seq(T), NEW b \in Seq(T)
  PROVE  ToSet(a) \subseteq ToSet(a \o b) /\ ToSet(b) \subseteq ToSet(a \o b)
<1>1. /\ Len(a) \in Nat /\ Len(b) \in Nat /\ DOMAIN a = 1..Len(a) /\ DOMAIN b = 1..Len(b)
      /\ DOMAIN (a \o b) = 1..(Len(a) + Len(b))
      /\ \A i \in 1..(Len(a) + Len(b)) : (a \o b)[i] = IF i <= Len(a) THEN a[i] ELSE b[i - Len(a)]
  OBVIOUS
<1>2. ASSUME NEW i \in DOMAIN a PROVE i \in DOMAIN (a \o b) /\ (a \o b)[i] = a[i]
  BY <1>1
<1>3. ASSUME NEW i \in DOMAIN b
      PROVE  i + Len(a) \in DOMAIN (a \o b) /\ (a \o b)[i + Len(a)] = b[i]
  BY <1>1
<1> QED BY <1>2, <1>3 DEF ToSet

\* FlattenSeq puts the sequences one after the other: its recursion has a solution, ...
LEMMA FlattenExists ==
  ASSUME NEW s, NEW n \in Nat
  PROVE  \E f : f = [i \in 1..n |-> IF i = 1 THEN s[i] ELSE f[i - 1] \o s[i]]
<1> DEFINE Solved(k) == \E f : f = [i \in 1..k |-> IF i = 1 THEN s[i] ELSE f[i - 1] \o s[i]]
           bad == {k \in Nat : ~Solved(k)}
<1> HIDE DEF Solved
<1> SUFFICES ASSUME bad # {} PROVE FALSE
  BY DEF Solved
<1>1. Min(bad) \in bad /\ \A k \in bad : Min(bad) <= k
  BY LeastNat
<1> DEFINE m == Min(bad)
<1>2. m \in Nat /\ ~Solved(m) /\ \A k \in Nat : k < m => Solved(k)
  BY <1>1
<1> HIDE DEF m, bad
<1>3. m # 0
  <2>1. 1..0 = {}
    OBVIOUS
  <2>2. << >> = [i \in 1..0 |-> IF i = 1 THEN s[i] ELSE << >>[i - 1] \o s[i]]
    BY <2>1
  <2> QED BY <1>2, <2>2 DEF Solved
<1>4. PICK f : f = [i \in 1..(m - 1) |-> IF i = 1 THEN s[i] ELSE f[i - 1] \o s[i]]
  <2>1. m - 1 \in Nat /\ m - 1 < m
    BY <1>2, <1>3
  <2> QED BY <1>2, <2>1 DEF Solved
<1> DEFINE g == [i \in 1..m |-> IF i = 1 THEN s[i] ELSE f[i - 1] \o s[i]]
<1>5. \A i \in 1..(m - 1) : g[i] = f[i]
  <2> SUFFICES ASSUME NEW i \in 1..(m - 1) PROVE g[i] = f[i]
    OBVIOUS
  <2>1. i \in 1..m
    BY <1>2
  <2>2. f[i] = IF i = 1 THEN s[i] ELSE f[i - 1] \o s[i]
    BY <1>4
  <2> QED BY <2>1, <2>2
<1>6. g = [i \in 1..m |-> IF i = 1 THEN s[i] ELSE g[i - 1] \o s[i]]
  <2>1. ASSUME NEW i \in 1..m, i # 1
        PROVE  i - 1 \in 1..(m - 1)
    BY <1>2, <2>1
  <2> QED BY <1>5, <2>1
<1> QED BY <1>2, <1>6 DEF Solved

\* ... and has exactly their members.
LEMMA FlattenIs ==
  ASSUME NEW T, NEW s \in Seq(Seq(T))
  PROVE  /\ FlattenSeq(s) \in Seq(T)
         /\ \A i \in DOMAIN s : ToSet(s[i]) \subseteq ToSet(FlattenSeq(s))
<1>1. CASE Len(s) = 0
  <2>1. s = << >>
    BY <1>1
  <2> QED BY <1>1, <2>1 DEF FlattenSeq
<1>2. CASE Len(s) # 0
  <2> DEFINE n == Len(s)
             flatten == CHOOSE f : f = [i \in 1..n |-> IF i = 1 THEN s[i] ELSE f[i - 1] \o s[i]]
  <2>1. n \in Nat \ {0} /\ \A i \in 1..n : s[i] \in Seq(T)
    BY <1>2
  <2>2. FlattenSeq(s) = flatten[n]
    BY <1>2 DEF FlattenSeq
  <2>3. flatten = [i \in 1..n |-> IF i = 1 THEN s[i] ELSE flatten[i - 1] \o s[i]]
    BY <2>1, FlattenExists
  <2> HIDE DEF n, flatten
  <2>4. /\ flatten[1] = s[1]
        /\ \A i \in 1..n : i # 1 => flatten[i] = flatten[i - 1] \o s[i]
    <3>1. ASSUME NEW i \in 1..n
          PROVE  flatten[i] = IF i = 1 THEN s[i] ELSE flatten[i - 1] \o s[i]
      BY <2>3, <3>1
    <3>2. 1 \in 1..n
      BY <2>1
    <3>3. flatten[1] = s[1]
      BY <3>1, <3>2, Zenon
    <3>4. ASSUME NEW i \in 1..n, i # 1 PROVE flatten[i] = flatten[i - 1] \o s[i]
      BY <3>1, <3>4, Zenon
    <3> QED BY <3>3, <3>4
  <2> DEFINE Whole(k) == flatten[k] \in Seq(T) /\ \A i \in 1..k : ToSet(s[i]) \subseteq ToSet(flatten[k])
             bad == {k \in 1..n : ~Whole(k)}
  <2> HIDE DEF Whole
  <2>5. bad = {}
    <3> SUFFICES ASSUME bad # {} PROVE FALSE
      OBVIOUS
    <3>1. bad \in SUBSET Nat
      OBVIOUS
    <3>2. Min(bad) \in bad /\ \A k \in bad : Min(bad) <= k
      BY <3>1, LeastNat
    <3> DEFINE m == Min(bad)
    <3>3. m \in 1..n /\ ~Whole(m) /\ \A k \in 1..n : k < m => Whole(k)
      <4>1. m \in 1..n /\ ~Whole(m)
        BY <3>2
      <4>2. ASSUME NEW k \in 1..n, k < m PROVE Whole(k)
        <5>1. k \notin bad
          BY <2>1, <3>2, <4>1, <4>2
        <5> QED BY <5>1
      <4> QED BY <4>1, <4>2
    <3> HIDE DEF m, bad
    <3>4. m # 1
      <4> SUFFICES ASSUME m = 1 PROVE FALSE
        OBVIOUS
      <4>1. 1..1 = {1}
        OBVIOUS
      <4> QED BY <2>1, <2>4, <3>3, <4>1 DEF Whole
    <3>5. m - 1 \in 1..n /\ m - 1 < m
      BY <2>1, <3>3, <3>4
    <3>6. Whole(m - 1)
      BY <3>3, <3>5
    <3>7. flatten[m] = flatten[m - 1] \o s[m] /\ s[m] \in Seq(T)
      BY <2>1, <2>4, <3>3, <3>4
    <3>8. flatten[m] \in Seq(T)
      BY <3>6, <3>7 DEF Whole
    <3>9. ToSet(flatten[m - 1]) \subseteq ToSet(flatten[m]) /\ ToSet(s[m]) \subseteq ToSet(flatten[m])
      BY <3>6, <3>7, JoinHasBoth DEF Whole
    <3>10. \A i \in 1..m : i = m \/ i \in 1..(m - 1)
      BY <2>1, <3>3
    <3> QED BY <3>3, <3>6, <3>8, <3>9, <3>10 DEF Whole
  <2>6. Whole(n)
    BY <2>1, <2>5
  <2>7. DOMAIN s = 1..n
    BY DEF n
  <2> QED BY <2>2, <2>6, <2>7 DEF Whole
<1> QED BY <1>1, <1>2

\* A sequence is one over its own elements, and so is what is made of each of them.
LEMMA OverItsElements ==
  ASSUME NEW T, NEW s \in Seq(T)
  PROVE  s \in Seq(ToSet(s))
<1> DEFINE S == ToSet(s)
<1>1. DOMAIN s = 1..Len(s) /\ Len(s) \in Nat /\ s = [i \in 1..Len(s) |-> s[i]]
  OBVIOUS
<1>2. \A i \in 1..Len(s) : s[i] \in S
  BY <1>1 DEF ToSet
<1> HIDE DEF S
<1>3. s \in Seq(S)
  BY <1>1, <1>2
<1> QED BY <1>3 DEF S

LEMMA OverMore ==
  ASSUME NEW T, NEW U, T \subseteq U, NEW s \in Seq(T)
  PROVE  s \in Seq(U)
OBVIOUS

LEMMA SequenceIs ==
  ASSUME NEW T, NEW s \in Seq(T)
  PROVE  /\ Len(s) \in Nat /\ DOMAIN s = 1..Len(s)
         /\ \A i \in DOMAIN s : s[i] \in ToSet(s)
BY DEF ToSet

LEMMA NothingIs == << >> \in Seq(ToSet(<< >>)) /\ ToSet(<< >>) = {}
<1>1. DOMAIN << >> = {}
  OBVIOUS
<1>2. ToSet(<< >>) = {}
  BY <1>1 DEF ToSet
<1> QED BY <1>2

LEMMA OneOrTwo ==
  ASSUME NEW a, NEW b
  PROVE  <<a>> \in Seq(ToSet(<<a>>)) /\ <<a, b>> \in Seq(ToSet(<<a, b>>))
<1>1. <<a>> \in Seq({a}) /\ <<a, b>> \in Seq({a, b})
  OBVIOUS
<1> QED BY <1>1, OverItsElements

LEMMA OneForEach ==
  ASSUME NEW T, NEW s \in Seq(T), NEW U, NEW f, f = [i \in DOMAIN s |-> f[i]],
         \A i \in DOMAIN s : f[i] \in U
  PROVE  f \in Seq(U)
<1>1. DOMAIN s = 1..Len(s) /\ Len(s) \in Nat
  OBVIOUS
<1> QED BY <1>1

LEMMA OfEach ==
  ASSUME NEW T, NEW s \in Seq(T), NEW f, f = [i \in DOMAIN s |-> f[i]]
  PROVE  f \in Seq(ToSet(f))
<1> DEFINE S == ToSet(f)
<1>1. DOMAIN s = 1..Len(s) /\ Len(s) \in Nat
  OBVIOUS
<1>2. DOMAIN f = 1..Len(s) /\ \A i \in 1..Len(s) : f[i] \in S
  BY <1>1 DEF ToSet
<1> HIDE DEF S
<1>3. f \in Seq(S)
  BY <1>1, <1>2
<1> QED BY <1>3 DEF S

\* What is kept of a sequence are elements of it.
LEMMA KeepIs ==
  ASSUME NEW s, s \in Seq(ToSet(s)), NEW T
  PROVE  /\ Keep(s, T) \in Seq(ToSet(s))
         /\ ToSet(Keep(s, T)) \subseteq ToSet(s)
<1> DEFINE pieces == [i \in DOMAIN s |-> IF s[i] \in T THEN <<s[i]>> ELSE << >>]
           S == ToSet(s)
<1>1. \A i \in DOMAIN s : s[i] \in S
  BY DEF ToSet
<1>2. s \in Seq(S) /\ DOMAIN s = 1..Len(s)
  OBVIOUS
<1> HIDE DEF S
<1>3. pieces \in Seq(Seq(S))
  BY <1>1, <1>2
<1> HIDE DEF pieces
<1>4. FlattenSeq(pieces) \in Seq(S)
  BY <1>3, FlattenIs
<1>5. Keep(s, T) = FlattenSeq(pieces)
  BY DEF Keep, pieces
<1>6. Keep(s, T) \in Seq(S)
  BY <1>4, <1>5
<1>7. ToSet(Keep(s, T)) \subseteq S
  BY <1>6 DEF ToSet
<1> QED BY <1>6, <1>7 DEF S

\* The pods of the command, and the containers it wants of one, are sequences.
LEMMA PodsSelected ==
  ASSUME cmd \in CommandLines, cmd.verb \in {"logs", "mvtx logs"}
  PROVE  /\ Selected \in Seq(ToSet(Selected))
         /\ \A p \in ToSet(Selected) : Wanted(p) \in Seq(ToSet(Wanted(p)))
<1>1. CASE key[2] \notin DOMAIN Pods
  <2>1. Selected = << >>
    BY <1>1 DEF Selected
  <2> QED BY <2>1, NothingIs
<1>2. CASE key[2] \in DOMAIN Pods
  <2> DEFINE pods == Pods[key[2]]
  <2>1. /\ pods \in Seq(ToSet(pods))
        /\ \A p \in ToSet(pods) : p.containers \in Seq(ToSet(p.containers))
    BY <1>2, LogsAssumption DEF LogsAssumption
  <2>2. \E T : Selected = Keep(pods, T)
    BY <1>2 DEF Selected
  <2> HIDE DEF pods
  <2>3. Selected \in Seq(ToSet(pods)) /\ ToSet(Selected) \subseteq ToSet(pods)
    BY <2>1, <2>2, KeepIs
  <2>4. Selected \in Seq(ToSet(Selected))
    BY <2>3, OverItsElements
  <2>5. ASSUME NEW p \in ToSet(Selected) PROVE Wanted(p) \in Seq(ToSet(Wanted(p)))
    <3> DEFINE working == Keep(p.containers, {c \in ToSet(p.containers) : ~c.is_init})
               usual == IF p.default \in {None, "numa"} THEN <<"numa">> ELSE <<"numa", p.default>>
    <3>1. p.containers \in Seq(ToSet(p.containers))
      BY <2>1, <2>3
    <3>2. cmd.all \in BOOLEAN /\ cmd.containers \in Seq(ToSet(cmd.containers))
      BY LogsAssumption DEF LogsAssumption
    <3>3. \/ cmd.all /\ Wanted(p) = [i \in DOMAIN working |-> working[i].name]
          \/ Wanted(p) = Keep(cmd.containers, ContainerNames(p))
          \/ Wanted(p) = Keep(usual, ContainerNames(p))
      BY <3>2 DEF Wanted, SelectContainers
    <3>4. working \in Seq(ToSet(p.containers))
      BY <3>1, KeepIs
    <3>5. usual \in Seq(ToSet(usual))
      <4>1. usual = <<"numa">> \/ usual = <<"numa", p.default>>
        OBVIOUS
      <4> HIDE DEF usual
      <4> QED BY <4>1, OneOrTwo
    <3> HIDE DEF working, usual
    <3>6. CASE Wanted(p) = [i \in DOMAIN working |-> working[i].name]
      <4>1. Wanted(p) = [i \in DOMAIN working |-> Wanted(p)[i]]
        BY <3>6
      <4> QED BY <3>4, <4>1, OfEach
    <3>7. ASSUME NEW s, s \in Seq(ToSet(s)), NEW T, Wanted(p) = Keep(s, T)
          PROVE  Wanted(p) \in Seq(ToSet(Wanted(p)))
      <4>1. Wanted(p) \in Seq(ToSet(s))
        BY <3>7, KeepIs
      <4> QED BY <4>1, OverItsElements
    <3> QED BY <3>2, <3>3, <3>5, <3>6, <3>7
  <2> QED BY <2>4, <2>5
<1> QED BY <1>1, <1>2

\* What the command has to read: the containers it wants of the pods it selects.
AllReads == UNION {ToSet(Reads(p)) : p \in ToSet(Selected)}

LEMMA AllListed ==
  ASSUME cmd \in CommandLines, cmd.verb \in {"logs", "mvtx logs"},
         NEW all, all = FlattenSeq([k \in DOMAIN Selected |-> Reads(Selected[k])])
  PROVE  all \in Seq(AllReads) /\ AllReads \subseteq ToSet(all)
<1> DEFINE pieces == [k \in DOMAIN Selected |-> Reads(Selected[k])]
<1>1. ASSUME NEW p \in ToSet(Selected) PROVE Reads(p) \in Seq(AllReads)
  <2>1. Wanted(p) \in Seq(ToSet(Wanted(p)))
    BY PodsSelected
  <2>2. Reads(p) \in Seq(ToSet(Reads(p)))
    <3>1. Reads(p) = [i \in DOMAIN Wanted(p) |-> Reads(p)[i]]
      BY DEF Reads
    <3> QED BY <2>1, <3>1, OfEach
  <2>3. ToSet(Reads(p)) \subseteq AllReads
    BY DEF AllReads
  <2> QED BY <2>2, <2>3, OverMore
<1>2. Selected \in Seq(ToSet(Selected))
  BY PodsSelected
<1>3. pieces \in Seq(Seq(AllReads))
  <2>1. \A k \in DOMAIN Selected : Reads(Selected[k]) \in Seq(AllReads)
    BY <1>1, <1>2, SequenceIs
  <2>2. pieces = [k \in DOMAIN Selected |-> pieces[k]]
    OBVIOUS
  <2> QED BY <1>2, <2>1, <2>2, OneForEach
<1>4. \A k \in DOMAIN Selected : k \in DOMAIN pieces /\ pieces[k] = Reads(Selected[k])
  OBVIOUS
<1> HIDE DEF pieces
<1>5. all = FlattenSeq(pieces)
  BY DEF pieces
<1>6. all \in Seq(AllReads) /\ \A k \in DOMAIN pieces : ToSet(pieces[k]) \subseteq ToSet(all)
  BY <1>3, <1>5, FlattenIs
<1>7. \A p \in ToSet(Selected) : ToSet(Reads(p)) \subseteq ToSet(all)
  <2>1. \A p \in ToSet(Selected) : \E k \in DOMAIN Selected : p = Selected[k]
    BY DEF ToSet
  <2> QED BY <1>4, <1>6, <2>1
<1> QED BY <1>6, <1>7 DEF AllReads

\* Nothing is read before the pods are listed; from then on what there is to read is
\* either read or still to be read.
LogInv ==
  /\ pc \in {"find", "lists", "call"} => lines = << >>
  /\ pc = "logs" => /\ lines \in Seq(AllReads) /\ todo \in Seq(AllReads)
                    /\ AllReads \subseteq ToSet(lines) \cup ToSet(todo)
  /\ LogsAreWhole

LEMMA AppendHas ==
  ASSUME NEW T, NEW s \in Seq(T), NEW e \in T
  PROVE  Append(s, e) \in Seq(T) /\ ToSet(Append(s, e)) = ToSet(s) \cup {e}
<1>1. /\ Append(s, e) \in Seq(T) /\ Len(s) \in Nat /\ DOMAIN s = 1..Len(s)
      /\ DOMAIN Append(s, e) = 1..(Len(s) + 1)
      /\ \A i \in 1..Len(s) : Append(s, e)[i] = s[i]
      /\ Append(s, e)[Len(s) + 1] = e
  OBVIOUS
<1>2. \A i \in 1..(Len(s) + 1) : i \in 1..Len(s) \/ i = Len(s) + 1
  BY <1>1
<1>3. 1..Len(s) \subseteq 1..(Len(s) + 1) /\ Len(s) + 1 \in 1..(Len(s) + 1)
  BY <1>1
<1> QED BY <1>1, <1>2, <1>3 DEF ToSet

LEMMA HeadAndTail ==
  ASSUME NEW T, NEW s \in Seq(T), s # << >>
  PROVE  Head(s) \in T /\ Tail(s) \in Seq(T) /\ ToSet(s) \subseteq {Head(s)} \cup ToSet(Tail(s))
<1>1. /\ Head(s) \in T /\ Tail(s) \in Seq(T) /\ Len(s) \in Nat /\ DOMAIN s = 1..Len(s)
      /\ Len(s) # 0 /\ Head(s) = s[1] /\ DOMAIN Tail(s) = 1..(Len(s) - 1)
      /\ \A i \in 1..(Len(s) - 1) : Tail(s)[i] = s[i + 1]
  OBVIOUS
<1>2. ASSUME NEW i \in 1..Len(s), i # 1 PROVE s[i] \in ToSet(Tail(s))
  <2>1. i - 1 \in 1..(Len(s) - 1) /\ (i - 1) + 1 = i
    BY <1>1, <1>2
  <2>2. s[i] = Tail(s)[i - 1]
    BY <1>1, <2>1
  <2> QED BY <1>1, <2>1, <2>2 DEF ToSet
<1>3. \A i \in 1..Len(s) : s[i] = Head(s) \/ s[i] \in ToSet(Tail(s))
  BY <1>1, <1>2
<1> QED BY <1>1, <1>3 DEF ToSet

\* What the command has to read depends on the command and its target alone.
LEMMA SameReads ==
  ASSUME UNCHANGED <<cmd, key>>
  PROVE  AllReads' = AllReads
BY DEF AllReads, Selected, Reads, Wanted

LEMMA ListLogPodsWhole ==
  ASSUME TypeInv, LogInv, ListLogPods
  PROVE  LogInv'
<1>1. UNCHANGED <<cmd, key, lines>> /\ pc = "call" /\ cmd.verb \in {"logs", "mvtx logs"} /\ lines = << >>
  BY DEF ListLogPods, LogInv
<1>2. cmd \in CommandLines
  <2>1. cmd \in CommandLines \cup {NoCommand}
    BY DEF TypeInv, CommandsTypeOK
  <2>2. NoCommand.verb = "none"
    BY DEF NoCommand
  <2> QED BY <1>1, <2>1, <2>2
<1>3. CASE \E e \in {"Usage", "Panic", "NotFound"} : Finish(e, None)
  BY <1>3 DEF LogInv, LogsAreWhole, Finish
<1>4. CASE pc' = "logs" /\ todo' = FlattenSeq([k \in DOMAIN Selected |-> Reads(Selected[k])])
  <2>1. todo' \in Seq(AllReads) /\ AllReads \subseteq ToSet(todo')
    BY <1>1, <1>2, <1>4, AllListed
  <2>2. lines' \in Seq(AllReads)
    BY <1>1, NothingIs, OverMore
  <2>3. AllReads' = AllReads
    BY <1>1, SameReads
  <2> QED BY <1>4, <2>1, <2>2, <2>3 DEF LogInv, LogsAreWhole
<1> QED BY <1>3, <1>4 DEF ListLogPods, SinceError

LEMMA ReadLogWhole ==
  ASSUME LogInv, ReadLog
  PROVE  LogInv'
<1>1. /\ UNCHANGED <<cmd, key>> /\ pc = "logs" /\ pc' = "logs" /\ todo # << >>
      /\ lines' = Append(lines, Head(todo)) /\ todo' = Tail(todo)
  BY DEF ReadLog
<1>2. /\ lines \in Seq(AllReads) /\ todo \in Seq(AllReads)
      /\ AllReads \subseteq ToSet(lines) \cup ToSet(todo)
  BY <1>1 DEF LogInv
<1>3. Head(todo) \in AllReads /\ todo' \in Seq(AllReads) /\ ToSet(todo) \subseteq {Head(todo)} \cup ToSet(todo')
  BY <1>1, <1>2, HeadAndTail
<1>4. lines' \in Seq(AllReads) /\ ToSet(lines') = ToSet(lines) \cup {Head(todo)}
  BY <1>1, <1>2, <1>3, AppendHas
<1>5. AllReads' = AllReads
  BY <1>1, SameReads
<1>6. AllReads \subseteq ToSet(lines') \cup ToSet(todo')
  BY <1>2, <1>3, <1>4
<1> QED BY <1>1, <1>3, <1>4, <1>5, <1>6 DEF LogInv, LogsAreWhole

\* The logs that are shown are those that were read, and there is nothing left to read.
LEMMA ShowLogsWhole ==
  ASSUME LogInv, ShowLogs
  PROVE  LogInv'
<1>1. /\ UNCHANGED <<cmd, key>> /\ pc = "logs" /\ todo = << >>
      /\ pc' = "done" /\ result'.value = lines
  BY DEF ShowLogs, Finish, rest
<1>2. lines \in Seq(AllReads) /\ AllReads \subseteq ToSet(lines)
  BY <1>1, NothingIs DEF LogInv
<1>3. ASSUME NEW pod \in ToSet(Selected), NEW c \in ToSet(Wanted(pod))
      PROVE  Contains(lines, <<pod.name, c>>)
  <2>1. <<pod.name, c>> \in ToSet(Reads(pod))
    BY <1>3 DEF Reads, ToSet
  <2>2. <<pod.name, c>> \in ToSet(lines)
    BY <1>2, <2>1 DEF AllReads
  <2>3. DOMAIN lines = 1..Len(lines)
    BY <1>2, SequenceIs
  <2> QED BY <2>2, <2>3 DEF Contains, ToSet
<1>4. LogsAreWhole'
  <2>1. Selected' = Selected /\ \A pod : Wanted(pod)' = Wanted(pod)
    BY <1>1 DEF Selected, Wanted
  <2> QED BY <1>1, <1>3, <2>1 DEF LogsAreWhole
<1> QED BY <1>1, <1>4 DEF LogInv

\* A step that reads no logs.
LEMMA OtherWhole ==
  ASSUME LogInv, UNCHANGED <<cmd, lines>>, pc # "done", pc' # "logs",
         pc' \in {"find", "lists", "call"} => pc \in {"find", "lists", "call"},
         pc' = "done" => result'.err # "none" \/ cmd.verb # "logs"
  PROVE  LogInv'
BY DEF LogInv, LogsAreWhole

LEMMA NextWhole ==
  ASSUME TypeInv, SearchInv, LogInv, [Next]_vars
  PROVE  LogInv'
<1>1. ASSUME NEW c \in CommandLines, Start(c) PROVE LogInv'
  <2>1. lines' = << >> /\ pc' # "logs" /\ (pc' = "done" => result'.err # "none")
    BY <1>1 DEF Start, Finish, FirstCall
  <2> QED BY <2>1 DEF LogInv, LogsAreWhole
<1>2. ASSUME Find \/ \E kind \in {"Pipeline", "MonoVertex"} : ListOne(kind)
      PROVE  LogInv'
  <2>1. UNCHANGED <<cmd, lines>> /\ pc \in {"find", "lists"}
    BY <1>2 DEF Find, ListOne, rest
  <2>2. pc' # "logs" /\ (pc' = "done" => result'.err # "none" \/ pc = "lists")
    BY <1>2, <2>1 DEF Find, ListOne, Settle, Unique, Finish, Fail, Found
  <2>3. pc = "lists" => cmd.verb # "logs"
    BY DEF SearchInv, Routes
  <2> QED BY <2>1, <2>2, <2>3, OtherWhole
<1>3. ASSUME \/ Show \/ Wait \/ WaitTimesOut \/ InspectIsb \/ IsbUsers \/ Pause \/ ReadBack \/ Resume
             \/ Said \/ RecycleVertex \/ Scale \/ MonoVertexLifecycle
             \/ ReadLive \/ CheckManifest \/ SendManifest
      PROVE  LogInv'
  <2>1. UNCHANGED <<cmd, lines>> /\ pc \notin {"done", "logs"} /\ cmd.verb # "logs"
    <3>1. pc \in {"wait", "back", "resume", "said", "isb", "users", "read", "backlog", "write"} =>
            cmd.verb # "logs"
      BY DEF SearchInv, Routes, PipelineWrites, MonoVertexWrites
    <3> QED BY <1>3, <3>1 DEF Show, Wait, WaitTimesOut, Waiting, InspectIsb, IsbUsers, Pause, ReadBack,
               Resume, Said, RecycleVertex, Scale, MonoVertexLifecycle, ReadLive, CheckManifest,
               SendManifest, Patch, rest, calling, ShowVerbs, MonoVertexWrites
  <2>2. pc' \notin {"logs", "find", "lists", "call"}
    BY <1>3 DEF Show, Wait, WaitTimesOut, InspectIsb, IsbUsers, Pause, ReadBack,
                Resume, Said, RecycleVertex, Scale, MonoVertexLifecycle, ReadLive, CheckManifest,
                SendManifest, Patch, Answered, Finish, Settle
  <2> QED BY <2>1, <2>2, OtherWhole
<1>4. ASSUME LogBreaks \/ CallFails PROVE LogInv'
  <2>1. UNCHANGED <<cmd, lines>> /\ pc # "done" /\ pc' = "done" /\ result'.err # "none"
    BY <1>4 DEF LogBreaks, CallFails, Calls, Finish, rest
  <2> QED BY <2>1, OtherWhole
<1>5. CASE Step
  BY <1>2, <1>3, <1>4, <1>5, ListLogPodsWhole, ReadLogWhole, ShowLogsWhole DEF Step
<1>6. CASE OthersWrite \/ OthersDelete \/ OthersMonoVertex \/ UNCHANGED vars
  <2>1. UNCHANGED <<command, pc>>
    BY <1>6 DEF OthersWrite, OthersDelete, OthersMonoVertex, Elsewhere, vars
  <2>2. UNCHANGED <<cmd, key, todo, lines, result, pc>>
    BY <2>1 DEF command
  <2>3. Selected' = Selected /\ (\A pod : Wanted(pod)' = Wanted(pod)) /\ AllReads' = AllReads
    BY <2>2, SameReads DEF Selected, Wanted
  <2>4. LogsAreWhole' = LogsAreWhole
    BY <2>2, <2>3 DEF LogsAreWhole
  <2> QED BY <2>2, <2>3, <2>4 DEF LogInv
<1> QED BY <1>1, <1>5, <1>6 DEF Next

-----------------------------------------------------------------------------
(* What a check reports.  Until the check, what was read is what there is, *)
(* unless somebody wrote it; and after it nothing is said to be checked.   *)
ReportInv ==
  /\ seen # None => pc \in {"backlog", "write", "done"}
  /\ pc \in {"backlog", "write"} /\ seen # None /\ key \notin DOMAIN pipelines => live = None
  /\ pc = "write" => ~cmd.check
  /\ ChecksAreHonest

\* A step that reports nothing, while nothing is known of what was read.
LEMMA NothingReported ==
  ASSUME ReportInv, pc' # "write",
         \/ pc \notin {"backlog", "write", "done"} /\ UNCHANGED seen
         \/ pc' = "done" /\ UNCHANGED cmd /\ result'.err # "CheckFailed"
                          /\ (pc = "write" \/ result'.err # "none")
  PROVE  ReportInv'
BY DEF ReportInv, ChecksAreHonest, Reported

LEMMA ReadLiveReports ==
  ASSUME ReportInv, ReadLive
  PROVE  ReportInv'
<1>1. pc = "read" /\ UNCHANGED <<cmd, key, pipelines>>
  BY DEF ReadLive, cluster
<1>2. CASE pc' = "done"
  <2>1. UNCHANGED seen
    BY <1>2 DEF ReadLive, Finish
  <2> QED BY <1>1, <1>2, <2>1, NothingReported
<1>3. CASE pc' # "done"
  <2>1. pc' = "backlog" /\ live' = GetPipeline(pipelines, key).value
    BY <1>3 DEF ReadLive, Finish
  <2>2. key \notin DOMAIN pipelines => live' = None
    BY <2>1 DEF GetPipeline, Fail
  <2> QED BY <1>1, <2>1, <2>2 DEF ReportInv, ChecksAreHonest
<1> QED BY <1>2, <1>3

LEMMA CheckReports ==
  ASSUME ApplyInv, ReportInv, CheckManifest
  PROVE  ReportInv'
<1>1. pc = "backlog" /\ UNCHANGED <<cmd, key, live, seen, pipelines>>
  BY DEF CheckManifest, cluster
<1> DEFINE report == Check(live, Parsed, backlog')
<1>2. /\ backlog' \in {None, 0, 1}
      /\ \/ report.blocks # {} /\ Finish("CheckFailed", report)
         \/ report.blocks = {} /\ cmd.check /\ Finish("none", report)
         \/ ~cmd.check /\ pc' = "write"
  BY DEF CheckManifest
<1>3. Parsed' = Parsed /\ LiveNow' = LiveNow
  BY <1>1 DEF Parsed, LiveNow
<1>4. seen # None => live = LiveNow
  BY <1>1 DEF ReportInv, ApplyInv, ReadInv, LiveNow
<1>5. CASE ~cmd.check /\ pc' = "write"
  BY <1>1, <1>5 DEF ReportInv, ChecksAreHonest
<1>6. CASE \/ report.blocks # {} /\ Finish("CheckFailed", report)
           \/ report.blocks = {} /\ cmd.check /\ Finish("none", report)
  <2>1. /\ pc' = "done" /\ result'.value = report
        /\ result'.err = "CheckFailed" <=> report.blocks # {}
    BY <1>6 DEF Finish
  <2> HIDE DEF report
  <2>2. seen' # None => report = Check(LiveNow', Parsed', backlog')
    BY <1>1, <1>3, <1>4 DEF report
  <2>3. ChecksAreHonest'
    BY <1>2, <2>1, <2>2 DEF ChecksAreHonest
  <2> QED BY <1>1, <2>1, <2>3 DEF ReportInv
<1> QED BY <1>2, <1>5, <1>6

\* What others write does not touch a report, or is known to have come after it.
LEMMA OthersReport ==
  ASSUME ReportInv, OthersWrite \/ OthersDelete \/ OthersMonoVertex \/ UNCHANGED vars
  PROVE  ReportInv'
<1>1. UNCHANGED <<cmd, key, live, result, pc>>
  BY DEF OthersWrite, OthersDelete, OthersMonoVertex, Elsewhere, command, vars
<1>2. seen' # None =>
        /\ seen # None
        /\ key \in DOMAIN pipelines' <=> key \in DOMAIN pipelines
        /\ key \in DOMAIN pipelines' => pipelines'[key] = pipelines[key]
  <2>1. CASE OthersWrite
    <3>1. PICK o \in Objects :
            /\ pipelines' = [x \in DOMAIN pipelines \cup {KeyOf(o)} |->
                               IF x = KeyOf(o) THEN o ELSE pipelines[x]]
            /\ seen' = IF KeyOf(o) = key THEN None ELSE seen
      BY <2>1 DEF OthersWrite, Elsewhere
    <3> QED BY <3>1
  <2>2. CASE OthersDelete
    <3>1. PICK k \in DOMAIN pipelines :
            /\ pipelines' = Restrict(pipelines, DOMAIN pipelines \ {k})
            /\ seen' = IF k = key THEN None ELSE seen
      BY <2>2 DEF OthersDelete, Elsewhere
    <3> QED BY <3>1 DEF Restrict
  <2>3. CASE OthersMonoVertex
    BY <2>3 DEF OthersMonoVertex, Elsewhere
  <2>4. CASE UNCHANGED vars
    BY <2>4 DEF vars, cluster
  <2> QED BY <2>1, <2>2, <2>3, <2>4
<1>3. Parsed' = Parsed
  BY <1>1 DEF Parsed
<1>4. seen' # None => LiveNow' = LiveNow
  BY <1>1, <1>2 DEF LiveNow
<1>5. ChecksAreHonest'
  BY <1>1, <1>2, <1>3, <1>4 DEF ReportInv, ChecksAreHonest, Reported
<1> QED BY <1>1, <1>2, <1>5 DEF ReportInv

LEMMA NextReports ==
  ASSUME ApplyInv, ReportInv, [Next]_vars
  PROVE  ReportInv'
<1>1. ASSUME NEW c \in CommandLines, Start(c) PROVE ReportInv'
  <2>1. seen' = None /\ pc' # "write"
    BY <1>1 DEF Start, Finish, FirstCall
  <2> QED BY <2>1 DEF ReportInv, ChecksAreHonest
<1>2. ASSUME \/ Find \/ Show \/ Wait \/ WaitTimesOut \/ InspectIsb \/ IsbUsers
             \/ (\E kind \in {"Pipeline", "MonoVertex"} : ListOne(kind))
             \/ ReadBack \/ Said \/ RecycleVertex \/ LogBreaks \/ ShowLogs
      PROVE  ReportInv'
  <2>1. pc \notin {"backlog", "write", "done"} /\ UNCHANGED seen
    BY <1>2 DEF Find, Show, Wait, WaitTimesOut, Waiting, InspectIsb, IsbUsers, ListOne,
                ReadBack, Said, RecycleVertex, LogBreaks, ShowLogs, rest
  <2>2. pc' # "write"
    BY <1>2, <2>1 DEF Find, Show, Wait, WaitTimesOut, InspectIsb, IsbUsers, ListOne,
                ReadBack, Said, RecycleVertex, LogBreaks, ShowLogs, Settle, Finish
  <2> QED BY <2>1, <2>2, NothingReported
<1>3. ASSUME \/ Pause \/ Resume \/ Scale \/ MonoVertexLifecycle \/ ListLogPods \/ ReadLog
      PROVE  ReportInv'
  <2>1. pc \notin {"backlog", "write", "done"} /\ UNCHANGED seen
    BY <1>3 DEF Pause, Resume, Scale, MonoVertexLifecycle, ListLogPods, ReadLog, Patch, calling
  <2>2. pc' # "write"
    BY <1>3 DEF Pause, Resume, Scale, MonoVertexLifecycle, ListLogPods, ReadLog, Patch,
                Answered, Finish
  <2> QED BY <2>1, <2>2, NothingReported
<1>4. CASE CallFails
  <2>1. /\ pc' = "done" /\ UNCHANGED cmd
        /\ result'.err # "CheckFailed" /\ result'.err # "none"
    BY <1>4 DEF CallFails, Finish, rest
  <2> QED BY <2>1, NothingReported
<1>5. CASE SendManifest
  <2>1. /\ pc = "write" /\ pc' = "done" /\ UNCHANGED cmd
        /\ result'.err \in {"none", "Invalid", "Cluster"}
    BY <1>5 DEF SendManifest, ApplyManifest, Finish, calling
  <2> QED BY <2>1, NothingReported
<1>6. CASE Step
  BY <1>2, <1>3, <1>4, <1>5, <1>6, ReadLiveReports, CheckReports DEF Step
<1>7. CASE OthersWrite \/ OthersDelete \/ OthersMonoVertex \/ UNCHANGED vars
  BY <1>7, OthersReport
<1> QED BY <1>1, <1>6, <1>7 DEF Next

\* What a command says when it ends is so.  What it says is not there did not exist all
\* along, an ambiguous name had two workloads, an object it refuses is odd and its target
\* was there (commands.rs:98-189, pipeline.rs:49); one-shot logs that are shown have
\* every selected container of every pod that was listed (logs.rs:161-187); and a check
\* fails exactly when it blocks, and compares the manifest with the pipeline there is as
\* long as nobody has written it since (commands.rs:605-646).  Whatever the command lines,
\* the objects and the other writers.
THEOREM AnswersAreHonestThm ==
  ASSUME NoneIsNoKey, OutcomesApart
  PROVE  Spec => []AnswersAreHonest
<1> DEFINE Inv == TypeInv /\ ApplyInv /\ SearchInv /\ LogInv /\ ReportInv
<1>1. Init => Inv
  <2>1. Init => LogInv
    BY DEF Init, LogInv, LogsAreWhole
  <2>2. Init => ReportInv
    BY DEF Init, ReportInv, ChecksAreHonest
  <2> QED BY <2>1, <2>2, InitTypes, InitCareful, InitSearch
<1>2. Inv /\ [Next]_vars => Inv'
  BY NextTypes, StepCareful, NextSearch, NextWhole, NextReports DEF ApplyInv
<1>3. Inv => AnswersAreHonest
  BY DEF SearchInv, LogInv, ReportInv, AnswersAreHonest
<1> QED BY <1>1, <1>2, <1>3, PTL DEF Spec
=============================================================================
