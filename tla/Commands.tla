------------------------------- MODULE Commands -------------------------------
(***************************************************************************)
(* One nfctl command after another, nfctl-cli/src/commands.rs: how a       *)
(* command line finds the workload it names, which calls it makes on the   *)
(* cluster in which order, and what it ends with, while other operators    *)
(* and the controllers write the same objects between its calls.           *)
(*                                                                         *)
(* Every call is one action.  A call may also fail on the way (CallFails), *)
(* and the answer of a write be lost after the server did it (Answered).   *)
(* Rendering is left out: a command ends with an error, "none" among them, *)
(* and the value it shows.                                                 *)
(***************************************************************************)
EXTENDS ClusterApi, TLC

CONSTANTS
  CommandLines,  \* the commands an operator may type, see Start
  Objects,       \* wire objects others may put at a key
  Pipelines0, MonoVertices0,   \* the sets of stores the cluster may start with
  IsbServices,   \* store of the ISB services, which nobody changes here
  Pods,          \* function: namespace -> sequence of pods [name, owner, containers, default]
  ObjectName(_, _),   \* of a pipeline's and a vertex's name: the name of the Vertex object
  DefaultNs,     \* the namespace of the kubeconfig
  MaxCommands,   \* bound: commands typed
  MaxOthers      \* bound: writes of others

VARIABLES
  \* the cluster
  pipelines, monovertices,
  owned,      \* key -> the fields of the pipeline last applied by nfctl
  replicas,   \* replicas set through the scale subresource, by Vertex object
  others, typed,   \* counters for the bounds
  \* the command
  cmd, pc,
  key,        \* the workload the command acts on, None until it is known
  listed,     \* the matches of the lists answered so far
  live, backlog,   \* what apply read
  todo, lines,     \* one-shot logs: containers still to read, containers read
  result,
  \* histories
  seen,       \* the pipeline at key when apply read it, and nobody wrote it since
  touched,    \* workloads whose objects this command's calls changed
  always,     \* workloads with the name asked for that existed all along
  ever        \* every workload there was since the command began: <<key, object>>

cluster == <<pipelines, monovertices, owned, replicas>>
counters == <<others, typed>>
command == <<cmd, key, listed, live, backlog, todo, lines, result>>
vars == <<cluster, counters, command, pc, seen, touched, always, ever>>
\* what a step of a command that only looks something up leaves alone
rest == <<cluster, counters, cmd, live, backlog, todo, lines, seen, touched, always, ever>>

NoCommand == [verb |-> "none"]
Pending == [err |-> "pending", value |-> None]
NoMatches == [Pipeline |-> None, MonoVertex |-> None]

ShowVerbs == {"get", "dag", "status", "mvtx status"}
PipelineReads == {"dag", "status", "wait"}
PipelineWrites == {"pause", "resume", "recycle", "scale"}
PipelineVerbs == PipelineReads \cup PipelineWrites \cup {"logs"}
MonoVertexWrites == {"mvtx pause", "mvtx resume"}
MonoVertexVerbs == MonoVertexWrites \cup {"mvtx status", "mvtx logs"}
Verbs == {"ls", "get", "apply", "isb"} \cup PipelineVerbs \cup MonoVertexVerbs

ASSUME CommandsAssumption ==
  /\ MaxCommands \in Nat \ {0} /\ MaxOthers \in Nat
  /\ None # Invalid /\ {None, Invalid} \cap DOMAIN Shape = {} /\ Invalid \notin DesiredPhases
  /\ \A c \in CommandLines : c.verb \in Verbs
  /\ \A store \in Pipelines0 : \A k \in DOMAIN store :
       k = KeyOf(store[k]) /\ IsPipelineObject(store[k])
  /\ \A store \in MonoVertices0 : \A k \in DOMAIN store :
       k = <<"MonoVertex", store[k].namespace, store[k].name>> /\ IsMonoVertexObject(store[k])
  /\ \A store \in Pipelines0 \cup MonoVertices0 : IsFiniteSet(DOMAIN store)
  /\ \A o \in Objects : IsPipelineObject(o)
  /\ \A c \in CommandLines : c.verb = "apply" => IsPipelineObject(c.file.object)
  /\ NameOk(DefaultNs, Label)

ASSUME LogsAssumption ==
  /\ \A ns \in DOMAIN Pods :
       /\ Pods[ns] \in Seq(ToSet(Pods[ns]))
       /\ \A p \in ToSet(Pods[ns]) : p.containers \in Seq(ToSet(p.containers))
  /\ \A c \in CommandLines : c.verb \in {"logs", "mvtx logs"} =>
       /\ c.all \in BOOLEAN /\ c.containers \in Seq(ToSet(c.containers))

(* An apply in an earlier session may have set the desired phase. *)
AppliedBefore == {"name", "namespace", "vertices", "edges", "desired_phase"}

Init ==
  /\ pipelines \in Pipelines0 /\ monovertices \in MonoVertices0
  /\ owned \in [DOMAIN pipelines -> {{}, AppliedBefore}] /\ replicas = << >>
  /\ others = 0 /\ typed = 0
  /\ cmd = NoCommand /\ pc = "done" /\ key = None /\ listed = NoMatches
  /\ live = None /\ backlog = None /\ todo = << >> /\ lines = << >> /\ result = Pending
  /\ seen = None /\ touched = {} /\ always = {} /\ ever = {}

Finish(e, v) == pc' = "done" /\ result' = [err |-> e, value |-> v]

(***************************************************************************)
(* Finding the workload.  The name and then -n are checked before any      *)
(* call.  With -n a pipeline or a MonoVertex is taken as named; without,   *)
(* and for get always, lists are searched for the one that has the name.   *)
(***************************************************************************)
BadUsage(c) ==
  \/ c.verb # "ls" /\ c.verb # "apply" /\ ~NameOk(c.name, Label)
  \/ c.ns # None /\ ~NameOk(c.ns, Label)

(* For the histories: the workloads of the cluster, and those among them   *)
(* that the command could mean.                                            *)
Everything == {<<k, pipelines[k]>> : k \in DOMAIN pipelines}
              \cup {<<k, monovertices[k]>> : k \in DOMAIN monovertices}
Meant(c, k) == /\ k[3] = c.name /\ c.ns \in {None, k[2]}
               /\ c.verb \in PipelineVerbs => k[1] = "Pipeline"
               /\ c.verb \in MonoVertexVerbs => k[1] = "MonoVertex"
Existing(c) == {k \in DOMAIN pipelines \cup DOMAIN monovertices : Meant(c, k)}
Remember(now) == always' = now /\ ever' = Everything

FirstCall(c) ==
  CASE c.verb \in {"get", "ls"} -> "lists"
    [] c.verb = "apply" -> "read"
    [] c.verb = "isb" -> "isb"
    [] OTHER -> IF c.ns = None THEN "find" ELSE "call"

Start(c) ==
  LET parsed == IF c.verb = "apply" THEN ParseManifest(c.file, Or(c.ns, DefaultNs)) ELSE None
      named == CASE c.verb = "apply" -> parsed.key
                 [] c.verb \in PipelineVerbs -> <<"Pipeline", c.ns, c.name>>
                 [] OTHER -> <<"MonoVertex", c.ns, c.name>>
      known == \/ c.verb = "apply"
               \/ c.ns # None /\ c.verb \in PipelineVerbs \cup MonoVertexVerbs
      refusal == IF BadUsage(c) THEN "Usage" ELSE IF parsed = Invalid THEN "Invalid" ELSE "none"
  IN /\ pc = "done" /\ typed < MaxCommands
     /\ typed' = typed + 1
     /\ cmd' = c /\ listed' = NoMatches /\ live' = None /\ backlog' = None
     /\ todo' = << >> /\ lines' = << >> /\ seen' = None /\ touched' = {}
     /\ IF refusal # "none" THEN Finish(refusal, None) /\ key' = None
        ELSE pc' = FirstCall(c) /\ result' = Pending /\ key' = IF known THEN named ELSE None
     /\ Remember(Existing(c))
     /\ UNCHANGED <<cluster, others>>

(* unique_by: exactly one match, or NotFound, or a usage error that lists  *)
(* them.                                                                   *)
Unique(found) ==
  CASE found = {} -> Fail("NotFound")
    [] Cardinality(found) = 1 -> Found(CHOOSE k \in found : TRUE)
    [] OTHER -> Fail("Usage")

Matches(answer, name) == {w.key : w \in {x \in answer.value : x.key[3] = name}}

(* Faulty variant: an ambiguous or unknown name ends the command without   *)
(* an error.                                                               *)
SettleSilently(found, next) ==
  LET one == Unique(found)
  IN IF one.err # "none" THEN pc' = "done" /\ UNCHANGED <<key, result>>
     ELSE key' = one.value /\ pc' = next /\ UNCHANGED result

Settle(found, next) ==
  LET one == Unique(found)
  IN IF one.err # "none" THEN Finish(one.err, None) /\ UNCHANGED key
     ELSE key' = one.value /\ pc' = next /\ UNCHANGED result

(* resolve_pipeline and resolve_monovertex without -n: one list of the     *)
(* whole cluster.                                                          *)
Find ==
  /\ pc = "find"
  /\ LET answer == IF cmd.verb \in PipelineVerbs THEN ListPipelines(pipelines, None)
                   ELSE ListMonoVertices(monovertices, None)
     IN IF answer.err # "none" THEN Finish(answer.err, None) /\ UNCHANGED key
        ELSE Settle(Matches(answer, cmd.name), "call")
  /\ UNCHANGED <<rest, listed>>

(* list_workloads asks for both kinds at once; the answers come in either  *)
(* order, and the first error ends the command.                            *)
ListOne(kind) ==
  /\ pc = "lists" /\ listed[kind] = None
  /\ LET answer == IF kind = "Pipeline" THEN ListPipelines(pipelines, cmd.ns)
                   ELSE ListMonoVertices(monovertices, cmd.ns)
         after == [listed EXCEPT ![kind] = answer.value]
         both == after.Pipeline \cup after.MonoVertex
     IN IF answer.err # "none" THEN Finish(answer.err, None) /\ UNCHANGED <<key, listed>>
        ELSE /\ listed' = after
             /\ IF None \in {after.Pipeline, after.MonoVertex} THEN UNCHANGED <<pc, key, result>>
                ELSE IF cmd.verb = "ls" THEN Finish("none", both) /\ UNCHANGED key
                ELSE Settle({w.key : w \in {x \in both : x.key[3] = cmd.name}}, "call")
  /\ UNCHANGED rest

(***************************************************************************)
(* Commands that read.                                                     *)
(***************************************************************************)
Lookup(k) ==
  IF k[1] = "Pipeline" THEN GetPipeline(pipelines, k) ELSE GetMonoVertex(monovertices, k)

(* get, dag, status and mvtx status: one read of the object.  Whatever the *)
(* daemon answers after that, the command does not fail.                   *)
Show ==
  /\ pc = "call" /\ cmd.verb \in ShowVerbs
  /\ LET answer == Lookup(key) IN Finish(answer.err, answer.value)
  /\ UNCHANGED <<rest, key, listed>>

(* wait, and the waiting part of pause and recycle: the pipeline is seen   *)
(* in the phase, or odd, or it goes away, or the time is up.  One that     *)
(* never was is waited for.  (Lifecycle has the watch event by event.)     *)
Goal == IF cmd.verb = "wait" THEN cmd.phase ELSE "Paused"
Waiting == pc = "wait" \/ (pc = "call" /\ cmd.verb = "wait")
Wait ==
  /\ Waiting /\ \E w \in ever : w[1] = key
  /\ LET answer == Lookup(key)
     IN IF answer.err # "none" THEN Finish(answer.err, None)
        ELSE /\ answer.value.status.phase = Goal
             /\ IF cmd.verb = "recycle" THEN pc' = "resume" /\ UNCHANGED result
                ELSE Finish("none", answer.value)
  /\ UNCHANGED <<rest, key, listed>>
WaitTimesOut ==
  /\ Waiting
  /\ Finish("Timeout", None)
  /\ UNCHANGED <<rest, key, listed>>

(* isb inspect: the service, then the pipelines of its namespace that use  *)
(* it; isb ls is its first call.                                           *)
InspectIsb ==
  /\ pc = "isb"
  /\ LET answer == ListIsb(IsbServices, cmd.ns)
     IN IF answer.err # "none" THEN Finish(answer.err, None) /\ UNCHANGED key
        ELSE Settle(Matches(answer, cmd.name), "users")
  /\ UNCHANGED <<rest, listed>>
IsbUsers ==
  /\ pc = "users"
  /\ LET answer == ListPipelines(pipelines, key[2])
     IN IF answer.err # "none" THEN Finish(answer.err, None)
        ELSE Finish("none", {p \in answer.value : p.spec.isb = key[3]})
  /\ UNCHANGED <<rest, key, listed>>

(***************************************************************************)
(* Commands that write.  After a write call the answer may be lost.        *)
(***************************************************************************)
Answered(e, next) == \/ e # "none" /\ Finish(e, None)
                     \/ e = "none" /\ pc' = next /\ UNCHANGED result
                     \/ e = "none" /\ Finish("Cluster", None)
Touch(store, new, keys) == touched' = IF new = store THEN touched ELSE touched \cup keys
calling == <<counters, cmd, key, listed, live, backlog, todo, lines, seen, always, ever>>

(* A patch takes the fields it changes out of the hands of nfctl's applies. *)
Disowned(k, new) ==
  [x \in DOMAIN owned |-> IF x = k THEN {f \in owned[x] : new[k][f] = pipelines[k][f]} ELSE owned[x]]

Patch(desired, resume, next) ==
  LET did == SetLifecycle(pipelines, key, desired, resume, cmd.dry)
  IN /\ pipelines' = did.store
     /\ owned' = IF did.store = pipelines THEN owned ELSE Disowned(key, did.store)
     /\ Touch(pipelines, did.store, {key})
     /\ Answered(did.err, next)
     /\ UNCHANGED <<calling, monovertices, replicas>>

(* pause, and the first half of recycle without a vertex, which always     *)
(* waits; a dry run never does.                                            *)
Waits == (cmd.wait \/ cmd.verb = "recycle") /\ ~cmd.dry
Pause ==
  /\ pc = "call" /\ cmd.verb \in {"pause", "recycle"} /\ cmd.vertex = None
  /\ Patch("Paused", None, IF Waits THEN "wait" ELSE "back")
ReadBack ==
  /\ pc = "back"
  /\ LET answer == GetPipeline(pipelines, key)
     IN IF answer.err = "none" /\ cmd.verb = "recycle" THEN pc' = "resume" /\ UNCHANGED result
        ELSE Finish(answer.err, answer.value)
  /\ UNCHANGED <<rest, key, listed>>
Resume ==
  /\ pc = "resume" \/ (pc = "call" /\ cmd.verb = "resume")
  /\ Patch("Running", IF cmd.verb = "recycle" THEN "fast" ELSE cmd.strategy, "said")

(* The command has done its last call. *)
Said == pc = "said" /\ Finish("none", None) /\ UNCHANGED <<rest, key, listed>>

(* recycle of one vertex: the vertex must exist; its pods are restarted    *)
(* (RollingRestart), the pipeline is not written.                          *)
RecycleVertex ==
  /\ pc = "call" /\ cmd.verb = "recycle" /\ cmd.vertex # None
  /\ LET answer == GetPipeline(pipelines, key)
     IN Finish(IF ~NameOk(cmd.vertex, Label) THEN "Usage"
               ELSE IF answer.err # "none" THEN answer.err
               ELSE IF cmd.vertex \notin VertexNames(answer.value.spec.topology) THEN "NotFound"
               ELSE "none", None)
  /\ UNCHANGED <<rest, key, listed>>

(* scale patches the Vertex object of that name, which the controller made *)
(* for some pipeline of the namespace; whether the pipeline has the vertex *)
(* is not asked.                                                           *)
Owners(ns, object) ==
  {k \in DOMAIN pipelines : /\ k[2] = ns
                            /\ \E i \in DOMAIN pipelines[k].vertices :
                                 ObjectName(k[3], pipelines[k].vertices[i].name) = object}
Scale ==
  /\ pc = "call" /\ cmd.verb = "scale"
  /\ LET object == ObjectName(key[3], cmd.vertex)
         owners == Owners(key[2], object)
         done == NameOk(cmd.vertex, Label) /\ owners # {} /\ ~cmd.dry
     IN /\ replicas' = IF done THEN (<<key[2], object>> :> cmd.replicas) @@ replicas ELSE replicas
        /\ touched' = IF done THEN touched \cup owners ELSE touched
        /\ Answered(IF ~NameOk(cmd.vertex, Label) THEN "Usage"
                    ELSE IF owners = {} THEN "NotFound" ELSE "none", "said")
  /\ UNCHANGED <<calling, pipelines, monovertices, owned>>

MonoVertexLifecycle ==
  /\ pc = "call" /\ cmd.verb \in MonoVertexWrites
  /\ LET desired == IF cmd.verb = "mvtx pause" THEN "Paused" ELSE "Running"
         did == SetMonoVertexLifecycle(monovertices, key, desired, cmd.dry)
     IN /\ monovertices' = did.store
        /\ Touch(monovertices, did.store, {key})
        /\ Answered(did.err, "said")
  /\ UNCHANGED <<calling, pipelines, owned, replicas>>

(***************************************************************************)
(* apply: the pipeline is read, the daemon asked for its backlog, the      *)
(* manifest checked against what was read, and then sent.                  *)
(***************************************************************************)
(* Faulty variant: the partitions of a reduce vertex are only warned about. *)
BlocksButPartitions(old, new) ==
  LET d == Diff(old.spec.topology, new.spec.topology)
  IN {b \in {"isb", "instance", "kind"} :
        \/ b = "isb" /\ old.spec.isb # new.spec.isb
        \/ b = "instance" /\ old.meta.instance # new.meta.instance
        \/ b = "kind" /\ d.kind_changed # {}}

(* service/apply.rs check: the kinds of blocks and warnings. *)
Blocks(old, new) ==
  LET d == Diff(old.spec.topology, new.spec.topology)
  IN {b \in {"isb", "instance", "kind", "partitions"} :
        \/ b = "isb" /\ old.spec.isb # new.spec.isb
        \/ b = "instance" /\ old.meta.instance # new.meta.instance
        \/ b = "kind" /\ d.kind_changed # {}
        \/ b = "partitions" /\ \E v \in d.partitions_changed :
                                   VertexOf(new.spec.topology, v).kind = "reduce"}
Warnings(old, new, pending) ==
  LET d == Diff(old.spec.topology, new.spec.topology)
  IN {w \in {"partitions", "shape", "image"} :
        \/ w = "partitions" /\ \E v \in d.partitions_changed :
                                   VertexOf(new.spec.topology, v).kind # "reduce"
        \/ w = "shape" /\ ShapeChanged(d)
        \/ w = "image" /\ d.image_changed # {} /\ pending \notin {None, 0}}
Check(old, new, pending) ==
  IF old = None THEN [blocks |-> {}, warnings |-> {}]
  ELSE [blocks |-> Blocks(old, new), warnings |-> Warnings(old, new, pending)]

Parsed == ParseManifest(cmd.file, Or(cmd.ns, DefaultNs))

ReadLive ==
  /\ pc = "read"
  /\ LET answer == GetPipeline(pipelines, key)
     IN IF answer.err \notin {"none", "NotFound"}
        THEN Finish(answer.err, None) /\ UNCHANGED <<live, seen>>
        ELSE /\ live' = answer.value
             /\ seen' = IF key \in DOMAIN pipelines THEN pipelines[key] ELSE Invalid
             /\ pc' = "backlog" /\ UNCHANGED result
  /\ UNCHANGED <<cluster, counters, cmd, key, listed, backlog, todo, lines, touched, always, ever>>

(* The daemon may not answer, or not know; its answer is not used when the *)
(* pipeline is new.  A report with blocks, or --check, ends the command.   *)
CheckManifest ==
  /\ pc = "backlog"
  /\ \E pending \in {None, 0, 1} : backlog' = IF live = None THEN None ELSE pending
  /\ LET report == Check(live, Parsed, backlog')
     IN IF report.blocks # {} THEN Finish("CheckFailed", report)
        ELSE IF cmd.check THEN Finish("none", report)
        ELSE pc' = "write" /\ UNCHANGED result
  /\ UNCHANGED <<cluster, counters, cmd, key, listed, live, todo, lines, seen, touched, always, ever>>

(* The manifest is validated once more and sent; what the server answers   *)
(* must convert too.                                                       *)
SendManifest ==
  /\ pc = "write"
  /\ LET doc == Addressed(cmd.file, Or(cmd.ns, DefaultNs))
         did == ApplyManifest(pipelines, doc, IF key \in DOMAIN owned THEN owned[key] ELSE {}, cmd.dry)
     IN /\ pipelines' = did.store
        /\ owned' = IF cmd.dry THEN owned ELSE (key :> Present(doc)) @@ owned
        /\ Touch(pipelines, did.store, {key})
        /\ \/ Finish(did.err, IF did.err # "none" THEN None
                              ELSE IF live = None THEN "created" ELSE "configured")
           \/ Finish("Cluster", None)
  /\ UNCHANGED <<calling, monovertices, replicas>>

(***************************************************************************)
(* logs and mvtx logs without --follow: the pods are listed once, then one *)
(* container after another is read to the end of its backlog.              *)
(***************************************************************************)
(* The elements of s that are in T, in their order. *)
Keep(s, T) == FlattenSeq([i \in DOMAIN s |-> IF s[i] \in T THEN <<s[i]>> ELSE << >>])

(* service/logs.rs select_containers: every container that is no init      *)
(* container; the named ones the pod has; or the main container and the    *)
(* pod's default one.                                                      *)
ContainerNames(pod) == {c.name : c \in ToSet(pod.containers)}
SelectContainers(pod, all, named) ==
  LET working == Keep(pod.containers, {c \in ToSet(pod.containers) : ~c.is_init})
      usual == IF pod.default \in {None, "numa"} THEN <<"numa">> ELSE <<"numa", pod.default>>
  IN CASE all -> [i \in DOMAIN working |-> working[i].name]
       [] ~all /\ named # << >> -> Keep(named, ContainerNames(pod))
       [] OTHER -> Keep(usual, ContainerNames(pod))

(* A named container that no pod has is an error that lists the others.    *)
Unknown(pods, all, named) ==
  ~all /\ ~ToSet(named) \subseteq UNION {ContainerNames(p) : p \in ToSet(pods)}

(* parse_duration and the start of the window: a product past the word     *)
(* wraps in a release build, a window that starts before the calendar      *)
(* does panics.                                                            *)
UnitSeconds == [s |-> 1, m |-> 60, h |-> 3600, d |-> 86400]
SinceError(since) ==
  IF since = None THEN "none"
  ELSE IF since.unit \notin DOMAIN UnitSeconds THEN "Usage"
  ELSE IF (since.n * UnitSeconds[since.unit]) % since.word > since.calendar THEN "Panic"
  ELSE "none"

(* The pods of the workload and, when one is named, of the vertex. *)
Selected ==
  IF key[2] \notin DOMAIN Pods THEN << >>
  ELSE Keep(Pods[key[2]],
            {p \in ToSet(Pods[key[2]]) : p.owner = key[3] /\ cmd.vertex \in {None, p.vertex}})
Wanted(p) == SelectContainers(p, cmd.all, cmd.containers)
Reads(p) == [i \in DOMAIN Wanted(p) |-> <<p.name, Wanted(p)[i]>>]

ListLogPods ==
  /\ pc = "call" /\ cmd.verb \in {"logs", "mvtx logs"}
  /\ LET refusal ==
           IF \/ cmd.vertex # None /\ ~NameOk(cmd.vertex, Label)
              \/ ~cmd.all /\ \E c \in ToSet(cmd.containers) : ~NameOk(c, Label) THEN "Usage"
           ELSE IF SinceError(cmd.since) # "none" THEN SinceError(cmd.since)
           ELSE IF Unknown(Selected, cmd.all, cmd.containers) THEN "NotFound" ELSE "none"
     IN IF refusal # "none" THEN Finish(refusal, None) /\ UNCHANGED todo
        ELSE /\ todo' = FlattenSeq([i \in DOMAIN Selected |-> Reads(Selected[i])])
             /\ pc' = "logs" /\ UNCHANGED result
  /\ UNCHANGED <<cluster, counters, cmd, key, listed, live, backlog, lines, seen, touched, always, ever>>

(* One container that cannot be opened, or whose stream breaks, fails the  *)
(* command; what was read before is not shown.                             *)
ReadLog ==
  /\ pc = "logs" /\ todo # << >>
  /\ lines' = Append(lines, Head(todo)) /\ todo' = Tail(todo)
  /\ UNCHANGED <<cluster, counters, cmd, pc, key, listed, live, backlog, result, seen, touched, always, ever>>
LogBreaks ==
  /\ pc = "logs" /\ todo # << >>
  /\ Finish("Cluster", None)
  /\ UNCHANGED <<rest, key, listed>>
ShowLogs ==
  /\ pc = "logs" /\ todo = << >>
  /\ Finish("none", lines)
  /\ UNCHANGED <<rest, key, listed>>

(***************************************************************************)
(* The rest of the world.                                                  *)
(***************************************************************************)
Calls == {"find", "lists", "call", "wait", "read", "back", "resume", "isb", "users", "write"}
CallFails ==
  /\ pc \in Calls
  /\ \E e \in {"Cluster", "Forbidden"} : Finish(e, None)
  /\ UNCHANGED <<rest, key, listed>>

(* Others create, change and delete workloads; the controller's reports    *)
(* are such changes.                                                       *)
Elsewhere(k) ==
  /\ others < MaxOthers /\ others' = others + 1
  /\ UNCHANGED <<replicas, typed, command, pc, touched>>
  /\ seen' = IF k = key THEN None ELSE seen
  /\ always' = IF cmd = NoCommand THEN {} ELSE always \cap Existing(cmd)'
  /\ ever' = IF cmd = NoCommand THEN {} ELSE ever \cup Everything'
OthersWrite ==
  \E o \in Objects :
    LET k == KeyOf(o)
    IN /\ k \in DOMAIN pipelines => pipelines[k] # o
       /\ pipelines' = [x \in DOMAIN pipelines \cup {k} |-> IF x = k THEN o ELSE pipelines[x]]
       /\ owned' = IF k \in DOMAIN owned
                   THEN [owned EXCEPT ![k] = {f \in @ : o[f] = pipelines[k][f]}] ELSE owned
       /\ UNCHANGED monovertices
       /\ Elsewhere(k)
OthersDelete ==
  \E k \in DOMAIN pipelines :
    /\ pipelines' = Restrict(pipelines, DOMAIN pipelines \ {k})
    /\ owned' = Restrict(owned, DOMAIN owned \ {k})
    /\ UNCHANGED monovertices
    /\ Elsewhere(k)
OthersMonoVertex ==
  \E store \in MonoVertices0 :
    /\ monovertices # store /\ monovertices' = store
    /\ UNCHANGED <<pipelines, owned>>
    /\ Elsewhere(None)

Step ==
  \/ Find \/ Show \/ Wait \/ WaitTimesOut \/ InspectIsb \/ IsbUsers
  \/ \E kind \in {"Pipeline", "MonoVertex"} : ListOne(kind)
  \/ Pause \/ ReadBack \/ Resume \/ Said \/ RecycleVertex \/ Scale \/ MonoVertexLifecycle
  \/ ReadLive \/ CheckManifest \/ SendManifest
  \/ ListLogPods \/ ReadLog \/ LogBreaks \/ ShowLogs
  \/ CallFails

Next == \/ \E c \in CommandLines : Start(c)
        \/ Step
        \/ OthersWrite \/ OthersDelete \/ OthersMonoVertex

Spec == Init /\ [][Next]_vars
-----------------------------------------------------------------------------
(***************************************************************************)
(* Properties.                                                             *)
(***************************************************************************)
Errors == {"none", "pending", "Usage", "NotFound", "Invalid", "CheckFailed", "Cluster",
           "Forbidden", "Timeout", "Panic"}

(* A command that runs has no result yet, one that ended has one; one that *)
(* failed shows nothing, but for the report of a check; what it acts on is *)
(* a workload or a service (commands.rs:258-866).                          *)
CommandsTypeOK ==
  /\ cmd \in CommandLines \cup {NoCommand}
  /\ result.err \in Errors
  /\ (cmd # NoCommand) => (pc = "done" <=> result.err # "pending")
  /\ result.err \notin {"none", "CheckFailed"} => result.value = None
  /\ key = None \/ key[1] \in {"Pipeline", "MonoVertex", "Isb"}

(* A command changes at most one workload, the one it settled on, and none *)
(* with --dry-run or --check (commands.rs:448-661, :777-812): the commands *)
(* implement OneChange.                                                    *)
Armed == /\ cmd # NoCommand
         /\ cmd.verb \in PipelineWrites \cup MonoVertexWrites \cup {"apply"}
         /\ ~cmd.dry /\ ~(cmd.verb = "apply" /\ cmd.check)
Change == INSTANCE OneChange WITH target <- key, touched <- touched, armed <- Armed,
                                  running <- (pc # "done"), Nothing <- None
ChangesOnlyItsTarget == Change!Spec

(* When a command says that nothing has the name, no workload it could     *)
(* have meant existed all along; when it says the name is ambiguous, there *)
(* were two since it began; when it refuses an object, that object was in  *)
(* its scope and odd, and with -n it is the pipeline itself; and what it   *)
(* found or shows was there (commands.rs:98-189, pipeline.rs:49, the two   *)
(* lists of list_workloads being of two moments).                          *)
Searched == cmd.verb \in {"get"} \cup PipelineVerbs \cup MonoVertexVerbs
InScope(k) ==
  /\ cmd.ns \in {None, k[2]}
  /\ cmd.ns # None /\ cmd.verb \in PipelineVerbs => k[3] = cmd.name
IsOdd(w) ==
  IF w[1][1] = "Pipeline" THEN IntoPipeline(w[2]) = Invalid ELSE IntoMonoVertex(w[2]) = Invalid
FindsWhatIsThere ==
  pc = "done" /\ cmd # NoCommand /\ Searched =>
    /\ result.err = "NotFound" /\ key = None => always = {}
    /\ result.err = "Usage" /\ NameOk(cmd.name, Label) /\ cmd.ns \in {None, DefaultNs} /\ key = None =>
         Cardinality({w[1] : w \in {x \in ever : Meant(cmd, x[1])}}) > 1
    /\ result.err = "Invalid" => \E w \in ever : IsOdd(w) /\ InScope(w[1])
    /\ result.err = "none" /\ (cmd.ns = None \/ cmd.verb \in ShowVerbs \cup {"wait"}) =>
         \E w \in ever : w[1] = key

(* An apply that goes through leaves the parts the operator cannot change  *)
(* (service, instance, kinds, partitions of reduce vertices) as they were, *)
(* unless somebody else wrote the pipeline after it was read               *)
(* (commands.rs:605-646): the check is only as good as what it read.       *)
Fixed(o) ==
  [isb |-> Or(o.isb, "default"), instance |-> o.instance,
   vertices |-> {<<v.name, v.kind, IF v.kind = "reduce" THEN v.partitions ELSE 0>> :
                   v \in ToSet(VerticesFrom(o))}]
SameFixed(old, new) ==
  LET a == Fixed(old)
      b == Fixed(new)
  IN /\ a.isb = b.isb /\ a.instance = b.instance
     /\ \A v \in a.vertices, w \in b.vertices : v[1] = w[1] => v = w
AppliesKeepWhatIsFixed ==
  [][pc = "write" /\ others' = others /\ seen # None /\ key \in DOMAIN pipelines
       => SameFixed(pipelines[key], pipelines'[key])]_vars

(* What a command was not asked to change stays: a paused pipeline stays   *)
(* paused through an apply whose manifest says nothing of the phase and    *)
(* whose phase no apply had set before (cluster.rs:239 "absent fields must *)
(* stay absent"), and pause and resume leave the rest of the spec alone.   *)
AskedFor(f) ==
  IF cmd.verb = "apply"
  THEN cmd.file.object[f] # None \/ (key \in DOMAIN owned /\ f \in owned[key])
  ELSE f \in {"desired_phase", "resume"}
ChangesOnlyWhatWasAsked ==
  others' = others /\ key \in DOMAIN pipelines /\ key \in DOMAIN pipelines' =>
    \A f \in DOMAIN pipelines[key] : pipelines'[key][f] # pipelines[key][f] => AskedFor(f)
AbsentStays == [][ChangesOnlyWhatWasAsked]_vars

(* A one-shot log that is shown has every selected container of every pod  *)
(* that was listed (logs.rs:154-182).                                      *)
LogsAreWhole ==
  pc = "done" /\ cmd # NoCommand /\ cmd.verb = "logs" /\ result.err = "none" =>
    \A pod \in ToSet(Selected) : \A c \in ContainerNames(pod) :
      c \in ToSet(Wanted(pod)) => Contains(result.value, <<pod.name, c>>)

(* The report of a check compares the manifest with the pipeline there is, *)
(* or with none when there is none, unless somebody has written it since   *)
(* it was read; and it fails exactly when it blocks (commands.rs:605-646,  *)
(* service/apply.rs check).                                                *)
Reported == result.err = "CheckFailed" \/ (cmd.check /\ result.err = "none")
LiveNow == IF key \in DOMAIN pipelines THEN IntoPipeline(pipelines[key]) ELSE None
ChecksAreHonest ==
  pc = "done" /\ cmd # NoCommand /\ cmd.verb = "apply" /\ seen # None /\ Reported =>
    /\ \E pending \in {None, 0, 1} : result.value = Check(LiveNow, Parsed, pending)
    /\ result.err = "CheckFailed" <=> result.value.blocks # {}

(* All three: a command that ends tells the truth about the cluster.       *)
AnswersAreHonest == FindsWhatIsThere /\ LogsAreWhole /\ ChecksAreHonest
=============================================================================
