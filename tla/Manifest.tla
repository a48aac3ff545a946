------------------------------- MODULE Manifest -------------------------------
(***************************************************************************)
(* What nfctl takes a Kubernetes object or a manifest to mean, and what it *)
(* refuses: nfctl-k8s/src/dto/{pipeline,monovertex,isb}.rs, the names of   *)
(* nfctl-core/src/model/ids.rs and the enums of model/pipeline.rs,         *)
(* model/monovertex.rs and model/isb.rs.  Pure functions: a wire object is *)
(* a flat record of metadata, spec and status fields whose absent members  *)
(* are None, the result is the domain value or Invalid.                    *)
(*                                                                         *)
(* A name is an element of DOMAIN Shape, and Shape gives the classes of    *)
(* its characters, which is all that its check looks at.                   *)
(***************************************************************************)
EXTENDS PipelineTopology

CONSTANTS Invalid,  \* the outcome of a conversion that fails
          Shape     \* name -> sequence over {"alnum", "dash", "other"}

Or(option, default) == IF option = None THEN default ELSE option

(* ids.rs check_dns_label: an RFC 1123 label of at most max characters.    *)
NameOk(name, max) ==
  LET s == Shape[name]
  IN /\ Len(s) \in 1..max
     /\ "other" \notin ToSet(s)
     /\ s[1] = "alnum" /\ Last(s) = "alnum"

Label == 63   \* namespaces, pipelines, vertices, ISB services, containers

(***************************************************************************)
(* VertexDto -> Vertex.  udf is None or [group_by, image]; source and sink *)
(* are only asked for their presence.                                      *)
(***************************************************************************)
KindOf(d) ==
  CASE d.source /\ ~d.sink /\ d.udf = None -> "source"
    [] d.sink /\ ~d.source /\ d.udf = None -> "sink"
    [] d.udf # None /\ ~d.source /\ ~d.sink -> IF d.udf.group_by THEN "reduce" ELSE "map"
    [] OTHER -> Invalid

NoScale == [min |-> None, max |-> None, disabled |-> FALSE]

IntoVertex(d) ==
  LET kind == KindOf(d)
  IN IF ~NameOk(d.name, Label) \/ d.partitions = 0 \/ kind = Invalid THEN Invalid
     ELSE [name |-> d.name, kind |-> kind,
           partitions |-> IF kind = "source" THEN 1 ELSE Or(d.partitions, 1),
           scale |-> Or(d.scale, NoScale),
           image |-> IF kind \in {"map", "reduce"} THEN d.udf.image ELSE None]

(* EdgeDto -> Edge: tags is None or [operator, values], operator and       *)
(* on_full are the wire's words or None.                                   *)
IntoEdge(d) ==
  LET operator == Or(d.tags.operator, "or")
      policy == Or(d.on_full, "retryUntilSuccess")
  IN IF \/ ~NameOk(d.from, Label) \/ ~NameOk(d.to, Label)
        \/ d.tags # None /\ operator \notin TagOperators
        \/ policy \notin {"discardLatest", "retryUntilSuccess"}
     THEN Invalid
     ELSE [from |-> d.from, to |-> d.to,
           tags |-> IF d.tags = None THEN None
                    ELSE [operator |-> operator, values |-> d.tags.values],
           lossy |-> policy = "discardLatest"]

(***************************************************************************)
(* The rest of the Pipeline object.                                        *)
(***************************************************************************)
PipelineFields ==
  {"name", "namespace", "generation", "created", "instance", "resume", "pause_started",
   "isb", "vertices", "edges", "desired_phase", "pause_grace", "deletion_grace",
   "delete_grace", "read_batch_size", "buffer_max_length", "buffer_usage_limit", "status"}
IsPipelineObject(o) ==
  /\ DOMAIN o = PipelineFields
  /\ \A list \in {o.vertices, o.edges} : list = None \/ list \in Seq(ToSet(list))

(* Absent vertices and edges deserialise to empty lists.                   *)
VerticesFrom(o) == LET list == Or(o.vertices, << >>) IN [i \in DOMAIN list |-> IntoVertex(list[i])]
EdgesFrom(o) == LET list == Or(o.edges, << >>) IN [i \in DOMAIN list |-> IntoEdge(list[i])]
TopologyFrom(o) == [vertices |-> VerticesFrom(o), edges |-> EdgesFrom(o)]

DesiredPhases == {"Running", "Paused"}
Desired(word) == IF Or(word, "Running") \in DesiredPhases THEN Or(word, "Running") ELSE Invalid

(* The deprecated spelling of the deletion period counts when the new one  *)
(* is absent.                                                              *)
LifecycleFrom(o) ==
  [desired |-> Desired(o.desired_phase),
   pause_grace |-> Or(o.pause_grace, 30),
   deletion_grace |-> Or(o.deletion_grace, Or(o.delete_grace, 30))]

(* The usage limit is a percentage on the wire; one above 100 is no        *)
(* fraction and falls back to the default like an absent one.              *)
LimitsFrom(o) ==
  [read_batch_size |-> Or(o.read_batch_size, 500),
   buffer_max_length |-> Or(o.buffer_max_length, 30000),
   buffer_usage_limit |-> IF o.buffer_usage_limit \in 0..100 THEN o.buffer_usage_limit ELSE 80]

PipelinePhases == {"Running", "Paused", "Failed", "Pausing", "Deleting"}
MonoVertexPhases == {"Running", "Paused", "Failed"}
IsbPhases == {"Pending", "Running", "Failed", "Deleting"}
(* parse_lenient: a word of a newer operator is Unknown, never an error.   *)
Lenient(word, phases) == IF word \in phases THEN word ELSE "Unknown"

ConditionsFrom(cs) ==
  [i \in DOMAIN cs |-> [kind |-> cs[i].kind, ok |-> cs[i].status = "True"]]

StatusFrom(st, pauseStarted) ==
  [phase |-> Lenient(st.phase, PipelinePhases),
   message |-> IF st.message = "" THEN None ELSE st.message,
   conditions |-> ConditionsFrom(st.conditions),
   observed_generation |-> st.observed_generation,
   drained_on_pause |-> st.drained_on_pause,
   counts |-> [c \in DOMAIN st.counts |-> Or(st.counts[c], 0)],
   pause_started |-> pauseStarted]

NoStatus ==
  [phase |-> None, message |-> None, conditions |-> << >>, observed_generation |-> None,
   drained_on_pause |-> FALSE,
   counts |-> [c \in {"total", "sources", "sinks", "udfs", "map_udfs", "reduce_udfs"} |-> None]]

ResumeStrategies == {"slow", "fast"}

(* into_pipeline: every part must convert, or the object as a whole does   *)
(* not.  A pause timestamp that does not parse is dropped; a resume        *)
(* strategy that is neither slow nor fast refuses the object.              *)
IntoPipeline(o) ==
  LET topology == TopologyFrom(o)
      isb == Or(o.isb, "default")
      lifecycle == LifecycleFrom(o)
      started == IF o.pause_started = Invalid THEN None ELSE o.pause_started
  IN IF \/ o.name = None \/ o.namespace = None
        \/ ~NameOk(o.name, Label) \/ ~NameOk(o.namespace, Label) \/ ~NameOk(isb, Label)
        \/ Invalid \in ToSet(topology.vertices) \cup ToSet(topology.edges)
        \/ ~WellFormed(topology)
        \/ o.resume \notin ResumeStrategies \cup {None}
        \/ lifecycle.desired = Invalid
     THEN Invalid
     ELSE [key |-> <<"Pipeline", o.namespace, o.name>>,
           meta |-> [generation |-> o.generation, instance |-> o.instance,
                     resume_strategy |-> o.resume, created |-> o.created],
           spec |-> [isb |-> isb, lifecycle |-> lifecycle,
                     limits |-> LimitsFrom(o), topology |-> topology],
           status |-> StatusFrom(Or(o.status, NoStatus), started)]

(***************************************************************************)
(* The other two resources.                                                *)
(***************************************************************************)
IsMonoVertexObject(o) ==
  DOMAIN o = {"name", "namespace", "desired_phase", "transformer", "udf", "fallback",
              "spec_replicas", "created", "status"}

IntoMonoVertex(o) ==
  LET desired == Desired(o.desired_phase)
      st == o.status
  IN IF \/ o.name = None \/ o.namespace = None
        \/ ~NameOk(o.name, Label) \/ ~NameOk(o.namespace, Label) \/ desired = Invalid
     THEN Invalid
     ELSE [key |-> <<"MonoVertex", o.namespace, o.name>>, desired |-> desired,
           phase |-> IF st = None THEN "Unknown" ELSE Lenient(st.phase, MonoVertexPhases),
           replicas |-> IF st = None THEN 0 ELSE Or(st.replicas, 0),
           desired_replicas |-> IF st = None THEN None ELSE st.desired_replicas,
           ready_replicas |-> IF st = None THEN None ELSE st.ready_replicas,
           has_transformer |-> o.transformer,
           has_map |-> o.udf,
           has_fallback |-> o.fallback,
           message |-> IF st = None \/ st.message = "" THEN None ELSE st.message,
           conditions |-> IF st = None THEN << >> ELSE ConditionsFrom(st.conditions),
           created |-> o.created]

(* The operator runs at least three JetStream replicas; a service without  *)
(* conditions is not healthy, whatever its phase.                          *)
IntoIsb(o) ==
  LET conditions == IF o.status = None THEN << >> ELSE o.status.conditions
      phase == IF o.status = None THEN "Unknown" ELSE Lenient(o.status.phase, IsbPhases)
      ready == conditions # << >> /\ \A c \in ToSet(conditions) : c.status = "True"
  IN IF \/ o.name = None \/ o.namespace = None
        \/ ~NameOk(o.name, Label) \/ ~NameOk(o.namespace, Label)
     THEN Invalid
     ELSE [key |-> <<"Isb", o.namespace, o.name>>, version |-> Or(o.version, ""),
           replicas |-> Max({3, Or(o.replicas, 3)}), persistent |-> o.persistence,
           phase |-> phase, healthy |-> ready /\ phase \in {"Running", "Deleting"}]

(***************************************************************************)
(* cluster.rs parse_document, parse_pipeline_object, parse_manifest: the   *)
(* text must be a document of kind Pipeline and must deserialise; an       *)
(* absent namespace is the one of the command.  A document is [kind,       *)
(* deserialises, object].                                                  *)
(***************************************************************************)
ParseDocument(text) == IF text.kind = "Pipeline" THEN text ELSE Invalid
ParsePipelineObject(text) ==
  IF ParseDocument(text) = Invalid \/ ~text.deserialises THEN Invalid ELSE text.object
ParseManifest(text, defaultNs) ==
  LET o == ParsePipelineObject(text)
  IN IF o = Invalid THEN Invalid
     ELSE IntoPipeline([o EXCEPT !.namespace = Or(@, defaultNs)])
=============================================================================
