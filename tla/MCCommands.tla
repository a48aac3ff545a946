------------------------------ MODULE MCCommands ------------------------------
(***************************************************************************)
(* A cluster of two namespaces, pipelines and MonoVertices called p, and   *)
(* command lines of every verb.                                            *)
(***************************************************************************)
EXTENDS Commands

MCShape == [n \in {"n1", "n2", "p", "in", "cat", "out", "default", "js", "numa", "udf", "x"} |-> <<"alnum">>]
           @@ ("Bad" :> <<"other">>) @@ ("dash" :> <<"alnum", "dash">>)

Vtx(name, kind, parts, image) ==
  [name |-> name, source |-> kind = "source", sink |-> kind = "sink",
   udf |-> IF kind \in {"map", "reduce"} THEN [group_by |-> kind = "reduce", image |-> image] ELSE None,
   partitions |-> parts, scale |-> None]
Edg(from, to) == [from |-> from, to |-> to, tags |-> None, on_full |-> None]
Shape1(kind, parts) == <<Vtx("in", "source", None, None), Vtx("cat", kind, parts, "v1"),
                         Vtx("out", "sink", None, None)>>

Base == [name |-> "p", namespace |-> "n1", generation |-> None, created |-> None,
         instance |-> None, resume |-> None, pause_started |-> None, isb |-> None,
         vertices |-> Shape1("reduce", 2), edges |-> <<Edg("in", "cat"), Edg("cat", "out")>>,
         desired_phase |-> None, pause_grace |-> None, deletion_grace |-> None,
         delete_grace |-> None, read_batch_size |-> None, buffer_max_length |-> None,
         buffer_usage_limit |-> None, status |-> None]
Reports(phase) == [phase |-> phase, message |-> "", conditions |-> << >>,
                   observed_generation |-> None, drained_on_pause |-> FALSE,
                   counts |-> [c \in DOMAIN NoStatus.counts |-> None]]
Running == [Base EXCEPT !.status = Reports("Running")]
Paused == [Base EXCEPT !.desired_phase = "Paused", !.status = Reports("Paused")]
Other == [Running EXCEPT !.isb = "js"]
Odd == [Running EXCEPT !.resume = "later"]
Elsewhere2 == [Running EXCEPT !.namespace = "n2"]
OddElsewhere == [Odd EXCEPT !.namespace = "n2"]
MCObjects == {Paused, Other, Odd, OddElsewhere, Elsewhere2}

At(o) == KeyOf(o) :> o
MCPipelines0 == {At(Running), At(Running) @@ At(Elsewhere2), << >>}

Mono == [name |-> "p", namespace |-> "n2", desired_phase |-> None, transformer |-> FALSE,
         udf |-> FALSE, fallback |-> FALSE, spec_replicas |-> 2, created |-> None, status |-> None]
MonoKey == <<"MonoVertex", "n2", "p">>
MCMonoVertices0 == {<< >>, MonoKey :> Mono, MonoKey :> [Mono EXCEPT !.desired_phase = "Odd"]}

Isb(ns) == [name |-> "default", namespace |-> ns, version |-> None, replicas |-> 2,
            persistence |-> FALSE, status |-> None]
MCIsbServices == (<<"Isb", "n1", "default">> :> Isb("n1")) @@ (<<"Isb", "n2", "default">> :> Isb("n2"))

Ctr(name, init) == [name |-> name, is_init |-> init]
Pod(name, vertex, default) ==
  [name |-> name, owner |-> "p", vertex |-> vertex, default |-> default,
   containers |-> <<Ctr("init", TRUE), Ctr("numa", FALSE)>> \o
                  IF default = "udf" THEN <<Ctr("udf", FALSE)>> ELSE << >>]
MCPods == "n1" :> <<Pod("p-cat-0", "cat", "udf"), Pod("p-out-0", "out", "numa")>>

MCObjectName(p, v) == <<p, v>>

Line(verb) == [verb |-> verb, name |-> "p", ns |-> None, dry |-> FALSE, wait |-> FALSE,
               check |-> FALSE, file |-> None, vertex |-> None, strategy |-> "slow",
               phase |-> "Running", replicas |-> 0, all |-> FALSE, containers |-> << >>, since |-> None]
In(ns, c) == [c EXCEPT !.ns = ns]
Dry(c) == [c EXCEPT !.dry = TRUE]
File(kind, o) == [kind |-> kind, deserialises |-> TRUE, object |-> o]
Apply(o) == [Line("apply") EXCEPT !.file = File("Pipeline", o)]
Doc == [Base EXCEPT !.namespace = None]
Since(n, unit) == [n |-> n, unit |-> unit, word |-> 1000000, calendar |-> 500000]

Reading == {Line("ls"), Line("get"), In("n2", Line("get")), In("Bad", Line("get")), Line("status"),
            In("n1", Line("dag")), [Line("wait") EXCEPT !.phase = "Paused"],
            In("n1", [Line("isb") EXCEPT !.name = "default"]), [Line("isb") EXCEPT !.name = "default"],
            Line("mvtx status"), [Line("status") EXCEPT !.name = "dash"]}
Logs == {Line("logs"), In("n1", [Line("logs") EXCEPT !.all = TRUE, !.vertex = "cat"]),
         In("n1", [Line("logs") EXCEPT !.containers = <<"udf">>, !.since = Since(2, "d")]),
         In("n1", [Line("logs") EXCEPT !.containers = <<"x">>]),
         In("n1", [Line("logs") EXCEPT !.since = Since(9, "d")]),
         In("n2", Line("mvtx logs"))}
Writing == {Line("pause"), In("n1", [Line("pause") EXCEPT !.wait = TRUE]), Dry(Line("pause")),
            Line("resume"), In("n1", Line("recycle")), Dry(Line("recycle")),
            In("n1", [Line("recycle") EXCEPT !.vertex = "cat"]),
            In("n1", [Line("recycle") EXCEPT !.vertex = "default"]),
            In("n1", [Line("scale") EXCEPT !.vertex = "cat"]), Dry([Line("scale") EXCEPT !.vertex = "cat"]),
            [Line("scale") EXCEPT !.vertex = "js"],
            Line("mvtx pause"), In("n2", Line("mvtx resume")), Dry(Line("mvtx resume"))}
Applying == {Apply(Doc), In("n2", Apply(Doc)), Dry(Apply(Doc)), [Apply(Doc) EXCEPT !.check = TRUE],
             Apply([Doc EXCEPT !.desired_phase = "Running"]), Apply([Base EXCEPT !.isb = "js"]),
             Apply([Doc EXCEPT !.vertices = Shape1("map", 2)]),
             Apply([Doc EXCEPT !.vertices = Shape1("reduce", 3)]),
             Apply([Doc EXCEPT !.resume = "later"]), Apply([Doc EXCEPT !.edges = None]),
             Apply([Doc EXCEPT !.vertices = <<@[1], @[3]>>, !.edges = None]),
             [Line("apply") EXCEPT !.file = File("MonoVertex", Doc)]}
MCCommandLines == Reading \cup Logs \cup Writing \cup Applying
=============================================================================
