------------------------------ MODULE Lifecycle ------------------------------
(***************************************************************************)
(* wait, pause, resume and whole-pipeline recycle                          *)
(* (crates/nfctl-core/src/service/lifecycle.rs): sequences of API calls    *)
(* against a pipeline that a controller pauses and resumes in its own      *)
(* time, reporting what it did in a status that lags behind, while other   *)
(* operators write the same desired phase.  One action per call.           *)
(***************************************************************************)
EXTENDS Integers, Sequences

CONSTANTS
  MaxBacklog,  (* bound: messages in the pipeline's buffers                *)
  MaxOthers,   (* bound: writes of the desired phase by others             *)
  MaxItems     (* bound: watch items not yet read                          *)

ASSUME LifecycleAssumption ==
  MaxBacklog \in Nat /\ MaxOthers \in Nat /\ MaxItems \in Nat \ {0}

Phases == {"Running", "Pausing", "Paused"}
Items  == Phases \cup {"Broken", "Deleted"}

VARIABLES
  \* the pipeline and its controller
  exists,    (* FALSE once the pipeline is deleted                         *)
  desired,   (* spec.lifecycle.desiredPhase                                *)
  vertices,  (* what the vertices do: "Running", "Pausing" or "Paused"     *)
  phase,     (* status.phase: what the controller last reported            *)
  pending, unacked,  (* messages in the buffers, waiting or in flight      *)
  others,    (* counter for MaxOthers                                      *)
  \* the command
  op,        (* "wait", "pause", "pauseWait", "resume" or "recycle"        *)
  dry,       (* dry_run                                                    *)
  goal,      (* the phase waited for                                       *)
  pc,        (* the next call, or "done" or "failed"                       *)
  stream,    (* items of the watch, oldest first                           *)
  seen,      (* phase in the report, "none" before                         *)
  drained,   (* drained in the report: "yes", "no" or "unknown"            *)
  error,     (* the error returned, "none" if none                         *)
  \* histories
  witnessed, (* phases reported since the watch was opened                 *)
  stopped    (* have the vertices been paused since the first patch?       *)

pipeline == <<exists, desired, vertices, phase, pending, unacked, others>>
request == <<op, dry, goal>>
report == <<seen, drained, error>>
vars == <<pipeline, request, pc, stream, report, witnessed, stopped>>

Watching == pc = "watch"

Init ==
  /\ exists = TRUE
  /\ desired \in {"Running", "Paused"}
  /\ vertices = desired /\ phase = desired
  /\ pending = 0 /\ unacked = 0 /\ others = 0
  /\ op \in {"wait", "pause", "pauseWait", "resume", "recycle"}
  /\ dry \in BOOLEAN /\ (op \in {"wait", "pauseWait"} => ~dry)
  /\ goal \in Phases /\ (op # "wait" => goal = "Paused")
  /\ pc = CASE op = "wait" -> "open" [] op = "resume" -> "resume" [] OTHER -> "patch"
  /\ stream = << >>
  /\ seen = "none" /\ drained = "unknown" /\ error = "none"
  /\ witnessed = {} /\ stopped = FALSE

-----------------------------------------------------------------------------
(* The pipeline.                                                           *)

Report(item) ==
  stream' = IF Watching THEN Append(stream, item) ELSE stream

PipelineStep == UNCHANGED <<request, pc, report>>

Ingest ==
  /\ exists /\ vertices = "Running"
  /\ pending + unacked < MaxBacklog
  /\ pending' = pending + 1
  /\ UNCHANGED <<exists, desired, vertices, phase, unacked, others, stream, witnessed, stopped>>
  /\ PipelineStep

Deliver ==
  /\ exists /\ vertices # "Paused"
  /\ pending > 0
  /\ pending' = pending - 1 /\ unacked' = unacked + 1
  /\ UNCHANGED <<exists, desired, vertices, phase, others, stream, witnessed, stopped>>
  /\ PipelineStep

Ack ==
  /\ exists /\ vertices # "Paused"
  /\ unacked > 0
  /\ unacked' = unacked - 1
  /\ UNCHANGED <<exists, desired, vertices, phase, pending, others, stream, witnessed, stopped>>
  /\ PipelineStep

\* Sources stop first; the rest stops when the buffers are empty, or when the
\* pause grace period is over.
Reconcile ==
  /\ exists
  /\ \/ desired = "Paused" /\ vertices = "Running" /\ vertices' = "Pausing"
     \/ desired = "Paused" /\ vertices = "Pausing" /\ vertices' = "Paused"
     \/ desired = "Running" /\ vertices # "Running" /\ vertices' = "Running"
  /\ stopped' = (stopped \/ vertices' = "Paused")
  /\ UNCHANGED <<exists, desired, phase, pending, unacked, others, stream, witnessed>>
  /\ PipelineStep

Publish ==
  /\ exists
  /\ phase # vertices
  /\ Len(stream) < MaxItems
  /\ phase' = vertices
  /\ Report(vertices)
  /\ witnessed' = witnessed \cup {vertices}
  /\ UNCHANGED <<exists, desired, vertices, pending, unacked, others, stopped>>
  /\ PipelineStep

\* Another operator pauses or resumes the pipeline ...
OtherWrites ==
  /\ exists
  /\ others < MaxOthers
  /\ desired' \in {"Running", "Paused"} \ {desired}
  /\ others' = others + 1
  /\ UNCHANGED <<exists, vertices, phase, pending, unacked, stream, witnessed, stopped>>
  /\ PipelineStep

\* ... or deletes it.
DeletePipeline ==
  /\ exists
  /\ others < MaxOthers
  /\ Len(stream) < MaxItems
  /\ exists' = FALSE
  /\ Report("Deleted")
  /\ others' = others + 1
  /\ UNCHANGED <<desired, vertices, phase, pending, unacked, witnessed, stopped>>
  /\ PipelineStep

\* The watch breaks; its error is an item, and a new list would follow it.
BreakWatch ==
  /\ Watching
  /\ Len(stream) < MaxItems
  /\ stream' = Append(stream, "Broken")
  /\ UNCHANGED <<pipeline, witnessed, stopped>>
  /\ PipelineStep

-----------------------------------------------------------------------------
(* The command: one action per call.                                       *)

Fail(kind) ==
  /\ pc' = "failed"
  /\ error' = kind
  /\ stream' = << >>
  /\ UNCHANGED <<pipeline, request, seen, drained, witnessed, stopped>>

\* pause: set_lifecycle(Paused).
Patch ==
  /\ pc = "patch" /\ exists
  /\ desired' = IF dry THEN desired ELSE "Paused"
  /\ pc' = IF dry \/ op = "pause" THEN "get" ELSE "open"
  /\ stopped' = (vertices = "Paused")
  /\ UNCHANGED <<exists, vertices, phase, pending, unacked, others, request, stream,
                 report, witnessed>>

\* pause without a wait: report the phase as it is; a dry run ends here.
GetPhase ==
  /\ pc = "get" /\ exists
  /\ seen' = phase
  /\ pc' = IF ~dry THEN "buffers" ELSE IF op = "recycle" THEN "resume" ELSE "done"
  /\ UNCHANGED <<pipeline, request, stream, drained, error, witnessed, stopped>>

\* Faulty variant: the watch reports changes only, not the state it starts from.
OpenForChanges ==
  /\ pc = "open"
  /\ pc' = "watch"
  /\ witnessed' = {phase}
  /\ UNCHANGED <<pipeline, request, report, stopped, stream>>

\* wait_for_phase: the watch starts with a list, so with the current state.
OpenWatch ==
  /\ pc = "open"
  /\ pc' = "watch"
  /\ stream' = IF exists THEN <<phase>> ELSE << >>
  /\ witnessed' = {phase}
  /\ UNCHANGED <<pipeline, request, report, stopped>>

AfterWait == IF op = "wait" THEN "done" ELSE "buffers"

Reached ==
  /\ pc' = AfterWait
  /\ seen' = goal
  /\ stream' = << >>
  /\ UNCHANGED <<pipeline, request, drained, error, witnessed, stopped>>

\* Faulty variant: every item but the goal is taken for a report, errors too.
ErrorsAreReports ==
  /\ Watching /\ stream # << >>
  /\ \/ Head(stream) = goal /\ Reached
     \/ /\ Head(stream) # goal
        /\ seen' = Head(stream)
        /\ stream' = Tail(stream)
        /\ UNCHANGED <<pipeline, request, pc, drained, error, witnessed, stopped>>

NextItem ==
  /\ Watching /\ stream # << >>
  /\ \/ Head(stream) = goal /\ Reached
     \/ /\ Head(stream) \in Phases \ {goal}
        /\ stream' = Tail(stream)
        /\ UNCHANGED <<pipeline, request, pc, report, witnessed, stopped>>
     \/ Head(stream) = "Broken" /\ Fail("Cluster")
     \/ Head(stream) = "Deleted" /\ Fail("NotFound")

\* The stream ends (the fake's may, the watcher's does not): look once more.
StreamEnds ==
  /\ Watching /\ stream = << >>
  /\ pc' = "last"
  /\ UNCHANGED <<pipeline, request, stream, report, witnessed, stopped>>

LastLook ==
  /\ pc = "last" /\ exists
  /\ IF phase = goal THEN Reached ELSE Fail("Timeout")

TimesOut ==
  /\ pc \in {"open", "watch", "last"}
  /\ Fail("Timeout")

\* Faulty variant: messages delivered and not acknowledged do not count.
DrainedIgnoringAcks == IF pending = 0 THEN "yes" ELSE "no"

Drained == IF pending = 0 /\ unacked = 0 THEN "yes" ELSE "no"

\* Ask the daemon for its buffers.  It may not answer, know no buffers, or not
\* know a count.
AskBuffers ==
  /\ pc = "buffers"
  /\ seen' = IF seen = "none" THEN phase ELSE seen
  /\ drained' \in (IF exists THEN {Drained} ELSE {}) \cup {"unknown", "no"}
  /\ pc' = IF op = "recycle" THEN "resume" ELSE "done"
  /\ UNCHANGED <<pipeline, request, stream, error, witnessed, stopped>>

\* Faulty variant: the pipeline is left paused.
ResumeForgotten ==
  /\ pc = "resume" /\ exists
  /\ pc' = "done"
  /\ UNCHANGED <<pipeline, request, stream, report, witnessed, stopped>>

\* resume: set_lifecycle(Running).
Resume ==
  /\ pc = "resume" /\ exists
  /\ desired' = IF dry THEN desired ELSE "Running"
  /\ pc' = "done"
  /\ UNCHANGED <<exists, vertices, phase, pending, unacked, others, request, stream,
                 report, witnessed, stopped>>

\* A call fails, or finds no pipeline.
CallFails ==
  /\ pc \in {"patch", "get", "open", "last", "resume"}
  /\ \/ Fail("Cluster")
     \/ pc # "open" /\ ~exists /\ Fail("NotFound")

-----------------------------------------------------------------------------
Call ==
  \/ Patch \/ GetPhase \/ OpenWatch \/ NextItem \/ StreamEnds \/ LastLook
  \/ AskBuffers \/ Resume

Pipeline ==
  \/ Ingest \/ Deliver \/ Ack \/ Reconcile \/ Publish
  \/ OtherWrites \/ DeletePipeline \/ BreakWatch

Next == Call \/ TimesOut \/ CallFails \/ Pipeline

Spec == Init /\ [][Next]_vars

\* The command runs on (its watch never ends by itself), and the controller does
\* its work.  Nothing makes a timeout happen.
FairSpec ==
  /\ Spec
  /\ WF_vars(Patch \/ GetPhase \/ OpenWatch \/ NextItem \/ LastLook \/ AskBuffers \/ Resume)
  /\ WF_vars(Reconcile) /\ WF_vars(Publish)

-----------------------------------------------------------------------------
(* Properties.                                                             *)

TypeOK ==
  /\ exists \in BOOLEAN /\ desired \in {"Running", "Paused"}
  /\ vertices \in Phases /\ phase \in Phases
  /\ pending \in 0..MaxBacklog /\ unacked \in 0..MaxBacklog /\ others \in 0..MaxOthers
  /\ op \in {"wait", "pause", "pauseWait", "resume", "recycle"}
  /\ dry \in BOOLEAN /\ goal \in Phases
  /\ pc \in {"patch", "get", "open", "watch", "last", "buffers", "resume", "done", "failed"}
  /\ stream \in Seq(Items)
  /\ seen \in Phases \cup {"none"} /\ drained \in {"yes", "no", "unknown"}
  /\ error \in {"none", "Cluster", "NotFound", "Timeout"}
  /\ witnessed \in SUBSET Phases /\ stopped \in BOOLEAN

\* A wait ends well only if the pipeline reported the phase while it was waited
\* for, never on an older report (wait_for_phase, lifecycle.rs:22-37).
WaitIsHonest ==
  op \in {"wait", "pauseWait"} /\ pc \in {"buffers", "done"} => goal \in witnessed

\* "Paused; buffers drained" stays true: nothing is left in the buffers as long
\* as nobody resumes the pipeline (pause with a wait, lifecycle.rs:72-82).
DrainedStaysDrained ==
  op = "pauseWait" /\ pc = "done" /\ drained = "yes" /\ others = 0
    => pending = 0 /\ unacked = 0

\* A recycle really pauses, when nobody else writes the desired phase: all
\* vertices stopped between its two writes (RecycleReport, "paused (drained),
\* then resumed", lifecycle.rs:110).
RecyclePauses ==
  op = "recycle" /\ pc = "done" /\ ~dry /\ others = 0 => stopped

\* What the three procedures say they did is true (lifecycle.rs:22-160).
ReportsAreHonest == WaitIsHonest /\ DrainedStaysDrained /\ RecyclePauses

\* No report is missed between the patch and the watch: a wait for a pause
\* nobody undoes ends without its timeout (lifecycle.rs:60-73).
NoMissedPause ==
  (Watching /\ goal = "Paused" /\ op # "wait")
    ~> (~Watching \/ others > 0)

\* A recycle brings the pipeline back, whatever it was before (lifecycle.rs:150).
RecycleRestores ==
  (op = "recycle" /\ pc = "done" /\ ~dry) ~> (phase = "Running" \/ others > 0)
=============================================================================
