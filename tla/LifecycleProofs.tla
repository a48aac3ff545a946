---------------------------- MODULE LifecycleProofs ----------------------------
(***************************************************************************)
(* Lifecycle for any number of messages, of other writers and of watch     *)
(* items: what wait, pause and recycle report is true.  RollingRestart,    *)
(* the other way to recycle, is at the end.                                *)
(*                                                                         *)
(* The argument follows a command along its calls.  What a watch may still *)
(* deliver was reported since it was opened; and from the first patch on,  *)
(* as long as nobody else writes the desired phase, the pipeline only      *)
(* moves towards Paused, so a report of Paused is about vertices that are. *)
(***************************************************************************)
EXTENDS Lifecycle, RollingRestart, SequenceTheorems, FiniteSetTheorems, TLAPS

\* The calls each command makes.
CallsInv ==
  /\ op \in {"wait", "pauseWait"} => ~dry
  /\ op # "wait" => goal = "Paused"
  /\ op = "wait" => pc \in {"open", "watch", "last", "done", "failed"}
  /\ op = "resume" => pc \in {"resume", "done", "failed"}
  /\ op = "pause" => pc \in {"patch", "get", "buffers", "done", "failed"}
  /\ op = "pauseWait" => pc \notin {"get", "resume"}
  /\ op = "recycle" /\ dry => pc \in {"patch", "get", "resume", "done", "failed"}
  /\ op = "recycle" /\ ~dry => pc # "get"

\* The command has waited, and found its goal.
HasWaited ==
  \/ op \in {"wait", "pauseWait"} /\ pc \in {"buffers", "done"}
  \/ op = "recycle" /\ ~dry /\ pc \in {"buffers", "resume"}

\* What is delivered, or looked at, was reported since the watch was opened.
HeardInv ==
  /\ Watching => \A i \in 1..Len(stream) : stream[i] \in Phases => stream[i] \in witnessed
  /\ pc \in {"watch", "last"} => phase \in witnessed
  /\ HasWaited => goal \in witnessed

\* Nobody but a command that pauses has written the desired phase ...
Alone == others = 0 /\ ~dry /\ op \in {"pause", "pauseWait", "recycle"}

\* ... which has done so, and not yet undone it.
Pausing ==
  \/ pc \in {"get", "open", "watch", "last", "buffers", "resume"}
  \/ pc = "done" /\ op # "recycle"

PausingInv ==
  Alone =>
    /\ pc = "patch" => vertices = desired /\ phase = desired /\ witnessed = {}
    /\ Pausing => /\ desired = "Paused"
                  /\ phase = "Paused" \/ "Paused" \in witnessed => vertices = "Paused"
                  /\ vertices = "Paused" => stopped
    /\ pc = "done" /\ op = "recycle" => stopped
    /\ pc = "done" /\ op = "pauseWait" /\ drained = "yes" => pending = 0 /\ unacked = 0

\* The buffers hold what the sources put there.
BacklogInv == pending + unacked <= MaxBacklog

IInv == TypeOK /\ BacklogInv /\ CallsInv /\ HeardInv /\ PausingInv

-----------------------------------------------------------------------------
\* The pipeline's part of the types, the command's, and the stream between them.
PipelineType ==
  /\ exists \in BOOLEAN /\ desired \in {"Running", "Paused"}
  /\ vertices \in Phases /\ phase \in Phases
  /\ others \in 0..MaxOthers
  /\ witnessed \in SUBSET Phases /\ stopped \in BOOLEAN

BufferType ==
  pending \in 0..MaxBacklog /\ unacked \in 0..MaxBacklog /\ pending + unacked <= MaxBacklog

CommandType ==
  /\ op \in {"wait", "pause", "pauseWait", "resume", "recycle"}
  /\ dry \in BOOLEAN /\ goal \in Phases
  /\ pc \in {"patch", "get", "open", "watch", "last", "buffers", "resume", "done", "failed"}
  /\ seen \in Phases \cup {"none"} /\ drained \in {"yes", "no", "unknown"}
  /\ error \in {"none", "Cluster", "NotFound", "Timeout"}

StreamType == stream \in Seq(Items)

LEMMA Types ==
  TypeOK /\ BacklogInv <=> PipelineType /\ BufferType /\ CommandType /\ StreamType
BY DEF TypeOK, BacklogInv, PipelineType, BufferType, CommandType, StreamType

LEMMA InitInv == Init => IInv
<1> SUFFICES ASSUME Init PROVE IInv
  OBVIOUS
<1> USE DEF Init
<1>1. TypeOK /\ BacklogInv
  <2>1. StreamType
    BY DEF StreamType
  <2>2. pc \in {"open", "resume", "patch"}
    <3>1. CASE op = "wait"
      BY <3>1
    <3>2. CASE op = "resume"
      BY <3>2
    <3>3. CASE op # "wait" /\ op # "resume"
      BY <3>3
    <3> QED BY <3>1, <3>2, <3>3
  <2>3. CommandType
    BY <2>2 DEF CommandType
  <2>4. BufferType
    BY LifecycleAssumption DEF LifecycleAssumption, BufferType
  <2>5. others \in 0..MaxOthers
    BY LifecycleAssumption DEF LifecycleAssumption
  <2>6. PipelineType
    BY <2>5 DEF PipelineType, Phases
  <2> QED BY <2>1, <2>3, <2>4, <2>6, Types
<1>2. CallsInv
  BY DEF CallsInv
<1>3. HeardInv
  BY DEF HeardInv, HasWaited, Watching
<1>4. PausingInv
  BY DEF PausingInv, Pausing, Alone
<1> QED BY <1>1, <1>2, <1>3, <1>4 DEF IInv

LEMMA StepType == TypeOK /\ BacklogInv /\ [Next]_vars => TypeOK' /\ BacklogInv'
<1> SUFFICES ASSUME PipelineType, BufferType, CommandType, StreamType, [Next]_vars
             PROVE  PipelineType' /\ BufferType' /\ CommandType' /\ StreamType'
  <2>1. TypeOK' /\ BacklogInv' <=> PipelineType' /\ BufferType' /\ CommandType' /\ StreamType'
    BY DEF TypeOK, BacklogInv, PipelineType, BufferType, CommandType, StreamType
  <2> QED BY <2>1, Types
<1> USE DEF pipeline, request, report
<1>1. /\ stream # << >> => Tail(stream) \in Seq(Items)
      /\ \A item \in Items : Append(stream, item) \in Seq(Items) /\ <<item>> \in Seq(Items)
      /\ << >> \in Seq(Items)
  BY DEF StreamType
<1>2. phase \in Items /\ vertices \in Items /\ "Broken" \in Items /\ "Deleted" \in Items
  BY DEF PipelineType, Items
<1>3. PipelineType'
  <2> USE DEF PipelineType
  <2>1. CASE Call \/ TimesOut \/ CallFails
    <3>1. UNCHANGED <<exists, vertices, phase, others>>
      BY <2>1 DEF Call, Patch, GetPhase, OpenWatch, NextItem, StreamEnds, LastLook, AskBuffers,
                  Resume, Reached, Fail, TimesOut, CallFails
    <3>2. desired' \in {desired, "Paused", "Running"}
      BY <2>1 DEF Call, Patch, GetPhase, OpenWatch, NextItem, StreamEnds, LastLook, AskBuffers,
                  Resume, Reached, Fail, TimesOut, CallFails
    <3>3. witnessed' \in {witnessed, {phase}} /\ stopped' \in {stopped, (vertices = "Paused")}
      BY <2>1 DEF Call, Patch, GetPhase, OpenWatch, NextItem, StreamEnds, LastLook, AskBuffers,
                  Resume, Reached, Fail, TimesOut, CallFails
    <3> QED BY <3>1, <3>2, <3>3
  <2>2. CASE Pipeline
    <3>1. others' \in 0..MaxOthers
      BY <2>2, LifecycleAssumption
         DEF LifecycleAssumption, Pipeline, Ingest, Deliver, Ack, Reconcile, Publish,
             OtherWrites, DeletePipeline, BreakWatch
    <3>2. /\ exists' \in {exists, FALSE} /\ desired' \in {desired, "Running", "Paused"}
          /\ vertices' \in Phases /\ phase' \in Phases
      BY <2>2 DEF Phases, Pipeline, Ingest, Deliver, Ack, Reconcile, Publish, OtherWrites,
                  DeletePipeline, BreakWatch
    <3>3. /\ witnessed' \in {witnessed, witnessed \cup {vertices}}
          /\ stopped' \in {stopped, (stopped \/ vertices' = "Paused")}
      BY <2>2 DEF Pipeline, Ingest, Deliver, Ack, Reconcile, Publish, OtherWrites,
                  DeletePipeline, BreakWatch
    <3> QED BY <3>1, <3>2, <3>3
  <2>3. CASE UNCHANGED vars
    BY <2>3 DEF vars
  <2> QED BY <2>1, <2>2, <2>3 DEF Next
<1>4. BufferType'
  BY LifecycleAssumption
     DEF LifecycleAssumption, BufferType, Next, Call, Pipeline, vars,
         Patch, GetPhase, OpenWatch, NextItem, StreamEnds, LastLook, AskBuffers, Resume,
         Reached, Fail, TimesOut, CallFails, Ingest, Deliver, Ack, Reconcile, Publish,
         OtherWrites, DeletePipeline, BreakWatch
<1>5. CommandType'
  BY DEF CommandType, PipelineType, Phases, Next, Call, Pipeline, vars, PipelineStep, AfterWait,
         Patch, GetPhase, OpenWatch, NextItem, StreamEnds, LastLook, AskBuffers, Resume, Drained,
         Reached, Fail, TimesOut, CallFails, Ingest, Deliver, Ack, Reconcile, Publish,
         OtherWrites, DeletePipeline, BreakWatch
<1>6. StreamType'
  BY <1>1, <1>2
     DEF StreamType, Next, Call, Pipeline, vars, Report,
         Patch, GetPhase, OpenWatch, NextItem, StreamEnds, LastLook, AskBuffers, Resume,
         Reached, Fail, TimesOut, CallFails, Ingest, Deliver, Ack, Reconcile, Publish,
         OtherWrites, DeletePipeline, BreakWatch
<1> QED BY <1>3, <1>4, <1>5, <1>6

LEMMA StepCalls == TypeOK /\ CallsInv /\ [Next]_vars => CallsInv'
<1> SUFFICES ASSUME TypeOK, CallsInv, [Next]_vars PROVE CallsInv'
  OBVIOUS
<1> USE DEF TypeOK, CallsInv, request
<1>1. CASE Patch \/ GetPhase \/ OpenWatch
  BY <1>1 DEF Patch, GetPhase, OpenWatch
<1>2. CASE NextItem \/ StreamEnds \/ LastLook
  BY <1>2 DEF NextItem, StreamEnds, LastLook, Reached, Fail, AfterWait, Watching
<1>3. CASE AskBuffers \/ Resume
  BY <1>3 DEF AskBuffers, Resume
<1>4. CASE TimesOut \/ CallFails
  BY <1>4 DEF TimesOut, CallFails, Fail
<1>5. CASE Pipeline
  BY <1>5 DEF Pipeline, Ingest, Deliver, Ack, Reconcile, Publish, OtherWrites, DeletePipeline,
              BreakWatch, PipelineStep
<1>6. CASE UNCHANGED vars
  BY <1>6 DEF vars
<1> QED BY <1>1, <1>2, <1>3, <1>4, <1>5, <1>6 DEF Next, Call

LEMMA StepHeard == TypeOK /\ CallsInv /\ HeardInv /\ [Next]_vars => HeardInv'
<1> SUFFICES ASSUME TypeOK, CallsInv, HeardInv, [Next]_vars PROVE HeardInv'
  OBVIOUS
<1> USE DEF HeardInv, HasWaited, Watching
<1>0. stream \in Seq(Items) /\ Len(stream) \in Nat
  BY DEF TypeOK
<1>1. ASSUME NEW item \in Items, stream' = Append(stream, item), pc' = pc,
             witnessed \subseteq witnessed', item \in Phases => item \in witnessed', Watching
      PROVE  \A i \in 1..Len(stream') : stream'[i] \in Phases => stream'[i] \in witnessed'
  <2>1. /\ Len(stream') = Len(stream) + 1 /\ stream'[Len(stream) + 1] = item
        /\ \A i \in 1..Len(stream) : stream'[i] = stream[i]
    BY <1>0, <1>1, AppendProperties
  <2>2. \A i \in 1..Len(stream') : i \in 1..Len(stream) \/ i = Len(stream) + 1
    BY <1>0, <2>1
  <2> QED BY <1>1, <2>1, <2>2
<1>2. CASE Patch \/ GetPhase
  BY <1>2 DEF Patch, GetPhase, request, CallsInv
<1>3. CASE OpenWatch
  BY <1>3 DEF OpenWatch, request, pipeline, CallsInv
<1>4. CASE NextItem
  <2>1. Watching /\ stream # << >> /\ UNCHANGED <<op, dry, goal, phase, witnessed>>
    BY <1>4 DEF NextItem, Reached, Fail, request, pipeline
  <2>2. /\ 1 \in 1..Len(stream) /\ Head(stream) = stream[1]
        /\ Len(Tail(stream)) = Len(stream) - 1 /\ Len(stream) \in Nat
        /\ \A i \in 1..Len(Tail(stream)) : Tail(stream)[i] = stream[i + 1] /\ i + 1 \in 1..Len(stream)
    BY <1>0, <2>1, HeadTailProperties, EmptySeq
  <2>3. CASE Head(stream) = goal /\ Reached
    <3>1. goal \in witnessed
      BY <2>1, <2>2, <2>3 DEF TypeOK
    <3>2. pc' \in {"done", "buffers"}
      BY <2>3 DEF Reached, AfterWait
    <3> QED BY <2>1, <3>1, <3>2
  <2>4. CASE stream' = Tail(stream) /\ pc' = pc
    BY <2>1, <2>2, <2>4
  <2>5. CASE pc' = "failed"
    BY <2>5
  <2> QED BY <1>4, <2>3, <2>4, <2>5 DEF NextItem, Fail
<1>5. CASE StreamEnds
  BY <1>5 DEF StreamEnds, request, pipeline
<1>6. CASE LastLook
  <2>1. UNCHANGED <<op, dry, goal, phase, witnessed>> /\ pc = "last"
    BY <1>6 DEF LastLook, Reached, Fail, request, pipeline
  <2>2. pc' = "failed" \/ (phase = goal /\ pc' \in {"done", "buffers"})
    BY <1>6 DEF LastLook, Reached, Fail, AfterWait
  <2> QED BY <2>1, <2>2
<1>7. CASE AskBuffers \/ Resume
  BY <1>7 DEF AskBuffers, Resume, request, CallsInv
<1>8. CASE TimesOut \/ CallFails
  BY <1>8 DEF TimesOut, CallFails, Fail
<1>9. CASE Ingest \/ Deliver \/ Ack \/ Reconcile \/ OtherWrites
  BY <1>9 DEF Ingest, Deliver, Ack, Reconcile, OtherWrites, PipelineStep, request
<1>10. CASE Publish
  <2>1. /\ UNCHANGED <<op, dry, goal, pc>> /\ phase' = vertices /\ vertices \in Phases
        /\ witnessed' = witnessed \cup {vertices}
        /\ stream' = IF Watching THEN Append(stream, vertices) ELSE stream
    BY <1>10 DEF Publish, PipelineStep, request, Report, TypeOK
  <2>2. Watching => \A i \in 1..Len(stream') : stream'[i] \in Phases => stream'[i] \in witnessed'
    BY <1>1, <2>1 DEF Items
  <2> QED BY <2>1, <2>2
<1>11. CASE DeletePipeline \/ BreakWatch
  <2>1. /\ UNCHANGED <<op, dry, goal, pc, phase, witnessed>>
        /\ \/ ~Watching
           \/ stream' = Append(stream, "Deleted")
           \/ stream' = Append(stream, "Broken")
    BY <1>11 DEF DeletePipeline, BreakWatch, PipelineStep, request, Report, pipeline
  <2>2. Watching => \A i \in 1..Len(stream') : stream'[i] \in Phases => stream'[i] \in witnessed'
    BY <1>1, <2>1 DEF Items, Phases
  <2> QED BY <2>1, <2>2
<1>12. CASE UNCHANGED vars
  BY <1>12 DEF vars, pipeline, request
<1> QED BY <1>2, <1>3, <1>4, <1>5, <1>6, <1>7, <1>8, <1>9, <1>10, <1>11, <1>12
        DEF Next, Call, Pipeline

LEMMA StepPausing == IInv /\ [Next]_vars => PausingInv'
<1> SUFFICES ASSUME IInv, [Next]_vars, Alone' PROVE PausingInv'
  BY DEF PausingInv
<1> USE DEF PausingInv, Pausing
<1>0. TypeOK /\ CallsInv /\ HeardInv /\ PausingInv
  BY DEF IInv
<1>1. CASE Patch
  BY <1>0, <1>1 DEF Patch, Alone, request, report
<1>2. CASE GetPhase \/ StreamEnds
  BY <1>0, <1>2 DEF GetPhase, StreamEnds, Alone, request, pipeline, report, CallsInv, Watching
<1>3. CASE OpenWatch
  BY <1>0, <1>3 DEF OpenWatch, Alone, request, pipeline, report, CallsInv
<1>4. CASE NextItem \/ LastLook
  <2>1. Alone /\ UNCHANGED <<op, dry, goal, exists, desired, vertices, phase, pending, unacked,
                             others, drained, witnessed, stopped>>
    BY <1>4 DEF NextItem, LastLook, Reached, Fail, Alone, request, pipeline, report
  <2>2. pc \in {"watch", "last"} /\ pc' \in {"buffers", "failed", pc}
    BY <1>0, <1>4, <2>1 DEF NextItem, LastLook, Reached, Fail, AfterWait, Watching, Alone, CallsInv
  <2> QED BY <1>0, <2>1, <2>2
<1>5. CASE AskBuffers
  <2>1. Alone /\ UNCHANGED <<op, dry, goal, exists, desired, vertices, phase, pending, unacked,
                             others, witnessed, stopped>>
    BY <1>5 DEF AskBuffers, Alone, request, pipeline
  <2>2. pc = "buffers" /\ pc' = (IF op = "recycle" THEN "resume" ELSE "done")
        /\ (drained' = "yes" => pending = 0 /\ unacked = 0)
    BY <1>5 DEF AskBuffers, Drained
  <2> QED BY <1>0, <2>1, <2>2
<1>6. CASE Resume
  \* A recycle that comes here has seen the pipeline paused.
  <2>1. Alone /\ op' = op /\ pc = "resume" /\ pc' = "done" /\ op = "recycle" /\ stopped' = stopped
    BY <1>0, <1>6 DEF Resume, Alone, request, CallsInv
  <2>2. "Paused" \in witnessed
    BY <1>0, <2>1 DEF Alone, HeardInv, HasWaited, CallsInv
  <2> QED BY <1>0, <2>1, <2>2
<1>7. CASE TimesOut \/ CallFails
  BY <1>7 DEF TimesOut, CallFails, Fail
<1>8. CASE Ingest \/ Deliver \/ Ack
  <2>1. Alone /\ UNCHANGED <<op, dry, goal, pc, exists, desired, vertices, phase, others, drained,
                             witnessed, stopped>>
    BY <1>8 DEF Ingest, Deliver, Ack, PipelineStep, Alone, request, report
  <2>2. ASSUME pc = "done", op = "pauseWait"
        PROVE  vertices = "Paused"
    BY <1>0, <2>1, <2>2 DEF Alone, HeardInv, HasWaited, CallsInv
  <2>3. vertices # "Paused"
    BY <1>8 DEF Ingest, Deliver, Ack
  <2> QED BY <1>0, <2>1, <2>2, <2>3
<1>9. CASE Reconcile
  <2>1. Alone /\ UNCHANGED <<op, dry, goal, pc, exists, desired, phase, pending, unacked, others,
                             drained, witnessed>>
    BY <1>9 DEF Reconcile, PipelineStep, Alone, request, report
  <2> QED BY <1>0, <1>9, <2>1 DEF Reconcile
<1>10. CASE Publish
  <2>1. Alone /\ UNCHANGED <<op, dry, goal, pc, exists, desired, vertices, pending, unacked, others,
                             drained, stopped>>
    BY <1>10 DEF Publish, PipelineStep, Alone, request, report
  <2> QED BY <1>0, <1>10, <2>1 DEF Publish
<1>11. CASE OtherWrites \/ DeletePipeline
  BY <1>0, <1>11 DEF OtherWrites, DeletePipeline, Alone, TypeOK
<1>12. CASE BreakWatch \/ UNCHANGED vars
  BY <1>0, <1>12 DEF BreakWatch, PipelineStep, Alone, vars, pipeline, request, report
<1> QED BY <1>1, <1>2, <1>3, <1>4, <1>5, <1>6, <1>7, <1>8, <1>9, <1>10, <1>11, <1>12
        DEF Next, Call, Pipeline

LEMMA SpecInv == Spec => []IInv
<1>1. IInv /\ [Next]_vars => IInv'
  BY StepType, StepCalls, StepHeard, StepPausing DEF IInv
<1> QED BY <1>1, InitInv, PTL DEF Spec

-----------------------------------------------------------------------------
(* What follows.                                                           *)

\* The commands stay within their types (lifecycle.rs:22-160).
THEOREM TypeOKThm == Spec => []TypeOK
<1>1. IInv => TypeOK
  BY DEF IInv
<1> QED BY <1>1, SpecInv, PTL

\* A wait ends well only on a report made while it waited; "drained" stays true
\* until somebody resumes the pipeline; a recycle has really paused it
\* (wait_for_phase, pause and recycle, lifecycle.rs:22-160).
THEOREM ReportsAreHonestThm == Spec => []ReportsAreHonest
<1>1. IInv => ReportsAreHonest
  <2> SUFFICES ASSUME IInv PROVE ReportsAreHonest
    OBVIOUS
  <2>1. WaitIsHonest
    BY DEF IInv, HeardInv, HasWaited, WaitIsHonest
  <2>2. DrainedStaysDrained
    BY DEF IInv, PausingInv, CallsInv, Alone, DrainedStaysDrained
  <2>3. RecyclePauses
    BY DEF IInv, PausingInv, Alone, RecyclePauses
  <2> QED BY <2>1, <2>2, <2>3 DEF ReportsAreHonest
<1> QED BY <1>1, SpecInv, PTL

-----------------------------------------------------------------------------
(* The other way to recycle: a restart of one vertex (RollingRestart), for  *)
(* every set of pods and every number of replicas and losses.  A roll takes *)
(* away one pod at a time and keeps the vertex serving, and a report of     *)
(* success is complete.                                                     *)
(*                                                                          *)
(* The argument counts pods.  A pod that is going away was either deleted   *)
(* by the restart or lost to others, and the latter are at most `lost`.     *)
(* When a wait ends, no pod the restart deleted is left, so of the pods     *)
(* counted as running all but `lost` serve: the count the wait insists on   *)
(* is worth what it was at the start.                                       *)

Terminating == {p \in Pods : life[p] = "terminating"}

\* What the restart knows of its own progress.
ProgressInv ==
  /\ at = "list" => deleted = {} /\ target = 0
  /\ at \in {"list", "delete", "done"} => current = None
  /\ at = "poll" => mode = "roll" /\ ~dryRun /\ current \in deleted
  /\ at \in {"delete", "poll"} => listed = todo \cup deleted
  /\ at = "done" => outcome.pods = deleted /\ deleted = listed

\* A deleted pod never comes back.
DeletedInv == ~dryRun => \A p \in deleted : life[p] \in {"terminating", "gone"}

\* Pods that go away without the restart having deleted them were lost.
LossInv == Cardinality(Terminating \ deleted) <= lost

\* What serves, and what was lost since; one pod less while one is awaited.
ServingInv ==
  mode = "roll" /\ at # "list" =>
    Cardinality(Serving) + lost >= target - (IF at \in {"poll", "failed"} THEN 1 ELSE 0)

RollInv == RollTypeOK /\ ProgressInv /\ DeletedInv /\ OneAtATime /\ LossInv /\ ServingInv

-----------------------------------------------------------------------------
(* Counting.                                                               *)

LEMMA PodSets ==
  ASSUME NEW S \in SUBSET Pods
  PROVE  IsFiniteSet(S) /\ Cardinality(S) \in Nat
BY RollingRestartAssumption, FS_Subset, FS_CardinalityType DEF RollingRestartAssumption

\* A set that keeps all elements of another, but perhaps one, counts one less
\* at least.
LEMMA AllButOne ==
  ASSUME NEW S \in SUBSET Pods, NEW T \in SUBSET Pods, NEW p, S \ {p} \subseteq T
  PROVE  Cardinality(T) >= Cardinality(S) - 1
<1>1. IsFiniteSet(S) /\ IsFiniteSet(T) /\ Cardinality(S) \in Nat /\ Cardinality(T) \in Nat
  BY PodSets
<1>2. IsFiniteSet(S \ {p}) /\ Cardinality(S \ {p}) >= Cardinality(S) - 1
  BY <1>1, FS_RemoveElement
<1>3. Cardinality(S \ {p}) <= Cardinality(T)
  BY <1>1, FS_Subset
<1>4. Cardinality(S \ {p}) \in Nat
  BY <1>2, FS_CardinalityType
<1> QED BY <1>1, <1>2, <1>3, <1>4

LEMMA AtLeast ==
  ASSUME NEW S \in SUBSET Pods, NEW T \in SUBSET Pods, S \subseteq T
  PROVE  Cardinality(T) >= Cardinality(S)
BY PodSets, FS_Subset

-----------------------------------------------------------------------------
LEMMA InitRoll == RollInit => RollInv
<1> SUFFICES ASSUME RollInit PROVE RollInv
  OBVIOUS
<1> USE RollingRestartAssumption DEF RollingRestartAssumption, RollInit
<1>1. RollTypeOK
  <2>1. {p \in Pods : life[p] = "live"} \in SUBSET Pods
    OBVIOUS
  <2>2. replicas \in Nat
    BY <2>1, PodSets
  <2> QED BY <2>2 DEF RollTypeOK
<1>2. ProgressInv /\ DeletedInv /\ OneAtATime /\ ServingInv
  BY DEF ProgressInv, DeletedInv, OneAtATime, ServingInv
<1>3. LossInv
  <2>1. Terminating \ deleted = {}
    BY DEF Terminating
  <2> QED BY <2>1, FS_EmptySet DEF LossInv
<1> QED BY <1>1, <1>2, <1>3 DEF RollInv

LEMMA StepRollType == RollTypeOK /\ [RollNext]_rollVars => RollTypeOK'
<1> SUFFICES ASSUME RollTypeOK, [RollNext]_rollVars PROVE RollTypeOK'
  OBVIOUS
<1> USE RollingRestartAssumption DEF RollingRestartAssumption, RollTypeOK, cluster, local, options
<1>1. CASE ListPods
  <2>1. Present \in SUBSET Pods /\ Running \in SUBSET Pods
    BY DEF Present, Running
  <2>2. Cardinality(Running) \in Nat
    BY <2>1, PodSets
  <2> QED BY <1>1, <2>1, <2>2 DEF ListPods
<1>2. CASE Recovered
  BY <1>2 DEF Recovered
<1>3. CASE Finish
  BY <1>3 DEF Finish
<1>4. ASSUME NEW p \in Pods, RollPod(p) \/ DeleteNext(p)
      PROVE  RollTypeOK'
  BY <1>4 DEF RollPod, DeleteNext, Deleting, Delete
<1>5. ASSUME NEW p \in Pods, DeleteMissing(p)
      PROVE  RollTypeOK'
  BY <1>5 DEF DeleteMissing, FailRestart
<1>6. ASSUME NEW p \in Pods, CreatePod(p) \/ StartPod(p) \/ StopPod(p) \/ RemovePod(p)
      PROVE  RollTypeOK'
  BY <1>6 DEF CreatePod, StartPod, StopPod, RemovePod, ClusterStep
<1>7. CASE ScaleUp
  BY <1>7 DEF ScaleUp, ClusterStep
<1>8. ASSUME NEW p \in Pods, CrashPod(p) \/ EvictPod(p) \/ ScaleDown(p)
      PROVE  RollTypeOK'
  BY <1>8 DEF CrashPod, EvictPod, ScaleDown, ClusterStep
<1>9. CASE UNCHANGED rollVars
  BY <1>9 DEF rollVars
<1>10. CASE StepTimesOut \/ RestartCallFails
  BY <1>10 DEF StepTimesOut, RestartCallFails, FailRestart
<1> QED BY <1>1, <1>2, <1>3, <1>4, <1>5, <1>6, <1>7, <1>8, <1>9, <1>10
        DEF RollNext, Restart, Controller, Disturbance

-----------------------------------------------------------------------------
(* What each kind of step does to the pods.                                *)

\* A pod that is gone stays gone, and one that is terminating does not come back.
NoReturn ==
  \A p \in Pods : /\ life[p] = "gone" => life'[p] = "gone"
                  /\ life[p] = "terminating" => life'[p] \in {"terminating", "gone"}

\* Nothing is lost, or one pod is, and that is counted.
Keeps == lost' = lost /\ Serving \subseteq Serving' /\ Terminating' \subseteq Terminating
Loses ==
  /\ lost' = lost + 1
  /\ \E p \in Pods : Serving \ {p} \subseteq Serving' /\ Terminating' \subseteq Terminating \cup {p}

\* The controller loses nothing, others are counted, and neither touches what
\* the restart knows.
LEMMA ClusterEffect ==
  ASSUME RollTypeOK, Controller \/ Disturbance
  PROVE  ClusterStep /\ NoReturn /\ (Keeps \/ Loses)
<1> USE DEF RollTypeOK, Serving, Live, Terminating, NoReturn
<1>1. ASSUME NEW p \in Pods, CreatePod(p)
      PROVE  ClusterStep /\ NoReturn /\ Keeps
  BY <1>1 DEF CreatePod, Keeps
<1>2. ASSUME NEW p \in Pods, StartPod(p) \/ StopPod(p) \/ RemovePod(p)
      PROVE  ClusterStep /\ NoReturn /\ Keeps
  BY <1>2 DEF StartPod, StopPod, RemovePod, Keeps
<1>3. ASSUME NEW p \in Pods, CrashPod(p) \/ EvictPod(p) \/ ScaleDown(p)
      PROVE  ClusterStep /\ NoReturn /\ Loses
  <2>1. ClusterStep /\ NoReturn /\ lost' = lost + 1
    BY <1>3 DEF CrashPod, EvictPod, ScaleDown
  <2>2. Serving \ {p} \subseteq Serving' /\ Terminating' \subseteq Terminating \cup {p}
    BY <1>3 DEF CrashPod, EvictPod, ScaleDown
  <2> QED BY <2>1, <2>2 DEF Loses
<1>4. CASE ScaleUp
  BY <1>4 DEF ScaleUp, Keeps
<1> QED BY <1>1, <1>2, <1>3, <1>4 DEF Controller, Disturbance

\* A delete call takes one pod, unless it is a dry run.
LEMMA DeleteEffect ==
  ASSUME RollTypeOK, NEW p \in Pods, Deleting(p)
  PROVE  /\ NoReturn /\ lost' = lost /\ deleted' = deleted \cup {p}
         /\ Serving \ {p} \subseteq Serving' /\ Terminating' \subseteq Terminating \cup {p}
         /\ dryRun => Serving' = Serving
         /\ ~dryRun => life'[p] = "terminating"
BY DEF RollTypeOK, Deleting, Delete, Serving, Live, Terminating, NoReturn

\* Everything else the restart does leaves the pods alone.
LEMMA CallEffect ==
  ASSUME ListPods \/ Recovered \/ Finish \/ StepTimesOut \/ RestartCallFails
           \/ (\E p \in Pods : DeleteMissing(p))
  PROVE  UNCHANGED <<cluster, options, deleted>> /\ Serving' = Serving /\ Terminating' = Terminating
BY DEF ListPods, Recovered, Finish, StepTimesOut, RestartCallFails, DeleteMissing, FailRestart,
       cluster, local, options, Serving, Live, Terminating

-----------------------------------------------------------------------------
(* The parts of the invariant.                                             *)

LEMMA StepProgress == RollTypeOK /\ ProgressInv /\ [RollNext]_rollVars => ProgressInv'
<1> SUFFICES ASSUME RollTypeOK, ProgressInv, [RollNext]_rollVars PROVE ProgressInv'
  OBVIOUS
<1> USE RollingRestartAssumption
    DEF RollingRestartAssumption, RollTypeOK, ProgressInv, cluster, local, options
<1>1. CASE ListPods \/ Recovered \/ Finish
  BY <1>1 DEF ListPods, Recovered, Finish
<1>2. ASSUME NEW p \in Pods, RollPod(p) \/ DeleteNext(p)
      PROVE  ProgressInv'
  BY <1>2 DEF RollPod, DeleteNext, Deleting
<1>3. ASSUME NEW p \in Pods, DeleteMissing(p)
      PROVE  ProgressInv'
  BY <1>3 DEF DeleteMissing, FailRestart
<1>4. CASE StepTimesOut \/ RestartCallFails
  BY <1>4 DEF StepTimesOut, RestartCallFails, FailRestart
<1>5. CASE Controller \/ Disturbance
  BY <1>5, ClusterEffect DEF ClusterStep
<1>6. CASE UNCHANGED rollVars
  BY <1>6 DEF rollVars
<1> QED BY <1>1, <1>2, <1>3, <1>4, <1>5, <1>6 DEF RollNext, Restart

LEMMA StepDeleted ==
  RollTypeOK /\ ProgressInv /\ DeletedInv /\ OneAtATime /\ [RollNext]_rollVars
    => DeletedInv' /\ OneAtATime'
<1> SUFFICES ASSUME RollTypeOK, ProgressInv, DeletedInv, OneAtATime, [RollNext]_rollVars
             PROVE  DeletedInv' /\ OneAtATime'
  OBVIOUS
<1> USE DEF DeletedInv, OneAtATime
<1>1. CASE ListPods \/ Finish
  <2>1. current' = current
    BY <1>1 DEF ListPods, Finish, local
  <2> QED BY <1>1, <2>1, CallEffect DEF cluster, options
<1>2. CASE Recovered
  \* The pod that was awaited is gone.
  <2>1. ~dryRun /\ current \in deleted /\ current \in Pods /\ current' = None
    BY <1>2 DEF Recovered, ProgressInv, RollTypeOK
  <2>2. life[current] = "gone"
    BY <1>2, <2>1 DEF Recovered, Present
  <2> QED BY <1>2, <2>1, <2>2, CallEffect DEF cluster, options
<1>3. ASSUME NEW p \in Pods, RollPod(p) \/ DeleteNext(p)
      PROVE  DeletedInv' /\ OneAtATime'
  <2>1. Deleting(p) /\ current = None /\ UNCHANGED options
    BY <1>3 DEF RollPod, DeleteNext, Deleting, ProgressInv
  <2>2. mode = "roll" /\ ~dryRun => current' = p
    BY <1>3 DEF RollPod, DeleteNext
  <2>3. NoReturn /\ deleted' = deleted \cup {p} /\ (~dryRun => life'[p] = "terminating")
    BY <2>1, DeleteEffect
  <2>4. deleted \subseteq Pods /\ None \notin Pods
    BY RollingRestartAssumption DEF RollingRestartAssumption, RollTypeOK
  <2> QED BY <2>1, <2>2, <2>3, <2>4 DEF NoReturn, options
<1>4. CASE StepTimesOut \/ RestartCallFails \/ \E p \in Pods : DeleteMissing(p)
  <2>1. current' = current
    BY <1>4 DEF StepTimesOut, RestartCallFails, DeleteMissing, FailRestart, local
  <2> QED BY <1>4, <2>1, CallEffect DEF cluster, options
<1>5. CASE Controller \/ Disturbance
  <2>1. ClusterStep /\ NoReturn
    BY <1>5, ClusterEffect
  <2> QED BY <2>1 DEF NoReturn, ClusterStep, options, local, RollTypeOK
<1>6. CASE UNCHANGED rollVars
  BY <1>6 DEF rollVars, cluster, local, options
<1> QED BY <1>1, <1>2, <1>3, <1>4, <1>5, <1>6 DEF RollNext, Restart

LEMMA StepLoss == RollTypeOK /\ LossInv /\ [RollNext]_rollVars => LossInv'
<1> SUFFICES ASSUME RollTypeOK, LossInv, [RollNext]_rollVars PROVE LossInv'
  OBVIOUS
<1>0. RollTypeOK'
  BY StepRollType
<1> DEFINE Lost == Terminating \ deleted
<1>1. Lost \in SUBSET Pods /\ Lost' \in SUBSET Pods
  BY DEF Terminating
<1>2. Cardinality(Lost) \in Nat /\ Cardinality(Lost') \in Nat /\ Cardinality(Lost) <= lost
  BY <1>1, PodSets DEF LossInv
<1>3. lost \in Nat /\ lost' \in Nat
  BY <1>0, RollingRestartAssumption DEF RollingRestartAssumption, RollTypeOK
<1>4. SUFFICES \/ lost' = lost /\ Lost' \subseteq Lost
               \/ lost' = lost + 1 /\ \E p \in Pods : Lost' \ {p} \subseteq Lost
  <2>1. CASE lost' = lost /\ Lost' \subseteq Lost
    <3>1. Cardinality(Lost) >= Cardinality(Lost')
      BY <2>1, <1>1, AtLeast
    <3> QED BY <3>1, <2>1, <1>2, <1>3 DEF LossInv
  <2>2. CASE lost' = lost + 1 /\ \E p \in Pods : Lost' \ {p} \subseteq Lost
    <3>1. Cardinality(Lost) >= Cardinality(Lost') - 1
      BY <2>2, <1>1, AllButOne
    <3> QED BY <3>1, <2>2, <1>2, <1>3 DEF LossInv
  <2> QED BY <1>4, <2>1, <2>2
<1>5. CASE Controller \/ Disturbance
  <2>1. ClusterStep /\ (Keeps \/ Loses)
    BY <1>5, ClusterEffect
  <2> QED BY <2>1 DEF ClusterStep, local, Keeps, Loses
<1>6. ASSUME NEW p \in Pods, RollPod(p) \/ DeleteNext(p)
      PROVE  lost' = lost /\ Lost' \subseteq Lost
  <2>1. Deleting(p)
    BY <1>6 DEF RollPod, DeleteNext
  <2> QED BY <2>1, DeleteEffect
<1>7. CASE ListPods \/ Recovered \/ Finish \/ StepTimesOut \/ RestartCallFails
             \/ (\E p \in Pods : DeleteMissing(p))
  BY <1>7, CallEffect DEF cluster
<1>8. CASE UNCHANGED rollVars
  BY <1>8 DEF rollVars, cluster, local, Terminating
<1> QED BY <1>5, <1>6, <1>7, <1>8 DEF RollNext, Restart

\* What counts as running serves, or is terminating.
LEMMA RunningCount ==
  /\ Cardinality(Running) \in Nat /\ Cardinality(Serving) \in Nat
  /\ Cardinality(Terminating) \in Nat
  /\ RollTypeOK => Cardinality(Running) <= Cardinality(Serving) + Cardinality(Terminating)
<1>1. Running \in SUBSET Pods /\ Serving \in SUBSET Pods /\ Terminating \in SUBSET Pods
  BY DEF Running, Present, Serving, Live, Terminating
<1>2. /\ Cardinality(Running) \in Nat /\ Cardinality(Serving) \in Nat
      /\ Cardinality(Terminating) \in Nat
      /\ IsFiniteSet(Serving) /\ IsFiniteSet(Terminating)
  BY <1>1, PodSets
<1>3. ASSUME RollTypeOK
      PROVE  Cardinality(Running) <= Cardinality(Serving) + Cardinality(Terminating)
  <2>1. Running \subseteq Serving \cup Terminating
    BY DEF Running, Present, Serving, Live, Terminating
  <2>2. Serving \cup Terminating \in SUBSET Pods
    BY <1>1
  <2>3. Cardinality(Running) <= Cardinality(Serving \cup Terminating)
    BY <1>1, <2>1, <2>2, AtLeast
  <2>4. /\ Cardinality(Serving \cup Terminating)
             = Cardinality(Serving) + Cardinality(Terminating)
                 - Cardinality(Serving \cap Terminating)
        /\ Cardinality(Serving \cap Terminating) \in Nat
        /\ Cardinality(Serving \cup Terminating) \in Nat
    <3>1. Serving \cap Terminating \in SUBSET Pods
      BY <1>1
    <3> QED BY <1>2, <2>2, <3>1, PodSets, FS_Union
  <2> QED BY <1>2, <2>3, <2>4
<1> QED BY <1>2, <1>3

LEMMA StepServing == RollInv /\ [RollNext]_rollVars => ServingInv'
<1> SUFFICES ASSUME RollInv, [RollNext]_rollVars PROVE ServingInv'
  OBVIOUS
<1>0. RollTypeOK /\ RollTypeOK' /\ ProgressInv /\ DeletedInv /\ OneAtATime /\ LossInv /\ ServingInv
  BY StepRollType DEF RollInv
<1>1. /\ Serving \in SUBSET Pods /\ Serving' \in SUBSET Pods
      /\ Cardinality(Serving) \in Nat /\ Cardinality(Serving') \in Nat
  <2>1. Serving \in SUBSET Pods /\ Serving' \in SUBSET Pods
    BY DEF Serving, Live
  <2> QED BY <2>1, PodSets
<1>2. lost \in Nat /\ lost' \in Nat /\ target \in Nat /\ target' \in Nat
  BY <1>0, RollingRestartAssumption DEF RollingRestartAssumption, RollTypeOK
<1>3. CASE ListPods
  <2>1. Terminating \ deleted = Terminating
    BY <1>0, <1>3 DEF ListPods, ProgressInv
  <2>2. Cardinality(Terminating) <= lost
    BY <1>0, <2>1 DEF LossInv
  <2>3. Cardinality(Serving) + lost >= Cardinality(Running)
    BY <1>0, <1>1, <1>2, <2>2, RunningCount
  <2>4. target' = Cardinality(Running) /\ lost' = lost /\ Serving' = Serving /\ at' = "delete"
    BY <1>3, CallEffect DEF ListPods, cluster
  <2> QED BY <2>3, <2>4, RunningCount DEF ServingInv
<1>4. CASE Recovered
  \* No pod the restart deleted is terminating any more.
  <2>1. /\ mode = "roll" /\ ~dryRun /\ current \in deleted /\ current \in Pods
        /\ current \notin Present /\ Cardinality(Running) >= target
    BY <1>0, <1>4 DEF Recovered, ProgressInv, RollTypeOK
  <2>2. \A p \in deleted : life[p] = "gone"
    BY <1>0, <2>1 DEF Present, DeletedInv, OneAtATime
  <2>3. Terminating \ deleted = Terminating
    BY <2>2 DEF Terminating
  <2>4. Cardinality(Terminating) <= lost
    BY <1>0, <2>3 DEF LossInv
  <2>5. Cardinality(Serving) + lost >= target
    BY <1>0, <1>1, <1>2, <2>1, <2>4, RunningCount
  <2>6. target' = target /\ lost' = lost /\ Serving' = Serving /\ at' = "delete"
    BY <1>4, CallEffect DEF Recovered, cluster
  <2> QED BY <1>1, <1>2, <2>5, <2>6 DEF ServingInv
<1>5. CASE Finish
  <2>1. UNCHANGED <<target, lost, mode>> /\ Serving' = Serving /\ at = "delete" /\ at' = "done"
    BY <1>5, CallEffect DEF Finish, cluster, local, options
  <2> QED BY <1>0, <2>1 DEF ServingInv
<1>6. ASSUME NEW p \in Pods, RollPod(p)
      PROVE  ServingInv'
  <2>1. Deleting(p) /\ at = "delete" /\ mode = "roll" /\ UNCHANGED <<target, lost, mode>>
    BY <1>6 DEF RollPod, Deleting, options
  <2>2. Cardinality(Serving) + lost >= target
    BY <1>0, <1>1, <1>2, <2>1 DEF ServingInv
  <2>3. CASE dryRun
    <3>1. Serving' = Serving /\ at' = "delete"
      BY <1>0, <1>6, <2>1, <2>3, DeleteEffect DEF RollPod
    <3> QED BY <2>1, <2>2, <3>1, <1>1, <1>2 DEF ServingInv
  <2>4. CASE ~dryRun
    <3>1. Serving \ {p} \subseteq Serving' /\ at' = "poll"
      BY <1>0, <1>6, <2>1, <2>4, DeleteEffect DEF RollPod
    <3>2. Cardinality(Serving') >= Cardinality(Serving) - 1
      BY <1>1, <3>1, AllButOne
    <3> QED BY <2>1, <2>2, <3>1, <3>2, <1>1, <1>2 DEF ServingInv
  <2> QED BY <2>3, <2>4
<1>7. ASSUME NEW p \in Pods, DeleteNext(p)
      PROVE  ServingInv'
  BY <1>7 DEF DeleteNext, Deleting, options, ServingInv
<1>8. CASE StepTimesOut \/ RestartCallFails \/ \E p \in Pods : DeleteMissing(p)
  <2>1. /\ UNCHANGED <<target, lost, mode>> /\ Serving' = Serving
        /\ at' = "failed"
    BY <1>8, CallEffect
       DEF StepTimesOut, RestartCallFails, DeleteMissing, FailRestart, cluster, local, options
  <2>2. mode = "roll" => Cardinality(Serving) + lost >= target - 1
    BY <1>0, <1>1, <1>2 DEF ServingInv, ProgressInv
  <2> QED BY <1>1, <1>2, <2>1, <2>2 DEF ServingInv
<1>9. CASE Controller \/ Disturbance
  <2>1. UNCHANGED <<at, target, mode>> /\ (Keeps \/ Loses)
    BY <1>0, <1>9, ClusterEffect DEF ClusterStep, local, options
  <2>2. CASE Keeps
    <3>1. Cardinality(Serving') >= Cardinality(Serving) /\ lost' = lost
      BY <1>1, <2>2, AtLeast DEF Keeps
    <3> QED BY <1>0, <1>1, <1>2, <2>1, <3>1 DEF ServingInv
  <2>3. CASE Loses
    <3>1. PICK p \in Pods : Serving \ {p} \subseteq Serving'
      BY <2>3 DEF Loses
    <3>2. Cardinality(Serving') >= Cardinality(Serving) - 1 /\ lost' = lost + 1
      BY <1>1, <2>3, <3>1, AllButOne DEF Loses
    <3> QED BY <1>0, <1>1, <1>2, <2>1, <3>2 DEF ServingInv
  <2> QED BY <2>1, <2>2, <2>3
<1>10. CASE UNCHANGED rollVars
  BY <1>0, <1>10 DEF rollVars, cluster, local, options, ServingInv, Serving, Live
<1> QED BY <1>3, <1>4, <1>5, <1>6, <1>7, <1>8, <1>9, <1>10 DEF RollNext, Restart

LEMMA StepRoll == RollInv /\ [RollNext]_rollVars => RollInv'
BY StepRollType, StepProgress, StepDeleted, StepLoss, StepServing DEF RollInv

LEMMA RollSpecInv == RollSpec => []RollInv
BY InitRoll, StepRoll, PTL DEF RollSpec

-----------------------------------------------------------------------------
(* What follows.                                                           *)

\* A roll is safe for the vertex, whatever the number of pods and whatever else
\* happens to them: pods are taken away one at a time, and what serves is never
\* more than one pod, and those lost to others, below the start
\* (rolling_restart, lifecycle.rs:180-200).
THEOREM RollIsSafeThm == RollSpec => []RollIsSafe
<1>1. RollInv => RollIsSafe
  <2> SUFFICES ASSUME RollInv PROVE RollIsSafe
    OBVIOUS
  <2>1. RollTypeOK /\ OneAtATime /\ ServingInv
    BY DEF RollInv
  <2>2. Cardinality(Serving) \in Nat /\ lost \in Nat /\ target \in Nat
    BY <2>1, RunningCount, RollingRestartAssumption DEF RollingRestartAssumption, RollTypeOK
  <2>3. KeepsServing
    BY <2>1, <2>2 DEF ServingInv, KeepsServing
  <2> QED BY <2>1, <2>3 DEF RollIsSafe
<1> QED BY <1>1, RollSpecInv, PTL

\* A restart that reports success names every pod it listed, and none of them
\* serves any more, unless it was a dry run (lifecycle.rs:202).
THEOREM ReportIsCompleteThm == RollSpec => []ReportIsComplete
<1>1. RollInv => ReportIsComplete
  BY DEF RollInv, ProgressInv, DeletedInv, ReportIsComplete, Live
<1> QED BY <1>1, RollSpecInv, PTL

=============================================================================
