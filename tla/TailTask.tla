------------------------------ MODULE TailTask ------------------------------
(***************************************************************************)
(* One tail task of the log supervisor: TailTask::run of                   *)
(* crates/nfctl-core/src/service/logs.rs.  It follows one container's log, *)
(* reopens the stream from the last timestamp it saw whenever the stream   *)
(* ends, drops the lines the inclusive `since` makes the server repeat,    *)
(* and pushes the rest into a bounded channel.  Around it: the container   *)
(* that writes the log and may be restarted, the connection that may break,*)
(* and the consumer that drains the channel and may go away.               *)
(*                                                                         *)
(* Sleeping before a reopen (`resume_delay`) is the state "open" itself:   *)
(* nothing is read or written while asleep, so when it ends is the choice  *)
(* of the scheduler.  The supervisor's abort is in LogSupervisor.          *)
(***************************************************************************)
EXTENDS Integers, Sequences, FiniteSets

CONSTANTS
  Texts,            (* what a line can say                                 *)
  Instants,         (* the timestamps a line can carry                     *)
  Since,            (* opts.since, 0 for None                              *)
  TailLines,        (* opts.tail_lines, -1 for None                        *)
  Capacity,         (* opts.buffer, the channel's capacity                 *)
  MaxOpenFailures,  (* MAX_OPEN_FAILURES                                   *)
  MaxLines,         (* bound: lines the container writes                   *)
  MaxRestarts,      (* bound: container restarts                           *)
  MaxFaults         (* bound: broken streams and refused opens together    *)

ASSUME TailTaskAssumption ==
  /\ Texts # {}
  /\ Instants \subseteq Nat \ {0}
  /\ Since \in Nat
  /\ TailLines \in Nat \cup {-1}
  /\ Capacity \in Nat \ {0}
  /\ MaxOpenFailures \in Nat \ {0}
  /\ MaxLines \in Nat /\ MaxRestarts \in Nat /\ MaxFaults \in Nat

VARIABLES
  \* the container
  log,       (* all lines ever written, over all restarts                  *)
  inst,      (* number of restarts so far                                  *)
  base,      (* how many lines of log belong to replaced instances         *)
  up,        (* is the current instance still running?                     *)
  \* the task's own variables
  pc,        (* "open", "read", "send", "report" or "done"                 *)
  since,     (* self.since, 0 for None                                     *)
  tail,      (* self.tail_lines, -1 for None                               *)
  lastTs,    (* last_ts, 0 for None                                        *)
  boundary,  (* boundary: how often each text was seen at lastTs           *)
  failures,  (* consecutive refused opens                                  *)
  replayAt,  (* replay_at of the open stream                               *)
  replay,    (* replay: repeats of each text still to be dropped           *)
  pos,       (* the open stream yields the lines of log from here on       *)
  held,      (* the line being sent while pc = "send"                      *)
  \* the channel and its consumer
  sent,      (* history: positions in log of the lines put on the channel  *)
  queued,    (* lines on the channel and not yet received                  *)
  closed,    (* the consumer dropped the receiving end                     *)
  \* bookkeeping of the model
  backlog,   (* history: Len(log) when the first stream opened, -1 before  *)
  faults     (* faults so far, bounded by MaxFaults                        *)

container == <<log, inst, base, up>>
stream    == <<replayAt, replay, pos>>
memory    == <<since, tail, lastTs, boundary>>
channel   == <<sent, queued, closed>>
vars == <<container, stream, memory, channel, pc, failures, held, backlog, faults>>

Line == [at : Instants, text : Texts, inst : 0..MaxRestarts]

NoText == [t \in Texts |-> 0]

Init ==
  /\ log = << >> /\ inst = 0 /\ base = 0 /\ up = TRUE
  /\ pc = "open" /\ failures = 0 /\ held = 0
  /\ since = Since /\ tail = TailLines /\ lastTs = 0 /\ boundary = NoText
  /\ replayAt = 0 /\ replay = NoText /\ pos = 1
  /\ sent = << >> /\ queued = 0 /\ closed = FALSE
  /\ backlog = -1 /\ faults = 0

-----------------------------------------------------------------------------
(* The container.                                                          *)

\* A line never carries an earlier timestamp than the line before it, and the
\* first line after a restart carries a later one.
WriteLine ==
  /\ up
  /\ Len(log) < MaxLines
  /\ \E at \in Instants, text \in Texts :
       /\ log # << >> => /\ log[Len(log)].at <= at
                         /\ log[Len(log)].inst < inst => log[Len(log)].at < at
       /\ log' = Append(log, [at |-> at, text |-> text, inst |-> inst])
  /\ UNCHANGED <<inst, base, up, stream, memory, channel, pc, failures, held,
                 backlog, faults>>

ContainerExits ==
  /\ up
  /\ inst < MaxRestarts
  /\ up' = FALSE
  /\ UNCHANGED <<log, inst, base, stream, memory, channel, pc, failures, held,
                 backlog, faults>>

\* The next instance starts with an empty log; what was not read is gone.  An
\* open stream belongs to the old instance and never sees the new one, so the
\* restart can be taken to happen once that stream is closed.
ContainerRestarts ==
  /\ ~up
  /\ pc \notin {"read", "send"}
  /\ up' = TRUE
  /\ inst' = inst + 1
  /\ base' = Len(log)
  /\ UNCHANGED <<log, stream, memory, channel, pc, failures, held, backlog, faults>>

-----------------------------------------------------------------------------
(* The task.                                                               *)

\* tail_logs answered.  The server starts at the current instance's first
\* line, or at its last `tail` lines.
OpenStream ==
  /\ pc = "open"
  /\ pc' = "read"
  /\ failures' = 0
  /\ replayAt' = lastTs
  /\ replay' = boundary
  /\ pos' = IF tail >= 0 /\ Len(log) - tail > base
              THEN Len(log) - tail + 1
              ELSE base + 1
  /\ backlog' = IF backlog = -1 THEN Len(log) ELSE backlog
  /\ UNCHANGED <<container, memory, channel, held, faults>>

\* tail_logs refused: give up after MaxOpenFailures in a row, else sleep longer.
OpenFails ==
  /\ pc = "open"
  /\ faults < MaxFaults
  /\ faults' = faults + 1
  /\ failures' = failures + 1
  /\ pc' = IF failures + 1 >= MaxOpenFailures THEN "report" ELSE "open"
  /\ UNCHANGED <<container, stream, memory, channel, held, backlog>>

\* Line i is what stream.next() yields: the server leaves out lines before
\* `since`.
Yields(i) ==
  /\ i \in pos..Len(log)
  /\ log[i].at >= since
  /\ \A j \in pos..(i - 1) : log[j].at < since

\* Faulty variant: a repeat is recognised by its text alone.
ReplayedAnyInstant(line) == replay[line.text] > 0

Replayed(line) == line.at = replayAt /\ replay[line.text] > 0

\* A line from before the reopen: counted off and dropped.
SkipLine ==
  /\ pc = "read"
  /\ \E i \in pos..Len(log) :
       /\ Yields(i)
       /\ Replayed(log[i])
       /\ replay' = [replay EXCEPT ![log[i].text] = @ - 1]
       /\ pos' = i + 1
  /\ UNCHANGED <<container, memory, channel, pc, failures, held, backlog, faults,
                 replayAt>>

\* Faulty variant: a later timestamp does not clear the boundary.
RememberKeepsBoundary(line) ==
  /\ lastTs' = IF line.at > lastTs THEN line.at ELSE lastTs
  /\ boundary' = [boundary EXCEPT ![line.text] = @ + 1]

\* last_ts and boundary after a line that is not a replay: a later timestamp
\* clears the boundary, a line at or after the last one is counted in it.
Remember(line) ==
  /\ lastTs' = IF line.at > lastTs THEN line.at ELSE lastTs
  /\ boundary' = [text \in Texts |->
        (IF line.at > lastTs THEN 0 ELSE boundary[text])
        + (IF line.at >= lastTs /\ text = line.text THEN 1 ELSE 0)]

TakeLine ==
  /\ pc = "read"
  /\ \E i \in pos..Len(log) :
       /\ Yields(i)
       /\ ~Replayed(log[i])
       /\ Remember(log[i])
       /\ held' = i
       /\ pos' = i + 1
  /\ pc' = "send"
  /\ UNCHANGED <<container, channel, since, tail, failures, backlog, faults,
                 replayAt, replay>>

\* tx.send(..).await: waits for room, fails once the consumer is gone.
SendLine ==
  /\ pc = "send"
  /\ ~closed
  /\ queued < Capacity
  /\ sent' = Append(sent, held)
  /\ queued' = queued + 1
  /\ pc' = "read"
  /\ UNCHANGED <<container, stream, memory, closed, failures, held, backlog, faults>>

SendFails ==
  /\ pc = "send"
  /\ closed
  /\ pc' = "done"
  /\ UNCHANGED <<container, stream, memory, channel, failures, held, backlog, faults>>

\* Faulty variant: resume just after the last timestamp.
ResumeAfterLast ==
  /\ pc' = "open"
  /\ since' = IF lastTs = 0 THEN since ELSE lastTs + 1
  /\ tail' = -1
  /\ UNCHANGED <<container, stream, channel, lastTs, boundary, failures, held,
                 backlog>>

\* After the stream: resume from the last timestamp, never again with tail_lines.
Resume ==
  /\ pc' = "open"
  /\ since' = IF lastTs = 0 THEN since ELSE lastTs
  /\ tail' = -1
  /\ UNCHANGED <<container, stream, channel, lastTs, boundary, failures, held,
                 backlog>>

\* An error item, or the connection closed early.
StreamBreaks ==
  /\ pc = "read"
  /\ faults < MaxFaults
  /\ faults' = faults + 1
  /\ Resume

\* The container exited and its last line was read.
StreamEnds ==
  /\ pc = "read"
  /\ ~up
  /\ \A j \in pos..Len(log) : log[j].at < since
  /\ Resume
  /\ UNCHANGED faults

\* Faulty variant: the failure line does not wait for room.
ReportUnbounded ==
  /\ pc = "report"
  /\ queued' = queued + 1
  /\ pc' = "done"
  /\ UNCHANGED <<container, stream, memory, sent, closed, failures, held, backlog,
                 faults>>

\* The "<tail failed>" line, best effort, and the task returns its key.
ReportFailure ==
  /\ pc = "report"
  /\ closed \/ queued < Capacity
  /\ queued' = IF closed THEN queued ELSE queued + 1
  /\ pc' = "done"
  /\ UNCHANGED <<container, stream, memory, sent, closed, failures, held, backlog,
                 faults>>

-----------------------------------------------------------------------------
(* The consumer of the merged stream.                                      *)

Receive ==
  /\ ~closed
  /\ queued > 0
  /\ queued' = queued - 1
  /\ UNCHANGED <<container, stream, memory, sent, closed, pc, failures, held,
                 backlog, faults>>

Close ==
  /\ ~closed
  /\ closed' = TRUE
  /\ UNCHANGED <<container, stream, memory, sent, queued, pc, failures, held,
                 backlog, faults>>

-----------------------------------------------------------------------------
Environment == WriteLine \/ ContainerExits \/ ContainerRestarts \/ Receive \/ Close

TaskStep ==
  \/ OpenStream \/ SkipLine \/ TakeLine \/ SendLine \/ SendFails
  \/ StreamEnds \/ ReportFailure

Next == Environment \/ TaskStep \/ OpenFails \/ StreamBreaks

Spec == Init /\ [][Next]_vars

\* The runtime polls a task that can go on, and a consumer that is still there
\* keeps reading.  Nothing is assumed of the container, of faults, or of a
\* consumer closing; an exited container is restarted by the kubelet.
FairSpec ==
  Spec /\ WF_vars(TaskStep) /\ WF_vars(Receive) /\ WF_vars(ContainerRestarts)

-----------------------------------------------------------------------------
(* Properties.                                                             *)

TypeOK ==
  /\ log \in Seq(Line) /\ inst \in 0..MaxRestarts /\ base \in Nat /\ up \in BOOLEAN
  /\ up \/ inst < MaxRestarts
  /\ pc \in {"open", "read", "send", "report", "done"}
  /\ since \in Nat /\ tail \in Nat \cup {-1} /\ lastTs \in Nat
  /\ boundary \in [Texts -> Nat] /\ replay \in [Texts -> Nat]
  /\ failures \in Nat /\ replayAt \in Nat /\ pos \in Nat \ {0} /\ held \in Nat
  /\ sent \in Seq(Nat) /\ queued \in 0..Capacity /\ closed \in BOOLEAN
  /\ backlog \in Nat \cup {-1} /\ faults \in 0..MaxFaults

Delivery == INSTANCE LineDelivery WITH
              log <- log, sent <- sent, Texts <- Texts, Instants <- Instants,
              Since <- Since, MaxRestarts <- MaxRestarts

\* The last line the task took from a stream, sent or about to be; 0 before the
\* first.
Taken == IF pc = "send" THEN held ELSE Delivery!LastOf(sent)

\* The lines among lo..hi at instant `at` that say `text`.
Lines(at, text, lo, hi) ==
  {i \in lo..hi : log[i].at = at /\ log[i].text = text}

\* Without tail_lines, however often the stream breaks, opens are refused or the
\* container restarts, the consumer is handed each line at most once and in
\* order, and misses only lines older than `since` or gone with their container
\* (the replay logic of TailTask::run, logs.rs:314-326).
ExactlyOnce == Delivery!Spec

\* What the replay logic relies on: `boundary` counts exactly the lines already
\* taken at the last timestamp, and while a reopened stream repeats them
\* `replay` counts exactly those still to come, if the instance that wrote them
\* is still there (logs.rs:314-343).  A count too low repeats a line, one too
\* high swallows a new line with the same text.
ReplayExact ==
  pc # "done" =>
  /\ lastTs = IF Taken = 0 THEN 0 ELSE log[Taken].at
  /\ \A text \in Texts :
       /\ boundary[text] = Cardinality(Lines(lastTs, text, 1, Taken))
       /\ /\ pc \in {"read", "send"}
          /\ \E i \in (base + 1)..Len(log) : log[i].at = replayAt
          => replay[text] = Cardinality(Lines(replayAt, text, pos, Taken))

\* A task that keeps running hands over every line it should, unless the
\* container was restarted first (module comment, logs.rs:3-6).
EventuallySent ==
  \A i \in 1..MaxLines :
    (i \in 1..Len(log) /\ log[i].at >= Since) ~>
      \/ \E k \in 1..Len(sent) : sent[k] = i
      \/ i \in 1..Len(log) /\ log[i].inst < inst
      \/ pc = "done" \/ closed

\* "Only the last N lines of the backlog" (pods.rs:157): of the lines that were
\* there when the log was first opened, at most tail_lines are handed over.
TailRespected ==
  TailLines >= 0 =>
    Cardinality({sent[k] : k \in 1..Len(sent)} \cap 1..backlog) <= TailLines

-----------------------------------------------------------------------------
(* The inductive invariant behind ExactlyOnce (proved in TailTaskProofs, for *)
(* TailLines = -1).                                                          *)

\* The log is in timestamp order, strictly so across a restart, and base splits
\* it into the current instance's lines and the older ones.
LogOrdered ==
  /\ \A i, j \in 1..Len(log) : i < j => Delivery!Follows(log[j], log[i])
  /\ base \in 0..Len(log)
  /\ \A i \in 1..Len(log) : log[i].inst = inst <=> base < i
  /\ \A i \in 1..Len(log) : log[i].inst <= inst

\* `since` starts as the caller's bound and follows the last line taken.
SinceFollows ==
  pc # "done" =>
    /\ Taken \in 0..Len(log)
    /\ tail = -1
    /\ Since <= since
    /\ Taken = 0 => since = Since
    /\ Taken # 0 => since <= lastTs
    /\ Taken # 0 /\ pc = "open" => since = lastTs

\* An open stream reads the current instance, has left nothing unread behind
\* it, and while it is behind the last line taken it repeats exactly from there.
StreamInPlace ==
  pc \in {"read", "send"} =>
    /\ pos \in (base + 1)..(Len(log) + 1)
    /\ pos <= Taken => replayAt = lastTs /\ since = lastTs
    /\ \A j \in (Taken + 1)..(pos - 1) : j <= base
    /\ replayAt # 0 => \E k \in 1..Taken : log[k].at = replayAt

\* The line in hand is the next one to be delivered.
HeldIsNext ==
  pc = "send" => /\ held \in 1..Len(log)
                 /\ pos = held + 1
                 /\ Delivery!MayFollow(held, Delivery!LastOf(sent))

DeliveryInv ==
  LogOrdered /\ SinceFollows /\ StreamInPlace /\ ReplayExact /\ HeldIsNext
=============================================================================
