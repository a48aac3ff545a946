------------------------------ MODULE TuiWorker ------------------------------
(***************************************************************************)
(* The terminal UI (crates/nfctl-tui): one task holds a stack of panels    *)
(* and turns keys, ticks and replies into requests; one worker task does   *)
(* all I/O, request by request, and replies; while a log panel is open a   *)
(* pump puts log lines among the replies.  Both channels are bounded, and  *)
(* whoever sends to a full one waits.                                      *)
(*                                                                         *)
(* A panel is what it is about and what it shows; keys that only scroll,   *)
(* and drawing, are left out.  So is the stop_logs after the worker's loop *)
(* (worker.rs 59): q on a log panel sends StopLogs before the panel goes,  *)
(* so that last call never finds a tail to stop.                           *)
(***************************************************************************)
EXTENDS Integers, Sequences, FiniteSets

CONSTANTS
  Pipelines, MonoVertices,  (* keys of workloads                           *)
  None,                     (* nothing                                     *)
  RequestCap, ReplyCap,     (* capacity of the two channels                *)
  MaxKeys,                  (* bound: keys pressed                         *)
  MaxTicks,                 (* bound: ticks                                *)
  MaxLines                  (* bound: log lines pumped                     *)

ASSUME TuiWorkerAssumption ==
  /\ Pipelines \cap MonoVertices = {} /\ None \notin Pipelines \cup MonoVertices
  /\ RequestCap \in Nat \ {0} /\ ReplyCap \in Nat \ {0}
  /\ MaxKeys \in Nat /\ MaxTicks \in Nat /\ MaxLines \in Nat

Workloads == Pipelines \cup MonoVertices

VARIABLES
  \* the UI task
  stack,     (* the panels, the visible one last                           *)
  outbox,    (* requests the UI still has to send before it goes on        *)
  leaving,   (* q was pressed                                              *)
  keys, ticks,  (* counters for MaxKeys and MaxTicks                       *)
  \* the channels
  requests, replies,
  \* the worker
  sending,   (* replies to the request in hand still to be sent            *)
  opening,   (* the workload whose tail is being opened, or None           *)
  logs,      (* the workload being tailed, or None                         *)
  dying,     (* workloads whose aborted pump has not stopped yet           *)
  lines      (* counter for MaxLines                                       *)

ui == <<stack, outbox, leaving, keys, ticks>>
worker == <<sending, opening, logs, dying, lines>>
vars == <<ui, requests, replies, worker>>

\* What a panel holds of which workload, and whether it holds an error too.
Panels ==
  { [kind |-> k, of |-> w, shows |-> s, about |-> v, error |-> e] :
      k \in {"list", "detail", "mono", "logs"}, w \in Workloads \cup {None},
      s \in {"nothing", "shape", "view"}, v \in Workloads \cup {None},
      e \in BOOLEAN }

Request ==
  [kind : {"LoadWorkloads", "StopLogs"}, of : {None}]
    \cup [kind : {"LoadView"}, of : Pipelines]
    \cup [kind : {"LoadMonoVertex"}, of : MonoVertices]
    \cup [kind : {"StartLogs"}, of : Workloads]

Reply ==
  [kind : {"Workloads", "Shape", "View", "MonoVertex", "Log"},
   of : Workloads \cup {None}]
    \cup [kind : {"ViewErr", "MonoErr", "LogsFailed"}, of : {None}]

Msg(kind, of) == [kind |-> kind, of |-> of]
Panel(kind, of) ==
  [kind |-> kind, of |-> of, shows |-> "nothing", about |-> None, error |-> FALSE]

Top == stack[Len(stack)]

\* What a panel asks for when it becomes visible (Model::on_enter).
OnEnter(p) ==
  CASE p.kind = "list"   -> <<Msg("LoadWorkloads", None)>>
    [] p.kind = "detail" -> <<Msg("LoadView", p.of)>>
    [] p.kind = "mono"   -> <<Msg("LoadMonoVertex", p.of)>>
    [] p.kind = "logs"   -> <<Msg("StartLogs", p.of)>>

Init ==
  /\ stack = <<Panel("list", None)>>
  /\ outbox = OnEnter(Panel("list", None))
  /\ leaving = FALSE /\ keys = 0 /\ ticks = 0
  /\ requests = << >> /\ replies = << >>
  /\ sending = << >> /\ opening = None /\ logs = None /\ dying = {} /\ lines = 0

-----------------------------------------------------------------------------
(* The UI task sends all an event asked for before it takes the next one.  *)

SendRequest ==
  /\ outbox # << >>
  /\ Len(requests) < RequestCap
  /\ requests' = Append(requests, Head(outbox))
  /\ outbox' = Tail(outbox)
  /\ UNCHANGED <<stack, leaving, keys, ticks, replies, worker>>

Listening == ~leaving /\ outbox = << >>

\* q was pressed and its requests are sent: the UI returns, and both its
\* channel ends close.
Gone == leaving /\ outbox = << >>

Key ==
  /\ Listening
  /\ keys < MaxKeys
  /\ keys' = keys + 1
  /\ UNCHANGED <<ticks, requests, replies, worker>>

Push(p) == stack' = Append(stack, p) /\ outbox' = OnEnter(p) /\ UNCHANGED leaving

\* enter on the list: the panel the workload's kind calls for.
OpenDetail(w) ==
  /\ Key
  /\ Top.kind = "list"
  /\ Push(Panel(IF w \in Pipelines THEN "detail" ELSE "mono", w))

\* l, on the list for any workload, on a detail panel for its own.
OpenLogs(w) ==
  /\ Key
  /\ Top.kind = "list" \/ (Top.kind \in {"detail", "mono"} /\ Top.of = w)
  /\ Push(Panel("logs", w))

Refresh ==
  /\ Key
  /\ Top.kind # "logs"
  /\ outbox' = OnEnter(Top)
  /\ UNCHANGED <<stack, leaving>>

Below == SubSeq(stack, 1, Len(stack) - 1)

\* A log panel asks for its tail to be stopped when it is left.
OnLeave(p) == IF p.kind = "logs" THEN <<Msg("StopLogs", None)>> ELSE << >>

\* Faulty variant: the requests of leaving and of entering are dropped.
BackSilently ==
  /\ Key
  /\ Len(stack) > 1
  /\ stack' = Below
  /\ UNCHANGED <<outbox, leaving>>

\* esc: the panel below is visible again and asks again.
Back ==
  /\ Key
  /\ Len(stack) > 1
  /\ stack' = Below
  /\ outbox' = OnLeave(Top) \o OnEnter(Below[Len(Below)])
  /\ UNCHANGED leaving

Quit ==
  /\ Key
  /\ leaving' = TRUE
  /\ outbox' = OnLeave(Top)
  /\ UNCHANGED stack

Tick ==
  /\ Listening
  /\ ticks < MaxTicks
  /\ ticks' = ticks + 1
  /\ outbox' = IF Top.kind = "logs" THEN << >> ELSE OnEnter(Top)
  /\ UNCHANGED <<stack, leaving, keys, requests, replies, worker>>

Holding(p, what, r) == [p EXCEPT !.shows = what, !.about = r.of, !.error = FALSE]

\* Faulty variant: a detail panel takes any pipeline's view.
ShowAny(p, r) ==
  CASE p.kind = "detail" /\ r.kind = "View" -> Holding(p, "view", r)
    [] p.kind = "mono" /\ r.kind = "MonoVertex" -> Holding(p, "view", r)
    [] OTHER -> p

\* Faulty variant: a MonoVertex panel keeps the first view it gets.
ShowFirst(p, r) ==
  CASE p.kind = "detail" /\ r.kind = "View" /\ r.of = p.of -> Holding(p, "view", r)
    [] p.kind = "mono" /\ r.kind = "MonoVertex" /\ p.shows = "nothing" ->
         Holding(p, "view", r)
    [] r.kind \in {"ViewErr", "MonoErr", "LogsFailed"} -> [p EXCEPT !.error = TRUE]
    [] OTHER -> p

\* Panel p once it has seen reply r (update).
Show(p, r) ==
  CASE p.kind = "detail" /\ r.kind = "Shape" /\ r.of = p.of /\ p.shows = "nothing" ->
         Holding(p, "shape", r)
    [] p.kind = "detail" /\ r.kind = "View" /\ r.of = p.of -> Holding(p, "view", r)
    [] p.kind = "mono" /\ r.kind = "MonoVertex" -> Holding(p, "view", r)
    [] p.kind = "logs" /\ r.kind = "Log" -> [p EXCEPT !.shows = "view", !.about = r.of]
    [] \/ p.kind = "detail" /\ r.kind = "ViewErr"
       \/ p.kind = "mono" /\ r.kind = "MonoErr"
       \/ p.kind = "logs" /\ r.kind = "LogsFailed" -> [p EXCEPT !.error = TRUE]
    [] OTHER -> p

\* A reply goes to the visible panel, whoever asked for it.
TakeReply ==
  /\ Listening
  /\ replies # << >>
  /\ stack' = [stack EXCEPT ![Len(stack)] = Show(Top, Head(replies))]
  /\ replies' = Tail(replies)
  /\ UNCHANGED <<outbox, leaving, keys, ticks, requests, worker>>

-----------------------------------------------------------------------------
(* The worker task.                                                        *)

\* What the worker replies to a request, for every answer of the cluster.
Outcomes(m) ==
  CASE m.kind = "LoadWorkloads"  -> {<<Msg("Workloads", None)>>}
    [] m.kind = "LoadView"       -> {<<Msg("Shape", m.of), Msg("View", m.of)>>,
                                     <<Msg("ViewErr", None)>>}
    [] m.kind = "LoadMonoVertex" -> {<<Msg("MonoVertex", m.of)>>, <<Msg("MonoErr", None)>>}
    [] m.kind = "StartLogs"      -> {<< >>, <<Msg("LogsFailed", None)>>}
    [] m.kind = "StopLogs"       -> {<< >>}

\* stop_logs: abort the pump, which may be in the middle of a line, and drop
\* the tail's handle.
StopLogs ==
  /\ logs' = None
  /\ dying' = IF logs = None THEN dying ELSE dying \cup {logs}

TakeRequest ==
  /\ sending = << >> /\ opening = None
  /\ requests # << >>
  /\ requests' = Tail(requests)
  /\ LET m == Head(requests) IN
       /\ sending' \in Outcomes(m)
       /\ opening' = IF m.kind = "StartLogs" /\ sending' = << >> THEN m.of ELSE None
       /\ IF m.kind \in {"StartLogs", "StopLogs"}
            THEN StopLogs
            ELSE UNCHANGED <<logs, dying>>
  /\ UNCHANGED <<ui, replies, lines>>

\* Faulty variant: a send does not wait for room.
SendAlways(r) == replies' = IF Gone THEN replies ELSE Append(replies, r)

\* Put r among the replies; once the UI is gone this fails at once.
Send(r) ==
  /\ Gone \/ Len(replies) < ReplyCap
  /\ replies' = IF Gone THEN replies ELSE Append(replies, r)

SendReply ==
  /\ sending # << >>
  /\ Send(Head(sending))
  /\ sending' = Tail(sending)
  /\ UNCHANGED <<ui, requests, opening, logs, dying, lines>>

\* The tail is open: its pump starts.
StartPump ==
  /\ opening # None
  /\ logs' = opening
  /\ opening' = None
  /\ UNCHANGED <<ui, requests, replies, sending, dying, lines>>

\* A pump passes a line on; one that is being aborted may still do so.
PumpLine(w) ==
  /\ w = logs \/ w \in dying
  /\ lines < MaxLines
  /\ lines' = lines + 1
  /\ Send(Msg("Log", w))
  /\ UNCHANGED <<ui, requests, sending, opening, logs, dying>>

PumpDies(w) ==
  /\ w \in dying
  /\ dying' = dying \ {w}
  /\ UNCHANGED <<ui, requests, replies, sending, opening, logs, lines>>

UserStep ==
  \/ \E w \in Workloads : OpenDetail(w) \/ OpenLogs(w)
  \/ Refresh \/ Back \/ Quit

Next ==
  \/ UserStep
  \/ Tick
  \/ SendRequest \/ TakeReply
  \/ TakeRequest \/ SendReply \/ StartPump
  \/ \E w \in Workloads : PumpLine(w) \/ PumpDies(w)

Spec == Init /\ [][Next]_vars

\* The two tasks run, and every call to the cluster answers.
FairSpec ==
  /\ Spec
  /\ WF_vars(SendRequest) /\ WF_vars(TakeReply)
  /\ WF_vars(TakeRequest) /\ WF_vars(SendReply) /\ WF_vars(StartPump)
  /\ \A w \in Workloads : WF_vars(PumpDies(w))

-----------------------------------------------------------------------------
TypeOK ==
  /\ stack \in Seq(Panels) /\ Len(stack) \in 1..3
  /\ outbox \in Seq(Request) /\ requests \in Seq(Request)
  /\ replies \in Seq(Reply) /\ sending \in Seq(Reply)
  /\ Len(requests) <= RequestCap /\ Len(replies) <= ReplyCap
  /\ leaving \in BOOLEAN
  /\ opening \in Workloads \cup {None} /\ logs \in Workloads \cup {None}
  /\ dying \subseteq Workloads
  /\ keys \in 0..MaxKeys /\ ticks \in 0..MaxTicks /\ lines \in 0..MaxLines

Asked == requests \o outbox

\* Once the worker has done all it was asked, it tails exactly the workload
\* of the visible log panel, and nothing while another panel is visible:
\* opening, leaving and reopening logs quickly, with requests of other panels
\* queued in between, neither leaks a tail nor leaves a panel without one
\* (worker.rs 112-155, logs.rs 50-78, app.rs 95-134).
TailMatchesPanel ==
  (Asked = << >> /\ sending = << >> /\ opening = None /\ ~leaving) =>
    IF Top.kind = "logs" THEN logs \in {Top.of, None} ELSE logs = None

\* While a tail runs, the next thing the worker is asked is to stop it, so a
\* flood of lines never runs while the worker waits for the cluster or for
\* room among the replies on behalf of another panel, which would let the two
\* tasks wait for each other's full channel (worker.rs 112-146, logs.rs 57-78,
\* 104).
TailStopsFirst ==
  logs # None =>
    /\ sending = << >> /\ opening = None
    /\ Asked # << >> => Head(Asked).kind = "StopLogs"

\* The worker's tail follows the visible panel, also while it catches up.
TailFollowsPanel == TailMatchesPanel /\ TailStopsFirst

\* A detail panel never holds another pipeline's graph or numbers, though
\* replies asked for by panels closed since go to it (detail.rs 333-350).
OwnPipelineView ==
  \A i \in 1..Len(stack) :
    stack[i].kind = "detail" => stack[i].about \in {None, stack[i].of}

\* A panel that has numbers keeps numbers until it is closed: the shape a
\* refresh sends ahead never takes them away (detail.rs 333-340).
NumbersStay ==
  \A i \in 1..Len(stack) :
    (i <= Len(stack') /\ stack[i].shows = "view") => stack'[i].shows = "view"

\* No step makes a panel show what is not its own, or takes its numbers away
\* (detail.rs 333-350).
ViewsStayTrue == [][OwnPipelineView' /\ NumbersStay]_vars

\* Once the user stops pressing keys the visible panel comes to hold what it
\* is about, or an error, for good, whatever replies to earlier panels were
\* still on the way (app.rs 82-134, worker.rs 65-148, the panels' update).
Settles ==
  <>[](~leaving =>
         \/ Top.kind = "list"
         \/ Top.error
         \/ Top.kind = "logs" /\ logs = Top.of
         \/ Top.kind \in {"detail", "mono"} /\ Top.shows = "view" /\ Top.about = Top.of)
=============================================================================
