# nfctl: models and proofs

`nfctl` is a command line client and terminal UI for Numaflow pipelines on
Kubernetes. It is a Rust workspace built as ports and adapters: a domain core
that talks to the world only through two ports, two adapters behind them, and
two front ends. This directory holds TLA+ specifications of the parts whose
behaviour is hard to test, TLC configurations that check them on small
instances, and TLAPS proofs of the properties that matter most.

Source paths below are relative to `crates/`; line numbers refer to the commit
these models were written from. `PROJECT.json` maps each definition to the lines
it models, lists the hazards of the code with the properties that cover them,
and gives for every property a plausible mistake in the code that breaks it (the
definitions marked "Faulty variant" in the modules).

## Inventory

| component | source | state | operations | talks to |
|---|---|---|---|---|
| log tail task | `nfctl-core/src/service/logs.rs` `TailTask` | last timestamp, boundary and replay counts, failure count, since, tail_lines | open, read, replay, send, resume, give up | `ClusterPort::tail_logs`, bounded channel to the consumer |
| log supervisor | same file, `Supervisor`, `tail`, `TailHandle` | map key to abort handle, `JoinSet`, pods seen since the last re-list | pod event, join, consumer closed, drop | pod watch, tail tasks |
| one-shot logs | same file, `snapshot`, `select_containers`, `validate_named_containers` | none | list, select, read | `ClusterPort` |
| lifecycle | `nfctl-core/src/service/lifecycle.rs` | none of its own; a deadline per operation | wait, pause, resume, recycle, rolling restart | `ClusterPort` (cluster and its controllers change underneath), `DaemonPort` for the drain report |
| daemon dialer | `nfctl-daemon/src/dialer.rs` | cached pod name | resolve, connect, fail | `ClusterPort::list_pods`, port-forward |
| daemon client | `nfctl-daemon/src/client.rs` | connection pool, held metrics and their date, topology given when it was made | questions with retries and a timeout, metrics of a pipeline | dialer |
| kept clients | `nfctl-daemon/src/connector.rs` | map from pipeline to client | connect | cluster, daemon client |
| status view | `nfctl-core/src/service/{status,pipeline}.rs` | none | list, shape, numbers, view | both ports, four daemon questions at once |
| apply gate | `nfctl-core/src/service/apply.rs`, `nfctl-cli/src/commands.rs` | none | check, apply | both ports |
| topology | `nfctl-core/src/model/topology.rs` | immutable validated graph | new, ranks, diff | pure |
| manifests and objects | `nfctl-k8s/src/dto/*.rs`, `nfctl-core/src/model/{ids,pipeline,monovertex,isb}.rs` | none | convert or refuse | pure |
| commands | `nfctl-cli/src/commands.rs`, `nfctl-core/src/service/{pipeline,isb,monovertex}.rs` | the target of a command, once found | find, read, write, wait, per verb | `ClusterPort`, other operators |
| completion | `nfctl-cli/src/complete.rs` | a cache file all shells share; redirected descriptors | scan, read, ask, write, offer | cluster, file system, terminal |
| TUI | `nfctl-tui/src/{app,worker,event}.rs` | panel stack; the worker's running tail | key, tick, reply; load, start and stop logs | a UI task and a worker task over two bounded channels |
| panels | `nfctl-tui/src/panels/*.rs`, `cards.rs` | what each panel holds: selection, scroll positions, window of lines, position of the line between boxes | key, mouse, reply, resize, draw | what the worker sends |
| cluster adapter | `nfctl-k8s/src/{cluster,dto}` | kube client | one call per port method, watch mapping, delete loop | Kubernetes API |
| diagram projection | `nfctl-graph/src/view.rs` | none | project, collapse shards | pure |
| CLI shell, renderers, painting | `nfctl-cli/src/{main,cli,output,...}.rs`, `nfctl-graph/src/{ascii,dot,mermaid}.rs`, `nfctl-tui` painting | none | parse, print | terminal |

What is hard in each, and what makes it correct:

- **Tail task.** A log stream ends or breaks at any point; `since` is inclusive
  and timestamps repeat, so a reopened stream repeats lines. Every line must be
  handed over once, in order, without gaps.
- **Supervisor.** Pod events, tasks that end by themselves, aborts that race
  them, a watch that loses deletions. One task per container, none leaked, none
  missing, and all of them gone once the reader is.
- **Lifecycle.** A status that lags behind the spec, a watch opened after the
  patch, a timeout, other operators. What the command reports must be true, and
  a recycle must really pause and bring back. A rolling restart must not take
  away a second pod before the first one's replacement runs.
- **Daemon client.** A pool and a cached pod name that go stale, questions that
  run concurrently and clear each other's cache, a timeout that cancels a dial
  half way. Every question ends; a rescheduled daemon is found again.
- **Metrics window, kept clients, status view.** A cached answer, a topology
  that is as old as the client, buffers known by name only, four questions each
  of which may fail. A view never claims what is not known.
- **TUI.** Two tasks, two full channels, keys pressed while older requests are
  still being answered, replies that arrive for panels closed long ago.
- **Commands.** A name is looked for in lists of two moments, and the target
  found by one call is written by another; an object that does not convert fails
  a whole list; a write's answer is lost. A command changes one target, only
  what it was asked to, and says nothing untrue.
- **Apply, topology, manifests.** A check that is stale when the manifest is
  sent; fields a manifest does not have must stay absent; a depth memoised inside
  a cycle depends on the order of the spec.
- **Completion.** A cache file emptied and written in place by several shells, a
  clock that is set back, a credential plugin that would take the terminal, a
  time budget that does not reach the plugin. Names offered are real and recent;
  every Tab is answered unless its plugin never ends.
- **Panels.** Positions that outlive what they point into: resizes, reloads and
  moved lines change what there is between two draws. The selection stays in
  view, scrolling turns round at once, nothing of a pipeline gets lost in
  projecting it.

## Plan

1. *(done)* the log service: `LineDelivery` (what tailing promises), `TailTask`
   (how it is done), `LogSupervisor`.
2. *(done)* the commands that change a cluster: `Lifecycle`, `RollingRestart`.
3. *(done)* the daemon side: `DaemonClient`, `MetricsCache`, and `StatusView`,
   which composes the metrics window with the buffers and the view.
4. *(done)* the UI: `TuiWorker`.
5. *(done)* proofs of `TailTask` and `MetricsCache`, and of the name lookup of
   `StatusView`.
6. *(done)* the pure middle, one module on top of the other: `PipelineTopology`,
   `Manifest`, `ClusterApi`; then `Commands` (name resolution, every verb, the
   apply gate, one-shot logs) against the abstract `OneChange`, which it is
   proved to implement.
7. *(done)* `Completion`.
8. *(done)* `Diagram` and the panels: `DetailPanel`, `Panels`.
9. *(done)* proofs of every safety property of `LogSupervisor`, `RollingRestart`,
   `Lifecycle`, `TuiWorker`, `DaemonClient`, `StatusView`, `Commands` and
   `Completion`, and of what the panels keep in view and in place.

What could come next: the drawings of pipelines (`DrawingsAreWhole`) and `TailTask`
with a finite `tail_lines` proved; the watch of the cluster adapter and that of the
repository's fake against one abstract watch that `LogSupervisor` relies on; the
composition of `TuiWorker` with `LogSupervisor`, one of whose consumers it is.

## Modules

### LineDelivery and TailTask

`LineDelivery` is the abstract promise: a container writes lines, the reader is
handed line numbers in order, and a line is passed over only if it is older than
`since` or its container was replaced first. `TailTask` is `TailTask::run`:

| action | code (`service/logs.rs`) |
|---|---|
| `OpenStream`, `OpenFails` | `tail_logs` answers or refuses; the failure budget (291-315) |
| `SkipLine` | a line dropped as a replay (318-325) |
| `TakeLine` | `last_ts`, `boundary` (327-343) |
| `SendLine`, `SendFails` | the send on the bounded channel (344-347) |
| `StreamBreaks`, `StreamEnds`, both with `Resume` | error item or end; `since`, `tail_lines` (316, 348-352) |
| `ReportFailure` | the last line before giving up (300-309) |

The environment writes lines, exits and restarts the container, breaks streams,
refuses opens, receives and closes. A timestamp is a number, a text one of a few
values: equality of both is all the code looks at. A restarted container writes
strictly later timestamps than its predecessor.

### LogSupervisor

The `select!` loop: `OnApplied`, `OnDeleted`, `OnResync`, `OnResyncDone`
(`on_event`, 215-245) with `StopPods` and `SpawnMissing`; `Join` (204-208);
`Stop` (209-213 and the dropped handle). `TaskReturns` may happen to an aborted
task too: `abort` takes effect at the next yield. `Report`, `LoseWatch`,
`Relist`, `RelistBreaks` are `watch_pods` (`nfctl-k8s/src/cluster.rs` 381-395)
over kube's watcher: a lost watch reports nothing, a re-list reports what exists
then, between `Resync` and `ResyncDone`, and may break half way. Task identities
are reused only after their join. A pod deleted does not come back under its
name before its tasks were joined, see below.

### Lifecycle

One action per API call of `wait_for_phase`, `pause`, `resume` and `recycle`
without a vertex: `Patch`, `GetPhase`, `OpenWatch`, `NextItem`, `Reached`,
`StreamEnds`, `LastLook`, `TimesOut`, `AskBuffers`, `Resume`, `CallFails`. The
controller first moves the vertices (`Reconcile`) and reports later (`Publish`),
so a status may be older than the patch; `OtherWrites` is another operator.

### RollingRestart

`recycle` with a vertex: `ListPods`, then either `RollPod` and `Recovered` in
turn (`rolling_restart`, 171-203) or `DeleteNext` over all (`delete_pods`,
`cluster.rs` 399-419). Pods are replaced, start, terminate while still running,
crash, are evicted, and the vertex is scaled, under it.

### DaemonClient

`get_json` and `get_once` (retry, pool, timeout) over `Dialer::resolve_pod` and
`dial`. The lock on `cached_pod` is taken to read it, released for the list
call, and taken again to store the name: `AskList`, `AnswerList` and `StorePod`
are separate, so another question may clear the name in between. `TimesOut`
cancels an attempt wherever it is, with none of the clean-up of `dial`'s error
branch.

### MetricsCache and StatusView

`MetricsCache` is `vertex_metrics(None)` of a kept client: `AnswerHeld`,
`StartFetch`, `FetchVertex`, `FetchFails`, `FetchDone`. A vertex's metrics are
the time the daemon was asked for them. `StatusView` extends it with
`pipeline_view`: `ReadShape`, `AskMetrics` (the actions of `MetricsCache`),
`AnswerBuffers`, `BuffersFail`, `Assemble`, and as operators what the view says:
`Candidates` and `Owner` (`ends_for`), `Attached` (`assemble`), `TotalPending`,
`EdgePending`, `Drained`. A name is a sequence of pieces, so that "ends
with" is a real relation between names; the pieces may be letters, and are the
segments between hyphens in the instance that is checked. `AddVertexTo` changes the pipeline while
the kept client does not.

### TuiWorker

The UI task (`OpenDetail`, `OpenLogs`, `Back`, `Quit`, `Refresh`, `Tick`,
`SendRequest`, `TakeReply` with `Show`), the worker (`TakeRequest`, `SendReply`,
`StartPump`) and the log pump (`PumpLine`, `PumpDies`). `Send` waits on a full
channel, as `send(..).await` does. A panel is what it is about and what it holds.

### PipelineTopology and Manifest

Pure functions. `WellFormed` is `Topology::new`; `Layers`, by `DepthMemo`, is
`ranks` with its memo and its stack, the order of the spec included; `Diff` is
`diff`. `Manifest` is what an object or a manifest becomes and which are
refused (`IntoPipeline`, `IntoMonoVertex`, `IntoIsb`, `ParseManifest`). Of a name
only the classes of its characters are looked at, so a name is a word with a
`Shape`.

### ClusterApi, OneChange and Commands

`ClusterApi` is what a call of `nfctl-k8s/src/cluster.rs` does to a store of
objects: lists that fail as a whole, merge patches, server-side apply with the
fields nfctl owned before. `OneChange` is the abstract promise: a command settles
on one target at most, keeps it, and changes nothing else, and that only when it
was asked to. `Commands` is `nfctl-cli/src/commands.rs`, one action per call:

| action | code |
|---|---|
| `Start` | the checks before any call; the target, when `-n` gives it (`commands.rs` 79-134, 258-304) |
| `Find`, `ListOne`, `InspectIsb`, each with `Settle` | name resolution (`commands.rs` 99-189, `service/pipeline.rs` 40-57) |
| `Show`, `Wait`, `WaitTimesOut`, `IsbUsers` | commands that read |
| `Pause`, `ReadBack`, `Resume`, `Said`, `RecycleVertex`, `Scale`, `MonoVertexLifecycle` | commands that write; the answer may be lost after the server did it |
| `ReadLive`, `CheckManifest`, `SendManifest` | `apply` (`commands.rs` 578-661, `service/apply.rs`) |
| `ListLogPods`, `ReadLog`, `LogBreaks`, `ShowLogs` | one-shot logs (`service/logs.rs` 59-182) |
| `CallFails` | any call refused |
| `OthersWrite`, `OthersDelete`, `OthersMonoVertex` | everybody else |

What a command waits for, and what a roll does pod by pod, is in `Lifecycle` and
`RollingRestart`; here a wait is one step, of `wait`, of `pause` when asked and of a
recycle always, and may fail like any call. A manifest is sent as it is: a field it
does not have is not among those the server takes over, edges included. The check
looks at the manifest alone, so that an object merged from it and what was there may
have edges that lead nowhere; the write has then taken place and its answer does not
convert (`SendManifest`).

### Completion

One process per Tab: `Press`, `Begin` (`scan`, the fixture), `ReadCache`, `Hush`
(the descriptors; the timer starts, and a credential plugin that inherits them may
be run), `PluginExits`, `ListsAnswer`, `LookupFails`, `TimesOut`, `OpenCache` and `WriteCache` (the file is emptied, then
written, by whoever comes), `WriteFails`, `Killed`. `Offer` is every completer.
The plugin runs inside `Client::try_from` (`nfctl-k8s/src/client.rs` 54-57), which is
synchronous, on a runtime of one thread (`complete.rs` 283-288): nothing looks at the
timer before it ends, the lists are asked for only then, and when the plugin took
longer than the budget their answers come too late (`ListsAnswer` against `TimesOut`).
A plugin run again within a lookup, to renew a token, is left out. What a process does
by itself takes no time, and the timer is not late once the process waits for the
lists: on these `NamesAreRecent` and `TabsAnswer` rest.

### Diagram, DetailPanel and Panels

`Diagram` is pure: the view graph of a topology with shards in groups
(`nfctl-graph/src/view.rs`) and the measures of the cards (`cards.rs`). The
layout library is external: columns left to right with a gap of 5, the cards of a
column one under the other, as in the repository's snapshots, each as tall as its
text and its busiest side need (`docs/rendering.md`). `DetailPanel` and
`Panels` are what the panels do with an event, on screens with room for the floors
of both boxes (`DetailPanelAssumption`): the UI draws once after every one,
and drawing moves the scroll positions, so a step is an event and the drawing
after it (`Drawn`). The code builds the cards anew for every drawing; the variable
`cards` holds those of the last one, and changes with what they are built from.
Which panel is opened when, and what it asks for, is the
subject of `TuiWorker`.

## Runs

All bounds are constants whose names begin with `Max`, or capacities.
`CHECK_DEADLOCK FALSE` is set everywhere: each of these programs may stop (the
task gives up, the command is done, the UI is left) and each model's environment
runs out of its bounded steps; that nothing gets stuck earlier is what the
liveness properties say.

| run | properties | bounds, and what happens within them |
|---|---|---|
| `tail` | `TypeOK` `DeliveryInv` `ExactlyOnce` `EventuallySent` | 3 lines over 3 instants and 2 texts, `since` in the middle, channel of 1, a restart, two faults: equal lines at one instant on both sides of a break, a repeat that crosses a restart, and a full channel all occur. Three lines suffice for "before, at and after the boundary" |
| `tail_lines_flood` | `TailRespected` | violated, see below |
| `supervisor` | `BookkeepingOK` `TailsMatchPods` `TailsEnd` | 2 pods of 2 containers, 4 tasks, 4 changes, one lost watch, 3 events in flight: a deletion missed by the watch, a re-list that breaks after one pod, a task that returns while it is aborted |
| `roll` | `RollIsSafe` `ReportIsComplete` `RollEnds` | up to 2 pods, each replaceable once, two disturbances: the second step waits for the first's replacement, and loses a pod meanwhile |
| `lifecycle` | `TypeOK` `ReportsAreHonest` `NoMissedPause` `RecycleRestores` | every command from both settled phases, 2 messages, one foreign write, 3 watch items |
| `daemon` | `QuestionsOK` `FindsRescheduled` `QuestionsEnd` | 2 questions, 2 pods, one retry, 3 changes of pods, one timeout or failed list call without a cause (`MaxTimeouts`): one question clears what the other has just found |
| `status` | `TypesOK` `MetricsAreHonest` `BuffersInPlace` `NumbersAreHonest` `ViewComes` | 3 vertices, one named like the end of another, with an edge between them and a vertex of two partitions; a window of one tick in two ticks of time; sums over `Most` |
| `tui` | `TypeOK` `TailFollowsPanel` `ViewsStayTrue` `Settles` | 4 keys and a tick, 2 pipelines and 2 MonoVertices, replies of 3: enough to open a panel, leave it, open another of the same kind and be answered late |
| `commands` | `CommandsTypeOK` `AnswersAreHonest` `ChangesOnlyItsTarget` `AppliesKeepWhatIsFixed` `AbsentStays` | one command line of every kind over two namespaces, with pipelines of one name, a MonoVertex of that name, and odd objects; manifests without edges; two writes of others between its calls: enough to change or delete what was read, or to make a name ambiguous and unique again |
| `complete` | `CompletionTypeOK` `NamesAreHonest` `TerminalIsKept` `TabsAnswer` | 2 shells, 2 Tabs, one change of the cluster, 3 ticks and a clock set back by one: one shell finds the file the other has just emptied or left torn, a name grows too old, a plugin takes longer than the budget or never ends |
| `panels` | `PanelsTypeOK` `ShownInView` `NoUnwinding` `StaysPut` `DrawingsAreWhole` | six events on each panel, two sizes of screen, a flow taller than its box and a table longer than its own, shards and a cycle, a log window of 3 that overflows, cards on every rung of the ladder |
| `panel_selection` | `SelectionDrawn` | violated, see below |

Properties that belong together are one conjunction with named parts:

- `BookkeepingOK`: `TypeOK`, one tail per key, and the handles are those of the
  tasks that run. `TailsEnd`: deleted pods' tails stop, and stopping stops all.
- `RollIsSafe`: types, one pod at a time, and a roll that keeps serving.
- `ReportsAreHonest`: what a wait and a drain report say, and that a recycle did
  pause. `QuestionsOK`: types, the retry budget among them, and final answers.
- `MetricsAreHonest`: whole, bounded age, never backwards. `NumbersAreHonest`:
  drained, and pending sums. `ViewsStayTrue`: a view is its panel's, and numbers
  stay.
- `AnswersAreHonest`: `FindsWhatIsThere`, `LogsAreWhole` and `ChecksAreHonest` (the
  report of a check is about the pipeline there is). `NamesAreHonest`: `NamesAreReal`, `NamesAreRecent`, `WordsArePositionals`.
- `StaysPut`: `PinnedLineStays` and `CursorStays`. `ShownInView`:
  `SelectionInView`, `CardsFit`, `NewestShown`. `DrawingsAreWhole`:
  `ColumnsFollowFlow` of the topology, `ProjectionIsWhole`, `IsMeasured`.

Symmetry is used only in runs without liveness.

### Fairness

Weak fairness of a task's own steps stands for the tokio runtime, which polls a
task that can go on. Beyond that:

- `TailTask`: the consumer keeps receiving until it closes; an exited container
  is restarted (kubelet). Faults are never forced and never end by assumption:
  the failure budget ends them.
- `LogSupervisor`: strong fairness of `OnEvent` and of `JoinSome`, because
  `select!` without `biased` picks among the ready branches at random; the
  watcher retries its list.
- `RollingRestart`, `Lifecycle`: the controller and the kubelet do their work;
  no timeout is forced, so a liveness property says that a wait needs none.
- `DaemonClient`: an attempt that hangs is ended by its timeout
  (`tokio::time::timeout` in `get_once`), and questions go on being asked, as by
  `top` and the TUI.
- `StatusView`: each question ends, which is `QuestionsEnd` of `DaemonClient`.
- `Completion`: a process that can run runs, time passes, and the timer of a
  lookup fires while the process waits for the lists, not while it waits for the
  plugin. Whether the cluster ever answers or a plugin ever ends is open, and
  `TabsAnswer` is about processes whose plugin ends.
- `Commands` and `Panels` have no liveness properties: that a wait ends is
  `Lifecycle`'s, and the UI draws after every event.
- `TuiWorker`: every call of the worker returns. The daemon's questions have
  a timeout; of the API server this is an assumption, and if it does not hold
  the visible panel waits for ever (`worker.rs:109`). Nothing forces keys, ticks
  or lines.

### Disagreements between the code and what it says of itself

Each is a run whose one property TLC finds violated.

- `tail_lines_flood`: `pods.rs:157` promises "Only the last N lines of the
  backlog"; a first stream that breaks before its first line is reopened without
  `tail_lines` and without a new `since` (`logs.rs:349`), and the whole backlog
  is handed over.
- `panel_selection`: `detail.rs:47` says of `follow` "Scroll so the selected card
  is visible on the next draw". The cards are made for, and the columns scrolled
  by, the width inside the box (`detail.rs:449-451`), but drawn in `GUTTER`
  columns less (195-200), and a card that reaches past that is left out
  (`cards.rs:536`): on 80 columns Tab to the last card of a chain of three does not
  bring it into view. Right does, since it scrolls by one column more
  (`detail.rs:389-396`). `SelectionInView`, which is about what the code scrolls by,
  holds.

Met while modelling, not kept as runs:

- `complete.rs:22` calls `LIVE_TIMEOUT` the "Budget for the whole live lookup: connect
  and three lists", `complete.rs:217` says that "the lookup's timeout only stops us
  waiting for a child", and `docs/architecture.md:140` has the round-trip "bounded to
  1.5 s". Connecting runs the credential plugin on the one thread that would look at
  the timer (`complete.rs` 283-288), so a Tab takes as long as the plugin does, and a
  plugin that took longer than the budget costs the answer as well. `TabsAnswer` is
  therefore about processes whose plugin ends.
- The supervisor "keeps one tail task" per container (`logs.rs:3`), but the join
  of a task whose key has been given to a newer one removes the newer one's
  handle (`logs.rs:206` does not compare). It needs a pod to come back under its
  old name before the join, as the pods of a StatefulSet may.
- The "dialer drops a pod that stops answering" (`connector.rs:21`), but a dial
  that hangs is cancelled by the timeout before it can (`client.rs:220`,
  `dialer.rs:210-214`).
- "Pause is complete when every buffer is empty" (`status.rs:111`); a kept client
  does not learn of a vertex added later (`connector.rs:92`), its buffer is on no
  edge of the view, and the view may say drained while it is not empty. The part
  of `NumbersAreHonest` about drained is therefore about pipelines that are the
  one the client was made for (`Current`).
- A late reply for a MonoVertex is shown in the panel of the next one
  (`monovertex.rs:329`; `detail.rs:335` compares keys).
- `VALUE_FLAGS` (`complete.rs:37-49`) lacks flags that take a value (`--tail`,
  `--since`, `--timeout`, `-w` and others of `cli.rs`): after one of them the
  value is taken for a positional. `WordsArePositionals` exempts such lines, and its
  theorem those that clap refuses.
- Vertex objects are named `<pipeline>-<vertex>` (`cluster.rs:282`): `scale` of
  vertex `b-c` of pipeline `a` writes vertex `c` of `a-b` when that is what the
  name means. `ObjectNamesApart` in `CommandsProofs` excludes it.
- An apply is only as good as what it read: between the check and the write
  (`commands.rs:605-646`) nothing holds another writer off.
- The product in `parse_duration` (`commands.rs:231`) may wrap, and the start of a
  window before the calendar's panics (`SinceError`).
- The test `detail_scrolls_columns_to_the_selection` (`frames.rs:376-383`) presses
  `j`, which scrolls the pane and selects nothing: its two snapshots are equal.
- `split` goes on counting past the clamp (`+`, `-`, drag), and as many keys are
  needed to come back; `NoUnwinding` is about the scroll positions, of which
  `detail.rs:306` promises it.
- A log line taller than the panel leaves a log panel that follows blank
  (`panels/logs.rs` 143-153), and `k` while following jumps to the last two lines.
- Neighbouring shards are grouped by their candidate stems (`view.rs:99`), whether
  or not the neighbours end up as a group.
- In a pipeline `a-b` with vertices `c` and `b-c`, the buffer of `c` is taken
  for one of `b-c`: the suffix reaches into the pipeline's name
  (`client.rs:253-259`). `NamesApart` in `StatusView` is the assumption that
  excludes it.
- `recycle` resumes whatever the drain report said (`lifecycle.rs:150`), and
  the report of a roll that times out names no deleted pods (200, where 169
  says it does).
- `wait_for_phase` compares the phase alone, not the generation it was observed
  at (110), so after another operator's write a stale `Paused` ends a wait;
  an error item of the watch ends it too (25).
- A kept client whose first `get_pipeline` failed has no topology for ever
  (`connector.rs`, the `None` branch): its metrics always fail.
- The error of another pipeline's load, and log lines of the previous tail, have
  no key and are shown in the panel that is visible (`detail.rs:348`,
  `logs.rs:59` of the panels).
- The comment of `EdgeView::buffers` ("attached once to the first source",
  `status.rs:31`) describes an older form: a buffer is on every edge into its
  vertex, which is what the repository's test expects.
- The UI waits on a full request channel while the worker may wait on a full
  reply channel. With 64 requests this needs a worker held up for that long;
  `TailStopsFirst` shows that a flood of log lines cannot bring it about.

## Proofs

| theorem | statement | module |
|---|---|---|
| `TypeCorrect` | `Spec => []TypeOK` | `TailTaskProofs` |
| `BookkeepingExact` | `ASSUME TailLines = -1 PROVE Spec => []DeliveryInv` | `TailTaskProofs` |
| `TailExactlyOnce` | `ASSUME TailLines = -1 PROVE Spec => ExactlyOnce`, that is `Delivery!Spec` | `TailTaskProofs` |
| `MetricsTypeCorrect`, `MetricsWhole`, `MetricsAge`, `MetricsNeverBackwards`, `MetricsHonest` | `Spec => []TypeOK`, `[]AnswersAreWhole`, `[]AgeIsBounded`, `[]NeverBackwards`; together `[]MetricsAreHonest` | `StatusViewProofs` |
| `BookkeepingOKThm`, `TailsMatchPodsThm` | `Spec => []BookkeepingOK`, `Spec => []TailsMatchPods` | `LogSupervisorProofs` |
| `RollIsSafeThm`, `ReportIsCompleteThm` | `RollSpec => []RollIsSafe`, `RollSpec => []ReportIsComplete` | `LifecycleProofs` |
| `TypeOKThm`, `ReportsAreHonestThm` | `Spec => []TypeOK`, `Spec => []ReportsAreHonest` | `LifecycleProofs` |
| `TypeOKThm`, `TailFollowsPanelThm`, `ViewsStayTrueThm` | `Spec => []TypeOK`, `Spec => []TailFollowsPanel`, `Spec => ViewsStayTrue` | `TuiWorkerProofs` |
| `StatusTypesOK` | `StatusSpec => []TypesOK` | `StatusViewProofs` |
| `NumbersHonest` | `ASSUME NamesApart PROVE StatusSpec => []NumbersAreHonest`; its half about drained is `DrainedHonest` | `StatusViewProofs` |
| `StatusBuffersInPlace` | `ASSUME NamesApart PROVE StatusSpec => []BuffersInPlace` | `StatusViewProofs` |
| `StatusImplementsMetrics`, `StatusMetrics` | `StatusSpec => Spec` of `MetricsCache`, and with it `MetricsAreHonest` | `StatusViewProofs` |
| `CommandsImplementOneChange` | `ASSUME NoneIsNoKey, ObjectNamesApart PROVE Spec => ChangesOnlyItsTarget`, that is `Change!Spec` | `CommandsProofs` |
| `AbsentStaysThm`, `AppliesKeepWhatIsFixedThm` | `ASSUME OutcomesApart PROVE Spec => AbsentStays`, `PROVE Spec => AppliesKeepWhatIsFixed` | `CommandsProofs` |
| `CommandsTypeOKThm` | `Spec => []CommandsTypeOK` | `CommandsProofs` |
| `AnswersAreHonestThm` | `ASSUME NoneIsNoKey, OutcomesApart PROVE Spec => []AnswersAreHonest` | `CommandsProofs` |
| `CompletionTypeOKThm`, `TerminalIsKeptThm` | `ASSUME NoneIsNoRecord PROVE Spec => []CompletionTypeOK`, `PROVE Spec => []TerminalIsKept` | `CompletionProofs` |
| `QuestionsOKThm` | `ClientSpec => []QuestionsOK` | `StatusViewProofs` |
| `StaysPutThm` | `Spec => StaysPut` | `PanelsProofs` |
| `PanelsTypeOKThm`, `ShownInViewThm`, `NoUnwindingThm` | `ASSUME DrawingsMeasured PROVE Spec => []PanelsTypeOK`, `[]ShownInView`, `NoUnwinding` | `PanelsProofs` |
| `NamesAreHonestThm` | `ASSUME NoneIsNoRecord, LinesParse PROVE Spec => []NamesAreHonest`; two of its parts, `NamesAreRealThm` and `NamesAreRecentThm`, without `LinesParse` | `CompletionProofs` |

**TailTask.** Assumptions: `TailTaskAssumption` (the constants have the types the
code gives them) and no `tail_lines`; with it the promise is false, as
`tail_lines_flood` shows. `ExactlyOnce` is not inductive: whether the next line
taken is the right one depends on the counts of `boundary` and `replay`. The
invariant `DeliveryInv` has five parts: `LogOrdered` (timestamps never decrease,
and strictly increase over a restart), `SinceFollows` (`since` is the caller's
until a line is taken, then never past `last_ts`, and equal to it while the stream
is closed), `StreamInPlace` (an open stream has left nothing unread behind it,
and repeats exactly from `last_ts` on while it is behind the last line taken),
`ReplayExact` (`boundary` counts the lines taken at the last timestamp, `replay`
those of them still to be repeated) and `HeldIsNext`. One lemma per action shows
it preserved. The hard case is `SkipLine`: that a line is dropped only if it was
taken before rests on `ReplayExact`, because texts may be equal. From it every
`SendLine` is a `Deliver`, every `WriteLine` a `Write`, and everything else a
stutter. TLC checks `DeliveryInv` on the `tail` run first.

**LogSupervisor.** Assumption: only `LogSupervisorAssumption`. The supervisor sees
the past, so neither property is inductive: what it keeps is right because of what
is still in its queue, and the invariant is about the queue. `EndInv`: no pod comes
back after an event that ends it. `ListInv`: a list that is still to be completed
mentions every pod that lives on. `TasksInv` and `HandlesInv`: a task is in the map
under its key, or its pod is over, and conversely. `StopInv` and `StartInv`: under a
live watch, a tail of a pod that is no longer active will be ended by an event to
come, also one that an earlier event is still to start; and a running container has
a tail, or an event to come starts it. With an empty queue the last two are
`TailsMatchPods`. The hard cases are `OnResyncDone`, which stops every pod the list
did not mention, and `Relist`, after which the invariant must follow from the list
alone, since nothing reported what happened while the watch was down. That a pod's
name is not reused before its tasks are joined (`used`) is part of the model and is
what `TasksInv` needs; without it `BookkeepingOK` is false, see above.

**RollingRestart.** Assumption: only `RollingRestartAssumption` (pods are finitely
many). The argument counts. A pod that is going away was deleted by the restart or
lost to others, and the latter are at most `lost` (`LossInv`); a deleted pod never
comes back (`DeletedInv`). So when a wait ends, and no pod is left that the restart
deleted, all pods counted as running but `lost` of them serve, which is what
`ServingInv` says of every other state. `Recovered` is the hard case: the code
compares a count that includes pods that are terminating while still running.
`ReportIsComplete` follows from `ProgressInv`: what was listed is what is still to
do and what was deleted.

**Lifecycle.** Assumption: only `LifecycleAssumption`. `CallsInv` says which calls
each command makes; `HeardInv`, that what a watch may still deliver was reported
since it was opened, so that a wait that ends has seen its goal. `PausingInv` is
about a pipeline whose desired phase nobody else writes: from the first patch on it
only moves towards `Paused`, a report of `Paused` is about vertices that are, and a
drain report about buffers nothing flows into any more.

**TuiWorker.** Assumption: only `TuiWorkerAssumption`. `TailFollowsPanel` is about
the visible panel and a worker that is behind, so the invariant follows a request to
open a tail through the channel: behind a `StartLogs` there is nothing, and its
panel is visible, or the `StopLogs` of leaving it (`StartsInv`); the same of the tail
the worker has taken from the channel (`TailInv`). That nothing else can be behind
it rests on `StackInv`: a log panel is on top and asks for nothing. The action
property `ViewsStayTrue` has a case per reply and kind of panel.

**Panels.** `StaysPut` assumes nothing but the types of the constants: what a log
panel does with a line is worked out on sequences (`LinesAfter`, `LineArrives`), for
a window that is full or not and a line on top that is dropped or not; what a list
does with its successor, on the first place of the selected workload (`FirstEqual`).
The other three are about drawings of pipelines, and such a drawing is a fold over the topology, so
what a panel counts on in one is assumed of all of them (`DrawingsMeasured`: a card
for every vertex, in one of the columns and inside the height of the whole) and
checked by TLC of those it meets (`IsMeasured`, a part of `DrawingsAreWhole`). A step
is an event and the drawing after it, so the invariant `DetailInv` says of a panel on
the screen that its positions are where a drawing puts them. The lemmas follow the
drawing: the boxes fit (`TableFits`, `BoxesFit`), each position comes out inside its
content and, when the drawing follows, on the selected card (`ScrollIsRight`,
`VscrollIsRight`), and so does the whole (`DrawnIsPlaced`). `NoUnwinding` compares two
drawings: one row further back is inside the content still, so the second leaves it
where it was asked for. The other two parts of `ShownInView` need none of this. A line
takes a row at least (`RowsOfLine`), so that as many lines as fit by their rows
(`FirstDrawn`) fit by their number too, and the cut at the rows of the box loses none
of them (`LinesAreShown`, with `SumAtLeast`). The chain of a MonoVertex is painted as
wide as it was measured, since both are the labels with so much on top of each and so
much in between (`ChainIsMeasured`, `SumSpaced`); the rung taken fits when the last one
does (`StepFits`); and then no row of the card is cut or left short (`CardFitsRoom`).

**DaemonClient.** Assumption: only `DaemonClientAssumption`. `AnswersAreFinal` is
inductive with the types once it is known that a caller who dials or asks has a pod
to ask (`NamedInv`). The budget is in the types: `Retrying` shows that a failed
attempt either spends some of it or ends the question.

**MetricsCache.** The inductive invariant adds to the types that a fetch under
way has asked about everything but `todo`, and began when nothing newer was held
(`FetchInv`); that the held answer is whole and was collected in the `span`
before its date (`HeldInv`); and that the last answer is the held one, given
inside its window (`AnswerInv`). `NeverBackwards` is inductive only with them:
whatever a fetch finds is newer than whatever is held. All four properties follow, for any set of vertices and any window.

**StatusView.** That the longest match is the vertex of the buffer is a fact
about sequences (`OwnerIsRight`), under the assumption `NamesApart`; that the
client knows the vertex of every buffer, and the edge it is shown on, follows
from `InPlaceInv` (edges lead between existing vertices, the shape is no newer
than the pipeline, every buffer has an edge into its vertex) while the pipeline
is the one the client was made for. TLC evaluates `NamesApart` on the instance
(`MCNamesApart`). Every step of a view is a step of `MetricsCache` or leaves its
variables alone, so that module's theorems hold of the `status` run's
specification. That a view which says drained is right of every buffer
(`DrainedHonest`) needs that every buffer is on some edge: `ShapeInv` (the client's
topology is part of the pipeline, and while they are equal the shape that was read
is too) with `InPlaceInv`. The other half of `NumbersAreHonest` compares two sums of
the same buffers: `TotalPending`, which stops at an unknown number and at `Most`, and
the sum over all of them. Both are folds over a set, that is recursive functions on
its subsets. `FoldExists` shows, by a smallest subset without one, that such a
function exists, and `TotalIsWhole`, by a smallest subset on which they differ, that
the two agree wherever the first has a value; the sets being finite is `FiniteInv`,
which rests on the edges of a pipeline being finitely many (`StatusViewAssumption`).

**Commands, the refinement.** Assumptions: `CommandsAssumption` (command lines have
a verb, wire objects have the fields of `PipelineFields`, of which vertices and edges
may be absent too, and lie at their keys; TLC evaluates it), that "no value" is not a key, and that no two pipelines share
the name of a Vertex object (`ObjectNamesApart`). The refinement mapping takes the
target from `key`, what was changed from the history `touched`, and "running" from
`pc`. That a step is one of `OneChange` is not a fact about the step alone: a call
that writes must come after the name was settled, the keys in a store and in the
lists answered must be keys (`StoreKeys`, `ListedKeys`), and the command at a
writing call must be one that was asked to write (`KeyAtCall`, `CallFits`). With
these every step has one of four shapes (`EndStep`, `MoveStep`, `SettleStep`,
`WriteStep`), and each action is shown to have one of them. The hard case is
`Scale`: it writes whoever owns the Vertex object, and that is the target only
because the names of objects are apart and keys have three parts. Nothing is
assumed of the other writers.

**Commands, what is left alone.** `AbsentStays` and `AppliesKeepWhatIsFixed` are
action properties of the steps that write, and hold only in states an apply can be
in. `ApplyInv` says which: every stored object is a wire object at its key
(`StoreObjects`); from the first call on the manifest has converted and the target
is its key (`ManifestInv`); what was read is what the cluster has, unless somebody
wrote it since (`ReadInv`); and before the write the check found no block between
the two (`CheckedInv`). The hard case is `SendManifest`: what the server keeps is
neither the manifest nor the old object but a merge of both with what nfctl applied
before, so a field may come from either, or go. That a merge keeps what is fixed
(`MergeKeepsFixed`) rests on the vertices of a converted object having names of
their own (`NamesAreUnique`, a fact about `ToSet` and sequences), and on the vertices always
being sent: a manifest without any does not convert. Assumed beside: that None and Invalid are no converted
pipelines (`OutcomesApart`). `CommandsTypeOKThm` assumes nothing; it needs that the
lists answered so far hold workloads (`ListedKinds`), and one lemma per shape of
call (`ReadsAnswer`, `ListsAnswer`, `SettleKeeps`, `AnsweredKeeps`).

**Commands, what is said.** `AnswersAreHonest` is about the last step of a command, and
what it says was learned in calls of different moments while others wrote. `SearchInv`
carries it there: a list that was answered without an error has everything of its kind
that was in the cluster all along since the command began, and only what was there at
some time since; so what is not in the lists was not there all along, and two of a
name in them were both there. That an object is in the answer of its list rests on the
stores being finite and their objects of the wire's types (`CommandsAssumption`): a
list is sent in some order (`SetToSeq`) and converted one by one. `LogInv`: of the
containers selected on the pods that were listed, every one was read or is still to be
read, in sequences put one after the other (`FlattenIs`). `ReportInv`, with the
`ReadInv` above: what a check compares with is what the cluster has until somebody
writes it, so the report is that of the manifest against the pipeline there is, and
the check fails exactly when that report blocks.

**Completion.** Assumptions: `CompletionAssumption` (the lists of a world are
sequences, there is a time to live), and that None is none of the records it stands
in for. The invariant follows a catalog from the cluster into an answer. Each of its
lists was the cluster's at some time (`Real`), in the file (`FileOK`), in what was read
of it (`CachedOK`) and in what a lookup found (`FoundOK`); a name is offered for one
list only (`OfferOfOneList`), so that lists of three moments offer nothing that was
not there. For the age: a file is dated at most one lookup after its catalog was asked
for, by a clock that may have been set back in between; and a process that knows the
date of the file and has yet to read it reads the file of that date, or a torn one, or
one that was just written (`ReadOK`), since no time passes while a process runs. The
hard case is `PutOK`, one process writing the file another is about to read. That the
words of a line are its positionals compares two recursions over the arguments, the
scanner's with its flag that waits for a value, and clap's that looks one argument
back: they agree after every argument (`WordsAreRight`, by the least one after which
they do not). It holds of lines clap can parse (`LinesParse`, which TLC evaluates on
the instance): in `-n -c x` the scanner takes `-c` for a namespace and `x` for a word,
where clap reports an error.

Only model-checked: every liveness property (`EventuallySent`, `TailsEnd`,
`RollEnds`, `NoMissedPause`, `RecycleRestores`, `FindsRescheduled`,
`QuestionsEnd`, `ViewComes`, `Settles`, `TabsAnswer`), which is out of TLAPS's
reach; and `DrawingsAreWhole` of the panels: the layers of a topology, its projection
with shards in groups and the cards of both are recursions nested in one another, for which
TLC compares the results with reference definitions on its instances. `TailTask` is
proved without `tail_lines`; with it, only `TypeCorrect` is.

Where a theorem above is about a recursive function or a fold, its induction is a
least counterexample (`LeastNat`, `SmallestSubset`) of a property written in place,
since the library's induction rules take the property as a parameter, which the
installed provers cannot instantiate. For this the model uses recursive functions and
`FlattenSeq` where the code loops (`Scan`, `Positionals`, `Keep`, `SumSeq`), not folds with
local operators.

## Not modelled

- Text: the renderers of `nfctl-graph` (`ascii`, `dot`, `mermaid`), painting in
  `cards.rs`, `style.rs` and the tables, `output.rs`, `map.rs`, `timing.rs` and
  argument parsing. They keep no state and are covered by the repository's
  snapshot tests. Of the arguments `Completion` has the flags that take a value.
- TLS, kubeconfig and how credentials are renewed: configuration of libraries.
- The fakes of both ports and the fixture file: test doubles, not part of the
  program outside tests and `--fixture`.
- The conversion of a pod (`dto/pod.rs`): reduced to the fields its users look at.
- Health and watermarks of a view, and the MonoVertex view: asked for like
  metrics and buffers and fused with nothing.
- The loops of `top` and of a followed log in `commands.rs`: views and tails one
  after the other, which are `StatusView`'s and `TailTask`'s.
- Two first connects racing for the map of kept clients: both clients work.
- Real time: a deadline or a window is a step that may come at any moment, or a
  few ticks where the difference matters (`MetricsCache`, `Completion`).
