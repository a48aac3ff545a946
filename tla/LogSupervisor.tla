---------------------------- MODULE LogSupervisor ----------------------------
(***************************************************************************)
(* The supervisor behind `nfctl logs -f` and the TUI's log panel           *)
(* (Supervisor in crates/nfctl-core/src/service/logs.rs): it reacts to a   *)
(* watch on the pods of a selector, keeps a map from (pod, container) to   *)
(* the abort handle of a tail task, and collects finished tasks from a     *)
(* JoinSet.  Around it: pods that come and go, a watch that breaks and     *)
(* re-lists, and tasks that end on their own time.  What a tail task does  *)
(* with its log is TailTask.                                               *)
(***************************************************************************)
EXTENDS Integers, Sequences, FiniteSets

CONSTANTS
  Pods,        (* names of pods matching the selector                      *)
  Containers,  (* the selected containers of each pod                      *)
  Tasks,       (* identities of tokio tasks; one is reused once joined     *)
  None,        (* no task                                                  *)
  MaxChanges,  (* bound: changes to pods                                   *)
  MaxLosses,   (* bound: broken watches and re-lists                       *)
  MaxEvents    (* bound: watch events not yet handled                      *)

ASSUME LogSupervisorAssumption ==
  /\ Pods # {} /\ Containers # {}
  /\ None \notin Tasks
  /\ MaxChanges \in Nat /\ MaxLosses \in Nat /\ MaxEvents \in Nat

Keys == Pods \X Containers

VARIABLES
  \* the cluster and the watch on it
  phase,    (* phase[p]: "absent", "active" or "ended" (Succeeded, Failed) *)
  running,  (* running[p]: p's containers that are running                 *)
  used,     (* history: names some pod has had                             *)
  watch,    (* "lost" until a list succeeds, then "live"                   *)
  events,   (* watch events on their way to the supervisor                 *)
  changes, losses,  (* counters for MaxChanges and MaxLosses               *)
  \* the supervisor
  up,       (* FALSE once it left its loop or was aborted                  *)
  tails,    (* tails[k]: the task whose abort handle is kept for key k     *)
  seen,     (* pods seen since the last Resync                             *)
  \* its tasks
  state,    (* state[t]: "free", "running", "aborted" or "finished"        *)
  keyOf,    (* keyOf[t]: the key t tails, None while t is free             *)
  gaveUp    (* history: keys a task returned for on its own                *)

cluster == <<phase, running, used, watch, changes, losses>>
vars == <<cluster, events, up, tails, seen, state, keyOf, gaveUp>>

Event ==
  [kind : {"Applied"}, pod : Pods, ended : BOOLEAN, running : SUBSET Containers]
    \cup [kind : {"Deleted"}, pod : Pods]
    \cup [kind : {"Resync", "ResyncDone"}]

Applied(p, ph, run) ==
  [kind |-> "Applied", pod |-> p, ended |-> ph = "ended", running |-> run]
Deleted(p) == [kind |-> "Deleted", pod |-> p]
Resync     == [kind |-> "Resync"]
ResyncDone == [kind |-> "ResyncDone"]

Existing == {p \in Pods : phase[p] # "absent"}
Alive(t) == state[t] \in {"running", "aborted"}
Free     == {t \in Tasks : state[t] = "free"}

Init ==
  /\ phase = [p \in Pods |-> "absent"] /\ running = [p \in Pods |-> {}]
  /\ used = {} /\ watch = "lost" /\ events = << >>
  /\ changes = 0 /\ losses = 0
  /\ up = TRUE /\ tails = [k \in Keys |-> None] /\ seen = {}
  /\ state = [t \in Tasks |-> "free"]
  /\ keyOf = [t \in Tasks |-> None]
  /\ gaveUp = {}

-----------------------------------------------------------------------------
(* The cluster, and the watcher that reports it.                           *)

\* A live watch reports every change; while it is lost nobody is told.
Report(ev) ==
  events' = IF watch = "live" THEN Append(events, ev) ELSE events

Changing ==
  /\ changes < MaxChanges
  /\ Len(events) < MaxEvents
  /\ changes' = changes + 1
  /\ UNCHANGED <<watch, losses, up, tails, seen, state, keyOf, gaveUp>>

\* The controller gives every pod a name of its own.
CreatePod(p) ==
  /\ p \notin used
  /\ phase' = [phase EXCEPT ![p] = "active"]
  /\ used' = used \cup {p}
  /\ Report(Applied(p, "active", {}))
  /\ UNCHANGED running
  /\ Changing

\* Containers start, stop and restart.
RunContainers(p) ==
  /\ phase[p] = "active"
  /\ \E run \in SUBSET Containers :
       /\ run # running[p]
       /\ running' = [running EXCEPT ![p] = run]
       /\ Report(Applied(p, "active", run))
  /\ UNCHANGED <<phase, used>>
  /\ Changing

EndPod(p) ==
  /\ phase[p] = "active"
  /\ phase' = [phase EXCEPT ![p] = "ended"]
  /\ running' = [running EXCEPT ![p] = {}]
  /\ Report(Applied(p, "ended", {}))
  /\ UNCHANGED used
  /\ Changing

DeletePod(p) ==
  /\ phase[p] # "absent"
  /\ phase' = [phase EXCEPT ![p] = "absent"]
  /\ running' = [running EXCEPT ![p] = {}]
  /\ Report(Deleted(p))
  /\ UNCHANGED used
  /\ Changing

LoseWatch ==
  /\ watch = "live"
  /\ losses < MaxLosses
  /\ watch' = "lost" /\ losses' = losses + 1
  /\ UNCHANGED <<phase, running, used, changes, events, up, tails, seen, state,
                 keyOf, gaveUp>>

\* The sequences without repetition of the elements of S.
Orders(S) ==
  {s \in [1..Cardinality(S) -> S] : \A i, j \in DOMAIN s : s[i] = s[j] => i = j}

\* A list puts Resync, one Applied per pod, and ResyncDone on the stream ...
Relist ==
  /\ watch = "lost"
  /\ Len(events) + Cardinality(Existing) + 2 <= MaxEvents
  /\ \E s \in Orders(Existing) :
       events' = events \o <<Resync>>
                   \o [i \in DOMAIN s |-> Applied(s[i], phase[s[i]], running[s[i]])]
                   \o <<ResyncDone>>
  /\ watch' = "live"
  /\ UNCHANGED <<phase, running, used, changes, losses, up, tails, seen, state,
                 keyOf, gaveUp>>

\* ... unless it breaks half way; the error item itself is ignored (logs.rs:201).
RelistBreaks ==
  /\ watch = "lost"
  /\ losses < MaxLosses
  /\ \E some \in SUBSET Existing :
       /\ Len(events) + Cardinality(some) + 1 <= MaxEvents
       /\ \E s \in Orders(some) :
            events' = events \o <<Resync>>
                        \o [i \in DOMAIN s |-> Applied(s[i], phase[s[i]], running[s[i]])]
  /\ losses' = losses + 1
  /\ UNCHANGED <<phase, running, used, changes, watch, up, tails, seen, state,
                 keyOf, gaveUp>>

-----------------------------------------------------------------------------
(* The supervisor: one branch of its select! per action.                   *)

\* Abort and forget every tail of the pods ps.  Aborting a task that already
\* returned does nothing, and a running one stops only when it next yields.
StopPods(ps) ==
  /\ tails' = [k \in Keys |-> IF k[1] \in ps THEN None ELSE tails[k]]
  /\ state' = [t \in Tasks |->
       IF state[t] = "running" /\ \E k \in Keys : k[1] \in ps /\ tails[k] = t
         THEN "aborted" ELSE state[t]]
  /\ UNCHANGED keyOf

\* Faulty variant: every Applied starts a tail, whether or not there is one.
SpawnAnyway(p, run) ==
  \E f \in [{p} \X run -> Free] :
    /\ \A k, l \in {p} \X run : f[k] = f[l] => k = l
    /\ tails' = [k \in Keys |-> IF k \in {p} \X run THEN f[k] ELSE tails[k]]
    /\ state' = [t \in Tasks |->
         IF \E k \in {p} \X run : f[k] = t THEN "running" ELSE state[t]]
    /\ keyOf' = [t \in Tasks |->
         IF \E k \in {p} \X run : f[k] = t
           THEN CHOOSE k \in {p} \X run : f[k] = t ELSE keyOf[t]]

\* Start a tail for every running container of pod p that has none.
SpawnMissing(p, run) ==
  LET missing == {k \in {p} \X run : tails[k] = None}
  IN  \E f \in [missing -> Free] :
        /\ \A k, l \in missing : f[k] = f[l] => k = l
        /\ tails' = [k \in Keys |-> IF k \in missing THEN f[k] ELSE tails[k]]
        /\ state' = [t \in Tasks |->
             IF \E k \in missing : f[k] = t THEN "running" ELSE state[t]]
        /\ keyOf' = [t \in Tasks |->
             IF \E k \in missing : f[k] = t
               THEN CHOOSE k \in missing : f[k] = t ELSE keyOf[t]]

Handle(kind) ==
  /\ up
  /\ events # << >>
  /\ Head(events).kind = kind
  /\ events' = Tail(events)
  /\ UNCHANGED <<cluster, up, gaveUp>>

OnApplied ==
  /\ Handle("Applied")
  /\ LET ev == Head(events)
     IN  /\ seen' = seen \cup {ev.pod}
         /\ IF ev.ended THEN StopPods({ev.pod}) ELSE SpawnMissing(ev.pod, ev.running)

OnDeleted ==
  /\ Handle("Deleted")
  /\ StopPods({Head(events).pod})
  /\ UNCHANGED seen

\* Faulty variant: pods of the previous list still count as seen.
ResyncKeepsSeen ==
  /\ Handle("Resync")
  /\ UNCHANGED <<seen, tails, state, keyOf>>

OnResync ==
  /\ Handle("Resync")
  /\ seen' = {}
  /\ UNCHANGED <<tails, state, keyOf>>

\* Garbage collection: pods with a tail that the list did not mention.
OnResyncDone ==
  /\ Handle("ResyncDone")
  /\ StopPods({p \in Pods : p \notin seen /\ \E c \in Containers : tails[<<p, c>>] # None})
  /\ UNCHANGED seen

\* set.join_next(): a task that returned gives back its key, and the entry of
\* that key is dropped; a cancelled task gives nothing back.
Join(t) ==
  /\ up
  /\ state[t] \in {"finished", "aborted"}
  /\ tails' = IF state[t] = "finished" THEN [tails EXCEPT ![keyOf[t]] = None] ELSE tails
  /\ state' = [state EXCEPT ![t] = "free"]
  /\ keyOf' = [keyOf EXCEPT ![t] = None]
  /\ UNCHANGED <<cluster, events, up, seen, gaveUp>>

\* Faulty variant: the supervisor leaves its loop and its tasks behind.
StopLeavesTasks ==
  /\ up
  /\ up' = FALSE
  /\ UNCHANGED <<cluster, events, state, tails, seen, keyOf, gaveUp>>

\* The consumer closed the channel, or the TailHandle was dropped: the JoinSet
\* aborts every task.
Stop ==
  /\ up
  /\ up' = FALSE
  /\ state' = [t \in Tasks |-> IF state[t] = "running" THEN "aborted" ELSE state[t]]
  /\ UNCHANGED <<cluster, events, tails, seen, keyOf, gaveUp>>

-----------------------------------------------------------------------------
(* The tasks.                                                              *)

\* A task returns its key (it gave up opening the log, or the consumer is gone).
\* One that was just aborted may still get there first.
TaskReturns(t) ==
  /\ Alive(t)
  /\ state' = [state EXCEPT ![t] = "finished"]
  /\ gaveUp' = gaveUp \cup {keyOf[t]}
  /\ UNCHANGED <<cluster, events, up, tails, seen, keyOf>>

\* With no supervisor left to join it, an aborted task just ends.
TaskEnds(t) ==
  /\ ~up
  /\ state[t] = "aborted"
  /\ state' = [state EXCEPT ![t] = "free"]
  /\ keyOf' = [keyOf EXCEPT ![t] = None]
  /\ UNCHANGED <<cluster, events, up, tails, seen, gaveUp>>

-----------------------------------------------------------------------------
ClusterStep ==
  \E p \in Pods : CreatePod(p) \/ RunContainers(p) \/ EndPod(p) \/ DeletePod(p)

OnEvent == OnApplied \/ OnDeleted \/ OnResync \/ OnResyncDone

JoinSome == \E t \in Tasks : Join(t)

Next ==
  \/ ClusterStep \/ LoseWatch \/ Relist \/ RelistBreaks
  \/ OnEvent \/ JoinSome \/ Stop
  \/ \E t \in Tasks : TaskReturns(t) \/ TaskEnds(t)

Spec == Init /\ [][Next]_vars

\* The watcher retries its list, the runtime polls a supervisor that can go on,
\* select! picks each ready branch sooner or later, aborted tasks end.
FairSpec ==
  Spec /\ WF_vars(Relist) /\ SF_vars(OnEvent) /\ SF_vars(JoinSome)
       /\ \A t \in Tasks : WF_vars(TaskEnds(t))

-----------------------------------------------------------------------------
(* Properties.                                                             *)

TypeOK ==
  /\ phase \in [Pods -> {"absent", "active", "ended"}]
  /\ running \in [Pods -> SUBSET Containers] /\ used \in SUBSET Pods
  /\ watch \in {"lost", "live"} /\ events \in Seq(Event)
  /\ changes \in 0..MaxChanges /\ losses \in 0..MaxLosses
  /\ up \in BOOLEAN /\ tails \in [Keys -> Tasks \cup {None}] /\ seen \in SUBSET Pods
  /\ state \in [Tasks -> {"free", "running", "aborted", "finished"}]
  /\ keyOf \in [Tasks -> Keys \cup {None}] /\ gaveUp \in SUBSET Keys

\* "keeps one tail task per (pod, container)" (logs.rs:3-4): two running tasks
\* for a key would show every line twice.
OneTailPerKey ==
  \A t, u \in Tasks :
    state[t] = "running" /\ state[u] = "running" /\ keyOf[t] = keyOf[u] => t = u

\* The map of handles and the running tasks agree: whatever runs unaborted is in
\* the map under its own key, so a later Deleted, re-list or shutdown can stop it,
\* and no handle is kept of a task that was aborted or already joined
\* (Supervisor::tails, logs.rs:189; stop_pod and join_next, logs.rs:204-256).
TailsExact ==
  up => /\ \A t \in Tasks : state[t] = "running" => tails[keyOf[t]] = t
        /\ \A k \in Keys :
             tails[k] # None => /\ keyOf[tails[k]] = k
                                /\ state[tails[k]] \in {"running", "finished"}

\* Both, with the types: what the supervisor keeps is right in every state.
BookkeepingOK == TypeOK /\ OneTailPerKey /\ TailsExact

Settled == up /\ watch = "live" /\ events = << >>

\* Once every event is handled, the tails match the cluster, also when pods came
\* and went while the watch was down (logs.rs:215-245): none for a pod that is
\* gone or ended, one for every running container whose tail did not give up.
TailsMatchPods ==
  Settled =>
    \A p \in Pods, c \in Containers :
      /\ tails[<<p, c>>] # None => phase[p] = "active"
      /\ c \in running[p] /\ <<p, c>> \notin gaveUp => tails[<<p, c>>] # None

\* Nothing goes on tailing a deleted pod for ever, even if the deletion happened
\* while the watch was down and nobody was told (module comment, logs.rs:4-5).
DeletedPodsStop ==
  \A p \in Pods :
    (p \in used /\ phase[p] = "absent") ~>
      (\A t \in Tasks : Alive(t) => keyOf[t][1] # p)

\* Dropping the handle, or closing the stream, stops every tail (logs.rs:110).
StopStopsAll == ~up ~> \A t \in Tasks : ~Alive(t)

\* No tail outlives its pod or its reader (logs.rs:4-5 and :110).
TailsEnd == DeletedPodsStop /\ StopStopsAll
=============================================================================
