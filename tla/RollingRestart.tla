---------------------------- MODULE RollingRestart ----------------------------
(***************************************************************************)
(* Restarting one vertex (recycle with a vertex, rolling_restart in        *)
(* crates/nfctl-core/src/service/lifecycle.rs, delete_pods in              *)
(* crates/nfctl-k8s/src/cluster.rs): the pods listed at the start are      *)
(* deleted one at a time, waiting after each until it is gone and as many  *)
(* pods run as at the start; or all at once, without waiting.  Around it   *)
(* a controller that replaces pods, and everything else that moves pods:   *)
(* crashes, evictions, an autoscaler.                                      *)
(*                                                                         *)
(* Pods are deleted in the order of their names, which is unrelated to     *)
(* anything else: the model takes them in any order.                       *)
(***************************************************************************)
EXTENDS Integers, FiniteSets

CONSTANTS
  Pods,         (* pod names, used once each                               *)
  None,         (* no pod                                                  *)
  MaxReplicas,  (* bound: the replicas the vertex is scaled to             *)
  MaxLosses     (* bound: pods lost to anything but this restart           *)

ASSUME RollingRestartAssumption ==
  /\ IsFiniteSet(Pods) /\ None \notin Pods
  /\ MaxReplicas \in Nat /\ MaxLosses \in Nat

VARIABLES
  \* the cluster
  life,      (* life[p]: "unborn", "live", "terminating" or "gone"         *)
  up,        (* pods in phase Running with every container running         *)
  replicas,  (* how many pods the controller wants                         *)
  lost,      (* history: pods lost to anything but this restart            *)
  \* the restart
  mode,      (* "roll" or "all"                                            *)
  dryRun,    (* dry_run                                                    *)
  at,        (* "list", "delete", "poll", "done" or "failed"               *)
  todo,      (* listed pods not yet deleted                                *)
  current,   (* the pod whose replacement is awaited                       *)
  deleted,   (* pods a delete call succeeded for                           *)
  target,    (* running pods at the start                                  *)
  outcome,   (* what the caller gets: the pods deleted, or an error        *)
  listed     (* history: the pods of the first list                        *)

cluster == <<life, up, replicas, lost>>
local == <<todo, current, deleted, target, listed>>
options == <<mode, dryRun>>
rollVars == <<cluster, options, at, outcome, local>>

Present == {p \in Pods : life[p] \in {"live", "terminating"}}
Live    == {p \in Pods : life[p] = "live"}

\* What running() counts: a pod being terminated still counts while it runs.
Running == {p \in Present : p \in up}
Serving == {p \in Live : p \in up}

RollInit ==
  /\ life \in [Pods -> {"unborn", "live"}]
  /\ up \in SUBSET {p \in Pods : life[p] = "live"}
  /\ replicas = Cardinality({p \in Pods : life[p] = "live"})
  /\ replicas <= MaxReplicas
  /\ lost = 0
  /\ mode \in {"roll", "all"} /\ dryRun \in BOOLEAN
  /\ at = "list" /\ todo = {} /\ current = None /\ deleted = {} /\ target = 0
  /\ outcome = [kind |-> "none", pods |-> {}]
  /\ listed = {}

-----------------------------------------------------------------------------
(* The cluster.                                                            *)

ClusterStep == UNCHANGED <<options, at, outcome, local>>

CreatePod(p) ==
  /\ life[p] = "unborn"
  /\ Cardinality(Live) < replicas
  /\ life' = [life EXCEPT ![p] = "live"]
  /\ UNCHANGED <<up, replicas, lost>>
  /\ ClusterStep

StartPod(p) ==
  /\ life[p] = "live" /\ p \notin up
  /\ up' = up \cup {p}
  /\ UNCHANGED <<life, replicas, lost>>
  /\ ClusterStep

\* A terminating pod's containers stop, and it disappears; it may disappear
\* without its containers having been seen stopped.
StopPod(p) ==
  /\ life[p] = "terminating"
  /\ p \in up
  /\ up' = up \ {p}
  /\ UNCHANGED <<life, replicas, lost>>
  /\ ClusterStep

RemovePod(p) ==
  /\ life[p] = "terminating"
  /\ life' = [life EXCEPT ![p] = "gone"]
  /\ up' = up \ {p}
  /\ UNCHANGED <<replicas, lost>>
  /\ ClusterStep

\* A container of a pod fails and is restarted later.
CrashPod(p) ==
  /\ lost < MaxLosses
  /\ p \in Serving
  /\ up' = up \ {p}
  /\ lost' = lost + 1
  /\ UNCHANGED <<life, replicas>>
  /\ ClusterStep

\* A pod is evicted, or somebody else deletes it.
EvictPod(p) ==
  /\ lost < MaxLosses
  /\ life[p] = "live"
  /\ life' = [life EXCEPT ![p] = "terminating"]
  /\ lost' = lost + 1
  /\ UNCHANGED <<up, replicas>>
  /\ ClusterStep

\* The vertex is scaled; scaling down terminates a pod.
ScaleUp ==
  /\ replicas < MaxReplicas
  /\ replicas' = replicas + 1
  /\ UNCHANGED <<life, up, lost>>
  /\ ClusterStep

ScaleDown(p) ==
  /\ lost < MaxLosses
  /\ replicas > 0
  /\ life[p] = "live"
  /\ life' = [life EXCEPT ![p] = "terminating"]
  /\ replicas' = replicas - 1
  /\ lost' = lost + 1
  /\ UNCHANGED up
  /\ ClusterStep

-----------------------------------------------------------------------------
(* The restart.                                                            *)

FailRestart(kind) ==
  /\ at' = "failed"
  /\ outcome' = [kind |-> kind, pods |-> {}]
  /\ UNCHANGED <<cluster, options, local>>

\* Faulty variant: pods that do not run are not restarted.
ListRunning ==
  /\ at = "list"
  /\ at' = "delete"
  /\ todo' = Running /\ listed' = Present
  /\ target' = Cardinality(Running)
  /\ UNCHANGED <<cluster, options, outcome, current, deleted>>

ListPods ==
  /\ at = "list"
  /\ at' = "delete"
  /\ todo' = Present /\ listed' = Present
  /\ target' = Cardinality(Running)
  /\ UNCHANGED <<cluster, options, outcome, current, deleted>>

\* What the API server does with a delete call: the pod starts terminating.
Delete(p) ==
  life' = IF dryRun THEN life ELSE [life EXCEPT ![p] = "terminating"]

Deleting(p) ==
  /\ at = "delete"
  /\ p \in todo
  /\ life[p] \in {"live", "terminating"}
  /\ Delete(p)
  /\ todo' = todo \ {p}
  /\ deleted' = deleted \cup {p}
  /\ UNCHANGED <<up, replicas, lost, options, outcome, target, listed>>

\* One step of a roll: delete a pod and wait, unless nothing was deleted.
RollPod(p) ==
  /\ mode = "roll"
  /\ Deleting(p)
  /\ IF dryRun
       THEN UNCHANGED <<at, current>>
       ELSE at' = "poll" /\ current' = p

\* --all-at-once: delete_pods goes through its list without waiting.
DeleteNext(p) ==
  /\ mode = "all"
  /\ Deleting(p)
  /\ UNCHANGED <<at, current>>

\* A listed pod that is gone by now: the API server answers NotFound.
DeleteMissing(p) ==
  /\ at = "delete"
  /\ p \in todo
  /\ life[p] = "gone"
  /\ FailRestart("NotFound")

\* Faulty variant: waits for the running pods only, not for the old pod to go.
RecoveredByCount ==
  /\ at = "poll"
  /\ Cardinality(Running) >= target
  /\ at' = "delete" /\ current' = None
  /\ UNCHANGED <<cluster, options, outcome, todo, deleted, target, listed>>

\* Faulty variant: waits for one pod more than there were.
RecoveredAbove ==
  /\ at = "poll"
  /\ current \notin Present
  /\ Cardinality(Running) > target
  /\ at' = "delete" /\ current' = None
  /\ UNCHANGED <<cluster, options, outcome, todo, deleted, target, listed>>

\* A poll that finds the old pod gone and enough pods running; any other poll
\* changes nothing and sleeps.
Recovered ==
  /\ at = "poll"
  /\ current \notin Present
  /\ Cardinality(Running) >= target
  /\ at' = "delete" /\ current' = None
  /\ UNCHANGED <<cluster, options, outcome, todo, deleted, target, listed>>

StepTimesOut ==
  /\ at = "poll"
  /\ FailRestart("Timeout")

\* A list or delete call fails.
RestartCallFails ==
  /\ at \in {"list", "delete", "poll"}
  /\ at = "delete" => todo # {}
  /\ FailRestart("Cluster")

Finish ==
  /\ at = "delete"
  /\ todo = {}
  /\ at' = "done"
  /\ outcome' = [kind |-> "deleted", pods |-> deleted]
  /\ UNCHANGED <<cluster, options, local>>

-----------------------------------------------------------------------------
Restart ==
  \/ ListPods \/ Recovered \/ Finish
  \/ \E p \in Pods : RollPod(p) \/ DeleteNext(p) \/ DeleteMissing(p)

Controller ==
  \E p \in Pods : CreatePod(p) \/ StartPod(p) \/ StopPod(p) \/ RemovePod(p)

Disturbance ==
  ScaleUp \/ \E p \in Pods : CrashPod(p) \/ EvictPod(p) \/ ScaleDown(p)

RollNext == Restart \/ StepTimesOut \/ RestartCallFails \/ Controller \/ Disturbance

RollSpec == RollInit /\ [][RollNext]_rollVars

\* The caller's task runs, pods are replaced, start, and terminate.
FairRollSpec ==
  RollSpec /\ WF_rollVars(Restart) /\ WF_rollVars(\E p \in Pods : CreatePod(p))
       /\ \A p \in Pods : WF_rollVars(StartPod(p)) /\ WF_rollVars(RemovePod(p))

-----------------------------------------------------------------------------
(* Properties.                                                             *)

RollTypeOK ==
  /\ life \in [Pods -> {"unborn", "live", "terminating", "gone"}]
  /\ up \in SUBSET Pods
  /\ replicas \in 0..MaxReplicas /\ lost \in 0..MaxLosses
  /\ mode \in {"roll", "all"} /\ dryRun \in BOOLEAN
  /\ at \in {"list", "delete", "poll", "done", "failed"}
  /\ todo \in SUBSET Pods /\ deleted \in SUBSET Pods /\ listed \in SUBSET Pods
  /\ current \in Pods \cup {None}
  /\ target \in Nat
  /\ outcome \in [kind : {"none", "deleted", "Timeout", "NotFound", "Cluster"},
                  pods : SUBSET Pods]

\* A roll takes pods away one at a time: of the pods it deleted, all but the one
\* it is waiting for have disappeared (rolling_restart, lifecycle.rs:182-200).
OneAtATime ==
  mode = "roll" /\ ~dryRun => \A p \in deleted \ {current} : life[p] = "gone"

\* The vertex keeps serving during a roll: it is never more than one pod, and
\* the pods lost to others, below the count at the start (lifecycle.rs:180,192).
KeepsServing ==
  mode = "roll" /\ at # "list" => Cardinality(Serving) + lost >= target - 1

\* Both, with the types: the roll is safe for the vertex.
RollIsSafe == RollTypeOK /\ OneAtATime /\ KeepsServing

\* A restart that reports success replaced every pod it found: those it names
\* are all that were listed, and none of them serves any more (lifecycle.rs:202).
ReportIsComplete ==
  at = "done" => /\ outcome.pods = listed
                 /\ dryRun \/ outcome.pods \cap Live = {}

\* Without disturbances a roll goes on by itself: no wait needs its timeout to
\* end (the loop of rolling_restart, lifecycle.rs:182-201).
RollEnds == <>(at \in {"done", "failed"} \/ lost > 0)
=============================================================================
