---------------------------- MODULE DaemonClient ----------------------------
(***************************************************************************)
(* Asking a pipeline's daemon through a port-forward: the kept client of   *)
(* crates/nfctl-daemon/src/client.rs (get_json, get_once) over the dialer  *)
(* of crates/nfctl-daemon/src/dialer.rs, which remembers the pod it dialled*)
(* last.  Several questions are asked at once; daemon pods come, go, and   *)
(* sometimes stop answering without going away.                            *)
(*                                                                         *)
(* The connection pool is the set of pods an idle connection leads to.     *)
(***************************************************************************)
EXTENDS Integers, FiniteSets

CONSTANTS
  Pods,       (* names of daemon pods, used once each                      *)
  Callers,    (* questions that may be under way at the same time          *)
  NoPod,      (* no pod                                                    *)
  Retries,    (* ClientOptions::retries                                    *)
  MaxChanges, (* bound: changes to daemon pods                             *)
  MaxTimeouts (* bound: attempts that time out though nothing hangs, and   *)
              (* list calls that fail though a pod runs                    *)

ASSUME DaemonClientAssumption ==
  /\ NoPod \notin Pods
  /\ Retries \in Nat /\ MaxChanges \in Nat /\ MaxTimeouts \in Nat

VARIABLES
  pod,       (* pod[p]: "absent", "starting", "ready", "hung" or "gone"    *)
  changes,   (* counter for MaxChanges                                     *)
  timeouts,  (* counter for MaxTimeouts                                    *)
  cachedPod, (* the dialer's cached_pod                                    *)
  pool,      (* pods an idle connection leads to                           *)
  at,        (* at[c]: "idle", "connect", "list", "store", "dial", "ask"   *)
  name,      (* name[c]: the pod c dials or asks                           *)
  attempt,   (* attempt[c]: retries used                                   *)
  answered   (* history: callers the daemon has answered in this call      *)

pods == <<pod, changes>>
clientVars == <<pods, timeouts, cachedPod, pool, at, name, attempt, answered>>

\* A pod in phase Running; it need not accept connections yet.  The phase of a
\* pod whose node is lost is no longer Running.
Listed == {p \in Pods : pod[p] \in {"starting", "ready"}}

ClientInit ==
  /\ pod \in [Pods -> {"absent", "ready"}]
  /\ changes = 0 /\ timeouts = 0
  /\ cachedPod = NoPod /\ pool = {}
  /\ at = [c \in Callers |-> "idle"]
  /\ name = [c \in Callers |-> NoPod]
  /\ attempt = [c \in Callers |-> 0]
  /\ answered = {}

-----------------------------------------------------------------------------
(* The daemon's pods.                                                      *)

Change(p, from, to) ==
  /\ pod[p] \in from
  /\ changes < MaxChanges
  /\ pod' = [pod EXCEPT ![p] = to]
  /\ changes' = changes + 1
  /\ UNCHANGED <<timeouts, cachedPod, at, name, attempt, answered>>

CreatePod(p) == Change(p, {"absent"}, "starting") /\ UNCHANGED pool

\* Its connections are closed with it.
RemovePod(p) == Change(p, {"starting", "ready", "hung"}, "gone") /\ pool' = pool \ {p}

\* Its node is lost: nothing is closed, nothing answers.
HangPod(p) == Change(p, {"ready"}, "hung") /\ UNCHANGED pool

PodReady(p) ==
  /\ pod[p] = "starting"
  /\ pod' = [pod EXCEPT ![p] = "ready"]
  /\ UNCHANGED <<changes, timeouts, cachedPod, pool, at, name, attempt, answered>>

-----------------------------------------------------------------------------
(* A question: get_json, with one get_once per attempt.                    *)

Goto(c, where) == at' = [at EXCEPT ![c] = where]

Start(c) ==
  /\ at[c] = "idle"
  /\ Goto(c, "connect")
  /\ attempt' = [attempt EXCEPT ![c] = 0]
  /\ answered' = answered \ {c}
  /\ UNCHANGED <<pods, timeouts, cachedPod, pool, name>>

UsePooled(c) ==
  /\ at[c] = "connect"
  /\ \E p \in pool :
       /\ pool' = pool \ {p}
       /\ name' = [name EXCEPT ![c] = p]
  /\ Goto(c, "ask")
  /\ UNCHANGED <<pods, timeouts, cachedPod, attempt, answered>>

\* resolve_pod with a cached name.
UseCachedPod(c) ==
  /\ at[c] = "connect" /\ pool = {}
  /\ cachedPod # NoPod
  /\ name' = [name EXCEPT ![c] = cachedPod]
  /\ Goto(c, "dial")
  /\ UNCHANGED <<pods, timeouts, cachedPod, pool, attempt, answered>>

\* resolve_pod without one: the list is asked for, answered, and its first
\* running pod stored.
AskList(c) ==
  /\ at[c] = "connect" /\ pool = {}
  /\ cachedPod = NoPod
  /\ Goto(c, "list")
  /\ UNCHANGED <<pods, timeouts, cachedPod, pool, name, attempt, answered>>

AnswerList(c) ==
  /\ at[c] = "list"
  /\ \E p \in Listed : name' = [name EXCEPT ![c] = p]
  /\ Goto(c, "store")
  /\ UNCHANGED <<pods, timeouts, cachedPod, pool, attempt, answered>>

StorePod(c) ==
  /\ at[c] = "store"
  /\ cachedPod' = name[c]
  /\ Goto(c, "dial")
  /\ UNCHANGED <<pods, timeouts, pool, name, attempt, answered>>

Connected(c) ==
  /\ at[c] = "dial"
  /\ pod[name[c]] = "ready"
  /\ Goto(c, "ask")
  /\ UNCHANGED <<pods, timeouts, cachedPod, pool, name, attempt, answered>>

Finish(c) == Goto(c, "idle") /\ UNCHANGED attempt

\* Faulty variant: the budget is not counted.
RetryForEver(c) == Goto(c, "connect") /\ UNCHANGED attempt

\* A failure worth another attempt, while the budget lasts.
RetryOrFail(c) ==
  IF attempt[c] < Retries
    THEN Goto(c, "connect") /\ attempt' = [attempt EXCEPT ![c] = @ + 1]
    ELSE Finish(c)

\* resolve_pod finds no running pod.
ListFails(c) ==
  /\ at[c] = "list"
  /\ Listed = {}
  /\ RetryOrFail(c)
  /\ UNCHANGED <<pods, timeouts, cachedPod, pool, name, answered>>

\* The list call itself fails, whatever pods there are.
ListErrs(c) ==
  /\ at[c] = "list"
  /\ timeouts < MaxTimeouts /\ timeouts' = timeouts + 1
  /\ RetryOrFail(c)
  /\ UNCHANGED <<pods, cachedPod, pool, name, answered>>

\* Faulty variant: the pod stays cached after a failed dial.
DialFailsKeepingPod(c) ==
  /\ at[c] = "dial"
  /\ pod[name[c]] \in {"starting", "gone"}
  /\ RetryOrFail(c)
  /\ UNCHANGED <<pods, timeouts, cachedPod, pool, name, answered>>

\* The dial fails, and the cached pod is dropped.
DialFails(c) ==
  /\ at[c] = "dial"
  /\ pod[name[c]] \in {"starting", "gone"}
  /\ cachedPod' = NoPod
  /\ RetryOrFail(c)
  /\ UNCHANGED <<pods, timeouts, pool, name, answered>>

ConnectionLost(c) ==
  /\ at[c] = "ask"
  /\ pod[name[c]] = "gone"
  /\ RetryOrFail(c)
  /\ UNCHANGED <<pods, timeouts, cachedPod, pool, name, answered>>

Hangs(c) == at[c] \in {"dial", "ask"} /\ pod[name[c]] = "hung"

\* The timeout of get_once covers connecting too; cancelling a dial leaves the
\* cached pod alone.  It strikes where nothing answers, and anywhere else when
\* the network is slow.
TimesOut(c) ==
  /\ at[c] # "idle"
  /\ Hangs(c) \/ timeouts < MaxTimeouts
  /\ timeouts' = IF Hangs(c) THEN timeouts ELSE timeouts + 1
  /\ RetryOrFail(c)
  /\ UNCHANGED <<pods, cachedPod, pool, name, answered>>

\* Faulty variant: an answer that is an error is asked for again.
AnswerRetried(c) ==
  /\ at[c] = "ask"
  /\ pod[name[c]] = "ready"
  /\ Finish(c) \/ RetryOrFail(c)
  /\ answered' = answered \cup {c}
  /\ pool' = pool \cup {name[c]}
  /\ UNCHANGED <<pods, timeouts, cachedPod, name>>

\* The daemon answers: a body, or an HTTP error, too large a body or one that
\* does not decode, all of them final.
Answer(c) ==
  /\ at[c] = "ask"
  /\ pod[name[c]] = "ready"
  /\ Finish(c)
  /\ answered' = answered \cup {c}
  /\ pool' = pool \cup {name[c]}
  /\ UNCHANGED <<pods, timeouts, cachedPod, name>>

-----------------------------------------------------------------------------
Progress(c) ==
  UsePooled(c) \/ UseCachedPod(c) \/ AskList(c) \/ AnswerList(c) \/ StorePod(c)
    \/ Connected(c) \/ ListFails(c) \/ DialFails(c) \/ ConnectionLost(c)

ClientNext ==
  \/ \E p \in Pods : CreatePod(p) \/ RemovePod(p) \/ HangPod(p) \/ PodReady(p)
  \/ \E c \in Callers : Start(c) \/ Progress(c) \/ ListErrs(c) \/ TimesOut(c) \/ Answer(c)

ClientSpec == ClientInit /\ [][ClientNext]_clientVars

\* A view is refreshed for ever, an attempt goes on until something answers or
\* its timeout strikes, and pods get ready.
FairClientSpec ==
  /\ ClientSpec
  /\ \A c \in Callers :
       WF_clientVars(Start(c) \/ Progress(c) \/ Answer(c) \/ (Hangs(c) /\ TimesOut(c)))
  /\ \A p \in Pods : WF_clientVars(PodReady(p))

-----------------------------------------------------------------------------
(* Properties.                                                             *)

ClientTypeOK ==
  /\ pod \in [Pods -> {"absent", "starting", "ready", "hung", "gone"}]
  /\ changes \in 0..MaxChanges /\ timeouts \in 0..MaxTimeouts
  /\ cachedPod \in Pods \cup {NoPod} /\ pool \in SUBSET Pods
  /\ at \in [Callers -> {"idle", "connect", "list", "store", "dial", "ask"}]
  /\ name \in [Callers -> Pods \cup {NoPod}]
  /\ attempt \in [Callers -> 0..Retries]
  /\ answered \in SUBSET Callers

\* What the daemon answered is final, an error too: no question is asked again
\* after its answer ("never on HTTP errors", client.rs:27 and 166-178).
AnswersAreFinal == \A c \in answered : at[c] = "idle"

\* That, with the types, of which the retry budget is one.
QuestionsOK == ClientTypeOK /\ AnswersAreFinal

\* Each question ends, however often it is retried (client.rs:166-178).
QuestionsEnd == \A c \in Callers : at[c] # "idle" ~> at[c] = "idle"

\* "cleared on failure so a rescheduled daemon is found" (dialer.rs:118): if in
\* the end a daemon pod is ready, questions are answered again and again,
\* whatever the other questions do to the cached pod meanwhile.  Pods that hang
\* are left out.
FindsRescheduled ==
  /\ <>[](\E p \in Pods : pod[p] = "ready")
  /\ [](\A p \in Pods : pod[p] # "hung")
  => []<>(answered # {})

=============================================================================
