---------------------------- MODULE MetricsCache ----------------------------
(***************************************************************************)
(* The metrics of a whole pipeline, as one kept client answers them        *)
(* (vertex_metrics(None) in crates/nfctl-daemon/src/client.rs, the kept    *)
(* clients of crates/nfctl-daemon/src/connector.rs): one call per vertex   *)
(* of the topology the client was made with, the whole answer reused for a *)
(* while.  Callers ask one after the other, as the TUI's worker and the    *)
(* one-shot commands do; time passes between any two steps.                *)
(*                                                                         *)
(* What is known of a vertex is the time the daemon was asked about it.    *)
(***************************************************************************)
EXTENDS Integers

CONSTANTS
  Vertices,  (* vertex names                                               *)
  Ttl,       (* ClientOptions::metrics_ttl, in ticks                       *)
  MaxTime    (* bound: ticks                                               *)

ASSUME MetricsCacheAssumption ==
  /\ Vertices # {} /\ Ttl \in Nat \ {0} /\ MaxTime \in Nat

Never == -1

VARIABLES
  now,      (* the clock                                                   *)
  actual,   (* vertices of the pipeline as it is                           *)
  kept,     (* vertices of the topology the kept client has                *)
  heldAt,   (* when the held answer was put away, Never if there is none   *)
  held,     (* held[v]: when the daemon was asked about v, Never if not    *)
  pc,       (* "idle" or "fetch"                                           *)
  todo,     (* vertices still to be asked about                            *)
  got,      (* got[v], as held, in the answer being put together           *)
  began,    (* history: when the fetch under way began                     *)
  span,     (* history: how long the fetch of the held answer took         *)
  answer,   (* the last answer, as held                                    *)
  answerAt, (* when it was given, Never before the first                   *)
  previous  (* history: the answer before it                               *)

vars == <<now, actual, kept, heldAt, held, pc, todo, got, began, span, answer,
          answerAt, previous>>

Nothing == [v \in Vertices |-> Never]

\* The client is made with the topology its first caller has.
Init ==
  /\ now = 0
  /\ actual \in SUBSET Vertices \ {{}} /\ kept = actual
  /\ heldAt = Never /\ held = Nothing
  /\ pc = "idle" /\ todo = {} /\ got = Nothing
  /\ began = 0 /\ span = 0
  /\ answer = Nothing /\ answerAt = Never /\ previous = Nothing

PassTime ==
  /\ now < MaxTime
  /\ now' = now + 1
  /\ UNCHANGED <<actual, kept, heldAt, held, pc, todo, got, began, span, answer,
                 answerAt, previous>>

\* A vertex is added to the pipeline.  connect() goes on returning the kept
\* client, whatever topology it is called with.
AddVertex(v) ==
  /\ v \notin actual
  /\ actual' = actual \cup {v}
  /\ UNCHANGED <<now, kept, heldAt, held, pc, todo, got, began, span, answer,
                 answerAt, previous>>

\* recent_metrics: is the held answer inside the window?
Recent == heldAt # Never /\ now - heldAt < Ttl

Give(a) ==
  /\ answer' = a /\ answerAt' = now /\ previous' = answer

AnswerHeld ==
  /\ pc = "idle"
  /\ Recent
  /\ Give(held)
  /\ UNCHANGED <<now, actual, kept, heldAt, held, pc, todo, got, began, span>>

\* Faulty variant: asks about vertices the client has no topology for.
FetchUnknown ==
  /\ pc = "idle"
  /\ ~Recent
  /\ pc' = "fetch" /\ todo' = Vertices /\ got' = Nothing /\ began' = now
  /\ UNCHANGED <<now, actual, kept, heldAt, held, span, answer, answerAt, previous>>

StartFetch ==
  /\ pc = "idle"
  /\ ~Recent
  /\ pc' = "fetch" /\ todo' = kept /\ got' = Nothing /\ began' = now
  /\ UNCHANGED <<now, actual, kept, heldAt, held, span, answer, answerAt, previous>>

\* One call answered; the vertices are asked about in turn.
FetchVertex(v) ==
  /\ pc = "fetch"
  /\ v \in todo
  /\ todo' = todo \ {v}
  /\ got' = [got EXCEPT ![v] = now]
  /\ UNCHANGED <<now, actual, kept, heldAt, held, pc, began, span, answer, answerAt,
                 previous>>

\* Faulty variant: what was fetched before the failure is put away.
RememberPartial ==
  /\ pc = "fetch"
  /\ todo # {}
  /\ pc' = "idle" /\ todo' = {} /\ got' = Nothing
  /\ heldAt' = now /\ held' = got /\ span' = now - began
  /\ UNCHANGED <<now, actual, kept, began, answer, answerAt, previous>>

\* One call failed for good: the whole question fails and nothing is put away.
FetchFails ==
  /\ pc = "fetch"
  /\ todo # {}
  /\ pc' = "idle" /\ todo' = {} /\ got' = Nothing
  /\ UNCHANGED <<now, actual, kept, heldAt, held, began, span, answer, answerAt, previous>>

\* remember_metrics: dated when it is complete.
Remember(a) ==
  /\ heldAt' = now /\ held' = a
  /\ span' = now - began

FetchDone ==
  /\ pc = "fetch"
  /\ todo = {}
  /\ Remember(got)
  /\ Give(got)
  /\ pc' = "idle" /\ got' = Nothing
  /\ UNCHANGED <<now, actual, kept, todo, began>>

Next ==
  \/ PassTime \/ AnswerHeld \/ StartFetch \/ FetchFails \/ FetchDone
  \/ \E v \in Vertices : AddVertex(v) \/ FetchVertex(v)

Spec == Init /\ [][Next]_vars

-----------------------------------------------------------------------------
(* Properties.                                                             *)

Known(a) == {v \in Vertices : a[v] # Never}

TypeOK ==
  /\ now \in 0..MaxTime
  /\ actual \in SUBSET Vertices /\ kept \in SUBSET Vertices
  /\ heldAt \in Never..MaxTime /\ held \in [Vertices -> Never..MaxTime]
  /\ pc \in {"idle", "fetch"} /\ todo \in SUBSET kept
  /\ got \in [Vertices -> Never..MaxTime]
  /\ began \in 0..MaxTime /\ span \in 0..MaxTime
  /\ answer \in [Vertices -> Never..MaxTime] /\ answerAt \in Never..MaxTime
  /\ previous \in [Vertices -> Never..MaxTime]

\* An answer is whole: every vertex the client knows of is in it, also after a
\* question that failed half way (client.rs:341-353).
AnswersAreWhole == answerAt # Never => Known(answer) = kept

\* An answer is at most the window older than the fetch it comes from took
\* (client.rs:154-164 and 341-352).
AgeIsBounded ==
  \A v \in Known(answer) : answerAt - answer[v] < Ttl + span

\* Nobody sees the metrics of a vertex go back in time, from one answer to the
\* next (the held answer replaced as a whole, client.rs:161-164).
NeverBackwards ==
  \A v \in Known(previous) \cap Known(answer) : previous[v] <= answer[v]

\* The three together: metrics that are given are whole, young and never older
\* than what was given before.
MetricsAreHonest == AnswersAreWhole /\ AgeIsBounded /\ NeverBackwards
=============================================================================
