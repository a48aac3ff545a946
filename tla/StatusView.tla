----------------------------- MODULE StatusView -----------------------------
(***************************************************************************)
(* What `nfctl status`, `nfctl top` and the TUI show of a pipeline         *)
(* (pipeline_view in crates/nfctl-core/src/service/status.rs): the         *)
(* topology read from the cluster, fused with what the kept daemon client  *)
(* answers (crates/nfctl-daemon/src/client.rs), again and again while the  *)
(* pipeline may change.  The metrics question is MetricsCache; this module *)
(* adds the buffers, which the daemon knows by name only: the client finds *)
(* the vertex a buffer belongs to from the end of its name and the edges   *)
(* into it from the topology it was made with.  Health and watermarks are  *)
(* asked for in the same way and fused with nothing; they are left out.    *)
(*                                                                         *)
(* A name is a sequence of pieces (letters; segments between hyphens in the*)
(* instance checked), and a buffer's name without its partition,           *)
(* "<isb>-<pipeline>-<vertex>", is Prefix \o vertex.  A vertex without an  *)
(* edge into it is a source and owns no buffer.                            *)
(***************************************************************************)
EXTENDS MetricsCache, FiniteSets, Sequences, FiniteSetsExt

CONSTANTS
  Prefix,    (* "<isb>-<pipeline>-"                                        *)
  Links,     (* edges a pipeline may have                                  *)
  Parts,     (* Parts[v]: partitions of v                                  *)
  Reports,   (* what the daemon may say of a buffer                        *)
  Most,      (* i64::MAX                                                   *)
  None       (* not known                                                  *)

ASSUME StatusViewAssumption ==
  /\ Vertices \subseteq Seq(STRING) /\ Prefix \in Seq(STRING)
  /\ Links \subseteq Vertices \X Vertices /\ IsFiniteSet(Links)
  /\ Parts \in [Vertices -> Nat \ {0}]
  /\ Most \in Nat
  /\ None \notin Nat
  /\ Reports \subseteq [pending : (0..Most) \cup {None}, unacked : (0..Most) \cup {None}]

VARIABLES
  links,      (* edges of the pipeline as it is                            *)
  keptLinks,  (* edges of the topology the kept client has                 *)
  step,       (* "idle", "ask", "shown"                                    *)
  shape,      (* the topology read for this view                           *)
  asked,      (* asked[q]: "waiting", "ok" or "failed"                     *)
  buffers     (* what the daemon said of its buffers                       *)

statusVars == <<links, keptLinks, step, shape, asked, buffers>>

Topology == [vertices : SUBSET Vertices, links : SUBSET Links]
Buffer == [of : Vertices, part : Nat, pending : Nat \cup {None}, unacked : Nat \cup {None}]

StatusInit ==
  /\ Init
  /\ links \in SUBSET (Links \cap (actual \X actual)) /\ keptLinks = links
  /\ step = "idle"
  /\ shape = [vertices |-> {}, links |-> {}]
  /\ asked = [q \in {"metrics", "buffers"} |-> "failed"]
  /\ buffers = {}

\* Somebody adds a vertex and edges between it and the rest.
AddVertexTo ==
  \E v \in Vertices :
    /\ AddVertex(v)
    /\ \E new \in SUBSET {e \in Links : v \in {e[1], e[2]}} :
         /\ new # {} /\ new \subseteq actual' \X actual'
         /\ links' = links \cup new
    /\ UNCHANGED <<keptLinks, step, shape, asked, buffers>>

-----------------------------------------------------------------------------
(* One view.                                                               *)

\* pipeline_shape, and connect, which gives the kept client.
ReadShape ==
  /\ step # "ask"
  /\ step' = "ask"
  /\ shape' = [vertices |-> actual, links |-> links]
  /\ asked' = [q \in DOMAIN asked |-> "waiting"]
  /\ buffers' = {}
  /\ UNCHANGED <<vars, links, keptLinks>>

Unmoved == UNCHANGED <<links, keptLinks, step, shape>>

Waiting(q) == step = "ask" /\ asked[q] = "waiting"
Answered(q, how) == asked' = [asked EXCEPT ![q] = how]

\* vertex_metrics(None).
AskMetrics ==
  /\ Waiting("metrics")
  /\ \/ StartFetch /\ UNCHANGED asked
     \/ \E v \in Vertices : FetchVertex(v) /\ UNCHANGED asked
     \/ (AnswerHeld \/ FetchDone) /\ Answered("metrics", "ok")
     \/ FetchFails /\ Answered("metrics", "failed")
  /\ Unmoved /\ UNCHANGED buffers

\* The buffers the pipeline's vertices own.
Slots == UNION {{v} \X (1..Parts[v]) : v \in {e[2] : e \in links}}

\* buffers(); a count the daemon gives as negative or not at all is not known.
AnswerBuffers ==
  /\ Waiting("buffers")
  /\ \E r \in [Slots -> Reports] :
       buffers' = {[of |-> s[1], part |-> s[2], pending |-> r[s].pending,
                    unacked |-> r[s].unacked] : s \in Slots}
  /\ Answered("buffers", "ok")
  /\ Unmoved /\ UNCHANGED vars

BuffersFail ==
  /\ Waiting("buffers")
  /\ Answered("buffers", "failed")
  /\ Unmoved /\ UNCHANGED <<vars, buffers>>

\* Faulty variant: one failed question leaves the view without an end.
AssembleAll ==
  /\ step = "ask"
  /\ \A q \in DOMAIN asked : asked[q] = "ok"
  /\ step' = "shown"
  /\ UNCHANGED <<vars, links, keptLinks, shape, asked, buffers>>

\* Every question has its answer or its warning.
Assemble ==
  /\ step = "ask"
  /\ \A q \in DOMAIN asked : asked[q] \in {"ok", "failed"}
  /\ step' = "shown"
  /\ UNCHANGED <<vars, links, keptLinks, shape, asked, buffers>>

-----------------------------------------------------------------------------
(* What the view says.                                                     *)

EndsWith(s, t) ==
  Len(t) <= Len(s) /\ \A i \in 1..Len(t) : s[Len(s) - Len(t) + i] = t[i]

\* The vertices whose name ends the name of a buffer of v.
Candidates(v) == {w \in kept : EndsWith(Prefix \o v, w)}

\* No vertex name is longer than another and still ends a buffer's name of it:
\* in a pipeline a-b with vertices c and b-c one is.
NamesApart ==
  \A v, w \in Vertices : EndsWith(Prefix \o v, w) => Len(w) <= Len(v)

\* Faulty variant: the first match that comes along, here the shortest.
ShortestOwner(v) ==
  IF Candidates(v) = {} THEN None
  ELSE CHOOSE w \in Candidates(v) : \A u \in Candidates(v) : Len(w) <= Len(u)

\* ends_for: the vertex a buffer of v is taken to belong to.
Owner(v) ==
  IF Candidates(v) = {} THEN None
  ELSE CHOOSE w \in Candidates(v) : \A u \in Candidates(v) : Len(u) <= Len(w)

\* assemble: the buffers shown on edge e, those that end where e ends and have
\* the start of e among their sources.
Attached(e) == {b \in buffers : Owner(b.of) = e[2] /\ e \in keptLinks}

\* Faulty variant: counts not known are taken for 0.
SumKnown(bs) ==
  LET known == {b \in bs : b.pending # None}
      total == MapThenSumSet(LAMBDA b : b.pending, known)
  IN  IF total > Most THEN None ELSE total

\* total_pending: stops at the first count that is not known or that takes the
\* sum over the edge.
TotalPending(bs) ==
  LET Add(b, sum) ==
        IF sum = None \/ b.pending = None THEN None
        ELSE IF sum + b.pending > Most THEN None ELSE sum + b.pending
  IN  FoldSet(Add, 0, bs)

EdgePending(e) == IF Attached(e) = {} THEN None ELSE TotalPending(Attached(e))

\* PipelineView::drained.
Drained ==
  LET all == UNION {Attached(e) : e \in shape.links}
  IN  IF all = {} THEN "unknown"
      ELSE IF \A b \in all : b.pending = 0 /\ b.unacked = 0 THEN "yes" ELSE "no"

-----------------------------------------------------------------------------
Asking == AskMetrics \/ AnswerBuffers \/ BuffersFail

StatusNext ==
  \/ AddVertexTo \/ ReadShape \/ Asking \/ Assemble
  \/ PassTime /\ UNCHANGED statusVars

StatusSpec == StatusInit /\ [][StatusNext]_<<vars, statusVars>>

\* Every question is answered or times out (QuestionsEnd of DaemonClient), and
\* the caller goes on.
FairStatusSpec ==
  /\ StatusSpec
  /\ WF_<<vars, statusVars>>(AskMetrics)
  /\ WF_<<vars, statusVars>>(AnswerBuffers \/ BuffersFail)
  /\ WF_<<vars, statusVars>>(Assemble)

-----------------------------------------------------------------------------
(* Properties.                                                             *)

StatusTypeOK ==
  /\ links \in SUBSET Links /\ keptLinks \in SUBSET Links
  /\ step \in {"idle", "ask", "shown"}
  /\ shape \in Topology
  /\ asked \in [{"metrics", "buffers"} -> {"waiting", "ok", "failed"}]
  /\ buffers \in SUBSET Buffer

\* With the types of the window below.
TypesOK == TypeOK /\ StatusTypeOK

Shown == step = "shown" /\ asked["buffers"] = "ok"

\* The pipeline is still the one the client was made for.
Current == kept = actual /\ keptLinks = links

\* Every edge shows exactly the buffers of the vertex it leads to, though the
\* client knows a buffer by the end of its name and names may end alike
\* (ends_for, client.rs 245-271; assemble, status.rs 279-291).
BuffersInPlace ==
  Shown /\ Current =>
    \A e \in shape.links : Attached(e) = {b \in buffers : b.of = e[2]}

\* "Pause is complete when every buffer is empty" (status.rs 111): a view that
\* says drained leaves out no buffer that is not.
DrainedMeansEmpty ==
  Shown /\ Drained = "yes" => \A b \in buffers : b.pending = 0 /\ b.unacked = 0

\* The same while the pipeline is the one the client was made for.
DrainedIsHonest == Current => DrainedMeansEmpty

\* A number of pending messages on an edge is never a partial one: all its
\* partitions are known and the number is their sum, within 64 bits
\* (total_pending, status.rs 64-74).
PendingIsWhole ==
  Shown => \A e \in shape.links :
    EdgePending(e) # None =>
      /\ \A b \in Attached(e) : b.pending # None
      /\ EdgePending(e) = MapThenSumSet(LAMBDA b : b.pending, Attached(e))
      /\ EdgePending(e) <= Most

\* No number of a view claims what is not known.
NumbersAreHonest == DrainedIsHonest /\ PendingIsWhole

\* A view comes, whatever the daemon does: "Never fails: a daemon that cannot be
\* reached leaves the shape as it was" (status.rs 155).
ViewComes == step = "ask" ~> step = "shown"
=============================================================================
