-------------------------- MODULE StatusViewProofs --------------------------
(***************************************************************************)
(* Proofs about StatusView, the metrics window it asks, and the kept       *)
(* client every question of it goes through.                               *)
(*                                                                         *)
(* The window, MetricsCache: for every set of vertices and every window an *)
(* answer is whole, no older than the window and its fetch, and never goes *)
(* back.  The view: buffers land on the edges they belong to, for every    *)
(* set of vertex names of which none reaches into the name of its          *)
(* pipeline.  That the longest match is the right one is a fact about      *)
(* sequences; that the kept topology knows every buffer's vertex needs an  *)
(* invariant.  The client, DaemonClient: answers are final, whatever the   *)
(* pods of the daemon and the other questions do.                          *)
(***************************************************************************)
EXTENDS StatusView, DaemonClient, FiniteSetTheorems, WellFoundedInduction, TLAPS

-----------------------------------------------------------------------------
(* The window of MetricsCache.                                             *)
(*                                                                         *)
(* The invariant relates three dates: what was asked, when the answer was  *)
(* put away, and when a fetch under way began.  Every answer is the held   *)
(* one, and whatever a fetch finds is newer than whatever is held.         *)

IdleInv == pc = "idle" => todo = {}

\* A fetch knows the vertices it is done with, each since it began, and began
\* when nothing newer was held.
FetchInv ==
  pc = "fetch" =>
    /\ Known(got) = kept \ todo
    /\ began <= now /\ heldAt <= began
    /\ \A v \in Known(got) : began <= got[v] /\ got[v] <= now

\* The held answer is whole, and was collected in the span before it was dated.
HeldInv ==
  heldAt # Never =>
    /\ Known(held) = kept /\ heldAt <= now
    /\ \A v \in Known(held) : heldAt - span <= held[v] /\ held[v] <= heldAt

\* The last answer is the held one, given inside its window.
AnswerInv ==
  IF answerAt = Never
    THEN heldAt = Never /\ answer = Nothing
    ELSE heldAt # Never /\ answer = held /\ answerAt - heldAt < Ttl

IInv == TypeOK /\ IdleInv /\ FetchInv /\ HeldInv /\ AnswerInv /\ NeverBackwards

LEMMA InitInv == Init => IInv
<1> SUFFICES ASSUME Init PROVE IInv
  OBVIOUS
<1> USE MetricsCacheAssumption DEF Init, Never
<1>1. TypeOK
  BY DEF TypeOK, Nothing
<1>2. IdleInv /\ FetchInv /\ HeldInv /\ AnswerInv
  BY DEF IdleInv, FetchInv, HeldInv, AnswerInv
<1>3. NeverBackwards
  BY DEF NeverBackwards, Known, Nothing
<1>4. QED
  BY <1>1, <1>2, <1>3 DEF IInv

LEMMA StepInv == IInv /\ [Next]_vars => IInv'
<1> SUFFICES ASSUME IInv, [Next]_vars PROVE IInv'
  OBVIOUS
<1> USE MetricsCacheAssumption DEF Never
<1>0. TypeOK /\ IdleInv /\ FetchInv /\ HeldInv /\ AnswerInv /\ NeverBackwards
  BY DEF IInv
<1>1. CASE PassTime
  <2>1. TypeOK'
    BY <1>0, <1>1 DEF TypeOK, PassTime
  <2>2. (IdleInv /\ AnswerInv /\ NeverBackwards)'
    BY <1>0, <1>1 DEF PassTime, IdleInv, AnswerInv, NeverBackwards, Known, Nothing
  <2>3. FetchInv'
    BY <1>0, <1>1 DEF PassTime, TypeOK, FetchInv, Known
  <2>4. HeldInv'
    BY <1>0, <1>1 DEF PassTime, TypeOK, HeldInv, Known
  <2>5. QED
    BY <2>1, <2>2, <2>3, <2>4 DEF IInv
<1>2. CASE AnswerHeld
  <2>1. TypeOK'
    BY <1>0, <1>2 DEF TypeOK, AnswerHeld, Give
  <2>2. (IdleInv /\ FetchInv /\ HeldInv)'
    BY <1>0, <1>2 DEF AnswerHeld, Give, IdleInv, FetchInv, HeldInv, Known
  <2>3. AnswerInv'
    BY <1>0, <1>2 DEF AnswerHeld, Recent, Give, AnswerInv, TypeOK
  <2>4. NeverBackwards'
    <3>1. answerAt = Never => Known(answer) = {}
      BY <1>0 DEF AnswerInv, Known, Nothing
    <3>2. answerAt # Never => answer' = answer
      BY <1>0, <1>2 DEF AnswerInv, AnswerHeld, Give
    <3>3. previous' = answer
      BY <1>2 DEF AnswerHeld, Give
    <3>4. QED
      BY <1>0, <3>1, <3>2, <3>3 DEF NeverBackwards, Known, TypeOK
  <2>5. QED
    BY <2>1, <2>2, <2>3, <2>4 DEF IInv
<1>3. CASE StartFetch
  <2>1. TypeOK'
    BY <1>0, <1>3 DEF TypeOK, StartFetch, Nothing
  <2>2. (IdleInv /\ HeldInv /\ AnswerInv /\ NeverBackwards)'
    BY <1>0, <1>3 DEF StartFetch, IdleInv, HeldInv, AnswerInv, NeverBackwards, Known, Nothing
  <2>3. FetchInv'
    <3>1. heldAt <= now
      BY <1>0 DEF HeldInv, TypeOK
    <3>2. Known(got') = {}
      BY <1>3 DEF StartFetch, Known, Nothing
    <3>3. QED
      BY <1>0, <1>3, <3>1, <3>2 DEF StartFetch, FetchInv, TypeOK
  <2>4. QED
    BY <2>1, <2>2, <2>3 DEF IInv
<1>4. CASE FetchFails
  <2>1. TypeOK'
    BY <1>0, <1>4 DEF TypeOK, FetchFails, Nothing
  <2>2. (IdleInv /\ FetchInv /\ HeldInv /\ AnswerInv /\ NeverBackwards)'
    BY <1>0, <1>4 DEF FetchFails, IdleInv, FetchInv, HeldInv, AnswerInv, NeverBackwards,
                      Known, Nothing
  <2>3. QED
    BY <2>1, <2>2 DEF IInv
<1>5. CASE FetchDone
  <2> USE <1>0, <1>5 DEF FetchDone, Remember, Give
  <2>1. Known(got) = kept
    BY DEF FetchInv
  <2>2. TypeOK'
    BY DEF TypeOK, FetchInv, Nothing
  <2>3. IdleInv' /\ FetchInv'
    BY DEF IdleInv, FetchInv
  <2>4. HeldInv'
    BY <2>1 DEF HeldInv, FetchInv, TypeOK, Known
  <2>5. AnswerInv'
    BY DEF AnswerInv, TypeOK
  <2>6. NeverBackwards'
    <3> SUFFICES ASSUME NEW v \in Vertices, answer[v] # Never, got[v] # Never
                 PROVE answer[v] <= got[v]
      BY DEF NeverBackwards, Known
    <3>1. answer = held /\ heldAt # Never
      BY DEF AnswerInv, Nothing
    <3>2. held[v] <= heldAt
      BY <3>1 DEF HeldInv, Known
    <3>3. heldAt <= began /\ began <= got[v]
      BY DEF FetchInv, Known
    <3>4. QED
      BY <3>1, <3>2, <3>3 DEF TypeOK
  <2>7. QED
    BY <2>2, <2>3, <2>4, <2>5, <2>6 DEF IInv
<1>6. ASSUME NEW v \in Vertices, AddVertex(v) PROVE IInv'
  BY <1>0, <1>6 DEF AddVertex, IInv, TypeOK, IdleInv, FetchInv, HeldInv, AnswerInv,
                    NeverBackwards, Known, Nothing
<1>7. ASSUME NEW v \in Vertices, FetchVertex(v) PROVE IInv'
  <2>1. TypeOK'
    BY <1>0, <1>7 DEF TypeOK, FetchVertex
  <2>2. (IdleInv /\ HeldInv /\ AnswerInv /\ NeverBackwards)'
    BY <1>0, <1>7 DEF FetchVertex, IdleInv, HeldInv, AnswerInv, NeverBackwards, Known, Nothing
  <2>3. FetchInv'
    <3>1. got' = [got EXCEPT ![v] = now] /\ got \in [Vertices -> Never..MaxTime]
      BY <1>0, <1>7 DEF FetchVertex, TypeOK
    <3>2. now # Never /\ v \in kept
      BY <1>0, <1>7 DEF TypeOK, FetchVertex
    <3>3. Known(got') = Known(got) \cup {v}
      BY <3>1, <3>2 DEF Known
    <3>4. Known(got') = kept \ todo'
      BY <1>0, <1>7, <3>2, <3>3 DEF FetchVertex, FetchInv
    <3>5. \A w \in Known(got') : began <= got'[w] /\ got'[w] <= now
      BY <1>0, <1>7, <3>1, <3>3 DEF FetchVertex, FetchInv, TypeOK, Known
    <3>6. QED
      BY <1>0, <1>7, <3>4, <3>5 DEF FetchVertex, FetchInv
  <2>4. QED
    BY <2>1, <2>2, <2>3 DEF IInv
<1>8. CASE UNCHANGED vars
  BY <1>0, <1>8 DEF vars, IInv, TypeOK, IdleInv, FetchInv, HeldInv, AnswerInv,
                    NeverBackwards, Known, Nothing
<1>9. QED
  BY <1>1, <1>2, <1>3, <1>4, <1>5, <1>6, <1>7, <1>8 DEF Next

\* In every reachable state the variables have their types.
THEOREM MetricsTypeCorrect == Spec => []TypeOK
<1>1. IInv => TypeOK
  BY DEF IInv
<1>2. QED
  BY InitInv, StepInv, <1>1, PTL DEF Spec

\* Every answer covers the client's topology (client.rs:341-353).
THEOREM MetricsWhole == Spec => []AnswersAreWhole
<1>1. IInv => AnswersAreWhole
  BY DEF IInv, AnswerInv, HeldInv, AnswersAreWhole
<1>2. QED
  BY InitInv, StepInv, <1>1, PTL DEF Spec

\* The age of an answer is bounded by the window and the time of its fetch
\* (client.rs:154-164).
THEOREM MetricsAge == Spec => []AgeIsBounded
<1>1. IInv => AgeIsBounded
  <2> SUFFICES ASSUME IInv, NEW v \in Vertices, answer[v] # Never
               PROVE answerAt - answer[v] < Ttl + span
    BY DEF AgeIsBounded, Known
  <2>1. answerAt # Never /\ heldAt # Never /\ answer = held /\ answerAt - heldAt < Ttl
    BY DEF IInv, AnswerInv, Nothing
  <2>2. heldAt - span <= held[v]
    BY <2>1 DEF IInv, HeldInv, Known
  <2>3. answerAt \in Int /\ heldAt \in Int /\ span \in Int /\ held[v] \in Int
    BY DEF IInv, TypeOK, Never
  <2>4. Ttl \in Int
    BY MetricsCacheAssumption
  <2>5. QED
    BY <2>1, <2>2, <2>3, <2>4
<1>2. QED
  BY InitInv, StepInv, <1>1, PTL DEF Spec

\* No caller sees a vertex's metrics go back (client.rs:161-164).
THEOREM MetricsNeverBackwards == Spec => []NeverBackwards
<1>1. IInv => NeverBackwards
  BY DEF IInv
<1>2. QED
  BY InitInv, StepInv, <1>1, PTL DEF Spec

\* The three together.
THEOREM MetricsHonest == Spec => []MetricsAreHonest
BY MetricsWhole, MetricsAge, MetricsNeverBackwards, PTL DEF MetricsAreHonest

-----------------------------------------------------------------------------
(* Names.                                                                  *)

\* A name ends the name of each of its buffers.
LEMMA EndsItself ==
  ASSUME NEW v \in Seq(STRING)
  PROVE  EndsWith(Prefix \o v, v)
<1> DEFINE s == Prefix \o v
<1>1. Prefix \in Seq(STRING)
  BY StatusViewAssumption DEF StatusViewAssumption
<1>2. s \in Seq(STRING) /\ Len(s) = Len(Prefix) + Len(v)
  BY <1>1
<1>3. Len(Prefix) \in Nat /\ Len(v) \in Nat
  BY <1>1
<1>4. ASSUME NEW i \in 1..Len(v)
      PROVE  s[Len(s) - Len(v) + i] = v[i]
  <2>1. Len(s) - Len(v) + i = Len(Prefix) + i
    BY <1>2, <1>3
  <2>2. s[Len(Prefix) + i] = v[i]
    BY <1>1, <1>3
  <2> QED BY <2>1, <2>2
<1> QED BY <1>2, <1>3, <1>4 DEF EndsWith

\* Two endings of the same length are the same.
LEMMA EndsUnique ==
  ASSUME NEW s \in Seq(STRING), NEW v \in Seq(STRING), NEW w \in Seq(STRING),
         EndsWith(s, v), EndsWith(s, w), Len(v) = Len(w)
  PROVE  v = w
<1>1. \A i \in 1..Len(v) : v[i] = w[i]
  BY DEF EndsWith
<1> QED BY <1>1

\* ends_for finds the vertex of every buffer it has the vertex of.
LEMMA OwnerIsRight ==
  ASSUME NamesApart, kept \in SUBSET Vertices, NEW v \in kept
  PROVE  Owner(v) = v
<1>1. Vertices \subseteq Seq(STRING) /\ Prefix \in Seq(STRING)
  BY StatusViewAssumption DEF StatusViewAssumption
<1>2. v \in Seq(STRING) /\ v \in Vertices
  BY <1>1
<1>3. v \in Candidates(v)
  BY <1>2, EndsItself DEF Candidates
<1>4. ASSUME NEW u \in Candidates(v)
      PROVE  u \in Vertices /\ EndsWith(Prefix \o v, u) /\ Len(u) <= Len(v)
  BY <1>2, <1>4 DEF Candidates, NamesApart
<1> DEFINE Longest(w) == \A u \in Candidates(v) : Len(u) <= Len(w)
<1>5. Longest(v)
  BY <1>4
<1>6. ASSUME NEW w \in Candidates(v), Longest(w)
      PROVE  w = v
  <2>1. w \in Seq(STRING) /\ EndsWith(Prefix \o v, w)
    BY <1>1, <1>4
  <2>2. Len(w) <= Len(v) /\ Len(v) <= Len(w)
    BY <1>3, <1>4, <1>6
  <2>3. Len(w) \in Nat /\ Len(v) \in Nat
    BY <1>2, <2>1
  <2>4. Len(v) = Len(w)
    BY <2>2, <2>3
  <2>5. Prefix \o v \in Seq(STRING) /\ EndsWith(Prefix \o v, v)
    BY <1>1, <1>2, EndsItself
  <2> QED BY <1>2, <2>1, <2>4, <2>5, EndsUnique
<1>7. Owner(v) = CHOOSE w \in Candidates(v) : Longest(w)
  BY <1>3 DEF Owner
<1> QED BY <1>3, <1>5, <1>6, <1>7

-----------------------------------------------------------------------------
(* The invariant.                                                          *)

\* Edges lead between vertices the pipeline has, the shape is no newer than the
\* pipeline, and every buffer the daemon names belongs to a vertex with an edge
\* into it.
InPlaceInv ==
  /\ kept \in SUBSET Vertices
  /\ links \in SUBSET (Links \cap (actual \X actual))
  /\ shape.links \subseteq links
  /\ \A b \in buffers : \E e \in links : e[2] = b.of

\* The questions change neither the pipeline nor what the client knows of it.
LEMMA AskingKeepsPipeline ==
  ASSUME Asking
  PROVE  UNCHANGED <<actual, kept, links, shape>>
<1>1. CASE AskMetrics
  BY <1>1 DEF AskMetrics, StartFetch, FetchVertex, AnswerHeld, FetchDone, FetchFails,
              Unmoved
<1>2. CASE AnswerBuffers
  BY <1>2 DEF AnswerBuffers, Unmoved, vars
<1>3. CASE BuffersFail
  BY <1>3 DEF BuffersFail, Unmoved, vars
<1> QED BY <1>1, <1>2, <1>3 DEF Asking

LEMMA InPlaceInit == StatusInit => InPlaceInv
BY DEF StatusInit, Init, InPlaceInv

LEMMA InPlaceStep ==
  InPlaceInv /\ [StatusNext]_<<vars, statusVars>> => InPlaceInv'
<1> SUFFICES ASSUME InPlaceInv, [StatusNext]_<<vars, statusVars>>
             PROVE  InPlaceInv'
  OBVIOUS
<1>1. CASE AddVertexTo
  <2>1. PICK v \in Vertices :
          /\ AddVertex(v)
          /\ \E new \in SUBSET {e \in Links : v \in {e[1], e[2]}} :
               /\ new # {} /\ new \subseteq actual' \X actual'
               /\ links' = links \cup new
          /\ UNCHANGED <<keptLinks, step, shape, asked, buffers>>
    BY <1>1 DEF AddVertexTo
  <2>2. PICK new \in SUBSET {e \in Links : v \in {e[1], e[2]}} :
          new \subseteq actual' \X actual' /\ links' = links \cup new
    BY <2>1
  <2>3. actual' = actual \cup {v} /\ UNCHANGED <<kept, shape, buffers>>
    BY <2>1 DEF AddVertex
  <2>4. links' \in SUBSET (Links \cap (actual' \X actual'))
    BY <2>2, <2>3 DEF InPlaceInv
  <2> QED BY <2>2, <2>3, <2>4 DEF InPlaceInv
<1>2. CASE ReadShape
  BY <1>2 DEF ReadShape, InPlaceInv, vars
<1>3. CASE AskMetrics
  <2>1. UNCHANGED <<actual, kept, links, shape>>
    BY <1>3, AskingKeepsPipeline DEF Asking
  <2>2. UNCHANGED buffers
    BY <1>3 DEF AskMetrics
  <2> QED BY <2>1, <2>2 DEF InPlaceInv
<1>4. CASE AnswerBuffers
  <2>1. UNCHANGED <<actual, kept, links, shape>>
    BY <1>4, AskingKeepsPipeline DEF Asking
  <2>2. PICK r \in [Slots -> Reports] :
          buffers' = {[of |-> s[1], part |-> s[2], pending |-> r[s].pending,
                       unacked |-> r[s].unacked] : s \in Slots}
    BY <1>4 DEF AnswerBuffers
  <2>3. ASSUME NEW b \in buffers'
        PROVE  \E e \in links : e[2] = b.of
    <3>1. PICK s \in Slots : b.of = s[1]
      BY <2>2, <2>3
    <3> QED BY <3>1 DEF Slots
  <2> QED BY <2>1, <2>3 DEF InPlaceInv
<1>5. CASE BuffersFail
  <2>1. UNCHANGED <<actual, kept, links, shape>>
    BY <1>5, AskingKeepsPipeline DEF Asking
  <2>2. UNCHANGED buffers
    BY <1>5 DEF BuffersFail
  <2> QED BY <2>1, <2>2 DEF InPlaceInv
<1>6. CASE Assemble
  BY <1>6 DEF Assemble, InPlaceInv, vars
<1>7. CASE PassTime /\ UNCHANGED statusVars
  BY <1>7 DEF PassTime, InPlaceInv, statusVars
<1>8. CASE UNCHANGED <<vars, statusVars>>
  BY <1>8 DEF InPlaceInv, vars, statusVars
<1> QED BY <1>1, <1>2, <1>3, <1>4, <1>5, <1>6, <1>7, <1>8 DEF StatusNext, Asking

\* Every edge shows exactly the buffers of the vertex it leads to, whatever the
\* names, as long as none reaches into the pipeline's (ends_for, client.rs
\* 245-271; assemble, status.rs 279-291).
THEOREM StatusBuffersInPlace ==
  ASSUME NamesApart
  PROVE  StatusSpec => []BuffersInPlace
<1>1. InPlaceInv => BuffersInPlace
  <2> SUFFICES ASSUME InPlaceInv, Current, NEW e \in shape.links
               PROVE  Attached(e) = {b \in buffers : b.of = e[2]}
    BY DEF BuffersInPlace
  <2>1. e \in keptLinks
    BY DEF InPlaceInv, Current
  <2>2. ASSUME NEW b \in buffers PROVE Owner(b.of) = b.of
    <3>1. b.of \in kept
      BY DEF InPlaceInv, Current
    <3>2. kept \in SUBSET Vertices
      BY DEF InPlaceInv
    <3> QED BY <3>1, <3>2, OwnerIsRight
  <2> QED BY <2>1, <2>2 DEF Attached
<1> QED BY <1>1, InPlaceInit, InPlaceStep, PTL DEF StatusSpec

-----------------------------------------------------------------------------
(* The metrics.                                                            *)

\* Whatever else a view asks, and however the pipeline changes meanwhile, the
\* metrics are those of MetricsCache (ask, status.rs 219-226): its theorems hold
\* of the view too.
THEOREM StatusImplementsMetrics == StatusSpec => Spec
<1>1. StatusInit => Init
  BY DEF StatusInit
<1>2. [StatusNext]_<<vars, statusVars>> => [Next]_vars
  <2> SUFFICES ASSUME [StatusNext]_<<vars, statusVars>> PROVE Next \/ UNCHANGED vars
    OBVIOUS
  <2>1. CASE AddVertexTo
    BY <2>1 DEF AddVertexTo, Next
  <2>2. CASE AskMetrics
    BY <2>2 DEF AskMetrics, Next
  <2>3. CASE PassTime /\ UNCHANGED statusVars
    BY <2>3 DEF Next
  <2>4. CASE ReadShape \/ AnswerBuffers \/ BuffersFail \/ Assemble
    BY <2>4 DEF ReadShape, AnswerBuffers, BuffersFail, Assemble, vars
  <2>5. CASE UNCHANGED <<vars, statusVars>>
    BY <2>5
  <2> QED BY <2>1, <2>2, <2>3, <2>4, <2>5 DEF StatusNext, Asking
<1> QED BY <1>1, <1>2, PTL DEF StatusSpec, Spec

\* Every view's metrics cover what the client knows of, are no older than the
\* window and their fetch, and never go back from one view to the next
\* (client.rs 154-164 and 329-353).
THEOREM StatusMetrics ==
  StatusSpec => []MetricsAreHonest
BY StatusImplementsMetrics, MetricsHonest, PTL

-----------------------------------------------------------------------------
(* The types, and drained.                                                 *)

LEMMA StatusTypeInit == StatusInit => StatusTypeOK
BY DEF StatusInit, StatusTypeOK, Topology

\* What the daemon says of the buffers it has.
LEMMA BuffersTyped ==
  ASSUME links \in SUBSET Links, NEW r \in [Slots -> Reports], NEW s \in Slots
  PROVE  [of |-> s[1], part |-> s[2], pending |-> r[s].pending, unacked |-> r[s].unacked]
           \in Buffer
<1>1. /\ Links \subseteq Vertices \X Vertices /\ Parts \in [Vertices -> Nat \ {0}] /\ Most \in Nat
      /\ Reports \subseteq [pending : (0..Most) \cup {None}, unacked : (0..Most) \cup {None}]
  BY StatusViewAssumption DEF StatusViewAssumption
<1>2. PICK e \in links : s \in {e[2]} \X (1..Parts[e[2]])
  BY DEF Slots
<1>3. e[2] \in Vertices
  BY <1>1
<1>4. s[1] \in Vertices /\ s[2] \in Nat
  BY <1>1, <1>2, <1>3
<1>5. r[s].pending \in Nat \cup {None} /\ r[s].unacked \in Nat \cup {None}
  <2>1. r[s] \in [pending : (0..Most) \cup {None}, unacked : (0..Most) \cup {None}]
    BY <1>1
  <2> QED BY <2>1
<1> QED BY <1>4, <1>5 DEF Buffer

LEMMA StatusTypeStep ==
  TypeOK /\ StatusTypeOK /\ [StatusNext]_<<vars, statusVars>> => StatusTypeOK'
<1> SUFFICES ASSUME TypeOK, StatusTypeOK, [StatusNext]_<<vars, statusVars>>
             PROVE  StatusTypeOK'
  OBVIOUS
<1>0. /\ links \in SUBSET Links /\ asked \in [{"metrics", "buffers"} -> {"waiting", "ok", "failed"}]
      /\ actual \in SUBSET Vertices
  BY DEF StatusTypeOK, TypeOK
<1>1. CASE AddVertexTo
  BY <1>1 DEF AddVertexTo, StatusTypeOK
<1>2. CASE ReadShape
  <2>1. [vertices |-> actual, links |-> links] \in Topology
    BY <1>0 DEF Topology
  <2>2. asked' \in [{"metrics", "buffers"} -> {"waiting", "ok", "failed"}]
    BY <1>0, <1>2 DEF ReadShape
  <2> QED BY <1>2, <2>1, <2>2 DEF ReadShape, StatusTypeOK
<1>3. ASSUME NEW q \in {"metrics", "buffers"}, NEW how \in {"ok", "failed"}, Answered(q, how)
      PROVE  asked' \in [{"metrics", "buffers"} -> {"waiting", "ok", "failed"}]
  BY <1>0, <1>3 DEF Answered
<1>4. CASE AskMetrics
  <2>1. asked' \in [{"metrics", "buffers"} -> {"waiting", "ok", "failed"}]
    BY <1>0, <1>3, <1>4 DEF AskMetrics
  <2> QED BY <1>4, <2>1 DEF AskMetrics, Unmoved, StatusTypeOK
<1>5. CASE AnswerBuffers
  <2>1. PICK r \in [Slots -> Reports] :
          buffers' = {[of |-> s[1], part |-> s[2], pending |-> r[s].pending,
                       unacked |-> r[s].unacked] : s \in Slots}
    BY <1>5 DEF AnswerBuffers
  <2>2. buffers' \in SUBSET Buffer
    BY <1>0, <2>1, BuffersTyped
  <2>3. asked' \in [{"metrics", "buffers"} -> {"waiting", "ok", "failed"}]
    BY <1>3, <1>5 DEF AnswerBuffers
  <2> QED BY <1>5, <2>2, <2>3 DEF AnswerBuffers, Unmoved, StatusTypeOK
<1>6. CASE BuffersFail
  <2>1. asked' \in [{"metrics", "buffers"} -> {"waiting", "ok", "failed"}]
    BY <1>3, <1>6 DEF BuffersFail
  <2> QED BY <1>6, <2>1 DEF BuffersFail, Unmoved, StatusTypeOK
<1>7. CASE Assemble
  BY <1>7 DEF Assemble, StatusTypeOK
<1>8. CASE UNCHANGED statusVars
  BY <1>8 DEF statusVars, StatusTypeOK
<1> QED BY <1>1, <1>2, <1>4, <1>5, <1>6, <1>7, <1>8 DEF StatusNext, Asking

\* What is asked, read and shown keeps its shape, and a buffer is one of a vertex
\* (status.rs 155-230).
THEOREM StatusTypesOK == StatusSpec => []TypesOK
<1>1. StatusSpec => []TypeOK
  BY StatusImplementsMetrics, MetricsTypeCorrect, PTL
<1> QED BY <1>1, StatusTypeInit, StatusTypeStep, PTL DEF StatusSpec, TypesOK

\* The pipeline only grows: once it has outgrown what the client was made for it
\* stays so, and until then a view shows all of it.
ShapeInv ==
  /\ kept \subseteq actual
  /\ kept = actual /\ step # "idle" => shape.links = links

LEMMA ShapeStep ==
  ShapeInv /\ [StatusNext]_<<vars, statusVars>> => ShapeInv'
<1> SUFFICES ASSUME ShapeInv, [StatusNext]_<<vars, statusVars>> PROVE ShapeInv'
  OBVIOUS
<1>1. CASE AddVertexTo
  <2>1. PICK v \in Vertices : AddVertex(v)
    BY <1>1 DEF AddVertexTo
  <2>2. v \notin actual /\ actual' = actual \cup {v} /\ kept' = kept
    BY <2>1 DEF AddVertex
  <2> QED BY <2>2 DEF ShapeInv
<1>2. CASE ReadShape
  BY <1>2 DEF ReadShape, ShapeInv, vars
<1>3. CASE Asking
  <2>1. UNCHANGED step
    BY <1>3 DEF Asking, AskMetrics, AnswerBuffers, BuffersFail, Unmoved
  <2> QED BY <1>3, <2>1, AskingKeepsPipeline DEF ShapeInv
<1>4. CASE Assemble
  BY <1>4 DEF Assemble, ShapeInv, vars
<1>5. CASE PassTime /\ UNCHANGED statusVars
  BY <1>5 DEF PassTime, ShapeInv, statusVars
<1>6. CASE UNCHANGED <<vars, statusVars>>
  BY <1>6 DEF ShapeInv, vars, statusVars
<1> QED BY <1>1, <1>2, <1>3, <1>4, <1>5, <1>6 DEF StatusNext

\* A view that says drained leaves out no buffer that is not empty, while the
\* pipeline is the one the client was made for (status.rs 111): the part of
\* NumbersAreHonest that is not about a sum.
THEOREM DrainedHonest ==
  ASSUME NamesApart
  PROVE  StatusSpec => []DrainedIsHonest
<1>1. StatusInit => ShapeInv
  BY DEF StatusInit, Init, ShapeInv
<1>2. InPlaceInv /\ ShapeInv /\ BuffersInPlace => DrainedIsHonest
  <2> SUFFICES ASSUME InPlaceInv, ShapeInv, BuffersInPlace, Current, Shown, Drained = "yes",
                      NEW b \in buffers
               PROVE  b.pending = 0 /\ b.unacked = 0
    BY DEF DrainedIsHonest, DrainedMeansEmpty
  <2>1. PICK e \in links : e[2] = b.of
    BY DEF InPlaceInv
  <2>2. e \in shape.links
    BY <2>1 DEF ShapeInv, Current, Shown
  <2>3. b \in Attached(e)
    BY <2>1, <2>2 DEF BuffersInPlace
  <2> DEFINE all == UNION {Attached(f) : f \in shape.links}
  <2>4. b \in all
    BY <2>2, <2>3
  <2> HIDE DEF all
  <2>5. Drained = IF all = {} THEN "unknown"
                  ELSE IF \A c \in all : c.pending = 0 /\ c.unacked = 0 THEN "yes" ELSE "no"
    BY DEF Drained, all
  <2> QED BY <2>4, <2>5
<1> QED BY <1>1, <1>2, InPlaceInit, InPlaceStep, ShapeStep, StatusBuffersInPlace, PTL
        DEF StatusSpec

-----------------------------------------------------------------------------
(***************************************************************************)
(* The sums.  The folds of the community modules are recursive functions:  *)
(* they are looked at as functions on the subsets of a finite set, whose   *)
(* recursion has a solution, and compared on the smallest set on which     *)
(* they would differ.                                                      *)
(***************************************************************************)
\* A set of naturals has a least element.
LEMMA LeastNat ==
  ASSUME NEW S \in SUBSET Nat, S # {}
  PROVE  Min(S) \in S /\ \A y \in S : Min(S) <= y
<1> DEFINE below(x) == {y \in S : y <= x}
           T == {below(x) : x \in S}
<1>1. ASSUME NEW x \in S PROVE below(x) \in FiniteSubsetsOf(Nat)
  <2>0. x \in Nat /\ \A z \in S : z \in Nat
    OBVIOUS
  <2>3. ASSUME NEW y \in S, y <= x PROVE y \in 0..x
    BY <2>0, <2>3
  <2>4. IsFiniteSet(0..x)
    BY <2>0, FS_Interval
  <2>1. below(x) \in SUBSET (0..x) /\ IsFiniteSet(0..x)
    BY <2>3, <2>4
  <2>2. IsFiniteSet(below(x))
    BY <2>1, FS_Subset
  <2> QED BY <2>2 DEF FiniteSubsetsOf
<1>2. T \subseteq FiniteSubsetsOf(Nat) /\ T # {}
  BY <1>1
<1>3. PICK B \in T : \A C \in T : <<C, B>> \notin StrictSubsetOrdering(Nat)
  <2> HIDE DEF T
  <2> QED BY <1>2, FS_StrictSubsetOrderingWellFounded, WFMin
<1>4. PICK x \in S : B = below(x)
  BY <1>3
<1>5. ASSUME NEW y \in S PROVE x <= y
  <2>0. x \in Nat /\ y \in Nat /\ \A z \in S : z \in Nat
    OBVIOUS
  <2> SUFFICES ASSUME y < x PROVE FALSE
    BY <2>0
  <2>1. below(y) \subseteq below(x) /\ x \in below(x) /\ x \notin below(y)
    <3>1. x <= x /\ ~(x <= y)
      BY <2>0
    <3>2. ASSUME NEW z \in S, z <= y PROVE z <= x
      BY <2>0, <3>2
    <3> QED BY <3>1, <3>2
  <2>2. <<below(y), below(x)>> \in StrictSubsetOrdering(Nat)
    BY <2>1 DEF StrictSubsetOrdering
  <2> QED BY <1>3, <1>4, <2>2
<1> HIDE DEF T, below
<1> QED BY <1>5 DEF Min

\* What picks an element of every set but the empty one.
Pick(s) == CHOOSE x \in s : TRUE

\* One step of a fold f, from base and by the operation op.
Folds(f, s, base, op) == IF s = {} THEN base ELSE op[Pick(s), f[s \ {Pick(s)}]]

HasFold(S, V, base, op) ==
  \E f \in [SUBSET S -> V] : \A s \in SUBSET S : f[s] = Folds(f, s, base, op)

\* A fold of the subsets of a finite set exists.
LEMMA FoldExists ==
  ASSUME NEW S, NEW V, NEW base, NEW op,
         IsFiniteSet(S) /\ base \in V /\ op \in [S \X V -> V]
  PROVE  HasFold(S, V, base, op)
<1> DEFINE Fold(f, s) == Folds(f, s, base, op)
           Solved(n) == \E f \in [SUBSET S -> V] :
                          \A s \in SUBSET S : Cardinality(s) <= n => f[s] = Fold(f, s)
           bad == {n \in Nat : ~Solved(n)}
<1>1. \A s \in SUBSET S : IsFiniteSet(s) /\ Cardinality(s) \in Nat
  BY FS_Subset, FS_CardinalityType
<1>2. ASSUME NEW s \in SUBSET S, s # {}
      PROVE  /\ Pick(s) \in S /\ s \ {Pick(s)} \in SUBSET S
             /\ Cardinality(s \ {Pick(s)}) = Cardinality(s) - 1
  <2>1. Pick(s) \in s
    BY <1>2 DEF Pick
  <2>2. IsFiniteSet(s)
    BY <1>1
  <2> QED BY <2>1, <2>2, FS_RemoveElement
<1>3. ASSUME NEW f \in [SUBSET S -> V], NEW s \in SUBSET S PROVE Fold(f, s) \in V
  <2>1. CASE s = {}
    BY <2>1 DEF Folds
  <2>2. CASE s # {}
    <3>1. Pick(s) \in S /\ f[s \ {Pick(s)}] \in V
      BY <1>2, <2>2
    <3> QED BY <2>2, <3>1 DEF Folds
  <2> QED BY <2>1, <2>2
<1>4. \A f, g, s : s = {} \/ f[s \ {Pick(s)}] = g[s \ {Pick(s)}] => Fold(f, s) = Fold(g, s)
  BY DEF Folds
<1>5. bad = {}
  <2> SUFFICES ASSUME bad # {} PROVE FALSE
    OBVIOUS
  <2> HIDE DEF Solved
  <2> DEFINE m == Min(bad)
  <2>1. m \in bad /\ \A k \in bad : m <= k
    BY LeastNat
  <2>2. m \in Nat /\ ~Solved(m) /\ \A k \in Nat : k < m => Solved(k)
    <3>1. m \in Nat /\ ~Solved(m)
      BY <2>1
    <3>2. ASSUME NEW k \in Nat, k < m PROVE Solved(k)
      <4>1. k \notin bad
        <5> HIDE DEF m, bad
        <5> QED BY <2>1, <3>1, <3>2
      <4> QED BY <4>1
    <3> QED BY <3>1, <3>2
  <2> HIDE DEF m, bad, Fold
  <2>3. m # 0
    <3> SUFFICES ASSUME m = 0 PROVE FALSE
      OBVIOUS
    <3> DEFINE g == [s \in SUBSET S |-> base]
    <3>1. \A s \in SUBSET S : Cardinality(s) <= 0 => s = {}
      BY <1>1, FS_EmptySet
    <3>2. g \in [SUBSET S -> V] /\ \A s \in SUBSET S : Cardinality(s) <= 0 => g[s] = Fold(g, s)
      BY <3>1 DEF Fold, Folds
    <3> HIDE DEF g
    <3> QED BY <2>2, <3>2 DEF Solved
  <2>4. PICK f \in [SUBSET S -> V] : \A s \in SUBSET S : Cardinality(s) <= m - 1 => f[s] = Fold(f, s)
    <3>1. m - 1 \in Nat /\ m - 1 < m
      BY <2>2, <2>3
    <3> QED BY <2>2, <3>1 DEF Solved
  <2> DEFINE g == [s \in SUBSET S |-> Fold(f, s)]
  <2>5. g \in [SUBSET S -> V]
    BY <1>3
  <2>6. \A s \in SUBSET S : g[s] = Fold(f, s) /\ (Cardinality(s) <= m - 1 => g[s] = f[s])
    BY <2>4
  <2> HIDE DEF g
  <2>7. ASSUME NEW s \in SUBSET S, Cardinality(s) <= m PROVE g[s] = Fold(g, s)
    <3>1. CASE s = {}
      BY <1>4, <2>6, <3>1
    <3>2. CASE s # {}
      <4>1. s \ {Pick(s)} \in SUBSET S /\ Cardinality(s \ {Pick(s)}) <= m - 1
        BY <1>1, <1>2, <2>2, <2>7, <3>2
      <4>2. g[s \ {Pick(s)}] = f[s \ {Pick(s)}]
        BY <2>6, <4>1
      <4> QED BY <1>4, <2>6, <4>2
    <3> QED BY <3>1, <3>2
  <2> QED BY <2>2, <2>5, <2>7 DEF Solved
<1>6. Solved(Cardinality(S))
  BY <1>1, <1>5
<1>7. \A s \in SUBSET S : Cardinality(s) <= Cardinality(S)
  BY FS_Subset
<1> QED BY <1>6, <1>7 DEF HasFold

\* What total_pending says of some buffers and of all that came before them: it knows
\* the sum only when it knows every count, and then it is within 64 bits.
TotalOf(f, S) ==
  f = [s \in SUBSET S |->
         IF s = {} THEN 0
         ELSE IF f[s \ {Pick(s)}] = None \/ Pick(s).pending = None THEN None
         ELSE IF f[s \ {Pick(s)}] + Pick(s).pending > Most THEN None
         ELSE f[s \ {Pick(s)}] + Pick(s).pending]
SumOf(f, S) == f = [s \in SUBSET S |-> IF s = {} THEN 0 ELSE Pick(s).pending + f[s \ {Pick(s)}]]

LEMMA TotalPendingIs ==
  ASSUME NEW S
  PROVE  TotalPending(S) = (CHOOSE f : TotalOf(f, S))[S]
BY DEF TotalPending, FoldSet, MapThenFoldSet, TotalOf, Pick

LEMMA SumIs ==
  ASSUME NEW S
  PROVE  MapThenSumSet(LAMBDA b : b.pending, S) = (CHOOSE f : SumOf(f, S))[S]
BY DEF MapThenSumSet, MapThenFoldSet, SumOf, Pick

LEMMA TotalExists ==
  ASSUME NEW S \in SUBSET Buffer, IsFiniteSet(S)
  PROVE  \E f : TotalOf(f, S)
<1> DEFINE V == Nat \cup {None}
           op == [x \in S \X V |->
                    IF x[2] = None \/ x[1].pending = None THEN None
                    ELSE IF x[2] + x[1].pending > Most THEN None ELSE x[2] + x[1].pending]
<1>1. Most \in Nat /\ None \notin Nat
  BY StatusViewAssumption DEF StatusViewAssumption
<1>2. \A b \in S : b.pending \in V
  BY DEF Buffer
<1>3. op \in [S \X V -> V]
  BY <1>1, <1>2
<1>4. \A b \in S, v \in V : op[b, v] = IF v = None \/ b.pending = None THEN None
                                       ELSE IF v + b.pending > Most THEN None ELSE v + b.pending
  OBVIOUS
<1> HIDE DEF op
<1> DEFINE zero == 0
<1>5. zero \in V
  OBVIOUS
<1> HIDE DEF V, zero
<1>6. PICK f \in [SUBSET S -> V] :
        \A s \in SUBSET S : f[s] = Folds(f, s, zero, op)
  <2>1. HasFold(S, V, zero, op)
    BY <1>3, <1>5, FoldExists
  <2> QED BY <2>1 DEF HasFold
<1> USE DEF zero
<1>7. ASSUME NEW s \in SUBSET S, s # {}
      PROVE  Pick(s) \in S /\ f[s \ {Pick(s)}] \in V
  BY <1>6, <1>7 DEF Pick
<1>8. ASSUME NEW s \in SUBSET S
      PROVE  f[s] =
               IF s = {} THEN 0
               ELSE IF f[s \ {Pick(s)}] = None \/ Pick(s).pending = None THEN None
               ELSE IF f[s \ {Pick(s)}] + Pick(s).pending > Most THEN None
               ELSE f[s \ {Pick(s)}] + Pick(s).pending
  BY <1>4, <1>6, <1>7 DEF Folds
<1>9. f = [s \in SUBSET S |-> f[s]]
  BY <1>6
<1> QED BY <1>8, <1>9 DEF TotalOf

LEMMA SumExists ==
  ASSUME NEW S, IsFiniteSet(S), \A b \in S : b.pending \in Nat
  PROVE  \E f : SumOf(f, S)
<1> DEFINE op == [x \in S \X Nat |-> x[1].pending + x[2]]
           zero == 0
<1>1. op \in [S \X Nat -> Nat] /\ \A b \in S, v \in Nat : op[b, v] = b.pending + v
  <2>1. \A x \in S \X Nat : x[1] \in S /\ x[2] \in Nat
    OBVIOUS
  <2>2. \A x \in S \X Nat : x[1].pending + x[2] \in Nat
    BY <2>1
  <2> QED BY <2>2
<1>0. zero \in Nat
  OBVIOUS
<1> HIDE DEF op, zero
<1>2. PICK f \in [SUBSET S -> Nat] :
        \A s \in SUBSET S : f[s] = Folds(f, s, zero, op)
  <2>1. HasFold(S, Nat, zero, op)
    BY <1>0, <1>1, FoldExists
  <2> QED BY <2>1 DEF HasFold
<1> USE DEF zero
<1>3. ASSUME NEW s \in SUBSET S, s # {}
      PROVE  Pick(s) \in S /\ f[s \ {Pick(s)}] \in Nat
  BY <1>2, <1>3 DEF Pick
<1>4. ASSUME NEW s \in SUBSET S
      PROVE  f[s] = IF s = {} THEN 0 ELSE Pick(s).pending + f[s \ {Pick(s)}]
  BY <1>1, <1>2, <1>3 DEF Folds
<1>5. f = [s \in SUBSET S |-> f[s]]
  BY <1>2
<1> QED BY <1>4, <1>5 DEF SumOf

\* A property of the subsets of a finite set that has no smallest counterexample holds.
LEMMA SmallestSubset ==
  ASSUME NEW S, IsFiniteSet(S), NEW bad \in SUBSET SUBSET S, bad # {}
  PROVE  \E s \in bad : \A t \in bad : ~(t \subseteq s /\ t # s)
<1>1. bad \subseteq FiniteSubsetsOf(S)
  BY FS_Subset DEF FiniteSubsetsOf
<1>2. PICK s \in bad : \A t \in bad : <<t, s>> \notin StrictSubsetOrdering(S)
  BY <1>1, FS_StrictSubsetOrderingWellFounded, WFMin
<1> QED BY <1>1, <1>2 DEF StrictSubsetOrdering

\* A number that total_pending gives is the whole sum.
LEMMA TotalIsWhole ==
  ASSUME NEW S \in SUBSET Buffer, IsFiniteSet(S), TotalPending(S) # None
  PROVE  /\ \A b \in S : b.pending # None
         /\ TotalPending(S) = MapThenSumSet(LAMBDA b : b.pending, S)
         /\ TotalPending(S) <= Most
<1> DEFINE total == CHOOSE f : TotalOf(f, S)
           sum == CHOOSE f : SumOf(f, S)
<1>1. TotalOf(total, S) /\ TotalPending(S) = total[S] /\ total[S] # None
  BY TotalExists, TotalPendingIs
<1>2. MapThenSumSet(LAMBDA b : b.pending, S) = sum[S]
  BY SumIs
<1>3. (\A b \in S : b.pending \in Nat) => SumOf(sum, S)
  BY SumExists
<1> HIDE DEF total, sum
<1>4. Most \in Nat /\ None \notin Nat /\ \A b \in S : b.pending \in Nat \cup {None}
  BY StatusViewAssumption DEF StatusViewAssumption, Buffer
<1>5. ASSUME NEW s \in SUBSET S, s # {}
      PROVE  Pick(s) \in s /\ s \ {Pick(s)} \in SUBSET S /\ s \ {Pick(s)} # s
             /\ s \ {Pick(s)} \subseteq s
  <2>1. Pick(s) \in s
    BY <1>5 DEF Pick
  <2> QED BY <2>1
<1>6. ASSUME NEW s \in SUBSET S
      PROVE  total[s] =
               IF s = {} THEN 0
               ELSE IF total[s \ {Pick(s)}] = None \/ Pick(s).pending = None THEN None
               ELSE IF total[s \ {Pick(s)}] + Pick(s).pending > Most THEN None
               ELSE total[s \ {Pick(s)}] + Pick(s).pending
  BY <1>1, <1>6, Zenon DEF TotalOf
<1> DEFINE Counted(s) == total[s] # None =>
                         total[s] \in 0..Most /\ \A b \in s : b.pending \in Nat
           odd == {s \in SUBSET S : ~Counted(s)}
<1>7. ASSUME NEW s \in SUBSET S, s # {}, Counted(s \ {Pick(s)}) PROVE Counted(s)
  <2> SUFFICES ASSUME total[s] # None PROVE total[s] \in 0..Most /\ \A b \in s : b.pending \in Nat
    OBVIOUS
  <2> DEFINE before == total[s \ {Pick(s)}]
             count == Pick(s).pending
  <2>1. before # None /\ count # None /\ ~(before + count > Most) /\ total[s] = before + count
    BY <1>6, <1>7
  <2>2. before \in 0..Most /\ \A b \in s \ {Pick(s)} : b.pending \in Nat
    BY <1>7, <2>1
  <2>3. count \in Nat
    BY <1>4, <1>5, <1>7, <2>1
  <2> HIDE DEF before, count
  <2>4. total[s] \in 0..Most
    BY <1>4, <2>1, <2>2, <2>3
  <2> QED BY <2>2, <2>3, <2>4 DEF count
<1>8. Counted({})
  <2>1. total[{}] = 0
    BY <1>6
  <2>2. 0 \in 0..Most
    BY <1>4
  <2> QED BY <2>1, <2>2
<1> HIDE DEF Counted
<1>9. \A s \in SUBSET S : Counted(s)
  <2> SUFFICES ASSUME odd # {} PROVE FALSE
    OBVIOUS
  <2>0. odd \in SUBSET SUBSET S
    OBVIOUS
  <2> HIDE DEF odd
  <2>1. PICK s \in odd : \A t \in odd : ~(t \subseteq s /\ t # s)
    BY <2>0, SmallestSubset
  <2> USE DEF odd
  <2>2. s \in SUBSET S /\ ~Counted(s) /\ s # {}
    BY <1>8, <2>1
  <2>3. Counted(s \ {Pick(s)})
    BY <1>5, <2>1, <2>2
  <2> QED BY <1>7, <2>2, <2>3
<1>10. total[S] \in 0..Most /\ \A b \in S : b.pending \in Nat
  BY <1>1, <1>9 DEF Counted
<1>11. ASSUME NEW s \in SUBSET S
       PROVE  sum[s] = IF s = {} THEN 0 ELSE Pick(s).pending + sum[s \ {Pick(s)}]
  BY <1>3, <1>10, <1>11, Zenon DEF SumOf
<1> DEFINE Same(s) == total[s] # None => total[s] = sum[s]
           apart == {s \in SUBSET S : ~Same(s)}
<1>12. ASSUME NEW s \in SUBSET S, s # {}, Same(s \ {Pick(s)}) PROVE Same(s)
  <2> SUFFICES ASSUME total[s] # None PROVE total[s] = sum[s]
    OBVIOUS
  <2> DEFINE before == total[s \ {Pick(s)}]
             count == Pick(s).pending
  <2>1. before # None /\ total[s] = before + count
    BY <1>6, <1>12
  <2>2. before = sum[s \ {Pick(s)}] /\ before \in Nat /\ count \in Nat
    <3>1. s \ {Pick(s)} \in SUBSET S /\ Pick(s) \in S
      BY <1>5, <1>12
    <3>2. before \in 0..Most
      BY <1>9, <2>1, <3>1 DEF Counted
    <3> QED BY <1>4, <1>10, <1>12, <2>1, <3>1, <3>2
  <2>3. sum[s] = count + sum[s \ {Pick(s)}]
    BY <1>11, <1>12
  <2> HIDE DEF before, count
  <2> QED BY <2>1, <2>2, <2>3
<1>13. Same({})
  BY <1>6, <1>11
<1> HIDE DEF Same
<1>14. \A s \in SUBSET S : Same(s)
  <2> SUFFICES ASSUME apart # {} PROVE FALSE
    OBVIOUS
  <2>0. apart \in SUBSET SUBSET S
    OBVIOUS
  <2> HIDE DEF apart
  <2>1. PICK s \in apart : \A t \in apart : ~(t \subseteq s /\ t # s)
    BY <2>0, SmallestSubset
  <2> USE DEF apart
  <2>2. s \in SUBSET S /\ ~Same(s) /\ s # {}
    BY <1>13, <2>1
  <2>3. Same(s \ {Pick(s)})
    BY <1>5, <2>1, <2>2
  <2> QED BY <1>12, <2>2, <2>3
<1>15. total[S] = sum[S]
  BY <1>1, <1>14 DEF Same
<1>16. total[S] <= Most
  BY <1>4, <1>10
<1> QED BY <1>1, <1>2, <1>4, <1>10, <1>15, <1>16

\* A pipeline has finitely many edges, so that the daemon knows finitely many buffers.
LEMMA SlotsFinite ==
  ASSUME links \in SUBSET Links
  PROVE  IsFiniteSet(Slots)
<1>1. /\ IsFiniteSet(Links) /\ Links \subseteq Vertices \X Vertices
      /\ Parts \in [Vertices -> Nat \ {0}]
  BY StatusViewAssumption DEF StatusViewAssumption
<1> DEFINE own == [e \in links |-> {e[2]} \X (1..Parts[e[2]])]
           all == {own[e] : e \in links}
<1>2. IsFiniteSet(links)
  BY <1>1, FS_Subset
<1>3. Slots = UNION all
  BY DEF Slots
<1>4. own \in Surjection(links, all)
  BY DEF Surjection
<1>5. ASSUME NEW e \in links PROVE IsFiniteSet(own[e])
  <2>1. e[2] \in Vertices /\ Parts[e[2]] \in Nat
    BY <1>1
  <2>2. IsFiniteSet({e[2]}) /\ IsFiniteSet(1..Parts[e[2]])
    <3>1. 1 \in Int /\ Parts[e[2]] \in Int
      BY <2>1
    <3>2. IsFiniteSet({e[2]})
      BY FS_Singleton
    <3> QED BY <3>1, <3>2, FS_Interval
  <2>3. IsFiniteSet({e[2]} \X (1..Parts[e[2]]))
    BY <2>2, FS_Product
  <2> QED BY <2>3
<1>6. \A T \in all : IsFiniteSet(T)
  BY <1>5
<1> HIDE DEF own, all
<1>7. IsFiniteSet(all)
  BY <1>2, <1>4, FS_Surjection
<1> QED BY <1>3, <1>6, <1>7, FS_UNION

FiniteInv == IsFiniteSet(buffers)

LEMMA FiniteStep ==
  StatusTypeOK /\ FiniteInv /\ [StatusNext]_<<vars, statusVars>> => FiniteInv'
<1> SUFFICES ASSUME StatusTypeOK, FiniteInv, [StatusNext]_<<vars, statusVars>> PROVE FiniteInv'
  OBVIOUS
<1>1. CASE AnswerBuffers
  <2>1. PICK r \in [Slots -> Reports] :
          buffers' = {[of |-> s[1], part |-> s[2], pending |-> r[s].pending,
                       unacked |-> r[s].unacked] : s \in Slots}
    BY <1>1 DEF AnswerBuffers
  <2> DEFINE said == [s \in Slots |-> [of |-> s[1], part |-> s[2], pending |-> r[s].pending,
                                       unacked |-> r[s].unacked]]
  <2>2. said \in Surjection(Slots, buffers')
    BY <2>1 DEF Surjection
  <2>3. IsFiniteSet(Slots)
    BY SlotsFinite DEF StatusTypeOK
  <2> HIDE DEF said
  <2> QED BY <2>2, <2>3, FS_Surjection DEF FiniteInv
<1>2. CASE ReadShape
  BY <1>2, FS_EmptySet DEF ReadShape, FiniteInv
<1>3. CASE UNCHANGED buffers
  BY <1>3 DEF FiniteInv
<1>4. AnswerBuffers \/ ReadShape \/ UNCHANGED buffers
  BY DEF StatusNext, Asking, AddVertexTo, AskMetrics, BuffersFail, Assemble, statusVars
<1> QED BY <1>1, <1>2, <1>3, <1>4

\* No number of a view claims what is not known: drained as above, and a number of
\* pending messages on an edge is the sum of all its partitions' counts, each of them
\* known, within 64 bits (total_pending, status.rs 64-74).  For every set of reports.
THEOREM NumbersHonest ==
  ASSUME NamesApart
  PROVE  StatusSpec => []NumbersAreHonest
<1>1. StatusInit => FiniteInv
  BY FS_EmptySet DEF StatusInit, FiniteInv
<1>2. TypesOK /\ FiniteInv => PendingIsWhole
  <2> SUFFICES ASSUME StatusTypeOK, FiniteInv, NEW e \in shape.links, EdgePending(e) # None
               PROVE  /\ \A b \in Attached(e) : b.pending # None
                      /\ EdgePending(e) = MapThenSumSet(LAMBDA b : b.pending, Attached(e))
                      /\ EdgePending(e) <= Most
    BY DEF PendingIsWhole, TypesOK
  <2>1. EdgePending(e) = TotalPending(Attached(e))
    BY DEF EdgePending
  <2>2. Attached(e) \in SUBSET buffers
    BY DEF Attached
  <2>3. Attached(e) \in SUBSET Buffer /\ IsFiniteSet(Attached(e))
    BY <2>2, FS_Subset DEF StatusTypeOK, FiniteInv
  <2> QED BY <2>1, <2>3, TotalIsWhole
<1>3. StatusSpec => []TypesOK
  BY StatusTypesOK
<1>4. StatusSpec => []DrainedIsHonest
  BY DrainedHonest
<1>5. StatusSpec => []FiniteInv
  <2>1. TypesOK /\ FiniteInv /\ [StatusNext]_<<vars, statusVars>> => FiniteInv'
    BY FiniteStep DEF TypesOK
  <2> QED BY <1>1, <1>3, <2>1, PTL DEF StatusSpec
<1>6. DrainedIsHonest /\ PendingIsWhole => NumbersAreHonest
  BY DEF NumbersAreHonest
<1> QED BY <1>2, <1>3, <1>4, <1>5, <1>6, PTL

-----------------------------------------------------------------------------
(* The questions themselves: the view's three go through the kept client   *)
(* of DaemonClient, whose state is its own.                                *)

\* Who dials or asks has a pod to dial or ask, so what is pooled is a pod.
NamedInv == \A c \in Callers : at[c] \in {"store", "dial", "ask"} => name[c] \in Pods

QuestionInv == ClientTypeOK /\ AnswersAreFinal /\ NamedInv

LEMMA QuestionsInit == ClientInit => QuestionInv
BY DaemonClientAssumption
   DEF DaemonClientAssumption, ClientInit, QuestionInv, ClientTypeOK, AnswersAreFinal, NamedInv

\* The daemon's pods change under the questions and leave them alone.
LEMMA PodsChange ==
  ASSUME QuestionInv, NEW p \in Pods,
         \/ CreatePod(p) \/ RemovePod(p) \/ HangPod(p) \/ PodReady(p)
  PROVE  QuestionInv'
<1>1. UNCHANGED <<timeouts, cachedPod, at, name, attempt, answered>>
  BY DEF CreatePod, RemovePod, HangPod, PodReady, Change
<1>2. changes' \in 0..MaxChanges
  BY DaemonClientAssumption
     DEF CreatePod, RemovePod, HangPod, PodReady, Change,
         QuestionInv, ClientTypeOK, DaemonClientAssumption
<1>3. pod' \in [Pods -> {"absent", "starting", "ready", "hung", "gone"}]
  BY DEF CreatePod, RemovePod, HangPod, PodReady, Change,
         QuestionInv, ClientTypeOK
<1>4. pool' \in SUBSET Pods
  BY DEF CreatePod, RemovePod, HangPod, PodReady, Change,
         QuestionInv, ClientTypeOK
<1>5. ClientTypeOK'
  BY <1>1, <1>2, <1>3, <1>4 DEF QuestionInv, ClientTypeOK
<1>6. AnswersAreFinal' /\ NamedInv'
  BY <1>1 DEF QuestionInv, AnswersAreFinal, NamedInv
<1> QED BY <1>5, <1>6 DEF QuestionInv

\* What a step of one question has to show of its own stage.
LEMMA OneQuestion ==
  ASSUME QuestionInv, NEW c \in Callers, NEW stage, NEW tried, UNCHANGED <<pod, changes>>,
         timeouts' \in 0..MaxTimeouts, cachedPod' \in Pods \cup {NoPod}, pool' \in SUBSET Pods,
         stage \in {"idle", "connect", "list", "store", "dial", "ask"},
         at' = [at EXCEPT ![c] = stage],
         tried \in 0..Retries, attempt' = [attempt EXCEPT ![c] = tried],
         name' \in [Callers -> Pods \cup {NoPod}],
         \A d \in Callers \ {c} : name'[d] = name[d],
         stage \in {"store", "dial", "ask"} => name'[c] \in Pods,
         answered' \in SUBSET Callers,
         answered' \ {c} = answered \ {c}, c \in answered' => stage = "idle"
  PROVE  QuestionInv'
<1>1. ClientTypeOK'
  BY DEF QuestionInv, ClientTypeOK
<1>2. at'[c] = stage /\ \A d \in Callers \ {c} : at'[d] = at[d]
  BY DEF QuestionInv, ClientTypeOK
<1>3. AnswersAreFinal'
  BY <1>2 DEF QuestionInv, ClientTypeOK, AnswersAreFinal
<1>4. NamedInv'
  BY <1>2 DEF QuestionInv, NamedInv
<1> QED BY <1>1, <1>3, <1>4 DEF QuestionInv

\* A failure uses up an attempt, or ends the question.
LEMMA Retrying ==
  ASSUME QuestionInv, NEW c \in Callers, RetryOrFail(c)
  PROVE  \E stage \in {"connect", "idle"}, tried \in 0..Retries :
            /\ at' = [at EXCEPT ![c] = stage]
            /\ attempt' = [attempt EXCEPT ![c] = tried]
<1>1. attempt[c] \in 0..Retries /\ attempt \in [Callers -> 0..Retries] /\ Retries \in Nat
  BY DaemonClientAssumption DEF QuestionInv, ClientTypeOK, DaemonClientAssumption
<1>2. CASE attempt[c] < Retries
  <2>1. attempt[c] + 1 \in 0..Retries
    BY <1>1, <1>2
  <2>2. at' = [at EXCEPT ![c] = "connect"] /\ attempt' = [attempt EXCEPT ![c] = attempt[c] + 1]
    BY <1>2 DEF RetryOrFail, Goto
  <2> QED BY <2>1, <2>2
<1>3. CASE ~(attempt[c] < Retries)
  <2>1. at' = [at EXCEPT ![c] = "idle"] /\ attempt' = attempt
    BY <1>3 DEF RetryOrFail, Finish, Goto
  <2>2. attempt' = [attempt EXCEPT ![c] = attempt[c]]
    BY <1>1, <2>1
  <2> QED BY <1>1, <2>1, <2>2
<1> QED BY <1>2, <1>3

LEMMA QuestionMoves ==
  ASSUME QuestionInv, NEW c \in Callers,
         Start(c) \/ Progress(c) \/ ListErrs(c) \/ TimesOut(c) \/ Answer(c)
  PROVE  QuestionInv'
<1> USE DEF Goto
<1>1. /\ attempt \in [Callers -> 0..Retries] /\ name \in [Callers -> Pods \cup {NoPod}]
      /\ at \in [Callers -> {"idle", "connect", "list", "store", "dial", "ask"}]
      /\ pod \in [Pods -> {"absent", "starting", "ready", "hung", "gone"}]
      /\ timeouts \in 0..MaxTimeouts /\ cachedPod \in Pods \cup {NoPod} /\ pool \in SUBSET Pods
      /\ answered \in SUBSET Callers /\ Retries \in Nat /\ MaxTimeouts \in Nat
  BY DaemonClientAssumption DEF QuestionInv, ClientTypeOK, DaemonClientAssumption
<1>2. attempt = [attempt EXCEPT ![c] = attempt[c]]
  BY <1>1
<1>3. at[c] # "idle" => c \notin answered
  BY DEF QuestionInv, AnswersAreFinal
<1>4. at[c] \in {"store", "dial", "ask"} => name[c] \in Pods
  BY DEF QuestionInv, NamedInv
<1>5. CASE Start(c)
  <2>1. at' = [at EXCEPT ![c] = "connect"] /\ attempt' = [attempt EXCEPT ![c] = 0]
    BY <1>5 DEF Start
  <2>2. answered' = answered \ {c} /\ UNCHANGED <<pod, changes, timeouts, cachedPod, pool, name>>
    BY <1>5 DEF Start, pods
  <2>3. 0 \in 0..Retries
    BY <1>1
  <2> QED BY <1>1, <2>1, <2>2, <2>3, OneQuestion
<1>6. CASE UsePooled(c)
  <2>1. PICK p \in pool : pool' = pool \ {p} /\ name' = [name EXCEPT ![c] = p]
    BY <1>6 DEF UsePooled
  <2>2. /\ at' = [at EXCEPT ![c] = "ask"] /\ at[c] = "connect"
        /\ UNCHANGED <<pod, changes, timeouts, cachedPod, attempt, answered>>
    BY <1>6 DEF UsePooled, pods
  <2>3. name' \in [Callers -> Pods \cup {NoPod}] /\ name'[c] \in Pods
    BY <1>1, <2>1
  <2> QED BY <1>1, <1>2, <1>3, <2>1, <2>2, <2>3, OneQuestion
<1>7. CASE UseCachedPod(c)
  <2>1. /\ at' = [at EXCEPT ![c] = "dial"] /\ at[c] = "connect" /\ cachedPod # NoPod
        /\ name' = [name EXCEPT ![c] = cachedPod]
        /\ UNCHANGED <<pod, changes, timeouts, cachedPod, pool, attempt, answered>>
    BY <1>7 DEF UseCachedPod, pods
  <2>2. name' \in [Callers -> Pods \cup {NoPod}] /\ name'[c] \in Pods
    BY <1>1, <2>1
  <2> QED BY <1>1, <1>2, <1>3, <2>1, <2>2, OneQuestion
<1>8. CASE AskList(c)
  <2>1. /\ at' = [at EXCEPT ![c] = "list"] /\ at[c] = "connect"
        /\ UNCHANGED <<pod, changes, timeouts, cachedPod, pool, name, attempt, answered>>
    BY <1>8 DEF AskList, pods
  <2> QED BY <1>1, <1>2, <1>3, <2>1, OneQuestion
<1>9. CASE AnswerList(c)
  <2>1. PICK p \in Pods : name' = [name EXCEPT ![c] = p]
    BY <1>9 DEF AnswerList, Listed
  <2>2. /\ at' = [at EXCEPT ![c] = "store"] /\ at[c] = "list"
        /\ UNCHANGED <<pod, changes, timeouts, cachedPod, pool, attempt, answered>>
    BY <1>9 DEF AnswerList, pods
  <2>3. name' \in [Callers -> Pods \cup {NoPod}] /\ name'[c] \in Pods
    BY <1>1, <2>1
  <2> QED BY <1>1, <1>2, <1>3, <2>1, <2>2, <2>3, OneQuestion
<1>10. CASE StorePod(c)
  <2>1. /\ at' = [at EXCEPT ![c] = "dial"] /\ at[c] = "store" /\ cachedPod' = name[c]
        /\ UNCHANGED <<pod, changes, timeouts, pool, name, attempt, answered>>
    BY <1>10 DEF StorePod, pods
  <2> QED BY <1>1, <1>2, <1>3, <1>4, <2>1, OneQuestion
<1>11. CASE Connected(c)
  <2>1. /\ at' = [at EXCEPT ![c] = "ask"] /\ at[c] = "dial"
        /\ UNCHANGED <<pod, changes, timeouts, cachedPod, pool, name, attempt, answered>>
    BY <1>11 DEF Connected, pods
  <2> QED BY <1>1, <1>2, <1>3, <1>4, <2>1, OneQuestion
<1>12. CASE ListFails(c) \/ ListErrs(c) \/ DialFails(c) \/ ConnectionLost(c) \/ TimesOut(c)
  <2>1. /\ RetryOrFail(c) /\ at[c] # "idle"
        /\ cachedPod' \in {cachedPod, NoPod}
        /\ UNCHANGED <<pod, changes, pool, name, answered>>
    BY <1>12 DEF ListFails, ListErrs, DialFails, ConnectionLost, TimesOut, pods
  <2>2. timeouts' \in 0..MaxTimeouts
    BY <1>1, <1>12 DEF ListFails, ListErrs, DialFails, ConnectionLost, TimesOut
  <2>3. PICK stage \in {"connect", "idle"}, tried \in 0..Retries :
           at' = [at EXCEPT ![c] = stage] /\ attempt' = [attempt EXCEPT ![c] = tried]
    BY <2>1, Retrying
  <2> QED BY <1>1, <1>3, <2>1, <2>2, <2>3, OneQuestion
<1>13. CASE Answer(c)
  <2>1. /\ at' = [at EXCEPT ![c] = "idle"] /\ attempt' = attempt /\ at[c] = "ask"
        /\ answered' = answered \cup {c} /\ pool' = pool \cup {name[c]}
        /\ UNCHANGED <<pod, changes, timeouts, cachedPod, name>>
    BY <1>13 DEF Answer, Finish, pods
  <2>2. name[c] \in Pods
    BY <1>4, <2>1
  <2>3. /\ pool' \in SUBSET Pods /\ answered' \in SUBSET Callers
        /\ answered' \ {c} = answered \ {c}
    BY <1>1, <2>1, <2>2
  <2>4. attempt' = [attempt EXCEPT ![c] = attempt[c]] /\ attempt[c] \in 0..Retries
    BY <1>1, <2>1
  <2> QED BY <1>1, <2>1, <2>2, <2>3, <2>4, OneQuestion
<1> QED
  BY <1>5, <1>6, <1>7, <1>8, <1>9, <1>10, <1>11, <1>12, <1>13 DEF Progress

\* No question is asked again after its answer, whatever the daemon's pods and
\* the other questions do, and none is tried oftener than its budget
\* (client.rs 27 and 166-178, dialer.rs 118).
THEOREM QuestionsOKThm == ClientSpec => []QuestionsOK
<1>0. ClientInit => QuestionInv
  BY QuestionsInit
<1>1. QuestionInv /\ [ClientNext]_clientVars => QuestionInv'
  <2>1. QuestionInv /\ ClientNext => QuestionInv'
    BY PodsChange, QuestionMoves DEF ClientNext
  <2>2. QuestionInv /\ UNCHANGED clientVars => QuestionInv'
    BY DEF clientVars, pods, QuestionInv, ClientTypeOK, AnswersAreFinal, NamedInv
  <2> QED BY <2>1, <2>2
<1>2. QuestionInv => QuestionsOK
  BY DEF QuestionInv, QuestionsOK
<1> QED BY <1>0, <1>1, <1>2, PTL DEF ClientSpec
=============================================================================
