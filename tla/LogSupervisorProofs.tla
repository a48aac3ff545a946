-------------------------- MODULE LogSupervisorProofs --------------------------
(***************************************************************************)
(* LogSupervisor for every set of pods, containers and tasks and however   *)
(* many changes and broken watches: the map of handles and the running     *)
(* tasks agree, and once every event is handled they agree with the pods.  *)
(*                                                                         *)
(* The supervisor only sees the past: what it keeps is right because of    *)
(* what is still in the queue.  The invariant is about the queue: no pod   *)
(* comes back after an event that ends it, a list that is still to be      *)
(* handled mentions every pod the supervisor may know and that still       *)
(* matters, and under a live watch every tail that is wrong, or missing,   *)
(* is put right by some event to come.                                     *)
(***************************************************************************)
EXTENDS LogSupervisor, FiniteSetTheorems, FunctionTheorems, SequenceTheorems, TLAPS

Queued == 1..Len(events)

\* What an event says of a pod.
Lists(e, p)  == e.kind = "Applied" /\ e.pod = p
Starts(e, p) == Lists(e, p) /\ ~e.ended
Ends(e, p)   == (Lists(e, p) /\ e.ended) \/ (e.kind = "Deleted" /\ e.pod = p)

Tailed(p) == \E c \in Containers : tails[<<p, c>>] # None

\* After the i-th event, containers of p may still be heard to run.
Lives(i, p) == phase[p] = "active" \/ \E j \in Queued : j > i /\ Starts(events[j], p)
Over(i, p)  == p \in used /\ ~Lives(i, p)

\* When the i-th event is handled, p will be in `seen`.
Mentioned(i, p) ==
  \/ p \in seen /\ \A j \in Queued : j < i => events[j].kind # "Resync"
  \/ \E j \in Queued : /\ j < i /\ Lists(events[j], p)
                       /\ \A l \in Queued : j < l /\ l < i => events[l].kind # "Resync"

\* Nothing is known of p before the i-th event.
Fresh(i, p) == ~Tailed(p) /\ \A j \in Queued : j < i => ~Lists(events[j], p)

\* Handling the i-th event ends every tail of p.
Kills(i, p) ==
  Ends(events[i], p) \/ (events[i].kind = "ResyncDone" /\ ~Mentioned(i, p))

-----------------------------------------------------------------------------
\* Names are never reused, and only active pods run.
NamesInv ==
  /\ IsFiniteSet(used)
  /\ \A p \in Pods : /\ phase[p] # "absent" => p \in used
                     /\ phase[p] # "active" => running[p] = {}
                     /\ Tailed(p) => p \in used
  /\ \A i \in Queued, p \in Pods : Lists(events[i], p) => p \in used

\* A pod that ended does not come back.
EndInv == \A i \in Queued, p \in Pods : Ends(events[i], p) => Over(i, p)

\* A complete list mentions every pod that lives on, or it is new.
ListInv ==
  \A i \in Queued, p \in Pods :
    events[i].kind = "ResyncDone" /\ Lives(i, p) => Mentioned(i, p) \/ Fresh(i, p)

\* A task is in the map under its key, or belongs to a pod that is over.
InMap(t)    == tails[keyOf[t]] = t /\ state[t] # "aborted"
Orphaned(t) == tails[keyOf[t]] = None /\ state[t] # "running" /\ Over(0, keyOf[t][1])

TasksInv ==
  \A t \in Tasks :
    /\ state[t] # "free" => keyOf[t] \in Keys /\ (up => InMap(t) \/ Orphaned(t))
    /\ state[t] = "running" => up
    /\ state[t] = "finished" => keyOf[t] \in gaveUp

HandlesInv ==
  up => \A k \in Keys : tails[k] # None => /\ keyOf[tails[k]] = k
                                           /\ state[tails[k]] \in {"running", "finished"}

\* Under a live watch, a tail of a pod that is not active, kept or to be started
\* by an event, is ended by a later one.
StopInv ==
  watch = "live" =>
    \A p \in Pods :
      phase[p] # "active" =>
        /\ Tailed(p) => \E i \in Queued : Kills(i, p)
        /\ \A j \in Queued : Starts(events[j], p) => \E i \in Queued : i > j /\ Kills(i, p)

\* Under a live watch, a running container is tailed, or will be.
StartInv ==
  watch = "live" =>
    \A p \in Pods : \A c \in running[p] :
      \/ <<p, c>> \in gaveUp \/ tails[<<p, c>>] # None
      \/ \E j \in Queued : Starts(events[j], p) /\ c \in events[j].running

IInv ==
  /\ TypeOK /\ NamesInv /\ EndInv /\ ListInv /\ TasksInv /\ HandlesInv
  /\ StopInv /\ StartInv

-----------------------------------------------------------------------------
(* Events and the queue.                                                   *)

LEMMA EventTypes ==
  /\ \A p \in Pods, ph \in {"absent", "active", "ended"}, run \in SUBSET Containers :
       Applied(p, ph, run) \in Event
  /\ \A p \in Pods : Deleted(p) \in Event
  /\ Resync \in Event /\ ResyncDone \in Event
BY DEF Event, Applied, Deleted, Resync, ResyncDone

LEMMA EventFields ==
  ASSUME NEW e \in Event
  PROVE  /\ e.kind \in {"Applied", "Deleted", "Resync", "ResyncDone"}
         /\ e.kind = "Applied" => /\ e.pod \in Pods /\ e.ended \in BOOLEAN
                                 /\ e.running \in SUBSET Containers
         /\ e.kind = "Deleted" => e.pod \in Pods
BY DEF Event

\* What the kinds of events say.
LEMMA AppliedMeaning ==
  ASSUME NEW q, NEW ph, NEW run, NEW p
  PROVE  /\ Applied(q, ph, run).kind = "Applied" /\ Applied(q, ph, run).running = run
         /\ Lists(Applied(q, ph, run), p) <=> q = p
         /\ Starts(Applied(q, ph, run), p) <=> q = p /\ ph # "ended"
         /\ Ends(Applied(q, ph, run), p) <=> q = p /\ ph = "ended"
<1> DEFINE e == Applied(q, ph, run)
<1>1. e.kind = "Applied" /\ e.running = run /\ e.pod = q /\ e.ended = (ph = "ended")
  BY DEF Applied
<1> HIDE DEF e
<1>2. /\ Lists(e, p) <=> q = p
      /\ Starts(e, p) <=> q = p /\ ph # "ended"
      /\ Ends(e, p) <=> q = p /\ ph = "ended"
  BY <1>1 DEF Lists, Starts, Ends
<1> QED BY <1>1, <1>2 DEF e

LEMMA DeletedMeaning ==
  ASSUME NEW q, NEW p
  PROVE  /\ Deleted(q).kind = "Deleted"
         /\ ~Lists(Deleted(q), p) /\ ~Starts(Deleted(q), p)
         /\ Ends(Deleted(q), p) <=> q = p
BY DEF Lists, Starts, Ends, Deleted

LEMMA ResyncMeaning ==
  ASSUME NEW p
  PROVE  /\ Resync.kind = "Resync" /\ ResyncDone.kind = "ResyncDone"
         /\ ~Lists(Resync, p) /\ ~Starts(Resync, p) /\ ~Ends(Resync, p)
         /\ ~Lists(ResyncDone, p) /\ ~Starts(ResyncDone, p) /\ ~Ends(ResyncDone, p)
BY DEF Lists, Starts, Ends, Resync, ResyncDone

\* New events go to the end of the queue.
LEMMA Growing ==
  ASSUME TypeOK, NEW news \in Seq(Event), events' = events \o news
  PROVE  /\ events' \in Seq(Event) /\ Len(events') = Len(events) + Len(news)
         /\ Len(events) \in Nat /\ Len(news) \in Nat
         /\ \A i \in Queued : i \in Queued' /\ events'[i] = events[i]
         /\ \A i \in 1..Len(news) :
              Len(events) + i \in Queued' /\ events'[Len(events) + i] = news[i]
         /\ \A i \in Queued' : i \in Queued \/ i - Len(events) \in 1..Len(news)
<1>1. events \in Seq(Event)
  BY DEF TypeOK
<1>2. /\ events' \in Seq(Event) /\ Len(events') = Len(events) + Len(news)
      /\ \A i \in 1..(Len(events) + Len(news)) :
           events'[i] = IF i <= Len(events) THEN events[i] ELSE news[i - Len(events)]
  BY <1>1, ConcatProperties
<1>3. Len(events) \in Nat /\ Len(news) \in Nat
  BY <1>1
<1> QED BY <1>2, <1>3 DEF Queued

\* The first event is taken.
LEMMA Taking ==
  ASSUME TypeOK, events # << >>, events' = Tail(events)
  PROVE  /\ events' \in Seq(Event) /\ Len(events) \in Nat \ {0}
         /\ 1 \in Queued /\ events[1] = Head(events) /\ Head(events) \in Event
         /\ \A i \in Queued' : i + 1 \in Queued /\ events'[i] = events[i + 1]
         /\ \A i \in Queued : i = 1 \/ i - 1 \in Queued'
<1>1. events \in Seq(Event)
  BY DEF TypeOK
<1>2. /\ Tail(events) \in Seq(Event) /\ Len(Tail(events)) = Len(events) - 1
      /\ \A i \in 1..Len(Tail(events)) : Tail(events)[i] = events[i + 1]
      /\ Head(events) = events[1] /\ Head(events) \in Event
  BY <1>1, HeadTailProperties
<1>3. Len(events) \in Nat \ {0}
  BY <1>1, EmptySeq
<1> QED BY <1>2, <1>3 DEF Queued

-----------------------------------------------------------------------------
(* Types.                                                                  *)

\* The stream of a list that may break half way.
Listing(s) == [i \in DOMAIN s |-> Applied(s[i], phase[s[i]], running[s[i]])]

LEMMA ListingType ==
  ASSUME TypeOK, NEW S \in SUBSET Pods, IsFiniteSet(S), NEW s \in Orders(S)
  PROVE  /\ Listing(s) \in Seq(Event) /\ Len(Listing(s)) = Cardinality(S) /\ Cardinality(S) \in Nat
         /\ \A i \in 1..Cardinality(S) :
              s[i] \in S /\ Listing(s)[i] = Applied(s[i], phase[s[i]], running[s[i]])
         /\ \A p \in S : \E i \in 1..Cardinality(S) : s[i] = p
<1> DEFINE n == Cardinality(S)
<1>1. n \in Nat
  BY FS_CardinalityType
<1>2. s \in [1..n -> S] /\ DOMAIN s = 1..n /\ \A i, j \in 1..n : s[i] = s[j] => i = j
  BY DEF Orders
<1> HIDE DEF n
<1>3. \A i \in 1..n : Applied(s[i], phase[s[i]], running[s[i]]) \in Event
  BY <1>2, EventTypes DEF TypeOK
<1>4. Listing(s) \in [1..n -> Event]
  BY <1>2, <1>3 DEF Listing
<1>5. Listing(s) \in Seq(Event) /\ Len(Listing(s)) = n
  BY <1>1, <1>4
<1>6. s \in Surjection(1..n, S)
  <2>1. s \in Injection(1..n, S)
    BY <1>2 DEF Injection, IsInjective
  <2>2. Cardinality(1..n) = n
    BY <1>1, FS_Interval
  <2> QED BY <2>1, <2>2, FS_Injection DEF n
<1>7. \A p \in S : \E i \in 1..n : s[i] = p
  BY <1>6 DEF Surjection
<1> QED BY <1>1, <1>2, <1>5, <1>7 DEF n, Listing

LEMMA StopType ==
  ASSUME TypeOK, NEW ps, StopPods(ps)
  PROVE  /\ tails' \in [Keys -> Tasks \cup {None}] /\ keyOf' = keyOf
         /\ state' \in [Tasks -> {"free", "running", "aborted", "finished"}]
BY DEF TypeOK, StopPods

LEMMA SpawnType ==
  ASSUME TypeOK, NEW p \in Pods, NEW run \in SUBSET Containers, SpawnMissing(p, run)
  PROVE  /\ tails' \in [Keys -> Tasks \cup {None}]
         /\ keyOf' \in [Tasks -> Keys \cup {None}]
         /\ state' \in [Tasks -> {"free", "running", "aborted", "finished"}]
<1> DEFINE missing == {k \in {p} \X run : tails[k] = None}
<1>1. missing \subseteq Keys /\ Free \subseteq Tasks
  BY DEF Keys, Free
<1> HIDE DEF missing
<1>2. PICK f \in [missing -> Free] :
        /\ tails' = [k \in Keys |-> IF k \in missing THEN f[k] ELSE tails[k]]
        /\ state' = [t \in Tasks |->
             IF \E k \in missing : f[k] = t THEN "running" ELSE state[t]]
        /\ keyOf' = [t \in Tasks |->
             IF \E k \in missing : f[k] = t
               THEN CHOOSE k \in missing : f[k] = t ELSE keyOf[t]]
  BY DEF SpawnMissing, missing
<1>3. tails' \in [Keys -> Tasks \cup {None}]
  BY <1>1, <1>2 DEF TypeOK
<1>4. state' \in [Tasks -> {"free", "running", "aborted", "finished"}]
  BY <1>2 DEF TypeOK
<1>5. keyOf' \in [Tasks -> Keys \cup {None}]
  BY <1>1, <1>2 DEF TypeOK
<1> QED BY <1>3, <1>4, <1>5

-----------------------------------------------------------------------------
(* What the cluster and the watch do to the queue.                         *)

\* The supervisor and its tasks are left alone.
Outside == UNCHANGED <<up, tails, seen, state, keyOf, gaveUp>>

\* The events `news` are reported, and they tell the truth.
Grown(news) ==
  /\ news \in Seq(Event) /\ events' = events \o news
  /\ \A i \in 1..Len(news), p \in Pods :
       /\ Lists(news[i], p) \/ Ends(news[i], p) => p \in used'
       /\ Starts(news[i], p) => phase'[p] = "active"
       /\ Ends(news[i], p) => phase'[p] # "active"
  /\ IsFiniteSet(used') /\ used \subseteq used' /\ used' \subseteq Pods
  /\ \A p \in Pods : /\ phase'[p] = "active" => phase[p] = "active" \/ p \notin used
                     /\ phase'[p] # "absent" => p \in used'
                     /\ phase'[p] # "active" => running'[p] = {}
  /\ phase' \in [Pods -> {"absent", "active", "ended"}]
  /\ running' \in [Pods -> SUBSET Containers]
  /\ watch' \in {"lost", "live"} /\ changes' \in 0..MaxChanges /\ losses' \in 0..MaxLosses
  /\ Outside

\* A change of pod p is what the event ev says of it.
Change(p, ev) ==
  /\ watch' = watch
  /\ \A q \in Pods \ {p} : phase'[q] = phase[q] /\ running'[q] = running[q]
  /\ ev \in Event /\ ev.kind \in {"Applied", "Deleted"}
  /\ \A q \in Pods : Starts(ev, q) \/ Lists(ev, q) \/ Ends(ev, q) => q = p
  /\ phase'[p] = "active" => Starts(ev, p) /\ ~Ends(ev, p) /\ ev.running = running'[p]
  /\ phase'[p] # "active" => Ends(ev, p) /\ ~Starts(ev, p)
  /\ Grown(IF watch = "live" THEN <<ev>> ELSE << >>)

LEMMA ChangeEffect ==
  ASSUME TypeOK, NamesInv, NEW p \in Pods,
         CreatePod(p) \/ RunContainers(p) \/ EndPod(p) \/ DeletePod(p)
  PROVE  \E ev : Change(p, ev)
<1> USE LogSupervisorAssumption DEF LogSupervisorAssumption
<1> DEFINE News(ev) == IF watch = "live" THEN <<ev>> ELSE << >>
<1>1. ASSUME NEW ev \in Event, Report(ev)
      PROVE  News(ev) \in Seq(Event) /\ events' = events \o News(ev)
             /\ \A i \in 1..Len(News(ev)) : News(ev)[i] = ev
  <2>1. events \in Seq(Event)
    BY DEF TypeOK
  <2>2. CASE watch = "live"
    <3>1. events' = events \o <<ev>>
      BY <1>1, <2>1, <2>2, AppendIsConcat DEF Report
    <3> QED BY <2>2, <3>1
  <2>3. CASE watch # "live"
    <3>1. events' = events
      BY <1>1, <2>3 DEF Report
    <3>2. events \o << >> = events
      BY <2>1, ConcatEmptySeq
    <3>3. News(ev) = << >> /\ << >> \in Seq(Event) /\ 1..Len(<< >>) = {}
      BY <2>3
    <3> QED BY <3>1, <3>2, <3>3
  <2> QED BY <2>2, <2>3
<1>2. Outside /\ watch' = watch /\ losses' = losses /\ changes' \in 0..MaxChanges
  BY DEF CreatePod, RunContainers, EndPod, DeletePod, Changing, Outside, TypeOK
<1>3. IsFiniteSet(used \cup {p})
  BY FS_AddElement DEF NamesInv
<1>4. SUFFICES
        ASSUME NEW ev \in Event, Report(ev), ev.kind \in {"Applied", "Deleted"},
               \A q \in Pods : Starts(ev, q) \/ Lists(ev, q) \/ Ends(ev, q) => q = p,
               phase'[p] = "active" => Starts(ev, p) /\ ~Ends(ev, p) /\ ev.running = running'[p],
               phase'[p] # "active" => Ends(ev, p) /\ ~Starts(ev, p) /\ running'[p] = {},
               phase' \in [Pods -> {"absent", "active", "ended"}],
               running' \in [Pods -> SUBSET Containers],
               \A q \in Pods \ {p} : phase'[q] = phase[q] /\ running'[q] = running[q],
               phase'[p] = "active" => phase[p] = "active" \/ p \notin used,
               used' = used \cup {p}
        PROVE  Change(p, ev)
  <2>1. CASE CreatePod(p)
    <3> DEFINE ev == Applied(p, "active", {})
    <3>1. /\ phase' = [phase EXCEPT ![p] = "active"] /\ p \notin used /\ Report(ev)
          /\ running' = running /\ used' = used \cup {p}
      BY <2>1 DEF CreatePod
    <3>2. running[p] = {}
      BY <3>1 DEF NamesInv
    <3>3. ev \in Event
      BY EventTypes
    <3>4. /\ ev.kind = "Applied"
          /\ \A q \in Pods : Starts(ev, q) \/ Lists(ev, q) \/ Ends(ev, q) => q = p
          /\ Starts(ev, p) /\ ~Ends(ev, p)
      BY AppliedMeaning
    <3>5. phase'[p] = "active" /\ running'[p] = {} /\ ev.running = {}
      BY <3>1, <3>2, AppliedMeaning DEF TypeOK, Applied
    <3> QED BY <1>4, <3>1, <3>2, <3>3, <3>4, <3>5 DEF TypeOK
  <2>2. CASE RunContainers(p)
    <3>1. PICK run \in SUBSET Containers :
            running' = [running EXCEPT ![p] = run] /\ Report(Applied(p, "active", run))
      BY <2>2 DEF RunContainers
    <3> DEFINE ev == Applied(p, "active", run)
    <3>2. phase' = phase /\ phase[p] = "active" /\ used' = used /\ p \in used
      BY <2>2 DEF RunContainers, NamesInv
    <3>3. ev \in Event
      BY EventTypes
    <3>4. /\ ev.kind = "Applied"
          /\ \A q \in Pods : Starts(ev, q) \/ Lists(ev, q) \/ Ends(ev, q) => q = p
          /\ Starts(ev, p) /\ ~Ends(ev, p)
      BY AppliedMeaning
    <3>5. phase'[p] = "active" /\ running'[p] = run /\ ev.running = run
      BY <3>1, <3>2, AppliedMeaning DEF TypeOK, Applied
    <3> QED BY <1>4, <3>1, <3>2, <3>3, <3>4, <3>5 DEF TypeOK
  <2>3. CASE EndPod(p)
    <3> DEFINE ev == Applied(p, "ended", {})
    <3>1. /\ phase' = [phase EXCEPT ![p] = "ended"] /\ running' = [running EXCEPT ![p] = {}]
          /\ Report(ev) /\ used' = used /\ p \in used
      BY <2>3 DEF EndPod, NamesInv
    <3>2. ev \in Event
      BY EventTypes
    <3>3. /\ ev.kind = "Applied"
          /\ \A q \in Pods : Starts(ev, q) \/ Lists(ev, q) \/ Ends(ev, q) => q = p
          /\ Ends(ev, p) /\ ~Starts(ev, p)
      BY AppliedMeaning
    <3>4. phase'[p] = "ended" /\ running'[p] = {}
      BY <3>1 DEF TypeOK
    <3> QED BY <1>4, <3>1, <3>2, <3>3, <3>4 DEF TypeOK
  <2>4. CASE DeletePod(p)
    <3>1. /\ phase' = [phase EXCEPT ![p] = "absent"] /\ running' = [running EXCEPT ![p] = {}]
          /\ Report(Deleted(p)) /\ used' = used /\ p \in used
      BY <2>4 DEF DeletePod, NamesInv
    <3>2. Deleted(p) \in Event
      BY EventTypes
    <3> DEFINE ev == Deleted(p)
    <3>3. /\ ev.kind = "Deleted"
          /\ \A q \in Pods : Starts(ev, q) \/ Lists(ev, q) \/ Ends(ev, q) => q = p
          /\ Ends(ev, p) /\ ~Starts(ev, p)
      BY DeletedMeaning
    <3>4. phase'[p] = "absent" /\ running'[p] = {}
      BY <3>1 DEF TypeOK
    <3> QED BY <1>4, <3>1, <3>2, <3>3, <3>4 DEF TypeOK
  <2> QED BY <2>1, <2>2, <2>3, <2>4
<1>5. Grown(News(ev))
  <2>1. News(ev) \in Seq(Event) /\ events' = events \o News(ev)
    BY <1>1, <1>4
  <2>2. \A i \in 1..Len(News(ev)), q \in Pods :
          /\ Lists(News(ev)[i], q) \/ Ends(News(ev)[i], q) => q \in used'
          /\ Starts(News(ev)[i], q) => phase'[q] = "active"
          /\ Ends(News(ev)[i], q) => phase'[q] # "active"
    BY <1>1, <1>4
  <2>3. \A q \in Pods : /\ phase'[q] = "active" => phase[q] = "active" \/ q \notin used
                        /\ phase'[q] # "absent" => q \in used'
                        /\ phase'[q] # "active" => running'[q] = {}
    BY <1>4 DEF NamesInv
  <2>4. /\ IsFiniteSet(used') /\ used \subseteq used' /\ used' \subseteq Pods
        /\ watch' \in {"lost", "live"} /\ losses' \in 0..MaxLosses
    BY <1>2, <1>3, <1>4 DEF TypeOK
  <2> HIDE DEF News
  <2> QED BY ONLY <1>2, <1>4, <2>1, <2>2, <2>3, <2>4 DEF Grown
<1> QED BY <1>2, <1>4, <1>5 DEF Change

\* A list as far as it came, and a whole one.
Stream(s) == <<Resync>> \o Listing(s)
Whole(s)  == Stream(s) \o <<ResyncDone>>

Says(e, p) == e = Applied(p, phase[p], running[p])

LEMMA StreamProperties ==
  ASSUME TypeOK, NEW S \in SUBSET Pods, IsFiniteSet(S), NEW s \in Orders(S)
  PROVE  /\ Cardinality(S) \in Nat
         /\ Stream(s) \in Seq(Event) /\ Len(Stream(s)) = Cardinality(S) + 1
         /\ Stream(s)[1] = Resync
         /\ \A i \in 2..(Cardinality(S) + 1) : \E p \in S : Says(Stream(s)[i], p)
         /\ \A p \in S : \E i \in 2..(Cardinality(S) + 1) : Says(Stream(s)[i], p)
<1> DEFINE n == Cardinality(S)
           l == Listing(s)
<1>1. /\ l \in Seq(Event) /\ Len(l) = n /\ n \in Nat
      /\ \A i \in 1..n : s[i] \in S /\ Says(l[i], s[i])
      /\ \A p \in S : \E i \in 1..n : s[i] = p
  BY ListingType DEF Says
<1>2. <<Resync>> \in Seq(Event) /\ Len(<<Resync>>) = 1 /\ <<Resync>>[1] = Resync
  BY EventTypes
<1> HIDE DEF n, l
<1>3. /\ <<Resync>> \o l \in Seq(Event) /\ Len(<<Resync>> \o l) = 1 + n
      /\ \A i \in 1..(1 + n) : (<<Resync>> \o l)[i] = IF i <= 1 THEN <<Resync>>[i] ELSE l[i - 1]
  BY <1>1, <1>2, ConcatProperties
<1>4. /\ Stream(s) \in Seq(Event) /\ Len(Stream(s)) = n + 1 /\ Stream(s)[1] = Resync
      /\ \A i \in 1..n : Stream(s)[i + 1] = l[i]
  BY <1>1, <1>2, <1>3 DEF Stream, l
<1>5. \A i \in 2..(n + 1) : i - 1 \in 1..n /\ Stream(s)[i] = l[i - 1]
  BY <1>1, <1>3, <1>4 DEF Stream, l
<1>6. \A p \in S : \E i \in 2..(n + 1) : Says(Stream(s)[i], p)
  <2> TAKE p \in S
  <2>1. PICK i \in 1..n : s[i] = p
    BY <1>1
  <2>2. Says(l[i], p) /\ Stream(s)[i + 1] = l[i] /\ i + 1 \in 2..(n + 1)
    BY <1>1, <1>4, <2>1
  <2> QED BY <2>2
<1> QED BY <1>1, <1>4, <1>5, <1>6 DEF n

LEMMA WholeProperties ==
  ASSUME TypeOK, NEW S \in SUBSET Pods, IsFiniteSet(S), NEW s \in Orders(S)
  PROVE  /\ Whole(s) \in Seq(Event) /\ Len(Whole(s)) = Cardinality(S) + 2
         /\ \A i \in 1..(Cardinality(S) + 1) : Whole(s)[i] = Stream(s)[i]
         /\ Whole(s)[Cardinality(S) + 2] = ResyncDone
<1> DEFINE n == Cardinality(S)
           l == Stream(s)
<1>1. l \in Seq(Event) /\ Len(l) = n + 1 /\ n \in Nat
  BY StreamProperties
<1>2. ResyncDone \in Event
  BY EventTypes
<1> HIDE DEF n, l
<1>3. /\ Append(l, ResyncDone) \in Seq(Event) /\ Len(Append(l, ResyncDone)) = n + 2
      /\ \A i \in 1..(n + 1) : Append(l, ResyncDone)[i] = l[i]
      /\ Append(l, ResyncDone)[n + 2] = ResyncDone
  BY <1>1, <1>2, AppendProperties
<1>4. Append(l, ResyncDone) = l \o <<ResyncDone>>
  BY <1>1, <1>2, AppendIsConcat
<1> QED BY <1>3, <1>4 DEF Whole, n, l

\* What a list, broken or whole, adds to the queue.
Listed(news) ==
  /\ Grown(news)
  /\ UNCHANGED <<phase, running, used>>

Partial(news) ==
  /\ Listed(news) /\ watch' = "lost"
  /\ \A i \in 1..Len(news) : news[i].kind # "ResyncDone"

Complete(news) ==
  /\ Listed(news) /\ watch' = "live" /\ Len(news) >= 2
  /\ news[1].kind = "Resync" /\ news[Len(news)].kind = "ResyncDone"
  /\ \A i \in 2..(Len(news) - 1) : news[i].kind = "Applied"
  /\ \A p \in Existing : \E i \in 2..(Len(news) - 1) : Says(news[i], p)
  /\ \A i \in 1..Len(news), p \in Pods : Lists(news[i], p) => p \in Existing

LEMMA SaysMeaning ==
  ASSUME TypeOK, NEW e, NEW q \in Pods, Says(e, q), NEW p \in Pods
  PROVE  /\ e.kind = "Applied"
         /\ Lists(e, p) <=> p = q
         /\ Starts(e, p) <=> p = q /\ phase[p] # "ended"
         /\ Ends(e, p) <=> p = q /\ phase[p] = "ended"
         /\ e.running = running[q]
BY AppliedMeaning DEF Says

LEMMA ListGrows ==
  ASSUME TypeOK, NamesInv, NEW news \in Seq(Event), events' = events \o news,
         UNCHANGED <<phase, running, used, changes>>, Outside,
         watch' \in {"lost", "live"}, losses' \in 0..MaxLosses,
         \A i \in 1..Len(news) : \/ \E q \in Existing : Says(news[i], q)
                                 \/ news[i] = Resync \/ news[i] = ResyncDone
  PROVE  /\ Listed(news)
         /\ \A i \in 1..Len(news), p \in Pods : Lists(news[i], p) => p \in Existing
<1>1. ASSUME NEW i \in 1..Len(news), NEW p \in Pods
      PROVE  /\ Lists(news[i], p) \/ Ends(news[i], p) => p \in Existing
             /\ Starts(news[i], p) => phase[p] = "active"
             /\ Ends(news[i], p) => phase[p] # "active"
  <2>1. CASE \E q \in Existing : Says(news[i], q)
    <3>1. PICK q \in Existing : Says(news[i], q)
      BY <2>1
    <3>2. q \in Pods /\ phase[q] # "absent" /\ phase[q] \in {"absent", "active", "ended"}
      BY <3>1 DEF Existing, TypeOK
    <3>3. /\ Lists(news[i], p) <=> p = q
          /\ Starts(news[i], p) <=> p = q /\ phase[p] # "ended"
          /\ Ends(news[i], p) <=> p = q /\ phase[p] = "ended"
      BY <3>1, <3>2, SaysMeaning
    <3> QED BY <3>1, <3>2, <3>3
  <2>2. CASE news[i] = Resync \/ news[i] = ResyncDone
    BY <2>2, ResyncMeaning
  <2> QED BY <2>1, <2>2
<1>2. \A p \in Existing : p \in used
  BY DEF Existing, NamesInv
<1>3. /\ IsFiniteSet(used') /\ used \subseteq used' /\ used' \subseteq Pods
      /\ \A p \in Pods : /\ phase'[p] = "active" => phase[p] = "active" \/ p \notin used
                         /\ phase'[p] # "absent" => p \in used'
                         /\ phase'[p] # "active" => running'[p] = {}
  BY DEF NamesInv, TypeOK
<1>4. /\ phase' \in [Pods -> {"absent", "active", "ended"}]
      /\ running' \in [Pods -> SUBSET Containers] /\ changes' \in 0..MaxChanges
  BY DEF TypeOK
<1> QED BY <1>1, <1>2, <1>3, <1>4 DEF Listed, Grown

LEMMA RelistEffect ==
  ASSUME TypeOK, NamesInv, Relist
  PROVE  \E news : Complete(news)
<1>1. Existing \in SUBSET Pods /\ Existing \subseteq used
  BY DEF Existing, NamesInv
<1>2. IsFiniteSet(Existing)
  BY <1>1, FS_Subset DEF NamesInv
<1>3. PICK s \in Orders(Existing) :
        events' = events \o <<Resync>> \o Listing(s) \o <<ResyncDone>>
  BY DEF Relist, Listing
<1> DEFINE n == Cardinality(Existing)
           news == Whole(s)
<1>4. /\ n \in Nat /\ Len(news) = n + 2 /\ news \in Seq(Event)
      /\ news[1] = Resync /\ news[n + 2] = ResyncDone
      /\ \A i \in 2..(n + 1) : \E p \in Existing : Says(news[i], p)
      /\ \A p \in Existing : \E i \in 2..(n + 1) : Says(news[i], p)
  <2>1. /\ n \in Nat /\ Len(news) = n + 2 /\ news \in Seq(Event)
        /\ news[n + 2] = ResyncDone /\ Stream(s)[1] = Resync
        /\ \A i \in 1..(n + 1) : news[i] = Stream(s)[i]
        /\ \A i \in 2..(n + 1) : \E p \in Existing : Says(Stream(s)[i], p)
        /\ \A p \in Existing : \E i \in 2..(n + 1) : Says(Stream(s)[i], p)
    BY <1>1, <1>2, StreamProperties, WholeProperties
  <2> HIDE DEF news, n
  <2>2. 1 \in 1..(n + 1) /\ \A i \in 2..(n + 1) : i \in 1..(n + 1)
    BY <2>1
  <2> QED BY <2>1, <2>2
<1>5. events' = events \o news
  <2>1. /\ events \in Seq(Event) /\ <<Resync>> \in Seq(Event) /\ <<ResyncDone>> \in Seq(Event)
        /\ Listing(s) \in Seq(Event) /\ Stream(s) \in Seq(Event)
    BY <1>1, <1>2, EventTypes, ListingType, StreamProperties DEF TypeOK
  <2>2. (events \o <<Resync>>) \o Listing(s) = events \o Stream(s)
    BY <2>1, ConcatAssociative DEF Stream
  <2>3. (events \o Stream(s)) \o <<ResyncDone>> = events \o news
    BY <2>1, ConcatAssociative DEF Whole
  <2> QED BY <1>3, <2>2, <2>3
<1> HIDE DEF news, n
<1>6. UNCHANGED <<phase, running, used, changes>> /\ Outside /\ watch' = "live" /\ losses' \in 0..MaxLosses
  BY DEF Relist, Outside, TypeOK
<1>7. \A i \in 1..Len(news) : \/ \E q \in Existing : Says(news[i], q)
                              \/ news[i] = Resync \/ news[i] = ResyncDone
  <2>1. \A i \in 1..(n + 2) : i = 1 \/ i \in 2..(n + 1) \/ i = n + 2
    BY <1>4
  <2> QED BY <1>4, <2>1
<1>8. /\ Listed(news)
      /\ \A i \in 1..Len(news), p \in Pods : Lists(news[i], p) => p \in Existing
  BY <1>4, <1>5, <1>6, <1>7, ListGrows
<1>9. \A i \in 2..(n + 1) : news[i].kind = "Applied"
  BY <1>1, <1>4, SaysMeaning
<1>10. /\ Len(news) >= 2 /\ Len(news) - 1 = n + 1
       /\ news[1].kind = "Resync" /\ news[Len(news)].kind = "ResyncDone"
  BY <1>4, ResyncMeaning
<1>11. Complete(news)
  BY <1>4, <1>6, <1>8, <1>9, <1>10 DEF Complete
<1> QED BY <1>11

LEMMA BreakEffect ==
  ASSUME TypeOK, NamesInv, RelistBreaks
  PROVE  \E news : Partial(news)
<1>1. PICK some \in SUBSET Existing : \E s \in Orders(some) :
        events' = events \o <<Resync>> \o Listing(s)
  BY DEF RelistBreaks, Listing
<1>2. some \in SUBSET Pods /\ some \subseteq used
  BY <1>1 DEF Existing, NamesInv
<1>3. IsFiniteSet(some)
  BY <1>2, FS_Subset DEF NamesInv
<1>4. PICK s \in Orders(some) : events' = events \o <<Resync>> \o Listing(s)
  BY <1>1
<1> DEFINE n == Cardinality(some)
           news == Stream(s)
<1>5. /\ n \in Nat /\ Len(news) = n + 1 /\ news \in Seq(Event) /\ news[1] = Resync
      /\ \A i \in 2..(n + 1) : \E p \in some : Says(news[i], p)
  BY <1>2, <1>3, StreamProperties
<1>6. events' = events \o news
  <2>1. events \in Seq(Event) /\ <<Resync>> \in Seq(Event) /\ Listing(s) \in Seq(Event)
    BY <1>2, <1>3, EventTypes, ListingType DEF TypeOK
  <2> QED BY <1>4, <2>1, ConcatAssociative DEF Stream
<1> HIDE DEF news, n
<1>7. UNCHANGED <<phase, running, used, changes>> /\ Outside /\ watch' = "lost" /\ losses' \in 0..MaxLosses
  BY LogSupervisorAssumption DEF LogSupervisorAssumption, RelistBreaks, Outside, TypeOK
<1>8. \A i \in 1..Len(news) : i = 1 \/ i \in 2..(n + 1)
  BY <1>5
<1>9. Listed(news)
  BY <1>1, <1>5, <1>6, <1>7, <1>8, ListGrows
<1>10. \A i \in 1..Len(news) : news[i].kind # "ResyncDone"
  <2>1. \A i \in 2..(n + 1) : news[i].kind = "Applied"
    BY <1>2, <1>5, SaysMeaning
  <2> QED BY <1>5, <1>8, <2>1, ResyncMeaning
<1>11. Partial(news)
  BY <1>7, <1>9, <1>10 DEF Partial
<1> QED BY <1>11

-----------------------------------------------------------------------------
(* The invariant while the queue grows.                                    *)

LEMMA GrownQueue ==
  ASSUME TypeOK, NEW news, Grown(news)
  PROVE  /\ Len(events) \in Nat /\ Len(news) \in Nat /\ Len(events') = Len(events) + Len(news)
         /\ Queued \subseteq Nat \ {0} /\ Queued' \subseteq Nat \ {0}
         /\ \A i \in Queued : i \in Queued' /\ events'[i] = events[i]
         /\ \A i \in 1..Len(news) :
              Len(events) + i \in Queued' /\ events'[Len(events) + i] = news[i]
         /\ \A i \in Queued' : \/ i \in Queued /\ events'[i] = events[i]
                               \/ /\ i - Len(events) \in 1..Len(news) /\ i > Len(events)
                                  /\ events'[i] = news[i - Len(events)]
         /\ \A i \in Queued, j \in Queued' : j < i => j \in Queued
         /\ UNCHANGED <<up, tails, seen, state, keyOf, gaveUp>>
<1>1. news \in Seq(Event) /\ events' = events \o news
  BY DEF Grown
<1>2. /\ Len(events) \in Nat /\ Len(news) \in Nat /\ Len(events') = Len(events) + Len(news)
      /\ \A i \in Queued : i \in Queued' /\ events'[i] = events[i]
      /\ \A i \in 1..Len(news) :
           Len(events) + i \in Queued' /\ events'[Len(events) + i] = news[i]
      /\ \A i \in Queued' : i \in Queued \/ i - Len(events) \in 1..Len(news)
  BY <1>1, Growing
<1>3. /\ Queued \subseteq Nat \ {0} /\ Queued' \subseteq Nat \ {0}
      /\ \A i \in Queued, j \in Queued' : j < i => j \in Queued
  BY <1>2 DEF Queued
<1>4. ASSUME NEW i \in Queued', i \notin Queued
      PROVE  /\ i - Len(events) \in 1..Len(news) /\ i > Len(events)
             /\ events'[i] = news[i - Len(events)]
  <2>1. i - Len(events) \in 1..Len(news) /\ i \in Nat
    BY <1>2, <1>3, <1>4
  <2>2. events'[Len(events) + (i - Len(events))] = news[i - Len(events)]
    BY <1>2, <2>1
  <2> QED BY <1>2, <2>1, <2>2
<1> QED BY <1>2, <1>3, <1>4 DEF Grown, Outside

LEMMA GrownType == ASSUME TypeOK, NEW news, Grown(news) PROVE TypeOK'
BY Growing DEF Grown, Outside, TypeOK

\* What was true of an event of the queue remains true of it.
LEMMA GrownFacts ==
  ASSUME TypeOK, NamesInv, NEW news, Grown(news), NEW p \in Pods
  PROVE  /\ Tailed(p)' <=> Tailed(p)
         /\ \A i \in Queued \cup {0} : Over(i, p) => Over(i, p)'
         /\ \A i \in Queued : /\ Mentioned(i, p)' <=> Mentioned(i, p)
                              /\ Fresh(i, p)' <=> Fresh(i, p)
                              /\ Kills(i, p)' <=> Kills(i, p)
<1>1. Tailed(p)' <=> Tailed(p)
  BY DEF Tailed, Grown, Outside
<1>2. ASSUME NEW i \in Queued \cup {0}, Over(i, p)
      PROVE  Over(i, p)'
  <2>1. p \in used /\ phase[p] # "active" /\ \A j \in Queued : j > i => ~Starts(events[j], p)
    BY <1>2 DEF Over, Lives
  <2>2. p \in used' /\ phase'[p] # "active"
    BY <2>1 DEF Grown
  <2>3. ASSUME NEW j \in Queued', j > i, Starts(events'[j], p)
        PROVE  FALSE
    <3>1. CASE j \in Queued
      BY <2>1, <2>3, <3>1, GrownQueue
    <3>2. CASE j \notin Queued
      <4>1. j - Len(events) \in 1..Len(news) /\ Starts(news[j - Len(events)], p)
        BY <2>3, <3>2, GrownQueue
      <4> QED BY <2>2, <4>1 DEF Grown
    <3> QED BY <3>1, <3>2
  <2> QED BY <2>2, <2>3 DEF Over, Lives
<1>3. ASSUME NEW i \in Queued
      PROVE  /\ Mentioned(i, p)' <=> Mentioned(i, p)
             /\ Fresh(i, p)' <=> Fresh(i, p)
             /\ Kills(i, p)' <=> Kills(i, p)
  <2>1. /\ \A j \in Queued : j \in Queued' /\ events'[j] = events[j]
        /\ \A j \in Queued' : j < i => j \in Queued
        /\ seen' = seen
        /\ Queued \subseteq Nat /\ Queued' \subseteq Nat
    BY GrownQueue
  <2>2. Mentioned(i, p)' <=> Mentioned(i, p)
    BY <2>1 DEF Mentioned
  <2>3. Fresh(i, p)' <=> Fresh(i, p)
    BY <1>1, <2>1 DEF Fresh
  <2> QED BY <2>1, <2>2, <2>3 DEF Kills
<1> QED BY <1>1, <1>2, <1>3

LEMMA GrownInv ==
  ASSUME IInv, NEW news, Grown(news)
  PROVE  /\ TypeOK' /\ NamesInv' /\ EndInv' /\ TasksInv' /\ HandlesInv'
         /\ \A i \in Queued, p \in Pods :
              events'[i].kind = "ResyncDone" /\ Lives(i, p)' => Mentioned(i, p)' \/ Fresh(i, p)'
<1> USE DEF IInv
<1>1. TypeOK' /\ TypeOK
  BY GrownType
<1>2. NamesInv'
  <2>1. \A p \in Pods : Tailed(p)' => p \in used'
    BY GrownFacts DEF NamesInv, Grown
  <2>2. ASSUME NEW i \in Queued', NEW p \in Pods, Lists(events'[i], p)
        PROVE  p \in used'
    <3>1. CASE i \in Queued
      BY <2>2, <3>1, GrownQueue DEF NamesInv, Grown
    <3>2. CASE i \notin Queued
      <4>1. i - Len(events) \in 1..Len(news) /\ Lists(news[i - Len(events)], p)
        BY <2>2, <3>2, GrownQueue
      <4> QED BY <4>1 DEF Grown
    <3> QED BY <3>1, <3>2
  <2> QED BY <2>1, <2>2 DEF NamesInv, Grown
<1>3. ASSUME NEW i \in Queued', NEW p \in Pods, Ends(events'[i], p)
      PROVE  Over(i, p)'
  <2>1. CASE i \in Queued
    <3>1. Ends(events[i], p)
      BY <1>3, <2>1, GrownQueue
    <3>2. Over(i, p)
      BY <2>1, <3>1 DEF EndInv
    <3> QED BY <2>1, <3>2, GrownFacts
  <2>2. CASE i \notin Queued
    <3>1. i - Len(events) \in 1..Len(news) /\ Ends(news[i - Len(events)], p) /\ i > Len(events)
      BY <1>3, <2>2, GrownQueue
    <3>2. p \in used' /\ phase'[p] # "active"
      BY <3>1 DEF Grown
    <3>3. ASSUME NEW j \in Queued', j > i, Starts(events'[j], p)
          PROVE  FALSE
      <4>1. j \notin Queued
        BY <3>1, <3>3, GrownQueue DEF Queued
      <4>2. j - Len(events) \in 1..Len(news) /\ Starts(news[j - Len(events)], p)
        BY <3>3, <4>1, GrownQueue
      <4> QED BY <3>2, <4>2 DEF Grown
    <3> QED BY <3>2, <3>3 DEF Over, Lives
  <2> QED BY <2>1, <2>2
<1>4. TasksInv'
  <2>1. \A p \in Pods : Over(0, p) => Over(0, p)'
    BY GrownFacts
  <2>2. ASSUME NEW t \in Tasks
        PROVE  /\ state'[t] # "free" => keyOf'[t] \in Keys /\ (up' => InMap(t)' \/ Orphaned(t)')
               /\ state'[t] = "running" => up'
               /\ state'[t] = "finished" => keyOf'[t] \in gaveUp'
    <3>1. UNCHANGED <<up, tails, state, keyOf, gaveUp>>
      BY GrownQueue
    <3>2. keyOf[t] \in Keys => keyOf[t][1] \in Pods
      BY DEF Keys
    <3> QED BY <2>1, <3>1, <3>2 DEF TasksInv, InMap, Orphaned
  <2> QED BY <2>2 DEF TasksInv
<1>5. HandlesInv'
  BY GrownQueue DEF HandlesInv
<1>6. ASSUME NEW i \in Queued, NEW p \in Pods, events'[i].kind = "ResyncDone", Lives(i, p)'
      PROVE  Mentioned(i, p)' \/ Fresh(i, p)'
  <2>1. events[i].kind = "ResyncDone" /\ i \in Queued \cup {0}
    BY <1>6, GrownQueue
  <2>2. ~Over(i, p)
    BY <1>6, <2>1, GrownFacts DEF Over
  <2>3. CASE Lives(i, p)
    BY <2>1, <2>3, GrownFacts DEF ListInv
  <2>4. CASE p \notin used
    <3>1. Fresh(i, p)
      BY <2>4 DEF Fresh, NamesInv
    <3> QED BY <3>1, GrownFacts
  <2> QED BY <2>2, <2>3, <2>4 DEF Over
<1> QED BY <1>1, <1>2, <1>3, <1>4, <1>5, <1>6 DEF EndInv

\* A change of a pod.
LEMMA ChangeInv ==
  ASSUME IInv, NEW p \in Pods, NEW ev, Change(p, ev)
  PROVE  IInv'
<1> DEFINE news == IF watch = "live" THEN <<ev>> ELSE << >>
<1>1. Grown(news)
  BY DEF Change
<1>2. TypeOK /\ NamesInv /\ StopInv /\ StartInv
  BY DEF IInv
<1>3. \A i \in 1..Len(news) : news[i] = ev /\ watch = "live"
  OBVIOUS
<1>4. watch = "live" => 1 \in 1..Len(news) /\ news[1] = ev
  OBVIOUS
<1> HIDE DEF news
<1>5. \A i \in Queued' : \/ i \in Queued /\ events'[i] = events[i]
                         \/ i \notin Queued /\ i > Len(events) /\ events'[i] = ev /\ watch = "live"
  BY <1>1, <1>2, <1>3, GrownQueue DEF Queued
<1>6. ListInv'
  <2>1. ASSUME NEW i \in Queued', NEW q \in Pods, events'[i].kind = "ResyncDone"
        PROVE  i \in Queued
    BY <1>5, <2>1 DEF Change
  <2> QED BY <1>1, <2>1, GrownInv DEF ListInv
<1>7. ASSUME watch' = "live", NEW q \in Pods, phase'[q] # "active"
      PROVE  /\ Tailed(q)' => \E i \in Queued' : Kills(i, q)'
             /\ \A j \in Queued' : Starts(events'[j], q) => \E i \in Queued' : i > j /\ Kills(i, q)'
  <2>1. watch = "live"
    BY <1>7 DEF Change
  <2>2. CASE q = p
    <3>1. PICK last \in Queued' : last = Len(events) + 1 /\ events'[last] = ev
      BY <1>1, <1>2, <1>4, <2>1, GrownQueue
    <3>2. Kills(last, p)'
      BY <1>7, <2>2, <3>1 DEF Kills, Change
    <3>3. ASSUME NEW j \in Queued', Starts(events'[j], q)
          PROVE  last > j
      <4>1. j \in Queued
        BY <1>5, <1>7, <2>2, <3>3 DEF Change
      <4> QED BY <3>1, <4>1, <1>1, <1>2, GrownQueue DEF Queued
    <3> QED BY <2>2, <3>1, <3>2, <3>3
  <2>3. CASE q # p
    <3>1. phase[q] # "active"
      BY <1>7, <2>3 DEF Change
    <3>2. Tailed(q)' => \E i \in Queued : Kills(i, q)
      BY <1>1, <1>2, <2>1, <3>1, GrownFacts DEF StopInv
    <3>3. \A j \in Queued : Starts(events[j], q) => \E i \in Queued : i > j /\ Kills(i, q)
      BY <1>2, <2>1, <3>1 DEF StopInv
    <3>4. \A j \in Queued' : Starts(events'[j], q) => j \in Queued /\ Starts(events[j], q)
      BY <1>5, <2>3 DEF Change
    <3>5. \A i \in Queued : i \in Queued' /\ (Kills(i, q)' <=> Kills(i, q))
      BY <1>1, <1>2, GrownFacts, GrownQueue
    <3> QED BY <3>2, <3>3, <3>4, <3>5
  <2> QED BY <2>2, <2>3
<1>8. ASSUME watch' = "live", NEW q \in Pods, NEW c \in running'[q]
      PROVE  \/ <<q, c>> \in gaveUp' \/ tails'[<<q, c>>] # None
             \/ \E j \in Queued' : Starts(events'[j], q) /\ c \in events'[j].running
  <2>1. watch = "live"
    BY <1>8 DEF Change
  <2>2. CASE q = p
    <3>1. phase'[p] = "active" /\ Starts(ev, p) /\ c \in ev.running
      BY <1>1, <1>8, <2>2 DEF Change, Grown
    <3>2. Len(events) + 1 \in Queued' /\ events'[Len(events) + 1] = ev
      BY <1>1, <1>2, <1>4, <2>1, GrownQueue
    <3> QED BY <2>2, <3>1, <3>2
  <2>3. CASE q # p
    <3>1. c \in running[q]
      BY <1>8, <2>3 DEF Change
    <3>2. \/ <<q, c>> \in gaveUp \/ tails[<<q, c>>] # None
          \/ \E j \in Queued : Starts(events[j], q) /\ c \in events[j].running
      BY <1>2, <2>1, <3>1 DEF StartInv
    <3> QED BY <1>1, <1>2, <3>2, GrownQueue
  <2> QED BY <2>2, <2>3
<1>9. StopInv' /\ StartInv'
  BY <1>7, <1>8 DEF StopInv, StartInv
<1> QED BY <1>1, <1>6, <1>9, GrownInv DEF IInv

\* A list that broke half way.
LEMMA PartialInv ==
  ASSUME IInv, NEW news, Partial(news)
  PROVE  IInv'
<1>1. Grown(news) /\ TypeOK
  BY DEF Partial, Listed, IInv
<1>2. StopInv' /\ StartInv'
  BY DEF StopInv, StartInv, Partial
<1>3. ASSUME NEW i \in Queued', events'[i].kind = "ResyncDone"
      PROVE  i \in Queued
  BY <1>1, <1>3, GrownQueue DEF Partial
<1>4. ListInv'
  BY <1>1, <1>3, GrownInv DEF ListInv
<1> QED BY <1>1, <1>2, <1>4, GrownInv DEF IInv

\* A whole list.
LEMMA CompleteInv ==
  ASSUME IInv, NEW news, Complete(news)
  PROVE  IInv'
<1>1. Grown(news) /\ TypeOK /\ TypeOK' /\ NamesInv /\ NamesInv' /\ UNCHANGED <<phase, running, used>>
  BY GrownInv DEF Complete, Listed, IInv
<1>0. PICK old \in Nat, last \in Nat : old = Len(events) /\ last = Len(events) + Len(news)
  BY <1>1, GrownQueue
<1>2. /\ old \in Nat /\ Len(news) \in Nat /\ Len(news) >= 2 /\ last \in Queued' /\ last > old
      /\ events'[last].kind = "ResyncDone"
      /\ old + 1 \in Queued' /\ events'[old + 1].kind = "Resync" /\ old + 1 < last
  <2>1. old \in Nat /\ Len(news) \in Nat /\ Len(news) >= 2
    BY <1>0, <1>1, GrownQueue DEF Complete
  <2>2. 1 \in 1..Len(news) /\ Len(news) \in 1..Len(news)
    BY <2>1
  <2>3. /\ last \in Queued' /\ events'[last] = news[Len(news)]
        /\ old + 1 \in Queued' /\ events'[old + 1] = news[1]
    BY <1>0, <1>1, <2>2, GrownQueue
  <2> QED BY <1>0, <2>1, <2>3 DEF Complete
\* Where the queue has got longer.
<1>3. ASSUME NEW i \in Queued', i \notin Queued
      PROVE  /\ i - old \in 1..Len(news) /\ i > old /\ i <= last /\ events'[i] = news[i - old]
             /\ i = old + 1 \/ i = last \/ (i - old \in 2..(Len(news) - 1) /\ events'[i].kind = "Applied")
  <2>1. i - old \in 1..Len(news) /\ i > old /\ events'[i] = news[i - old] /\ i \in Nat
    BY <1>0, <1>1, <1>3, GrownQueue
  <2>2. i = old + 1 \/ i = last \/ i - old \in 2..(Len(news) - 1)
    BY <1>0, <1>2, <2>1
  <2> QED BY <1>0, <1>2, <2>1, <2>2 DEF Complete
<1>4. \A p \in Existing : \E i \in Queued' : i > old + 1 /\ i < last /\ Says(events'[i], p)
  <2> TAKE p \in Existing
  <2>1. PICK i \in 2..(Len(news) - 1) : Says(news[i], p)
    BY DEF Complete
  <2>2. i \in 1..Len(news) /\ old + i > old + 1 /\ old + i < last
    BY <1>0, <1>2, <2>1
  <2>3. old + i \in Queued' /\ events'[old + i] = news[i]
    BY <1>0, <1>1, <2>2, GrownQueue
  <2> QED BY <2>1, <2>2, <2>3
\* What the list does not mention does not exist.
<1>5. ASSUME NEW p \in Pods, Mentioned(last, p)'
      PROVE  phase[p] # "absent"
  <2>1. PICK j \in Queued' : /\ j < last /\ Lists(events'[j], p)
                             /\ \A l \in Queued' : j < l /\ l < last => events'[l].kind # "Resync"
    BY <1>2, <1>5 DEF Mentioned
  <2>2. j \notin Queued
    BY <1>0, <1>1, <1>2, <2>1, GrownQueue DEF Queued
  <2>3. j - old \in 1..Len(news) /\ events'[j] = news[j - old]
    BY <1>3, <2>2
  <2> QED BY <2>1, <2>3 DEF Complete, Existing
<1>6. ASSUME NEW p \in Pods, phase[p] # "absent"
      PROVE  Mentioned(last, p)'
  <2>1. PICK i \in Queued' : i > old + 1 /\ i < last /\ Says(events'[i], p)
    BY <1>4, <1>6 DEF Existing
  <2>2. Lists(events'[i], p)
    BY <1>1, <2>1, SaysMeaning
  <2>3. ASSUME NEW l \in Queued', i < l, l < last, events'[l].kind = "Resync"
        PROVE  FALSE
    <3>1. l \notin Queued /\ l # old + 1
      BY <1>0, <1>1, <1>2, <2>1, <2>3, GrownQueue DEF Queued
    <3> QED BY <1>2, <1>3, <2>3, <3>1
  <2> QED BY <1>2, <2>1, <2>2, <2>3 DEF Mentioned
<1>7. ListInv'
  <2>1. ASSUME NEW i \in Queued', NEW p \in Pods, events'[i].kind = "ResyncDone", Lives(i, p)'
        PROVE  Mentioned(i, p)' \/ Fresh(i, p)'
    <3>1. CASE i \in Queued
      BY <1>1, <2>1, <3>1, GrownInv
    <3>2. CASE i \notin Queued
      <4>1. i = last
        BY <1>2, <1>3, <2>1, <3>2
      <4>2. phase[p] = "active"
        <5>1. ~\E j \in Queued' : j > last
          BY <1>0, <1>1, <1>2, GrownQueue DEF Queued
        <5> QED BY <1>1, <2>1, <4>1, <5>1 DEF Lives
      <4> QED BY <1>6, <4>1, <4>2
    <3> QED BY <3>1, <3>2
  <2> QED BY <2>1 DEF ListInv
<1>8. StopInv'
  <2>1. ASSUME NEW p \in Pods, phase'[p] # "active"
        PROVE  \E i \in Queued' : i > old /\ Kills(i, p)'
    <3>1. CASE phase[p] = "absent"
      BY <1>2, <1>5, <3>1 DEF Kills
    <3>2. CASE phase[p] # "absent"
      <4>1. PICK i \in Queued' : i > old + 1 /\ Says(events'[i], p)
        BY <1>4, <3>2 DEF Existing
      <4>2. phase[p] = "ended"
        BY <1>1, <2>1, <3>2 DEF TypeOK
      <4>3. Ends(events'[i], p)
        BY <1>1, <4>1, <4>2, SaysMeaning
      <4>4. i > old
        BY <1>1, <1>2, <4>1, GrownQueue
      <4> QED BY <4>1, <4>3, <4>4 DEF Kills
    <3> QED BY <3>1, <3>2
  <2>2. ASSUME NEW p \in Pods, phase'[p] # "active", NEW j \in Queued', Starts(events'[j], p)
        PROVE  j <= old
    <3>1. j \in Queued
      <4>1. ASSUME j \notin Queued PROVE FALSE
        BY <1>1, <1>3, <2>2, <4>1 DEF Grown
      <4> QED BY <4>1
    <3> QED BY <1>0, <3>1, <1>2 DEF Queued
  <2>3. ASSUME NEW p \in Pods, phase'[p] # "active", NEW j \in Queued', Starts(events'[j], p)
        PROVE  \E i \in Queued' : i > j /\ Kills(i, p)'
    <3>1. PICK i \in Queued' : i > old /\ Kills(i, p)'
      BY <2>1, <2>3
    <3>2. j <= old /\ i \in Nat /\ j \in Nat
      BY <1>1, <2>2, <2>3, GrownQueue
    <3> QED BY <1>2, <3>1, <3>2
  <2> QED BY <2>1, <2>3 DEF StopInv
<1>9. StartInv'
  <2>1. ASSUME NEW p \in Pods, NEW c \in running'[p]
        PROVE  \E j \in Queued' : Starts(events'[j], p) /\ c \in events'[j].running
    <3>1. phase[p] = "active" /\ c \in running[p]
      BY <1>1, <2>1 DEF NamesInv
    <3>2. PICK j \in Queued' : Says(events'[j], p)
      BY <1>4, <3>1 DEF Existing
    <3> QED BY <1>1, <3>1, <3>2, SaysMeaning
  <2> QED BY <2>1 DEF StartInv
<1> QED BY <1>1, <1>7, <1>8, <1>9, GrownInv DEF IInv

-----------------------------------------------------------------------------
(* The invariant while the queue stays as it is.                           *)

LEMMA QuietInv ==
  ASSUME IInv, TypeOK', TasksInv', HandlesInv',
         UNCHANGED <<phase, running, used, events, seen>>, watch' \in {watch, "lost"},
         gaveUp \subseteq gaveUp',
         \A k \in Keys : \/ tails'[k] = tails[k]
                         \/ tails'[k] = None /\ k \in gaveUp'
  PROVE  IInv'
<1>1. \A p \in Pods, c \in Containers : <<p, c>> \in Keys
  BY DEF Keys
<1>2. Queued' = Queued
  BY DEF Queued
<1>3. \A p \in Pods : Tailed(p)' => Tailed(p)
  BY <1>1 DEF Tailed
<1>4. \A p \in Pods, i \in Queued :
        /\ Over(i, p)' <=> Over(i, p)
        /\ Lives(i, p)' <=> Lives(i, p)
        /\ Mentioned(i, p)' <=> Mentioned(i, p)
        /\ Kills(i, p)' <=> Kills(i, p)
        /\ Fresh(i, p) => Fresh(i, p)'
  BY <1>2, <1>3 DEF Over, Lives, Mentioned, Fresh, Kills
<1>5. NamesInv'
  BY <1>2, <1>3 DEF IInv, NamesInv
<1>6. EndInv'
  BY <1>2, <1>4 DEF IInv, EndInv
<1>7. ListInv'
  BY <1>2, <1>4 DEF IInv, ListInv
<1>8. StopInv'
  BY <1>2, <1>3, <1>4 DEF IInv, StopInv
<1>9. StartInv'
  <2>1. \A p \in Pods : running[p] \subseteq Containers
    BY DEF IInv, TypeOK
  <2> QED BY <1>1, <1>2, <2>1 DEF IInv, StartInv
<1> QED BY <1>5, <1>6, <1>7, <1>8, <1>9 DEF IInv

LEMMA KeyType == \A k \in Keys : k[1] \in Pods /\ k[2] \in Containers /\ k = <<k[1], k[2]>>
BY DEF Keys

LEMMA JoinInv ==
  ASSUME IInv, NEW t \in Tasks, Join(t)
  PROVE  IInv'
<1>0. TypeOK /\ TasksInv /\ HandlesInv /\ None \notin Tasks
  BY LogSupervisorAssumption DEF IInv, LogSupervisorAssumption
<1>1. /\ up /\ state[t] \in {"finished", "aborted"} /\ keyOf[t] \in Keys
      /\ state[t] = "finished" => keyOf[t] \in gaveUp
      /\ InMap(t) \/ Orphaned(t)
      /\ UNCHANGED <<phase, running, used, watch, changes, losses, events, up, seen, gaveUp>>
      /\ state' = [state EXCEPT ![t] = "free"] /\ keyOf' = [keyOf EXCEPT ![t] = None]
      /\ tails' = IF state[t] = "finished" THEN [tails EXCEPT ![keyOf[t]] = None] ELSE tails
  BY <1>0 DEF Join, TasksInv, cluster
<1>2. /\ TypeOK' /\ \A u \in Tasks \ {t} : state'[u] = state[u] /\ keyOf'[u] = keyOf[u]
      /\ state'[t] = "free" /\ tails \in [Keys -> Tasks \cup {None}]
      /\ \A k \in Keys : \/ tails'[k] = tails[k]
                         \/ tails'[k] = None /\ k \in gaveUp' /\ k = keyOf[t] /\ state[t] = "finished"
  BY <1>0, <1>1 DEF TypeOK
<1>3. ASSUME NEW u \in Tasks, state'[u] # "free"
      PROVE  keyOf'[u] \in Keys /\ (InMap(u)' \/ Orphaned(u)')
  <2>1. u # t /\ state'[u] = state[u] /\ keyOf'[u] = keyOf[u] /\ keyOf[u] \in Keys
    BY <1>0, <1>1, <1>2, <1>3 DEF TasksInv
  <2>2. InMap(u) \/ Orphaned(u)
    BY <1>0, <1>1, <1>2, <1>3, <2>1 DEF TasksInv
  <2>3. \A p \in Pods : Over(0, p)' <=> Over(0, p)
    BY <1>1 DEF Over, Lives, Queued
  <2>4. CASE InMap(u)
    <3>1. tails'[keyOf[u]] = tails[keyOf[u]]
      BY <1>0, <1>1, <1>2, <2>1, <2>4 DEF InMap, Orphaned
    <3> QED BY <2>1, <2>4, <3>1 DEF InMap
  <2>5. CASE Orphaned(u)
    <3>1. tails'[keyOf[u]] = None
      BY <1>2, <2>1, <2>5 DEF Orphaned
    <3> QED BY <2>1, <2>3, <2>5, <3>1, KeyType DEF Orphaned
  <2> QED BY <2>2, <2>4, <2>5
<1>4. TasksInv'
  BY <1>0, <1>1, <1>2, <1>3 DEF TasksInv
<1>5. HandlesInv'
  <2>1. ASSUME NEW k \in Keys, tails'[k] # None
        PROVE  keyOf'[tails'[k]] = k /\ state'[tails'[k]] \in {"running", "finished"}
    <3>1. tails'[k] = tails[k] /\ tails[k] \in Tasks
      BY <1>2, <2>1
    <3>2. keyOf[tails[k]] = k /\ state[tails[k]] \in {"running", "finished"}
      BY <1>0, <1>1, <2>1, <3>1 DEF HandlesInv
    <3>3. tails[k] # t
      BY <1>0, <1>1, <2>1, <3>1, <3>2 DEF TypeOK
    <3> QED BY <1>2, <3>1, <3>2, <3>3
  <2> QED BY <2>1 DEF HandlesInv
<1> QED BY <1>1, <1>2, <1>4, <1>5, QuietInv

LEMMA StopStep == IInv /\ Stop => IInv'
<1> SUFFICES ASSUME IInv, Stop PROVE IInv'
  OBVIOUS
<1>0. TypeOK /\ TasksInv
  BY DEF IInv
<1>1. /\ ~up' /\ UNCHANGED <<phase, running, used, watch, changes, losses, events, tails, seen, keyOf, gaveUp>>
      /\ state' = [u \in Tasks |-> IF state[u] = "running" THEN "aborted" ELSE state[u]]
  BY DEF Stop, cluster
<1>2. TypeOK'
  BY <1>0, <1>1 DEF TypeOK, Stop
<1>3. TasksInv' /\ HandlesInv'
  BY <1>0, <1>1 DEF TypeOK, TasksInv, HandlesInv
<1> QED BY <1>1, <1>2, <1>3, QuietInv

LEMMA TaskSteps ==
  ASSUME IInv, NEW t \in Tasks, TaskReturns(t) \/ TaskEnds(t)
  PROVE  IInv'
<1>0. TypeOK /\ TasksInv /\ HandlesInv /\ None \notin Tasks
  BY LogSupervisorAssumption DEF IInv, LogSupervisorAssumption
<1>1. UNCHANGED <<phase, running, used, watch, changes, losses, events, up, seen, tails>>
  BY DEF TaskReturns, TaskEnds, cluster
<1>2. \A k \in Keys : Over(0, k[1])' <=> Over(0, k[1])
  BY <1>1 DEF Over, Lives, Queued
<1>3. CASE TaskReturns(t)
  <2>1. /\ state[t] \in {"running", "aborted"} /\ keyOf' = keyOf
        /\ state' = [state EXCEPT ![t] = "finished"] /\ gaveUp' = gaveUp \cup {keyOf[t]}
    BY <1>3 DEF TaskReturns, Alive
  <2>2. keyOf[t] \in Keys /\ (up => InMap(t) \/ Orphaned(t))
    BY <1>0, <2>1 DEF TasksInv
  <2>3. TypeOK'
    BY <1>0, <1>1, <2>1, <2>2 DEF TypeOK
  <2>4. TasksInv'
    <3>1. ASSUME NEW u \in Tasks
          PROVE  /\ state'[u] # "free" => keyOf'[u] \in Keys /\ (up' => InMap(u)' \/ Orphaned(u)')
                 /\ state'[u] = "running" => up'
                 /\ state'[u] = "finished" => keyOf'[u] \in gaveUp'
      <4>1. CASE u = t
        BY <1>0, <1>1, <1>2, <2>1, <2>2, <4>1 DEF TypeOK, InMap, Orphaned
      <4>2. CASE u # t
        BY <1>0, <1>1, <1>2, <2>1, <4>2 DEF TypeOK, TasksInv, InMap, Orphaned
      <4> QED BY <4>1, <4>2
    <3> QED BY <3>1 DEF TasksInv
  <2>5. HandlesInv'
    BY <1>0, <1>1, <2>1 DEF TypeOK, HandlesInv
  <2> QED BY <1>1, <2>1, <2>3, <2>4, <2>5, QuietInv
<1>4. CASE TaskEnds(t)
  <2>1. /\ ~up /\ gaveUp' = gaveUp
        /\ state' = [state EXCEPT ![t] = "free"] /\ keyOf' = [keyOf EXCEPT ![t] = None]
    BY <1>4 DEF TaskEnds
  <2>2. TypeOK'
    BY <1>0, <1>1, <2>1 DEF TypeOK
  <2>3. TasksInv' /\ HandlesInv'
    BY <1>0, <1>1, <2>1 DEF TypeOK, TasksInv, HandlesInv
  <2> QED BY <1>1, <2>1, <2>2, <2>3, QuietInv
<1> QED BY <1>3, <1>4

LEMMA LoseStep == IInv /\ LoseWatch => IInv'
<1> SUFFICES ASSUME IInv, LoseWatch PROVE IInv'
  OBVIOUS
<1>0. TypeOK /\ TasksInv /\ HandlesInv
  BY DEF IInv
<1>1. /\ UNCHANGED <<phase, running, used, changes, events, up, tails, seen, state, keyOf, gaveUp>>
      /\ watch' = "lost" /\ losses' \in 0..MaxLosses
  BY <1>0, LogSupervisorAssumption DEF LogSupervisorAssumption, LoseWatch, TypeOK
<1>2. TypeOK' /\ TasksInv' /\ HandlesInv'
  BY <1>0, <1>1 DEF TypeOK, TasksInv, HandlesInv, InMap, Orphaned, Over, Lives, Queued
<1> QED BY <1>1, <1>2, QuietInv

-----------------------------------------------------------------------------
(* The invariant when an event is handled.                                 *)

\* The first event is taken, and nothing changes outside.
Takes == up /\ events # << >> /\ events' = Tail(events) /\ UNCHANGED <<cluster, up, gaveUp>>

\* What the supervisor remembers to have seen.
Sees ==
  \A p \in Pods : p \in seen' <=> Lists(events[1], p) \/ (p \in seen /\ events[1].kind # "Resync")

\* What was true of an event of the queue is true of it in its new place.
LEMMA TakenFacts ==
  ASSUME TypeOK, Takes, Sees, NEW p \in Pods
  PROVE  /\ \A i \in Queued' \cup {0} : Lives(i, p)' => Lives(i + 1, p) /\ Lives(i, p)
         /\ \A i \in Queued' : /\ Mentioned(i, p)' <=> Mentioned(i + 1, p)
                               /\ Kills(i, p)' <=> Kills(i + 1, p)
<1>1. /\ 1 \in Queued /\ Queued \subseteq Nat \ {0} /\ Queued' \subseteq Nat \ {0}
      /\ \A i \in Queued' : i + 1 \in Queued /\ events'[i] = events[i + 1]
      /\ \A i \in Queued : i = 1 \/ (i - 1 \in Queued' /\ events'[i - 1] = events[i])
  <2>1. /\ Len(events) \in Nat \ {0} /\ 1 \in Queued /\ events' \in Seq(Event)
        /\ \A i \in Queued' : i + 1 \in Queued /\ events'[i] = events[i + 1]
        /\ \A i \in Queued : i = 1 \/ i - 1 \in Queued'
    BY Taking DEF Takes
  <2>2. Queued \subseteq Nat \ {0} /\ Queued' \subseteq Nat \ {0}
    <3>1. Len(events') \in Nat
      BY <2>1
    <3> QED BY <2>1, <3>1 DEF Queued
  <2>3. ASSUME NEW i \in Queued, i # 1
        PROVE  i - 1 \in Queued' /\ events'[i - 1] = events[i]
    <3>1. i - 1 \in Queued' /\ events'[i - 1] = events[(i - 1) + 1]
      BY <2>1, <2>3
    <3> QED BY <2>2, <3>1
  <2> QED BY <2>1, <2>2, <2>3
<1>2. ASSUME NEW i \in Queued' \cup {0}, Lives(i, p)'
      PROVE  Lives(i + 1, p) /\ Lives(i, p)
  <2>0. phase' = phase
    BY DEF Takes, cluster
  <2>1. CASE phase[p] = "active"
    BY <2>1 DEF Lives
  <2>2. CASE \E j \in Queued' : j > i /\ Starts(events'[j], p)
    <3>1. PICK j \in Queued' : j > i /\ Starts(events'[j], p)
      BY <2>2
    <3>2. j + 1 \in Queued /\ Starts(events[j + 1], p) /\ j + 1 > i + 1 /\ j + 1 > i
      BY <1>1, <3>1
    <3> QED BY <3>2 DEF Lives
  <2> QED BY <1>2, <2>0, <2>1, <2>2 DEF Lives
<1>3. ASSUME NEW i \in Queued'
      PROVE  Mentioned(i, p)' <=> Mentioned(i + 1, p)
  <2>0. i \in Nat /\ i > 0 /\ \A l \in Queued : l \in Nat /\ l > 0
    BY <1>1
  <2> DEFINE Clear(e, que, a, b) == \A l \in que : a < l /\ l < b => e[l].kind # "Resync"
  <2>1. \A a \in Nat : Clear(events', Queued', a, i) <=> Clear(events, Queued, a + 1, i + 1)
    <3> TAKE a \in Nat
    <3>1. ASSUME Clear(events', Queued', a, i), NEW l \in Queued, a + 1 < l, l < i + 1
          PROVE  events[l].kind # "Resync"
      <4>1. l - 1 \in Queued' /\ events'[l - 1] = events[l] /\ a < l - 1 /\ l - 1 < i
        BY <1>1, <2>0, <3>1
      <4> QED BY <3>1, <4>1
    <3>2. ASSUME Clear(events, Queued, a + 1, i + 1), NEW l \in Queued', a < l, l < i
          PROVE  events'[l].kind # "Resync"
      <4>1. l + 1 \in Queued /\ events'[l] = events[l + 1] /\ a + 1 < l + 1 /\ l + 1 < i + 1
        BY <1>1, <2>0, <3>2
      <4> QED BY <3>2, <4>1
    <3> QED BY <3>1, <3>2
  <2>2. ASSUME NEW j \in Queued', j < i, Lists(events'[j], p), Clear(events', Queued', j, i)
        PROVE  Mentioned(i + 1, p)
    <3>1. j + 1 \in Queued /\ j + 1 < i + 1 /\ Lists(events[j + 1], p) /\ j \in Nat
      BY <1>1, <2>0, <2>2
    <3>2. Clear(events, Queued, j + 1, i + 1)
      BY <2>1, <2>2, <3>1
    <3> QED BY <3>1, <3>2 DEF Mentioned
  <2>3. ASSUME p \in seen', Clear(events', Queued', 0, i)
        PROVE  Mentioned(i + 1, p)
    <3>1. Clear(events, Queued, 0 + 1, i + 1)
      BY <2>1, <2>3
    <3>2. CASE Lists(events[1], p)
      BY <1>1, <2>0, <3>1, <3>2 DEF Mentioned
    <3>3. CASE p \in seen /\ events[1].kind # "Resync"
      <4>1. \A l \in Queued : l < i + 1 => events[l].kind # "Resync"
        BY <1>1, <2>0, <3>1, <3>3
      <4> QED BY <3>3, <4>1 DEF Mentioned
    <3> QED BY <2>3, <3>2, <3>3 DEF Sees
  <2>4. ASSUME NEW j \in Queued, j < i + 1, Lists(events[j], p), Clear(events, Queued, j, i + 1)
        PROVE  Mentioned(i, p)'
    <3>1. CASE j = 1
      <4>1. p \in seen'
        BY <2>4, <3>1 DEF Sees
      <4>2. Clear(events, Queued, 0 + 1, i + 1) /\ 0 \in Nat
        BY <2>4, <3>1
      <4>3. \A l \in Queued' : l < i => events'[l].kind # "Resync"
        BY <1>1, <2>0, <2>1, <4>2
      <4> QED BY <4>1, <4>3 DEF Mentioned
    <3>2. CASE j # 1
      <4>1. j - 1 \in Queued' /\ j - 1 < i /\ Lists(events'[j - 1], p) /\ j - 1 \in Nat
        BY <1>1, <2>0, <2>4, <3>2
      <4>2. Clear(events, Queued, (j - 1) + 1, i + 1)
        BY <2>0, <2>4
      <4>3. Clear(events', Queued', j - 1, i)
        BY <2>1, <4>1, <4>2
      <4> QED BY <4>1, <4>3 DEF Mentioned
    <3> QED BY <3>1, <3>2
  <2>5. ASSUME p \in seen, \A l \in Queued : l < i + 1 => events[l].kind # "Resync"
        PROVE  Mentioned(i, p)'
    <3>1. p \in seen'
      BY <1>1, <2>5 DEF Sees
    <3>2. ASSUME NEW l \in Queued', l < i
          PROVE  events'[l].kind # "Resync"
      <4>1. l + 1 \in Queued /\ events'[l] = events[l + 1] /\ l + 1 < i + 1
        BY <1>1, <2>0, <3>2
      <4> QED BY <2>5, <4>1
    <3> QED BY <3>1, <3>2 DEF Mentioned
  <2>6. (\A l \in Queued' : l < i => events'[l].kind # "Resync") => Clear(events', Queued', 0, i)
    OBVIOUS
  <2> QED BY <2>2, <2>3, <2>4, <2>5, <2>6 DEF Mentioned
<1>4. \A i \in Queued' : Kills(i, p)' <=> Kills(i + 1, p)
  BY <1>1, <1>3 DEF Kills
<1> QED BY <1>2, <1>3, <1>4

\* What handling an event has to do to the tails for the invariant to hold on.
LEMMA HandleInv ==
  ASSUME IInv, Takes, Sees, TypeOK', TasksInv', HandlesInv',
         \A p \in Pods : Tailed(p)' => Tailed(p) \/ Starts(events[1], p),
         \A p \in Pods : Kills(1, p) => ~Tailed(p)',
         \A k \in Keys : tails[k] # None /\ tails'[k] = None => phase[k[1]] # "active",
         \A k \in Keys : Starts(events[1], k[1]) /\ k[2] \in events[1].running => tails'[k] # None
  PROVE  IInv'
<1>0. /\ TypeOK /\ NamesInv /\ EndInv /\ ListInv /\ StopInv /\ StartInv
      /\ UNCHANGED <<phase, running, used, watch, gaveUp>>
  BY DEF IInv, Takes, cluster
<1>1. /\ 1 \in Queued /\ Queued \subseteq Nat \ {0} /\ Queued' \subseteq Nat \ {0}
      /\ \A i \in Queued' : i + 1 \in Queued /\ events'[i] = events[i + 1] /\ i + 1 > 1
      /\ \A i \in Queued : i = 1 \/ (i - 1 \in Queued' /\ events'[i - 1] = events[i])
  <2>1. /\ Len(events) \in Nat \ {0} /\ 1 \in Queued /\ events' \in Seq(Event)
        /\ \A i \in Queued' : i + 1 \in Queued /\ events'[i] = events[i + 1]
        /\ \A i \in Queued : i = 1 \/ i - 1 \in Queued'
    BY <1>0, Taking DEF Takes
  <2>2. Queued \subseteq Nat \ {0} /\ Queued' \subseteq Nat \ {0}
    <3>1. Len(events') \in Nat
      BY <2>1
    <3> QED BY <2>1, <3>1 DEF Queued
  <2>3. ASSUME NEW i \in Queued, i # 1
        PROVE  i - 1 \in Queued' /\ events'[i - 1] = events[i]
    <3>1. i - 1 \in Queued' /\ events'[i - 1] = events[(i - 1) + 1]
      BY <2>1, <2>3
    <3> QED BY <2>2, <3>1
  <2>4. \A i \in Queued' : i + 1 > 1
    BY <2>2
  <2> QED BY <2>1, <2>2, <2>3, <2>4
<1>2. \A p \in Pods :
        /\ \A i \in Queued' \cup {0} : Lives(i, p)' => Lives(i + 1, p) /\ Lives(i, p)
        /\ \A i \in Queued' : /\ Mentioned(i, p)' <=> Mentioned(i + 1, p)
                              /\ Kills(i, p)' <=> Kills(i + 1, p)
  BY <1>0, TakenFacts
<1>3. NamesInv'
  <2>1. \A p \in Pods : Tailed(p)' => p \in used
    BY <1>0, <1>1 DEF NamesInv, Starts
  <2>2. \A i \in Queued', p \in Pods : Lists(events'[i], p) => p \in used
    BY <1>0, <1>1 DEF NamesInv
  <2> QED BY <1>0, <2>1, <2>2 DEF NamesInv
<1>4. EndInv'
  <2>1. ASSUME NEW i \in Queued', NEW p \in Pods, Ends(events'[i], p)
        PROVE  Over(i, p)'
    <3>1. Over(i + 1, p)
      BY <1>0, <1>1, <2>1 DEF EndInv
    <3> QED BY <1>0, <1>2, <3>1 DEF Over
  <2> QED BY <2>1 DEF EndInv
<1>5. ListInv'
  <2>1. ASSUME NEW i \in Queued', NEW p \in Pods, events'[i].kind = "ResyncDone", Lives(i, p)'
        PROVE  Mentioned(i, p)' \/ Fresh(i, p)'
    <3>1. i + 1 \in Queued /\ events[i + 1].kind = "ResyncDone" /\ Lives(i + 1, p)
      BY <1>1, <1>2, <2>1
    <3>2. CASE Mentioned(i + 1, p)
      BY <1>2, <3>2
    <3>3. CASE Fresh(i + 1, p)
      <4>1. ~Tailed(p) /\ \A j \in Queued : j < i + 1 => ~Lists(events[j], p)
        BY <3>3 DEF Fresh
      <4>2. i \in Nat \ {0}
        BY <1>1
      <4>3. ~Lists(events[1], p)
        BY <1>1, <4>1, <4>2
      <4>4. ~Tailed(p)'
        BY <4>1, <4>3 DEF Starts
      <4>5. ASSUME NEW j \in Queued', j < i
            PROVE  ~Lists(events'[j], p)
        <5>1. j + 1 \in Queued /\ events'[j] = events[j + 1] /\ j + 1 < i + 1
          BY <1>1, <4>2, <4>5
        <5> QED BY <4>1, <5>1
      <4> QED BY <4>4, <4>5 DEF Fresh
    <3> QED BY <1>0, <3>1, <3>2, <3>3 DEF ListInv
  <2> QED BY <2>1 DEF ListInv
<1>6. StopInv'
  <2>1. ASSUME watch' = "live", NEW p \in Pods, phase'[p] # "active"
        PROVE  /\ Tailed(p)' => \E i \in Queued' : Kills(i, p)'
               /\ \A j \in Queued' : Starts(events'[j], p) => \E i \in Queued' : i > j /\ Kills(i, p)'
    <3>1. watch = "live" /\ phase[p] # "active"
      BY <1>0, <2>1
    <3>2. ASSUME NEW i \in Queued, i # 1, Kills(i, p)
          PROVE  i - 1 \in Queued' /\ Kills(i - 1, p)' /\ i \in Nat
      <4>1. i - 1 \in Queued' /\ (i - 1) + 1 = i /\ i \in Nat
        BY <1>1, <3>2
      <4>2. Kills(i - 1, p)' <=> Kills((i - 1) + 1, p)
        BY <1>2, <4>1
      <4> QED BY <3>2, <4>1, <4>2
    <3>3. ASSUME Tailed(p)'
          PROVE  \E i \in Queued' : Kills(i, p)'
      <4>1. \E i \in Queued : Kills(i, p)
        BY <1>0, <1>1, <3>1, <3>3 DEF StopInv
      <4>2. PICK i \in Queued : Kills(i, p)
        BY <4>1
      <4>3. i # 1
        BY <3>3, <4>2
      <4> QED BY <3>2, <4>2, <4>3
    <3>4. ASSUME NEW j \in Queued', Starts(events'[j], p)
          PROVE  \E i \in Queued' : i > j /\ Kills(i, p)'
      <4>1. j + 1 \in Queued /\ Starts(events[j + 1], p) /\ j \in Nat \ {0}
        BY <1>1, <3>4
      <4>2. PICK i \in Queued : i > j + 1 /\ Kills(i, p)
        BY <1>0, <3>1, <4>1 DEF StopInv
      <4>3. i # 1 /\ i - 1 > j
        BY <1>1, <4>1, <4>2
      <4>4. i - 1 \in Queued' /\ Kills(i - 1, p)'
        BY <3>2, <4>2, <4>3
      <4> QED BY <4>3, <4>4
    <3> QED BY <3>3, <3>4
  <2> QED BY <2>1 DEF StopInv
<1>7. StartInv'
  <2>1. ASSUME watch' = "live", NEW p \in Pods, NEW c \in running'[p]
        PROVE  \/ <<p, c>> \in gaveUp' \/ tails'[<<p, c>>] # None
               \/ \E j \in Queued' : Starts(events'[j], p) /\ c \in events'[j].running
    <3>1. watch = "live" /\ c \in running[p] /\ c \in Containers /\ phase[p] = "active"
      BY <1>0, <2>1 DEF TypeOK, NamesInv
    <3>2. <<p, c>> \in Keys /\ <<p, c>>[1] = p /\ <<p, c>>[2] = c
      BY <3>1 DEF Keys
    <3>3. CASE <<p, c>> \in gaveUp
      BY <1>0, <3>3
    <3>4. CASE tails[<<p, c>>] # None
      BY <3>1, <3>2, <3>4
    <3>5. CASE \E j \in Queued : Starts(events[j], p) /\ c \in events[j].running
      <4>1. PICK j \in Queued : Starts(events[j], p) /\ c \in events[j].running
        BY <3>5
      <4>2. CASE j = 1
        BY <3>2, <4>1, <4>2
      <4>3. CASE j # 1
        BY <1>1, <4>1, <4>3
      <4> QED BY <4>2, <4>3
    <3> QED BY <1>0, <3>1, <3>3, <3>4, <3>5 DEF StartInv
  <2> QED BY <2>1 DEF StartInv
<1> QED BY <1>3, <1>4, <1>5, <1>6, <1>7 DEF IInv

\* Ending the tails of pods that are over.
LEMMA StopEffect ==
  ASSUME IInv, Takes, Sees, NEW ps, StopPods(ps), \A p \in Pods : p \in ps => Over(1, p)
  PROVE  /\ TasksInv' /\ HandlesInv'
         /\ \A p \in Pods : Tailed(p)' => Tailed(p) /\ p \notin ps
         /\ \A k \in Keys : tails[k] # None /\ tails'[k] = None => phase[k[1]] # "active"
<1>0. /\ TypeOK /\ TasksInv /\ HandlesInv /\ None \notin Tasks /\ up /\ up' /\ UNCHANGED <<used, gaveUp>>
      /\ tails \in [Keys -> Tasks \cup {None}]
  BY LogSupervisorAssumption DEF LogSupervisorAssumption, IInv, Takes, cluster, TypeOK
<1>1. \A p \in Pods : Over(0, p) \/ Over(1, p) => Over(0, p)'
  BY <1>0, TakenFacts DEF Over
<1>2. /\ tails' = [k \in Keys |-> IF k[1] \in ps THEN None ELSE tails[k]]
      /\ state' = [t \in Tasks |->
           IF state[t] = "running" /\ \E k \in Keys : k[1] \in ps /\ tails[k] = t
             THEN "aborted" ELSE state[t]]
      /\ keyOf' = keyOf
  BY DEF StopPods
<1>3. ASSUME NEW t \in Tasks
      PROVE  /\ state'[t] # "free" => keyOf'[t] \in Keys /\ (up' => InMap(t)' \/ Orphaned(t)')
             /\ state'[t] = "running" => up'
             /\ state'[t] = "finished" => keyOf'[t] \in gaveUp'
  <2>1. /\ state'[t] = "finished" => state[t] = "finished"
        /\ state'[t] # "free" => state[t] # "free"
    BY <1>2
  <2>2. ASSUME state'[t] # "free"
        PROVE  keyOf'[t] \in Keys /\ (InMap(t)' \/ Orphaned(t)')
    <3>1. /\ keyOf[t] \in Keys /\ keyOf'[t] = keyOf[t] /\ keyOf[t][1] \in Pods
          /\ InMap(t) \/ Orphaned(t)
      BY <1>0, <1>2, <2>1, <2>2, KeyType DEF TasksInv
    <3>2. CASE keyOf[t][1] \in ps
      <4>1. tails'[keyOf[t]] = None /\ state'[t] # "running"
        BY <1>2, <3>1, <3>2 DEF InMap, Orphaned
      <4> QED BY <1>1, <3>1, <3>2, <4>1 DEF Orphaned
    <3>3. CASE keyOf[t][1] \notin ps
      <4>1. tails'[keyOf[t]] = tails[keyOf[t]]
        BY <1>2, <3>1, <3>3
      <4>2. ~\E k \in Keys : k[1] \in ps /\ tails[k] = t
        BY <1>0, <3>3 DEF HandlesInv
      <4>3. state'[t] = state[t]
        BY <1>2, <4>2
      <4> QED BY <1>1, <3>1, <4>1, <4>3 DEF InMap, Orphaned
    <3> QED BY <3>1, <3>2, <3>3
  <2> QED BY <1>0, <1>2, <2>1, <2>2 DEF TasksInv
<1>4. HandlesInv'
  <2>1. ASSUME NEW k \in Keys, tails'[k] # None
        PROVE  keyOf'[tails'[k]] = k /\ state'[tails'[k]] \in {"running", "finished"}
    <3>1. k[1] \notin ps /\ tails'[k] = tails[k] /\ tails[k] \in Tasks
      BY <1>0, <1>2, <2>1
    <3>2. keyOf[tails[k]] = k /\ state[tails[k]] \in {"running", "finished"}
      BY <1>0, <2>1, <3>1 DEF HandlesInv
    <3>3. ~\E l \in Keys : l[1] \in ps /\ tails[l] = tails[k]
      BY <1>0, <3>1, <3>2 DEF HandlesInv
    <3> QED BY <1>2, <3>1, <3>2, <3>3
  <2> QED BY <2>1 DEF HandlesInv
<1>5. \A p \in Pods : Tailed(p)' => Tailed(p) /\ p \notin ps
  <2>1. \A p \in Pods, c \in Containers : <<p, c>> \in Keys /\ <<p, c>>[1] = p
    BY DEF Keys
  <2> QED BY <1>2, <2>1 DEF Tailed
<1>6. ASSUME NEW k \in Keys, tails[k] # None, tails'[k] = None
      PROVE  phase[k[1]] # "active"
  <2>1. k[1] \in ps /\ k[1] \in Pods
    BY <1>2, <1>6, KeyType
  <2> QED BY <2>1 DEF Over, Lives
<1> QED BY <1>3, <1>4, <1>5, <1>6 DEF TasksInv

\* Starting the tails that are missing.
LEMMA SpawnEffect ==
  ASSUME IInv, Takes, Sees, NEW p \in Pods, NEW run \in SUBSET Containers,
         Starts(events[1], p), SpawnMissing(p, run)
  PROVE  /\ TasksInv' /\ HandlesInv'
         /\ \A q \in Pods : Tailed(q)' => Tailed(q) \/ q = p
         /\ \A k \in Keys : tails[k] # None => tails'[k] # None
         /\ \A c \in run : tails'[<<p, c>>] # None
<1>0. /\ TypeOK /\ TasksInv /\ HandlesInv /\ None \notin Tasks /\ up /\ up' /\ UNCHANGED <<used, gaveUp>>
      /\ tails \in [Keys -> Tasks \cup {None}] /\ keyOf \in [Tasks -> Keys \cup {None}]
      /\ events # << >> /\ events' = Tail(events)
  BY LogSupervisorAssumption DEF LogSupervisorAssumption, IInv, Takes, cluster, TypeOK
<1>1. \A q \in Pods : Over(0, q) => Over(0, q)' /\ q # p
  <2>1. 1 \in Queued /\ 1 > 0
    BY <1>0, Taking
  <2> QED BY <1>0, <2>1, TakenFacts DEF Over, Lives
<1> DEFINE missing == {k \in {p} \X run : tails[k] = None}
<1>2. /\ missing \subseteq Keys /\ \A k \in missing : tails[k] = None /\ k[1] = p
      /\ \A c \in run : <<p, c>> \in Keys /\ (tails[<<p, c>>] = None => <<p, c>> \in missing)
  BY DEF Keys
<1>3. \A t \in Free : t \in Tasks /\ state[t] = "free" /\ t # None
  BY <1>0 DEF Free
<1>4. PICK f \in [missing -> Free] :
        /\ \A k, l \in missing : f[k] = f[l] => k = l
        /\ tails' = [k \in Keys |-> IF k \in missing THEN f[k] ELSE tails[k]]
        /\ state' = [t \in Tasks |->
             IF \E k \in missing : f[k] = t THEN "running" ELSE state[t]]
        /\ keyOf' = [t \in Tasks |->
             IF \E k \in missing : f[k] = t
               THEN CHOOSE k \in missing : f[k] = t ELSE keyOf[t]]
  BY DEF SpawnMissing, missing
<1> HIDE DEF missing
<1>5. \A k \in missing : /\ f[k] \in Tasks /\ state[f[k]] = "free" /\ f[k] # None
                         /\ tails'[k] = f[k] /\ state'[f[k]] = "running" /\ keyOf'[f[k]] = k
  <2> TAKE k \in missing
  <2>1. f[k] \in Tasks /\ state[f[k]] = "free" /\ f[k] # None
    BY <1>3
  <2>2. tails'[k] = f[k] /\ state'[f[k]] = "running"
    BY <1>2, <1>4, <2>1
  <2>3. keyOf'[f[k]] = CHOOSE l \in missing : f[l] = f[k]
    BY <1>4, <2>1
  <2>4. keyOf'[f[k]] \in missing /\ f[keyOf'[f[k]]] = f[k]
    BY <2>3
  <2>5. keyOf'[f[k]] = k
    BY <1>4, <2>4
  <2> QED BY <2>1, <2>2, <2>5
<1>6. /\ \A k \in Keys : k \in missing \/ tails'[k] = tails[k]
      /\ \A t \in Tasks : \/ \E k \in missing : f[k] = t
                          \/ state'[t] = state[t] /\ keyOf'[t] = keyOf[t]
  BY <1>4
<1>7. ASSUME NEW t \in Tasks
      PROVE  /\ state'[t] # "free" => keyOf'[t] \in Keys /\ (up' => InMap(t)' \/ Orphaned(t)')
             /\ state'[t] = "running" => up'
             /\ state'[t] = "finished" => keyOf'[t] \in gaveUp'
  <2>1. CASE \E k \in missing : f[k] = t
    <3>1. PICK k \in missing : f[k] = t
      BY <2>1
    <3>2. keyOf'[t] = k /\ k \in Keys /\ tails'[k] = t /\ state'[t] = "running"
      BY <1>2, <1>5, <3>1
    <3> QED BY <1>0, <3>2 DEF InMap
  <2>2. CASE ~\E k \in missing : f[k] = t
    <3>1. state'[t] = state[t] /\ keyOf'[t] = keyOf[t]
      BY <1>6, <2>2
    <3>2. ASSUME state[t] # "free"
          PROVE  keyOf[t] \in Keys /\ (InMap(t)' \/ Orphaned(t)')
      <4>1. keyOf[t] \in Keys /\ keyOf[t][1] \in Pods /\ (InMap(t) \/ Orphaned(t))
        BY <1>0, <3>2, KeyType DEF TasksInv
      <4>2. keyOf[t] \notin missing
        BY <1>0, <1>1, <1>2, <4>1 DEF InMap, Orphaned
      <4>3. tails'[keyOf[t]] = tails[keyOf[t]]
        BY <1>6, <4>1, <4>2
      <4> QED BY <1>1, <3>1, <4>1, <4>3 DEF InMap, Orphaned
    <3> QED BY <1>0, <3>1, <3>2 DEF TasksInv
  <2> QED BY <2>1, <2>2
<1>8. HandlesInv'
  <2>1. ASSUME NEW k \in Keys, tails'[k] # None
        PROVE  keyOf'[tails'[k]] = k /\ state'[tails'[k]] \in {"running", "finished"}
    <3>1. CASE k \in missing
      BY <1>5, <3>1
    <3>2. CASE k \notin missing
      <4>1. tails'[k] = tails[k] /\ tails[k] \in Tasks
        BY <1>0, <1>6, <2>1, <3>2
      <4>2. keyOf[tails[k]] = k /\ state[tails[k]] \in {"running", "finished"}
        BY <1>0, <2>1, <4>1 DEF HandlesInv
      <4>3. ~\E l \in missing : f[l] = tails[k]
        BY <1>5, <4>2
      <4> QED BY <1>6, <4>1, <4>2, <4>3
    <3> QED BY <3>1, <3>2
  <2> QED BY <2>1 DEF HandlesInv
<1>9. \A q \in Pods : Tailed(q)' => Tailed(q) \/ q = p
  <2>1. \A q \in Pods, c \in Containers : <<q, c>> \in Keys /\ <<q, c>>[1] = q
    BY DEF Keys
  <2> QED BY <1>2, <1>6, <2>1 DEF Tailed
<1>10. \A k \in Keys : tails[k] # None => tails'[k] # None
  BY <1>2, <1>6
<1>11. \A c \in run : tails'[<<p, c>>] # None
  BY <1>2, <1>5, <1>6
<1> QED BY <1>7, <1>8, <1>9, <1>10, <1>11 DEF TasksInv

LEMMA EventStep == IInv /\ OnEvent => IInv'
<1> SUFFICES ASSUME IInv, OnEvent PROVE IInv'
  OBVIOUS
<1> DEFINE e == events[1]
<1>0. TypeOK /\ EndInv /\ ListInv
  BY DEF IInv
<1>1. /\ Takes /\ Head(events) = e
      /\ \/ OnApplied /\ e.kind = "Applied"
         \/ OnDeleted /\ e.kind = "Deleted"
         \/ OnResync /\ e.kind = "Resync"
         \/ OnResyncDone /\ e.kind = "ResyncDone"
  <2>1. Takes
    BY DEF OnEvent, OnApplied, OnDeleted, OnResync, OnResyncDone, Handle, Takes
  <2>2. Head(events) = e
    BY <1>0, <2>1, Taking DEF Takes
  <2> HIDE DEF e
  <2>3. /\ OnApplied => e.kind = "Applied"
        /\ OnDeleted => e.kind = "Deleted"
        /\ OnResync => e.kind = "Resync"
        /\ OnResyncDone => e.kind = "ResyncDone"
    BY <2>2 DEF OnApplied, OnDeleted, OnResync, OnResyncDone, Handle
  <2> QED BY <2>1, <2>2, <2>3 DEF OnEvent
<1>2. /\ 1 \in Queued /\ e \in Event /\ events' \in Seq(Event) /\ ~\E j \in Queued : j < 1
  <2>1. Len(events) \in Nat \ {0} /\ 1 \in Queued /\ e \in Event /\ events' \in Seq(Event)
    BY <1>0, <1>1, Taking DEF Takes
  <2> QED BY <2>1 DEF Queued
<1> HIDE DEF e
<1>3. /\ e.kind = "Applied" => e.pod \in Pods /\ e.ended \in BOOLEAN /\ e.running \in SUBSET Containers
      /\ e.kind = "Deleted" => e.pod \in Pods
  BY <1>2, EventFields
<1>4. \A p \in Pods : Mentioned(1, p) <=> p \in seen
  BY <1>2 DEF Mentioned
<1>5. ASSUME NEW ps \in SUBSET Pods, StopPods(ps), Sees, seen' \in SUBSET Pods,
             \A p \in ps : Over(1, p),
             \A p \in Pods : Kills(1, p) => p \in ps \/ ~Tailed(p),
             \A p \in Pods : ~Starts(e, p)
      PROVE  IInv'
  <2>1. TypeOK'
    <3>1. /\ tails' \in [Keys -> Tasks \cup {None}] /\ keyOf' = keyOf
          /\ state' \in [Tasks -> {"free", "running", "aborted", "finished"}]
      BY <1>0, <1>5, StopType
    <3> QED BY <1>0, <1>1, <1>2, <1>5, <3>1 DEF TypeOK, Takes, cluster
  <2>2. /\ TasksInv' /\ HandlesInv'
        /\ \A p \in Pods : Tailed(p)' => Tailed(p) /\ p \notin ps
        /\ \A k \in Keys : tails[k] # None /\ tails'[k] = None => phase[k[1]] # "active"
    BY <1>1, <1>5, StopEffect
  <2> QED BY <1>1, <1>5, <2>1, <2>2, KeyType, HandleInv DEF e
<1>6. ASSUME OnApplied, e.kind = "Applied"
      PROVE  IInv'
  <2>1. /\ seen' = seen \cup {e.pod} /\ e.pod \in Pods
        /\ e.ended => StopPods({e.pod})
        /\ ~e.ended => SpawnMissing(e.pod, e.running)
    BY <1>1, <1>3, <1>6 DEF OnApplied
  <2>2. \A p \in Pods : /\ Lists(e, p) <=> p = e.pod
                        /\ Starts(e, p) <=> p = e.pod /\ ~e.ended
                        /\ Ends(e, p) <=> p = e.pod /\ e.ended
                        /\ Kills(1, p) <=> p = e.pod /\ e.ended
    BY <1>3, <1>6 DEF Lists, Starts, Ends, Kills, e
  <2>3. Sees /\ seen' \in SUBSET Pods
    BY <1>0, <1>6, <2>1, <2>2 DEF Sees, TypeOK, e
  <2>4. CASE e.ended
    <3>1. Over(1, e.pod)
      BY <1>0, <1>2, <2>1, <2>2, <2>4 DEF EndInv, e
    <3> QED BY <1>5, <2>1, <2>2, <2>3, <2>4, <3>1
  <2>5. CASE ~e.ended
    <3>1. /\ tails' \in [Keys -> Tasks \cup {None}] /\ keyOf' \in [Tasks -> Keys \cup {None}]
          /\ state' \in [Tasks -> {"free", "running", "aborted", "finished"}]
      BY <1>0, <1>3, <1>6, <2>1, <2>5, SpawnType
    <3>2. TypeOK'
      BY <1>0, <1>1, <1>2, <2>3, <3>1 DEF TypeOK, Takes, cluster
    <3>3. /\ TasksInv' /\ HandlesInv'
          /\ \A p \in Pods : Tailed(p)' => Tailed(p) \/ p = e.pod
          /\ \A k \in Keys : tails[k] # None => tails'[k] # None
          /\ \A c \in e.running : tails'[<<e.pod, c>>] # None
      BY <1>1, <1>3, <1>6, <2>1, <2>2, <2>3, <2>5, SpawnEffect DEF e
    <3>4. \A k \in Keys : Starts(e, k[1]) /\ k[2] \in e.running => tails'[k] # None
      BY <2>2, <3>3, KeyType
    <3> QED BY <1>1, <2>2, <2>3, <2>5, <3>2, <3>3, <3>4, HandleInv DEF e
  <2> QED BY <1>3, <1>6, <2>4, <2>5
<1>7. ASSUME OnDeleted, e.kind = "Deleted"
      PROVE  IInv'
  <2>1. seen' = seen /\ e.pod \in Pods /\ StopPods({e.pod})
    BY <1>1, <1>3, <1>7 DEF OnDeleted
  <2>2. \A p \in Pods : /\ ~Lists(e, p) /\ ~Starts(e, p)
                        /\ Ends(e, p) <=> p = e.pod
                        /\ Kills(1, p) <=> p = e.pod
    BY <1>3, <1>7 DEF Lists, Starts, Ends, Kills, e
  <2>3. Sees /\ seen' \in SUBSET Pods
    BY <1>0, <1>7, <2>1, <2>2 DEF Sees, TypeOK, e
  <2>4. Over(1, e.pod)
    BY <1>0, <1>2, <2>1, <2>2 DEF EndInv, e
  <2> QED BY <1>5, <2>1, <2>2, <2>3, <2>4
<1>8. ASSUME OnResync, e.kind = "Resync"
      PROVE  IInv'
  <2>1. seen' = {} /\ UNCHANGED <<tails, state, keyOf>>
    BY <1>8 DEF OnResync
  <2>2. \A p \in Pods : ~Lists(e, p) /\ ~Starts(e, p) /\ ~Kills(1, p)
    BY <1>8 DEF Lists, Starts, Ends, Kills, e
  <2>3. Sees /\ seen' \in SUBSET Pods
    BY <1>8, <2>1, <2>2 DEF Sees, e
  <2>4. StopPods({})
    BY <1>0, <2>1 DEF StopPods, TypeOK
  <2> QED BY <1>5, <2>2, <2>3, <2>4
<1>9. ASSUME OnResyncDone, e.kind = "ResyncDone"
      PROVE  IInv'
  <2> DEFINE ps == {p \in Pods : p \notin seen /\ \E c \in Containers : tails[<<p, c>>] # None}
  <2>1. seen' = seen /\ StopPods(ps) /\ ps \in SUBSET Pods
    BY <1>9 DEF OnResyncDone
  <2>2. \A p \in Pods : ~Lists(e, p) /\ ~Starts(e, p)
    BY <1>9 DEF Lists, Starts
  <2>3. \A p \in Pods : Kills(1, p) => p \in ps \/ ~Tailed(p)
    BY <1>4, <1>9 DEF Lists, Ends, Kills, Tailed, e
  <2>4. Sees /\ seen' \in SUBSET Pods
    BY <1>0, <1>9, <2>1, <2>2 DEF Sees, TypeOK, e
  \* A pod that the list did not mention, and that is known, is over.
  <2>5. ASSUME NEW p \in ps
        PROVE  Over(1, p)
    <3>1. p \in Pods /\ p \notin seen /\ Tailed(p)
      BY DEF Tailed
    <3>2. ~Mentioned(1, p) /\ ~Fresh(1, p) /\ p \in used
      BY <1>4, <3>1 DEF Fresh, IInv, NamesInv
    <3> QED BY <1>0, <1>2, <1>9, <3>1, <3>2 DEF ListInv, Over, e
  <2> HIDE DEF ps
  <2> QED BY <1>5, <2>1, <2>2, <2>3, <2>4, <2>5
<1> QED BY <1>1, <1>6, <1>7, <1>8, <1>9

-----------------------------------------------------------------------------
LEMMA InitInv == Init => IInv
<1> SUFFICES ASSUME Init PROVE IInv
  OBVIOUS
<1> USE LogSupervisorAssumption DEF LogSupervisorAssumption, Init
<1>1. events = << >> /\ Queued = {}
  BY DEF Queued
<1>2. TypeOK
  BY DEF TypeOK
<1>3. \A p \in Pods : ~Tailed(p)
  BY DEF Tailed, Keys
<1>4. NamesInv
  BY <1>1, <1>3, FS_EmptySet DEF NamesInv
<1>5. EndInv /\ ListInv /\ StopInv /\ StartInv
  BY <1>1, <1>3 DEF EndInv, ListInv, StopInv, StartInv
<1>6. TasksInv /\ HandlesInv
  BY DEF TasksInv, HandlesInv
<1> QED BY <1>2, <1>4, <1>5, <1>6 DEF IInv

LEMMA StepInv == IInv /\ [Next]_vars => IInv'
<1> SUFFICES ASSUME IInv, [Next]_vars PROVE IInv'
  OBVIOUS
<1>0. TypeOK /\ NamesInv
  BY DEF IInv
<1>1. CASE ClusterStep
  <2>1. PICK p \in Pods : CreatePod(p) \/ RunContainers(p) \/ EndPod(p) \/ DeletePod(p)
    BY <1>1 DEF ClusterStep
  <2>2. PICK ev : Change(p, ev)
    BY <1>0, <2>1, ChangeEffect
  <2> QED BY <2>2, ChangeInv
<1>2. CASE Relist
  BY <1>0, <1>2, RelistEffect, CompleteInv
<1>3. CASE RelistBreaks
  BY <1>0, <1>3, BreakEffect, PartialInv
<1>4. CASE LoseWatch \/ Stop
  BY <1>4, LoseStep, StopStep
<1>5. CASE OnEvent
  BY <1>5, EventStep
<1>6. CASE JoinSome \/ \E t \in Tasks : TaskReturns(t) \/ TaskEnds(t)
  BY <1>6, JoinInv, TaskSteps DEF JoinSome
<1>7. CASE UNCHANGED vars
  <2>1. UNCHANGED <<phase, running, used, watch, changes, losses, events, up, tails, seen,
                    state, keyOf, gaveUp>>
    BY <1>7 DEF vars, cluster
  <2>2. TypeOK' /\ TasksInv' /\ HandlesInv'
    BY <2>1 DEF IInv, TypeOK, TasksInv, HandlesInv, InMap, Orphaned, Over, Lives, Queued
  <2> QED BY <2>1, <2>2, QuietInv
<1> QED BY <1>1, <1>2, <1>3, <1>4, <1>5, <1>6, <1>7 DEF Next

LEMMA SpecInv == Spec => []IInv
BY InitInv, StepInv, PTL DEF Spec

-----------------------------------------------------------------------------
(* What follows.                                                           *)

\* The supervisor never tails a container twice and never loses the handle of a
\* task that runs, whatever pods come and go, watches break and tasks end
\* (Supervisor in logs.rs, from :189 to :256).
THEOREM BookkeepingOKThm == Spec => []BookkeepingOK
<1>1. IInv => BookkeepingOK
  <2> SUFFICES ASSUME IInv PROVE BookkeepingOK
    OBVIOUS
  <2>1. OneTailPerKey
    BY DEF IInv, TasksInv, InMap, Orphaned, OneTailPerKey
  <2>2. TailsExact
    BY DEF IInv, TasksInv, HandlesInv, InMap, Orphaned, TailsExact
  <2> QED BY <2>1, <2>2 DEF IInv, BookkeepingOK
<1> QED BY <1>1, SpecInv, PTL

\* Under a live watch, and with every event handled, no pod that is gone or ended
\* is tailed, and every running container is, unless its tail gave up: also after
\* pods came and went while nobody was told (logs.rs:215-245).
THEOREM TailsMatchPodsThm == Spec => []TailsMatchPods
<1>1. IInv => TailsMatchPods
  <2> SUFFICES ASSUME IInv, Settled, NEW p \in Pods, NEW c \in Containers
               PROVE  /\ tails[<<p, c>>] # None => phase[p] = "active"
                      /\ c \in running[p] /\ <<p, c>> \notin gaveUp => tails[<<p, c>>] # None
    BY DEF TailsMatchPods
  <2>1. watch = "live" /\ Queued = {}
    BY DEF Settled, Queued
  <2>2. tails[<<p, c>>] # None => Tailed(p)
    BY DEF Tailed
  <2> QED BY <2>1, <2>2 DEF IInv, StopInv, StartInv
<1> QED BY <1>1, SpecInv, PTL

=============================================================================
