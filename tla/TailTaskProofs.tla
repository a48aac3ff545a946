--------------------------- MODULE TailTaskProofs ---------------------------
(***************************************************************************)
(* Proofs about TailTask: its type invariant, the inductive invariant of   *)
(* its resume-and-deduplicate loop, and, from it, that the loop implements *)
(* LineDelivery for every log, capacity, failure budget and since.         *)
(***************************************************************************)
EXTENDS TailTask, FiniteSetTheorems, TLAPS


\* Types are kept by every step.
THEOREM TypeCorrect == Spec => []TypeOK
<1> USE TailTaskAssumption DEF TailTaskAssumption
<1>1. Init => TypeOK
  <2> SUFFICES ASSUME Init PROVE TypeOK
    OBVIOUS
  <2>1. boundary \in [Texts -> Nat] /\ replay \in [Texts -> Nat]
    BY DEF Init, NoText
  <2>2. << >> \in Seq(Line) /\ << >> \in Seq(Nat)
    OBVIOUS
  <2>3. log \in Seq(Line) /\ sent \in Seq(Nat)
    BY <2>2 DEF Init
  <2>4. up \in BOOLEAN /\ closed \in BOOLEAN
    BY DEF Init
  <2> QED BY <2>1, <2>3, <2>4 DEF Init, TypeOK
<1>2. TypeOK /\ [Next]_vars => TypeOK'
  <2> SUFFICES ASSUME TypeOK, [Next]_vars PROVE TypeOK'
    OBVIOUS
  <2> USE DEF TypeOK
  <2>1. CASE WriteLine
    <3>1. PICK at \in Instants, text \in Texts :
            log' = Append(log, [at |-> at, text |-> text, inst |-> inst])
      BY <2>1 DEF WriteLine
    <3>2. [at |-> at, text |-> text, inst |-> inst] \in Line
      BY DEF Line
    <3>3. log' \in Seq(Line)
      BY <3>1, <3>2
    <3>4. UNCHANGED <<inst, base, up, stream, memory, channel, pc, failures, held,
                      backlog, faults>>
      BY <2>1 DEF WriteLine
    <3> QED BY <3>3, <3>4 DEF stream, memory, channel
  <2>2. CASE ContainerExits
    BY <2>2 DEF ContainerExits, stream, memory, channel
  <2>3. CASE ContainerRestarts
    BY <2>3 DEF ContainerRestarts, stream, memory, channel
  <2>4. CASE Receive
    BY <2>4 DEF Receive, container, stream, memory
  <2>5. CASE Close
    BY <2>5 DEF Close, container, stream, memory
  <2>6. CASE OpenStream
    BY <2>6 DEF OpenStream, container, memory, channel
  <2>7. CASE OpenFails
    BY <2>7 DEF OpenFails, container, stream, memory, channel
  <2>8. CASE SkipLine
    <3>1. PICK i \in pos..Len(log) :
            /\ Replayed(log[i])
            /\ replay' = [replay EXCEPT ![log[i].text] = @ - 1]
            /\ pos' = i + 1
      BY <2>8 DEF SkipLine
    <3>2. log[i] \in Line
      OBVIOUS
    <3>3. log[i].text \in Texts /\ replay[log[i].text] \in Nat \ {0}
      BY <3>1, <3>2 DEF Line, Replayed
    <3>4. replay' \in [Texts -> Nat] /\ pos' \in Nat \ {0}
      BY <3>1, <3>3
    <3> QED BY <2>8, <3>4 DEF SkipLine, container, memory, channel
  <2>9. CASE TakeLine
    <3>1. PICK i \in pos..Len(log) : Remember(log[i]) /\ held' = i /\ pos' = i + 1
      BY <2>9 DEF TakeLine
    <3>2. log[i].text \in Texts /\ log[i].at \in Nat
      <4>1. log[i] \in Line
        OBVIOUS
      <4> QED BY <4>1 DEF Line
    <3>3. lastTs' \in Nat
      BY <3>1, <3>2 DEF Remember
    <3>5. boundary' \in [Texts -> Nat]
      BY <3>1, <3>2 DEF Remember
    <3>4. held' \in Nat /\ pos' \in Nat \ {0}
      BY <3>1
    <3> QED BY <2>9, <3>3, <3>4, <3>5 DEF TakeLine, container, channel
  <2>10. CASE SendLine
    BY <2>10 DEF SendLine, container, stream, memory
  <2>11. CASE SendFails
    BY <2>11 DEF SendFails, container, stream, memory, channel
  <2>12. CASE StreamBreaks
    BY <2>12 DEF StreamBreaks, Resume, container, stream, channel
  <2>13. CASE StreamEnds
    BY <2>13 DEF StreamEnds, Resume, container, stream, channel
  <2>14. CASE ReportFailure
    BY <2>14 DEF ReportFailure, container, stream, memory
  <2>15. CASE UNCHANGED vars
    BY <2>15 DEF vars, container, stream, memory, channel
  <2> QED
    BY <2>1, <2>2, <2>3, <2>4, <2>5, <2>6, <2>7, <2>8, <2>9, <2>10, <2>11,
       <2>12, <2>13, <2>14, <2>15 DEF Next, Environment, TaskStep
<1> QED BY <1>1, <1>2, PTL DEF Spec

-----------------------------------------------------------------------------
(* Lemmas about the operators.                                             *)

LEMMA LastOfAppend ==
  ASSUME NEW s \in Seq(Nat), NEW x \in Nat
  PROVE  Delivery!LastOf(Append(s, x)) = x
  BY DEF Delivery!LastOf

LEMMA LastOfType ==
  ASSUME NEW s \in Seq(Nat)
  PROVE  Delivery!LastOf(s) \in Nat
  BY DEF Delivery!LastOf

LEMMA TakenType ==
  ASSUME TypeOK
  PROVE  Taken \in Nat
  BY LastOfType DEF Taken, TypeOK

LEMMA LineType ==
  ASSUME NEW line \in Line
  PROVE  line.at \in Nat /\ line.at # 0 /\ line.inst \in Nat /\ line.text \in Texts
<1>1. line.at \in Instants /\ line.text \in Texts /\ line.inst \in 0..MaxRestarts
  BY DEF Line
<1>2. Instants \subseteq Nat \ {0} /\ MaxRestarts \in Nat
  BY TailTaskAssumption DEF TailTaskAssumption
<1>3. line.at \in Nat \ {0}
  BY <1>1, <1>2
<1>4. line.inst \in Nat
  BY <1>1, <1>2
<1> QED BY <1>1, <1>3, <1>4

LEMMA FollowsTransitive ==
  ASSUME NEW a \in Line, NEW b \in Line, NEW c \in Line,
         Delivery!Follows(b, a), Delivery!Follows(c, b)
  PROVE  Delivery!Follows(c, a)
<1>1. /\ a.at \in Nat /\ a.inst \in Nat
      /\ b.at \in Nat /\ b.inst \in Nat
      /\ c.at \in Nat /\ c.inst \in Nat
  BY LineType
<1> QED BY <1>1 DEF Delivery!Follows

LEMMA AppendElements ==
  ASSUME NEW S, NEW s \in Seq(S), NEW x \in S
  PROVE  /\ Len(Append(s, x)) = Len(s) + 1
         /\ \A i \in 1..Len(s) : Append(s, x)[i] = s[i]
         /\ Append(s, x)[Len(s) + 1] = x
  OBVIOUS

LEMMA LinesFinite ==
  ASSUME NEW at, NEW text, NEW lo \in Int, NEW hi \in Int
  PROVE  /\ IsFiniteSet(Lines(at, text, lo, hi))
         /\ Cardinality(Lines(at, text, lo, hi)) \in Nat
<1>1. IsFiniteSet(lo..hi)
  BY FS_Interval
<1>2. Lines(at, text, lo, hi) \subseteq lo..hi
  BY DEF Lines
<1> QED BY <1>1, <1>2, FS_Subset, FS_CardinalityType

\* The lines at one instant all belong to one instance.
LEMMA OneInstancePerInstant ==
  ASSUME TypeOK, LogOrdered,
         NEW i \in 1..Len(log), NEW j \in 1..Len(log), log[i].at = log[j].at
  PROVE  log[i].inst = log[j].inst
<1>1. log[i] \in Line /\ log[j] \in Line /\ Len(log) \in Nat
  BY DEF TypeOK
<1>2. log[i].at \in Nat /\ log[i].inst \in Nat /\ log[j].at \in Nat /\ log[j].inst \in Nat
  BY <1>1, LineType
<1>3. i = j \/ i < j \/ j < i
  BY <1>1
<1>4. i < j => Delivery!Follows(log[j], log[i])
  BY DEF LogOrdered
<1>5. j < i => Delivery!Follows(log[i], log[j])
  BY DEF LogOrdered
<1> QED BY <1>2, <1>3, <1>4, <1>5 DEF Delivery!Follows

-----------------------------------------------------------------------------
(* The steps that preserve DeliveryInv, one lemma for each that moves it.  *)

LEMMA WriteLinePreserves ==
  ASSUME TypeOK, TypeOK', DeliveryInv, WriteLine
  PROVE  DeliveryInv'
<1> DEFINE n == Len(log)
<1> DEFINE LineAt(at, text) == [at |-> at, text |-> text, inst |-> inst]
<1>1. PICK at \in Instants, text \in Texts :
        /\ log # << >> => /\ log[Len(log)].at <= at
                          /\ log[Len(log)].inst < inst => log[Len(log)].at < at
        /\ log' = Append(log, LineAt(at, text))
  BY DEF WriteLine
<1> DEFINE line == LineAt(at, text)
<1>2. UNCHANGED <<inst, base, pc, since, tail, lastTs, boundary, replayAt, replay,
                  pos, held, sent>>
  BY DEF WriteLine, stream, memory, channel
<1>3. inst \in 0..MaxRestarts /\ inst \in Nat /\ log \in Seq(Line) /\ n \in Nat
  BY TailTaskAssumption DEF TypeOK, TailTaskAssumption
<1>4. line \in Line /\ line.at = at /\ line.text = text /\ line.inst = inst
  BY <1>3 DEF Line
<1>5. /\ Len(log') = n + 1
      /\ \A i \in 1..n : log'[i] = log[i] /\ log[i] \in Line
      /\ log'[n + 1] = line
  BY <1>1, <1>3, <1>4, AppendElements
<1>6. \A i \in 1..n : log[i].at \in Nat /\ log[i].at # 0 /\ log[i].inst \in Nat
  BY <1>5, LineType
<1>7. at \in Nat /\ at # 0
  BY <1>4, LineType
<1>8. Taken' = Taken /\ Taken \in Nat
  BY <1>2, TakenType DEF Taken, Delivery!LastOf
<1> HIDE DEF n, line
<1>9. \A i \in 1..n : Delivery!Follows(line, log[i])
  <2> SUFFICES ASSUME NEW i \in 1..n PROVE Delivery!Follows(line, log[i])
    OBVIOUS
  <2>1. n \in 1..n
    BY <1>3
  <2>2. log # << >>
    BY <1>3, <2>1 DEF n
  <2>3. log[n].inst <= inst
    BY <2>1 DEF DeliveryInv, LogOrdered, n
  <2>4. Delivery!Follows(line, log[n])
    BY <1>1, <1>3, <1>4, <1>6, <1>7, <2>1, <2>2, <2>3 DEF Delivery!Follows, n
  <2>5. CASE i = n
    BY <2>4, <2>5
  <2>6. CASE i # n
    <3>1. i < n
      BY <1>3, <2>6
    <3>2. Delivery!Follows(log[n], log[i])
      BY <2>1, <3>1 DEF DeliveryInv, LogOrdered, n
    <3> QED BY <3>2, <2>1, <2>4, <1>4, <1>5, FollowsTransitive
  <2> QED BY <2>5, <2>6
<1>10. LogOrdered /\ SinceFollows /\ StreamInPlace /\ ReplayExact /\ HeldIsNext
  BY DEF DeliveryInv
<1>11. LogOrdered'
  <2>1. ASSUME NEW i \in 1..Len(log'), NEW j \in 1..Len(log'), i < j
        PROVE  Delivery!Follows(log[j], log[i])'
    <3>1. i \in 1..n
      BY <1>3, <1>5, <2>1
    <3>2. CASE j \in 1..n
      <4>1. Delivery!Follows(log[j], log[i])
        BY <1>10, <2>1, <3>1, <3>2 DEF LogOrdered, n
      <4> QED BY <4>1, <1>5, <3>1, <3>2 DEF Delivery!Follows
    <3>3. CASE j = n + 1
      BY <1>5, <1>9, <3>1, <3>3 DEF Delivery!Follows
    <3> QED BY <1>3, <1>5, <3>2, <3>3
  <2>2. base' \in 0..Len(log')
    BY <1>2, <1>3, <1>5, <1>10 DEF LogOrdered, n
  <2>3. ASSUME NEW i \in 1..Len(log')
        PROVE  (log'[i].inst = inst' <=> base' < i) /\ log'[i].inst <= inst'
    <3>1. CASE i \in 1..n
      BY <1>2, <1>5, <1>10, <3>1 DEF LogOrdered, n
    <3>2. CASE i = n + 1
      BY <1>2, <1>3, <1>4, <1>5, <1>10, <3>2 DEF LogOrdered, n
    <3> QED BY <1>3, <1>5, <3>1, <3>2
  <2> QED BY <2>1, <2>2, <2>3 DEF LogOrdered
<1>12. SinceFollows'
  BY <1>2, <1>3, <1>5, <1>8, <1>10 DEF SinceFollows, n
<1>13. pc # "done" => Taken \in 0..n
  BY <1>10 DEF SinceFollows, n
<1>14. StreamInPlace'
  <2> SUFFICES ASSUME pc \in {"read", "send"} PROVE StreamInPlace'
    BY <1>2 DEF StreamInPlace
  <2>1. Taken \in 0..n
    BY <1>13
  <2>2. pos' \in (base' + 1)..(Len(log') + 1)
    BY <1>2, <1>3, <1>5, <1>10 DEF StreamInPlace, n
  <2>3. pos' <= Taken' => replayAt' = lastTs' /\ since' = lastTs'
    BY <1>2, <1>8, <1>10 DEF StreamInPlace
  <2>4. \A j \in (Taken' + 1)..(pos' - 1) : j <= base'
    BY <1>2, <1>8, <1>10 DEF StreamInPlace
  <2>5. replayAt' # 0 => \E k \in 1..Taken' : log'[k].at = replayAt'
    <3> SUFFICES ASSUME replayAt # 0 PROVE \E k \in 1..Taken : log'[k].at = replayAt
      BY <1>2, <1>8
    <3>1. PICK k \in 1..Taken : log[k].at = replayAt
      BY <1>10 DEF StreamInPlace
    <3>2. k \in 1..n
      BY <1>3, <2>1
    <3> QED BY <1>5, <3>1, <3>2
  <2> QED BY <2>2, <2>3, <2>4, <2>5 DEF StreamInPlace
<1>15. pc # "done" =>
         \A t, x, lo : lo \in Nat /\ lo # 0 => Lines(t, x, lo, Taken)' = Lines(t, x, lo, Taken)
  <2> SUFFICES ASSUME pc # "done", NEW t, NEW x, NEW lo \in Nat, lo # 0
               PROVE  {i \in lo..Taken' : log'[i].at = t /\ log'[i].text = x}
                        = {i \in lo..Taken : log[i].at = t /\ log[i].text = x}
    BY DEF Lines
  <2>1. \A i \in lo..Taken : i \in 1..n
    BY <1>3, <1>13
  <2> QED BY <1>5, <1>8, <2>1
<1>16. ReplayExact'
  <2> SUFFICES ASSUME pc # "done" PROVE ReplayExact'
    BY <1>2 DEF ReplayExact
  <2>1. Taken \in 0..n
    BY <1>13
  <2>2. lastTs' = IF Taken' = 0 THEN 0 ELSE log'[Taken'].at
    <3>1. CASE Taken = 0
      BY <1>2, <1>8, <1>10, <3>1 DEF ReplayExact
    <3>2. CASE Taken # 0
      <4>1. Taken \in 1..n
        BY <1>3, <2>1, <3>2
      <4> QED BY <1>2, <1>5, <1>8, <1>10, <3>2, <4>1 DEF ReplayExact
    <3> QED BY <3>1, <3>2
  <2>3. ASSUME NEW x \in Texts
        PROVE  boundary'[x] = Cardinality(Lines(lastTs, x, 1, Taken)')
    <3>1. boundary[x] = Cardinality(Lines(lastTs, x, 1, Taken))
      BY <1>10 DEF ReplayExact
    <3> QED BY <1>2, <1>15, <3>1
  <2>4. ASSUME pc \in {"read", "send"}, NEW x \in Texts,
               NEW k \in (base' + 1)..Len(log'), log'[k].at = replayAt'
        PROVE  replay'[x] = Cardinality(Lines(replayAt, x, pos, Taken)')
    <3>1. pos \in Nat /\ pos # 0 /\ base \in Nat
      BY DEF TypeOK
    <3>2. k \in 1..Len(log') /\ base < k
      BY <1>2, <3>1
    <3>3. log'[k].at # 0
      BY <1>4, <1>5, <1>6, <1>7, <3>2, <1>3
    <3>4. PICK m \in 1..Taken : log[m].at = replayAt
      BY <1>2, <1>10, <2>4, <3>3 DEF StreamInPlace
    <3>5. m \in 1..n /\ m \in 1..Len(log')
      BY <1>3, <1>5, <2>1
    <3>6. log'[m].inst = log'[k].inst
      <4>1. log'[m].at = log'[k].at
        BY <1>2, <1>5, <2>4, <3>4, <3>5
      <4>2. /\ log'[m].at \in Nat /\ log'[m].inst \in Nat
            /\ log'[k].at \in Nat /\ log'[k].inst \in Nat
        BY <1>3, <1>4, <1>5, <1>6, <1>7, <3>2, <3>5
      <4>3. /\ m < k => Delivery!Follows(log[k], log[m])'
            /\ k < m => Delivery!Follows(log[m], log[k])'
        BY <1>11, <3>2, <3>5 DEF LogOrdered
      <4>4. m = k \/ m < k \/ k < m
        BY <1>3, <1>5, <3>2, <3>5
      <4> QED BY <4>1, <4>2, <4>3, <4>4 DEF Delivery!Follows
    <3>7. base < m
      BY <1>2, <1>11, <3>2, <3>5, <3>6 DEF LogOrdered
    <3>8. m \in (base + 1)..Len(log)
      BY <3>1, <3>5, <3>7 DEF n
    <3>9. replay[x] = Cardinality(Lines(replayAt, x, pos, Taken))
      BY <1>10, <2>4, <3>4, <3>8 DEF ReplayExact
    <3> QED BY <1>2, <1>15, <3>1, <3>9
  <2> QED BY <1>2, <1>8, <2>2, <2>3, <2>4 DEF ReplayExact
<1>17. HeldIsNext'
  <2> SUFFICES ASSUME pc = "send" PROVE HeldIsNext'
    BY <1>2 DEF HeldIsNext
  <2>1. held \in 1..n /\ pos = held + 1 /\ Delivery!MayFollow(held, Delivery!LastOf(sent))
    BY <1>10 DEF HeldIsNext, n
  <2>2. held' \in 1..Len(log')
    BY <1>2, <1>3, <1>5, <2>1
  <2>3. Delivery!LastOf(sent) \in Nat
    BY LastOfType DEF TypeOK
  <2>4. \A j \in (Delivery!LastOf(sent) + 1)..held : j \in 1..n
    BY <1>3, <2>1, <2>3
  <2>5. Delivery!MayFollow(held, Delivery!LastOf(sent))'
    BY <1>2, <1>5, <2>1, <2>4 DEF Delivery!MayFollow, Delivery!LastOf
  <2> QED BY <1>2, <2>1, <2>2, <2>5 DEF HeldIsNext
<1> QED BY <1>11, <1>12, <1>14, <1>16, <1>17 DEF DeliveryInv

\* Steps that leave the log and the task's position alone and may only take the
\* task out of its loop: refused opens, a closed consumer, an exiting container.
LEMMA StandingStillPreserves ==
  ASSUME TypeOK, DeliveryInv,
         UNCHANGED <<log, inst, base, since, tail, lastTs, boundary, replayAt,
                     replay, pos, held, sent>>,
         pc' = pc \/ (pc = "open" /\ pc' = "report") \/ pc' = "done"
  PROVE  DeliveryInv'
<1>1. LogOrdered /\ SinceFollows /\ StreamInPlace /\ ReplayExact /\ HeldIsNext
  BY DEF DeliveryInv
<1>2. pc' # "done" => pc # "done" /\ Taken' = Taken
  BY DEF Taken, Delivery!LastOf, TypeOK
<1>3. pc' \in {"read", "send"} => pc' = pc
  OBVIOUS
<1>4. LogOrdered'
  BY <1>1 DEF LogOrdered, Delivery!Follows
<1>5. SinceFollows'
  BY <1>1, <1>2 DEF SinceFollows
<1>6. StreamInPlace'
  BY <1>1, <1>2, <1>3 DEF StreamInPlace
<1>7. ReplayExact'
  BY <1>1, <1>2, <1>3 DEF ReplayExact, Lines
<1>8. HeldIsNext'
  BY <1>1, <1>3 DEF HeldIsNext, Delivery!MayFollow, Delivery!LastOf
<1> QED BY <1>4, <1>5, <1>6, <1>7, <1>8 DEF DeliveryInv

LEMMA RestartPreserves ==
  ASSUME TypeOK, TypeOK', DeliveryInv, ContainerRestarts
  PROVE  DeliveryInv'
<1>1. LogOrdered /\ SinceFollows /\ ReplayExact
  BY DEF DeliveryInv
<1>2. /\ UNCHANGED <<log, since, tail, lastTs, boundary, replayAt, replay, pos,
                     held, sent, pc>>
      /\ inst' = inst + 1 /\ base' = Len(log) /\ pc \notin {"read", "send"}
  BY DEF ContainerRestarts, stream, memory, channel
<1>3. inst \in Nat /\ Len(log) \in Nat /\ \A i \in 1..Len(log) : log[i] \in Line
  <2>1. inst \in 0..MaxRestarts /\ log \in Seq(Line)
    BY DEF TypeOK
  <2> QED BY <2>1
<1>4. \A i \in 1..Len(log) : log[i].inst \in Nat
  BY <1>3, LineType
<1>5. Taken' = Taken
  BY <1>2 DEF Taken, Delivery!LastOf
<1>6. LogOrdered'
  <2>1. \A i, j \in 1..Len(log') : i < j => Delivery!Follows(log[j], log[i])'
    BY <1>1, <1>2 DEF LogOrdered, Delivery!Follows
  <2>2. base' \in 0..Len(log')
    BY <1>2, <1>3
  <2>3. ASSUME NEW i \in 1..Len(log')
        PROVE  (log'[i].inst = inst' <=> base' < i) /\ log'[i].inst <= inst'
    <3>1. log[i].inst <= inst /\ i <= Len(log) /\ log[i].inst \in Nat
      BY <1>1, <1>2, <1>3, <1>4 DEF LogOrdered
    <3> QED BY <1>2, <1>3, <3>1
  <2> QED BY <2>1, <2>2, <2>3 DEF LogOrdered
<1>7. SinceFollows'
  BY <1>1, <1>2, <1>5 DEF SinceFollows
<1>8. ReplayExact'
  BY <1>1, <1>2, <1>5 DEF ReplayExact, Lines
<1> QED BY <1>2, <1>6, <1>7, <1>8 DEF DeliveryInv, StreamInPlace, HeldIsNext

LEMMA OpenPreserves ==
  ASSUME TypeOK, TypeOK', DeliveryInv, OpenStream
  PROVE  DeliveryInv'
<1>1. LogOrdered /\ SinceFollows /\ ReplayExact
  BY DEF DeliveryInv
<1>2. /\ UNCHANGED <<log, inst, base, since, tail, lastTs, boundary, held, sent>>
      /\ pc = "open" /\ pc' = "read" /\ replayAt' = lastTs /\ replay' = boundary
  BY DEF OpenStream, container, memory, channel
<1>3. base \in Nat /\ Len(log) \in Nat /\ base <= Len(log) /\ log \in Seq(Line)
  BY <1>1 DEF TypeOK, LogOrdered
<1>4. tail = -1
  BY <1>1, <1>2 DEF SinceFollows
<1>5. pos' = base + 1
  BY <1>4 DEF OpenStream
<1>6. Taken' = Taken /\ Taken \in 0..Len(log)
  BY <1>1, <1>2 DEF Taken, Delivery!LastOf, SinceFollows
<1>7. LogOrdered'
  BY <1>1, <1>2 DEF LogOrdered, Delivery!Follows
<1>8. SinceFollows'
  BY <1>1, <1>2, <1>6 DEF SinceFollows
<1>9. lastTs = IF Taken = 0 THEN 0 ELSE log[Taken].at
  BY <1>1, <1>2 DEF ReplayExact
<1>10. StreamInPlace'
  <2>1. pos' \in (base' + 1)..(Len(log') + 1)
    BY <1>2, <1>3, <1>5
  <2>2. pos' <= Taken' => replayAt' = lastTs' /\ since' = lastTs'
    BY <1>1, <1>2, <1>3, <1>5, <1>6 DEF SinceFollows
  <2>3. \A j \in (Taken' + 1)..(pos' - 1) : j <= base'
    BY <1>2, <1>3, <1>5, <1>6
  <2>4. replayAt' # 0 => \E k \in 1..Taken' : log'[k].at = replayAt'
    <3> SUFFICES ASSUME lastTs # 0 PROVE \E k \in 1..Taken : log[k].at = lastTs
      BY <1>2, <1>6
    <3>1. Taken \in 1..Taken /\ log[Taken].at = lastTs
      BY <1>6, <1>9
    <3> QED BY <3>1
  <2> QED BY <2>1, <2>2, <2>3, <2>4 DEF StreamInPlace
<1>11. ReplayExact'
  <2>1. lastTs' = IF Taken' = 0 THEN 0 ELSE log'[Taken'].at
    BY <1>2, <1>6, <1>9
  <2>2. \A x \in Texts : boundary'[x] = Cardinality(Lines(lastTs, x, 1, Taken)')
    BY <1>1, <1>2, <1>6 DEF ReplayExact, Lines
  <2>3. ASSUME NEW x \in Texts,
               NEW k \in (base' + 1)..Len(log'), log'[k].at = replayAt'
        PROVE  replay'[x] = Cardinality(Lines(replayAt, x, pos, Taken)')
    <3>1. boundary[x] = Cardinality(Lines(lastTs, x, 1, Taken))
      BY <1>1, <1>2 DEF ReplayExact
    <3>2. k \in 1..Len(log) /\ base < k /\ log[k].at = lastTs
      BY <1>2, <1>3, <2>3
    <3>3. ASSUME NEW i \in 1..Taken, log[i].at = lastTs
          PROVE  base < i
      <4>1. i \in 1..Len(log)
        BY <1>3, <1>6
      <4>2. log[i].inst = log[k].inst
        BY <1>1, <3>2, <3>3, <4>1, OneInstancePerInstant
      <4> QED BY <1>1, <3>2, <4>1, <4>2 DEF LogOrdered
    <3>4. Lines(lastTs, x, 1, Taken) = Lines(lastTs, x, base + 1, Taken)
      <4>1. \A i : (i \in 1..Taken /\ log[i].at = lastTs)
                     <=> (i \in (base + 1)..Taken /\ log[i].at = lastTs)
        BY <1>3, <1>6, <3>3
      <4> QED BY <4>1 DEF Lines
    <3>5. Lines(replayAt, x, pos, Taken)' = Lines(lastTs, x, base + 1, Taken)
      BY <1>2, <1>5, <1>6 DEF Lines
    <3> QED BY <1>2, <3>1, <3>4, <3>5
  <2> QED BY <1>2, <1>6, <2>1, <2>2, <2>3 DEF ReplayExact
<1> QED BY <1>2, <1>7, <1>8, <1>10, <1>11 DEF DeliveryInv, HeldIsNext

LEMMA ResumePreserves ==
  ASSUME TypeOK, TypeOK', DeliveryInv, pc = "read", Resume
  PROVE  DeliveryInv'
<1>1. LogOrdered /\ SinceFollows /\ ReplayExact
  BY DEF DeliveryInv
<1>2. /\ UNCHANGED <<log, inst, base, lastTs, boundary, replayAt, replay, pos,
                     held, sent>>
      /\ pc' = "open" /\ tail' = -1
      /\ since' = IF lastTs = 0 THEN since ELSE lastTs
  BY DEF Resume, container, stream, channel
<1>3. Taken' = Taken /\ Taken \in 0..Len(log) /\ Len(log) \in Nat /\ log \in Seq(Line)
  BY <1>1, <1>2 DEF Taken, Delivery!LastOf, SinceFollows, TypeOK
<1>4. lastTs = IF Taken = 0 THEN 0 ELSE log[Taken].at
  BY <1>1 DEF ReplayExact
<1>5. Taken # 0 => lastTs # 0
  BY <1>3, <1>4, LineType
<1>6. LogOrdered'
  BY <1>1, <1>2 DEF LogOrdered, Delivery!Follows
<1>7. SinceFollows'
  <2>1. Since \in Nat /\ since \in Nat /\ lastTs \in Nat
    BY TailTaskAssumption DEF TailTaskAssumption, TypeOK
  <2>2. CASE Taken = 0
    BY <1>1, <1>2, <1>3, <1>4, <2>2 DEF SinceFollows
  <2>3. CASE Taken # 0
    BY <1>1, <1>2, <1>3, <1>5, <2>1, <2>3 DEF SinceFollows
  <2> QED BY <2>2, <2>3
<1>8. ReplayExact'
  BY <1>1, <1>2, <1>3 DEF ReplayExact, Lines
<1> QED BY <1>2, <1>6, <1>7, <1>8 DEF DeliveryInv, StreamInPlace, HeldIsNext

LEMMA SendPreserves ==
  ASSUME TypeOK, TypeOK', DeliveryInv, SendLine
  PROVE  DeliveryInv'
<1>1. LogOrdered /\ SinceFollows /\ StreamInPlace /\ ReplayExact /\ HeldIsNext
  BY DEF DeliveryInv
<1>2. /\ UNCHANGED <<log, inst, base, since, tail, lastTs, boundary, replayAt,
                     replay, pos, held>>
      /\ pc = "send" /\ pc' = "read" /\ sent' = Append(sent, held)
  BY DEF SendLine, container, stream, memory
<1>3. Taken' = Taken
  BY <1>2, LastOfAppend DEF Taken, TypeOK
<1>4. LogOrdered'
  BY <1>1, <1>2 DEF LogOrdered, Delivery!Follows
<1>5. SinceFollows'
  BY <1>1, <1>2, <1>3 DEF SinceFollows
<1>6. StreamInPlace'
  BY <1>1, <1>2, <1>3 DEF StreamInPlace
<1>7. ReplayExact'
  BY <1>1, <1>2, <1>3 DEF ReplayExact, Lines
<1> QED BY <1>2, <1>4, <1>5, <1>6, <1>7 DEF DeliveryInv, HeldIsNext

\* What a stream that yields line i tells about i.
LEMMA YieldedLine ==
  ASSUME TypeOK, DeliveryInv, pc = "read", NEW i \in pos..Len(log), Yields(i)
  PROVE  /\ i \in 1..Len(log) /\ pos \in 1..i /\ base < i /\ log[i].inst = inst
         /\ log[i] \in Line /\ Len(log) \in Nat /\ Taken \in 0..Len(log)
         /\ i <= Taken => /\ log[i].at = replayAt
                          /\ replay[log[i].text] > 0
<1>1. LogOrdered /\ SinceFollows /\ StreamInPlace /\ ReplayExact
  BY DEF DeliveryInv
<1>2. pos \in Nat /\ base \in Nat /\ Len(log) \in Nat /\ pos # 0
  BY DEF TypeOK
<1>3. pos \in (base + 1)..(Len(log) + 1) /\ Taken \in 0..Len(log)
  BY <1>1 DEF StreamInPlace, SinceFollows
<1>4. i \in 1..Len(log) /\ pos \in 1..i /\ base < i
  BY <1>2, <1>3
<1>5. log[i].inst = inst /\ log[i] \in Line
  BY <1>1, <1>4 DEF LogOrdered, TypeOK
<1>6. ASSUME i <= Taken
      PROVE  log[i].at = replayAt /\ replay[log[i].text] > 0
  <2>1. replayAt = lastTs /\ since = lastTs
    BY <1>1, <1>2, <1>3, <1>4, <1>6 DEF StreamInPlace
  <2>2. Taken \in 1..Len(log) /\ lastTs = log[Taken].at
    BY <1>1, <1>3, <1>4, <1>6 DEF ReplayExact
  <2>3. log[i].at \in Nat /\ log[Taken].at \in Nat /\ log[i].text \in Texts
    BY <1>5, <2>2, LineType DEF TypeOK
  <2>4. log[i].at >= log[Taken].at
    BY <2>1, <2>2 DEF Yields
  <2>5. log[i].at <= log[Taken].at
    <3>1. CASE i = Taken
      BY <2>3, <3>1
    <3>2. CASE i # Taken
      <4>1. i < Taken
        BY <1>3, <1>4, <1>6, <3>2
      <4>2. Delivery!Follows(log[Taken], log[i])
        BY <1>1, <1>4, <2>2, <4>1 DEF LogOrdered
      <4> QED BY <4>2 DEF Delivery!Follows
    <3> QED BY <3>1, <3>2
  <2>6. log[i].at = replayAt
    BY <2>1, <2>2, <2>3, <2>4, <2>5
  <2>7. replay[log[i].text] = Cardinality(Lines(replayAt, log[i].text, pos, Taken))
    <3>1. i \in (base + 1)..Len(log)
      BY <1>2, <1>4
    <3> QED BY <1>1, <2>3, <2>6, <3>1 DEF ReplayExact
  <2>8. i \in Lines(replayAt, log[i].text, pos, Taken)
    BY <1>2, <1>3, <1>4, <1>6, <2>6 DEF Lines
  <2>9. /\ IsFiniteSet(Lines(replayAt, log[i].text, pos, Taken))
        /\ Cardinality(Lines(replayAt, log[i].text, pos, Taken)) \in Nat
    BY <1>2, <1>3, LinesFinite
  <2>10. Cardinality(Lines(replayAt, log[i].text, pos, Taken)) # 0
    BY <2>8, <2>9, FS_EmptySet
  <2> QED BY <2>6, <2>7, <2>9, <2>10
<1> QED BY <1>2, <1>3, <1>4, <1>5, <1>6

LEMMA SkipPreserves ==
  ASSUME TypeOK, TypeOK', DeliveryInv, SkipLine
  PROVE  DeliveryInv'
<1>1. LogOrdered /\ SinceFollows /\ StreamInPlace /\ ReplayExact
  BY DEF DeliveryInv
<1>2. /\ UNCHANGED <<log, inst, base, since, tail, lastTs, boundary, replayAt,
                     held, sent, pc>>
      /\ pc = "read"
  BY DEF SkipLine, container, memory, channel
<1>3. PICK i \in pos..Len(log) :
        /\ Yields(i)
        /\ Replayed(log[i])
        /\ replay' = [replay EXCEPT ![log[i].text] = @ - 1]
        /\ pos' = i + 1
  BY DEF SkipLine
<1>4. /\ i \in 1..Len(log) /\ pos \in 1..i /\ base < i
      /\ log[i] \in Line /\ Len(log) \in Nat /\ Taken \in 0..Len(log)
  BY <1>2, <1>3, YieldedLine
<1>5. Taken' = Taken
  BY <1>2 DEF Taken, Delivery!LastOf
<1> DEFINE text == log[i].text
<1>6. /\ log[i].at = replayAt /\ text \in Texts /\ replay[text] > 0
      /\ replay \in [Texts -> Nat] /\ base \in Nat
  BY <1>3, <1>4, LineType DEF Replayed, TypeOK
<1>7. i \in (base + 1)..Len(log)
  BY <1>4, <1>6
<1>8. \A x \in Texts : replay[x] = Cardinality(Lines(replayAt, x, pos, Taken))
  BY <1>1, <1>2, <1>6, <1>7 DEF ReplayExact
<1>9. i <= Taken /\ since = replayAt
  <2>1. Lines(replayAt, text, pos, Taken) # {}
    <3>1. Cardinality(Lines(replayAt, text, pos, Taken)) # 0
      BY <1>6, <1>8
    <3> QED BY <3>1, FS_EmptySet
  <2>2. PICK k \in pos..Taken : log[k].at = replayAt
    BY <2>1 DEF Lines
  <2>3. pos <= Taken
    BY <1>4, <2>2
  <2>4. since = lastTs /\ replayAt = lastTs
    BY <1>1, <1>2, <2>3 DEF StreamInPlace
  <2>5. k \in 1..Len(log) /\ log[k].at \in Nat
    <3>1. k \in 1..Len(log)
      BY <1>4, <2>2
    <3>2. log \in Seq(Line)
      BY DEF TypeOK
    <3>3. log[k] \in Line
      BY <3>1, <3>2
    <3> QED BY <3>1, <3>3, LineType
  <2>6. ~(k \in pos..(i - 1))
    BY <1>3, <2>2, <2>4, <2>5 DEF Yields
  <2> QED BY <1>4, <2>2, <2>4, <2>6
<1>10. \A j \in pos..(i - 1) : log[j].at # replayAt
  <2> SUFFICES ASSUME NEW j \in pos..(i - 1), log[j].at = replayAt PROVE FALSE
    OBVIOUS
  <2>1. log[j].at < since
    BY <1>3 DEF Yields
  <2>2. since \in Nat
    BY DEF TypeOK
  <2> QED BY <1>9, <2>1, <2>2
<1>11. \A x \in Texts :
         Lines(replayAt, x, i + 1, Taken) =
           IF x = text THEN Lines(replayAt, x, pos, Taken) \ {i}
                       ELSE Lines(replayAt, x, pos, Taken)
  <2> SUFFICES ASSUME NEW x \in Texts
               PROVE  Lines(replayAt, x, i + 1, Taken) =
                        IF x = text THEN Lines(replayAt, x, pos, Taken) \ {i}
                                    ELSE Lines(replayAt, x, pos, Taken)
    OBVIOUS
  <2>1. \A j : j \in pos..Taken <=> j \in pos..(i - 1) \/ j = i \/ j \in (i + 1)..Taken
    BY <1>4, <1>9
  <2>2. \A j \in (i + 1)..Taken : j # i
    BY <1>4
  <2> QED BY <1>10, <2>1, <2>2 DEF Lines
<1>12. LogOrdered'
  BY <1>1, <1>2 DEF LogOrdered, Delivery!Follows
<1>13. SinceFollows'
  BY <1>1, <1>2, <1>5 DEF SinceFollows
<1>14. StreamInPlace'
  <2>1. pos' \in (base' + 1)..(Len(log') + 1)
    BY <1>2, <1>3, <1>4, <1>6
  <2>2. pos <= Taken
    BY <1>4, <1>9
  <2>3. replayAt = lastTs /\ since = lastTs
    BY <1>1, <1>2, <2>2 DEF StreamInPlace
  <2>4. \A j \in (Taken' + 1)..(pos' - 1) : j <= base'
    BY <1>3, <1>4, <1>5, <1>9
  <2> QED BY <1>1, <1>2, <1>5, <2>1, <2>3, <2>4 DEF StreamInPlace
<1>15. ReplayExact'
  <2>1. ASSUME NEW x \in Texts
        PROVE  replay'[x] = Cardinality(Lines(replayAt, x, pos, Taken)')
    <3>1. Lines(replayAt, x, pos, Taken)' = Lines(replayAt, x, i + 1, Taken)
      BY <1>2, <1>3, <1>5 DEF Lines
    <3>2. /\ IsFiniteSet(Lines(replayAt, x, pos, Taken))
          /\ Cardinality(Lines(replayAt, x, pos, Taken)) \in Nat
      BY <1>4, LinesFinite
    <3>3. CASE x = text
      <4>1. i \in Lines(replayAt, x, pos, Taken)
        BY <1>4, <1>6, <1>9, <3>3 DEF Lines
      <4>2. Cardinality(Lines(replayAt, x, pos, Taken) \ {i})
              = Cardinality(Lines(replayAt, x, pos, Taken)) - 1
        BY <3>2, <4>1, FS_RemoveElement
      <4>3. replay'[x] = replay[x] - 1
        BY <1>3, <1>6, <3>3
      <4> QED BY <1>8, <1>11, <3>1, <3>3, <4>2, <4>3
    <3>4. CASE x # text
      <4>1. replay'[x] = replay[x]
        BY <1>3, <1>6, <3>4
      <4> QED BY <1>8, <1>11, <3>1, <3>4, <4>1
    <3> QED BY <3>3, <3>4
  <2>2. lastTs' = IF Taken' = 0 THEN 0 ELSE log'[Taken'].at
    BY <1>1, <1>2, <1>5 DEF ReplayExact
  <2>3. \A x \in Texts : boundary'[x] = Cardinality(Lines(lastTs, x, 1, Taken)')
    BY <1>1, <1>2, <1>5 DEF ReplayExact, Lines
  <2> QED BY <1>2, <2>1, <2>2, <2>3 DEF ReplayExact
<1> QED BY <1>2, <1>12, <1>13, <1>14, <1>15 DEF DeliveryInv, HeldIsNext

LEMMA TakePreserves ==
  ASSUME TypeOK, TypeOK', DeliveryInv, TakeLine
  PROVE  DeliveryInv'
<1>1. LogOrdered /\ SinceFollows /\ StreamInPlace /\ ReplayExact
  BY DEF DeliveryInv
<1>2. /\ UNCHANGED <<log, inst, base, since, tail, replayAt, replay, sent>>
      /\ pc = "read" /\ pc' = "send"
  BY DEF TakeLine, container, channel
<1>3. PICK i \in pos..Len(log) :
        /\ Yields(i)
        /\ ~Replayed(log[i])
        /\ Remember(log[i])
        /\ held' = i
        /\ pos' = i + 1
  BY DEF TakeLine
<1>4. /\ i \in 1..Len(log) /\ pos \in 1..i /\ base < i /\ log[i].inst = inst
      /\ log[i] \in Line /\ Len(log) \in Nat /\ Taken \in 0..Len(log)
      /\ i <= Taken => log[i].at = replayAt /\ replay[log[i].text] > 0
  BY <1>2, <1>3, YieldedLine
<1>5. Taken < i
  BY <1>3, <1>4 DEF Replayed
<1>6. Taken' = i
  BY <1>2, <1>3 DEF Taken
<1>7. Taken = Delivery!LastOf(sent)
  BY <1>2 DEF Taken
<1>8. /\ log \in Seq(Line) /\ base \in Nat /\ inst \in Nat /\ since \in Nat
      /\ lastTs \in Nat /\ Since \in Nat /\ replayAt \in Nat
      /\ boundary \in [Texts -> Nat] /\ replay \in [Texts -> Nat]
  <2>1. inst \in 0..MaxRestarts
    BY DEF TypeOK
  <2>2. inst \in Nat
    BY <2>1
  <2>3. Since \in Nat
    BY TailTaskAssumption DEF TailTaskAssumption
  <2> QED BY <2>2, <2>3 DEF TypeOK
<1>9. \A j \in 1..Len(log) :
        log[j].at \in Nat /\ log[j].at # 0 /\ log[j].inst \in Nat /\ log[j].text \in Texts
  BY <1>8, LineType
<1>10. lastTs = IF Taken = 0 THEN 0 ELSE log[Taken].at
  BY <1>1, <1>2 DEF ReplayExact
<1>11. \A j, k \in 1..Len(log) : j < k =>
         log[j].at <= log[k].at /\ (log[j].inst < log[k].inst => log[j].at < log[k].at)
  BY <1>1 DEF LogOrdered, Delivery!Follows
<1>12. lastTs <= log[i].at /\ lastTs # 0 <=> Taken # 0
  <2>1. CASE Taken = 0
    BY <1>4, <1>9, <1>10, <2>1
  <2>2. CASE Taken # 0
    <3>1. Taken \in 1..Len(log)
      BY <1>4, <2>2
    <3> QED BY <1>4, <1>5, <1>9, <1>10, <1>11, <3>1, <2>2
  <2> QED BY <2>1, <2>2
<1>13. lastTs <= log[i].at
  BY <1>4, <1>9, <1>10, <1>12
<1>14. lastTs' = log[i].at
  <2>1. lastTs' = IF log[i].at > lastTs THEN log[i].at ELSE lastTs
    BY <1>3 DEF Remember
  <2> QED BY <1>4, <1>8, <1>9, <1>13, <2>1
\* Between the last line taken and line i there is nothing to deliver, and
\* nothing at the instant of line i.
<1>15. ASSUME NEW j \in (Taken + 1)..(i - 1)
       PROVE  /\ j \in 1..Len(log)
              /\ log[j].at < log[i].at
              /\ log[j].at < Since \/ log[j].inst < log[i].inst
  <2>1. j \in 1..Len(log) /\ j < i
    BY <1>4, <1>5
  <2>2. CASE j < pos
    <3>1. j \in (Taken + 1)..(pos - 1)
      BY <1>4, <2>1, <2>2
    <3>2. j <= base
      BY <1>1, <1>2, <3>1 DEF StreamInPlace
    <3>3. log[j].inst # inst /\ log[j].inst <= inst
      BY <1>1, <1>8, <2>1, <3>2 DEF LogOrdered
    <3>4. log[j].inst < log[i].inst
      BY <1>4, <1>8, <1>9, <2>1, <3>3
    <3> QED BY <1>4, <1>11, <2>1, <3>4
  <2>3. CASE ~(j < pos)
    <3>1. j \in pos..(i - 1)
      BY <1>4, <2>1, <2>3
    <3>2. log[j].at < since /\ since <= log[i].at
      BY <1>3, <1>4, <1>8, <1>9, <3>1 DEF Yields
    <3>3. log[j].at < log[i].at
      <4>1. log[j].at \in Nat /\ log[i].at \in Nat
        BY <1>4, <1>9, <2>1
      <4> QED BY <1>8, <3>2, <4>1
    <3>4. Taken = 0
      <4> SUFFICES ASSUME Taken # 0 PROVE FALSE
        OBVIOUS
      <4>1. since <= log[Taken].at
        BY <1>1, <1>2, <1>10 DEF SinceFollows
      <4>2. Taken \in 1..Len(log) /\ Taken < j
        BY <1>4, <2>1
      <4>3. log[Taken].at <= log[j].at
        BY <1>11, <2>1, <4>2
      <4> QED BY <1>8, <1>9, <2>1, <3>2, <4>1, <4>2, <4>3
    <3>5. since = Since
      BY <1>1, <1>2, <3>4 DEF SinceFollows
    <3> QED BY <2>1, <3>2, <3>3, <3>5
  <2> QED BY <2>2, <2>3
<1>16. LogOrdered'
  BY <1>1, <1>2 DEF LogOrdered, Delivery!Follows
<1>17. Since <= since /\ since <= log[i].at
  BY <1>1, <1>2, <1>3 DEF SinceFollows, Yields
<1>18. SinceFollows'
  <2>1. tail = -1
    BY <1>1, <1>2 DEF SinceFollows
  <2> QED BY <1>2, <1>4, <1>6, <1>14, <1>17, <2>1 DEF SinceFollows
<1>19. StreamInPlace'
  <2>1. pos' \in (base' + 1)..(Len(log') + 1)
    BY <1>2, <1>3, <1>4, <1>8
  <2>2. ~(pos' <= Taken')
    BY <1>3, <1>4, <1>6
  <2>3. \A j \in (Taken' + 1)..(pos' - 1) : j <= base'
    BY <1>3, <1>4, <1>6
  <2>4. replayAt' # 0 => \E k \in 1..Taken' : log'[k].at = replayAt'
    <3> SUFFICES ASSUME replayAt # 0 PROVE \E k \in 1..i : log[k].at = replayAt
      BY <1>2, <1>6
    <3>1. PICK k \in 1..Taken : log[k].at = replayAt
      BY <1>1, <1>2 DEF StreamInPlace
    <3>2. k \in 1..i
      BY <1>4, <1>5
    <3> QED BY <3>1, <3>2
  <2> QED BY <2>1, <2>2, <2>3, <2>4 DEF StreamInPlace
<1>20. ReplayExact'
  <2>1. lastTs' = IF Taken' = 0 THEN 0 ELSE log'[Taken'].at
    BY <1>2, <1>4, <1>6, <1>14
  <2>2. ASSUME NEW x \in Texts
        PROVE  boundary'[x] = Cardinality(Lines(lastTs, x, 1, Taken)')
    <3>1. Lines(lastTs, x, 1, Taken)' = Lines(log[i].at, x, 1, i)
      BY <1>2, <1>6, <1>14 DEF Lines
    <3>2. boundary'[x] = (IF log[i].at > lastTs THEN 0 ELSE boundary[x])
                         + (IF log[i].at >= lastTs /\ x = log[i].text THEN 1 ELSE 0)
      BY <1>3 DEF Remember
    <3>3. boundary[x] = Cardinality(Lines(lastTs, x, 1, Taken)) /\ boundary[x] \in Nat
      BY <1>1, <1>2, <1>8 DEF ReplayExact
    <3>4. /\ IsFiniteSet(Lines(lastTs, x, 1, Taken))
          /\ i \notin Lines(lastTs, x, 1, Taken)
      <4>1. IsFiniteSet(Lines(lastTs, x, 1, Taken))
        BY <1>4, LinesFinite
      <4>2. i \notin 1..Taken
        BY <1>4, <1>5
      <4> QED BY <4>1, <4>2 DEF Lines
    <3>5. CASE log[i].at > lastTs
      <4>1. ASSUME NEW j \in 1..i, log[j].at = log[i].at PROVE j = i
        <5>1. CASE j \in 1..Taken
          <6>1. Taken \in 1..Len(log) /\ j \in 1..Len(log)
            BY <1>4, <5>1
          <6>2. log[j].at <= log[Taken].at
            BY <1>9, <1>11, <6>1, <5>1
          <6>3. log[Taken].at = lastTs
            BY <1>10, <6>1
          <6> QED BY <1>4, <1>9, <3>5, <4>1, <6>1, <6>2, <6>3
        <5>2. CASE j \in (Taken + 1)..(i - 1)
          BY <1>4, <1>9, <1>15, <4>1, <5>2
        <5> QED BY <1>4, <5>1, <5>2
      <4>2. Lines(log[i].at, x, 1, i) = IF x = log[i].text THEN {i} ELSE {}
        <5>1. i \in 1..i
          BY <1>4
        <5> QED BY <4>1, <5>1 DEF Lines
      <4>3. Cardinality({i}) = 1 /\ Cardinality({}) = 0
        BY FS_Singleton, FS_EmptySet
      <4>4. boundary'[x] = IF x = log[i].text THEN 1 ELSE 0
        BY <1>4, <1>8, <1>9, <3>2, <3>5
      <4> QED BY <3>1, <4>2, <4>3, <4>4
    <3>6. CASE log[i].at = lastTs
      <4>1. Lines(log[i].at, x, 1, i) =
              IF x = log[i].text THEN Lines(lastTs, x, 1, Taken) \cup {i}
                                 ELSE Lines(lastTs, x, 1, Taken)
        <5>1. \A j : j \in 1..i <=> j \in 1..Taken \/ j \in (Taken + 1)..(i - 1) \/ j = i
          BY <1>4, <1>5
        <5>2. \A j \in (Taken + 1)..(i - 1) : log[j].at # log[i].at
          BY <1>4, <1>9, <1>15
        <5> QED BY <3>6, <5>1, <5>2 DEF Lines
      <4>2. Cardinality(Lines(lastTs, x, 1, Taken) \cup {i})
              = Cardinality(Lines(lastTs, x, 1, Taken)) + 1
        BY <3>4, FS_AddElement
      <4>3. boundary'[x] = boundary[x] + (IF x = log[i].text THEN 1 ELSE 0)
        BY <1>8, <3>2, <3>3, <3>6
      <4> QED BY <3>1, <3>3, <4>1, <4>2, <4>3
    <3> QED BY <1>4, <1>8, <1>9, <1>13, <3>5, <3>6
  <2>3. ASSUME NEW x \in Texts,
               NEW k \in (base' + 1)..Len(log'), log'[k].at = replayAt'
        PROVE  replay'[x] = Cardinality(Lines(replayAt, x, pos, Taken)')
    <3>1. replay[x] = Cardinality(Lines(replayAt, x, pos, Taken))
      BY <1>1, <1>2, <2>3 DEF ReplayExact
    <3>2. Lines(replayAt, x, pos, Taken) = {}
      <4> SUFFICES ASSUME NEW j \in pos..Taken, log[j].at = replayAt PROVE FALSE
        BY DEF Lines
      <4>1. pos <= Taken /\ j \in pos..(i - 1)
        BY <1>4, <1>5
      <4>2. replayAt = lastTs /\ since = lastTs
        BY <1>1, <1>2, <4>1 DEF StreamInPlace
      <4>3. log[j].at < since
        BY <1>3, <4>1 DEF Yields
      <4> QED BY <1>8, <4>2, <4>3
    <3>3. Lines(replayAt, x, pos, Taken)' = {}
      <4>1. ~\E j : j \in (i + 1)..i
        BY <1>4
      <4> QED BY <1>3, <1>6, <4>1 DEF Lines
    <3> QED BY <1>2, <3>1, <3>2, <3>3
  <2> QED BY <1>2, <2>1, <2>2, <2>3 DEF ReplayExact
<1>21. HeldIsNext'
  <2>1. Delivery!MayFollow(i, Taken)
    BY <1>4, <1>5, <1>8, <1>9, <1>15, <1>17 DEF Delivery!MayFollow
  <2>2. Delivery!MayFollow(held, Delivery!LastOf(sent))'
    BY <1>2, <1>3, <1>7, <2>1 DEF Delivery!MayFollow, Delivery!LastOf
  <2> QED BY <1>2, <1>3, <1>4, <2>2 DEF HeldIsNext
<1> QED BY <1>16, <1>18, <1>19, <1>20, <1>21 DEF DeliveryInv

-----------------------------------------------------------------------------
(* The theorems.                                                           *)

LEMMA DeliveryInvInit ==
  ASSUME TailLines = -1, Init
  PROVE  DeliveryInv
<1>1. /\ log = << >> /\ sent = << >> /\ Len(log) = 0 /\ inst = 0 /\ base = 0
      /\ pc = "open" /\ tail = -1 /\ lastTs = 0 /\ since = Since /\ boundary = NoText
  BY DEF Init
<1>2. Taken = 0
  BY <1>1 DEF Taken, Delivery!LastOf
<1>3. Since \in Nat
  BY TailTaskAssumption DEF TailTaskAssumption
<1>4. LogOrdered
  BY <1>1 DEF LogOrdered
<1>5. SinceFollows
  BY <1>1, <1>2, <1>3 DEF SinceFollows
<1>6. ReplayExact
  <2>1. \A x \in Texts : Lines(lastTs, x, 1, Taken) = {}
    <3>1. ~\E j : j \in 1..0
      OBVIOUS
    <3> QED BY <1>2, <3>1 DEF Lines
  <2>2. \A x \in Texts : boundary[x] = Cardinality(Lines(lastTs, x, 1, Taken))
    BY <1>1, <2>1, FS_EmptySet DEF NoText
  <2> QED BY <1>1, <1>2, <2>2 DEF ReplayExact
<1> QED BY <1>1, <1>4, <1>5, <1>6 DEF DeliveryInv, StreamInPlace, HeldIsNext

\* The bookkeeping of the resume loop (since, boundary and replay counts, stream
\* position) is exact in every reachable state, whatever the faults.
THEOREM BookkeepingExact ==
  ASSUME TailLines = -1
  PROVE  Spec => []DeliveryInv
<1>1. Init => DeliveryInv
  BY DeliveryInvInit
<1>2. TypeOK /\ TypeOK' /\ DeliveryInv /\ [Next]_vars => DeliveryInv'
  <2> SUFFICES ASSUME TypeOK, TypeOK', DeliveryInv, [Next]_vars PROVE DeliveryInv'
    OBVIOUS
  <2>1. CASE WriteLine
    BY <2>1, WriteLinePreserves
  <2>2. CASE ContainerRestarts
    BY <2>2, RestartPreserves
  <2>3. CASE OpenStream
    BY <2>3, OpenPreserves
  <2>4. CASE SkipLine
    BY <2>4, SkipPreserves
  <2>5. CASE TakeLine
    BY <2>5, TakePreserves
  <2>6. CASE SendLine
    BY <2>6, SendPreserves
  <2>7. CASE StreamBreaks \/ StreamEnds
    BY <2>7, ResumePreserves DEF StreamBreaks, StreamEnds
  <2>8. CASE \/ ContainerExits \/ Receive \/ Close \/ OpenFails \/ SendFails
             \/ ReportFailure \/ UNCHANGED vars
    BY <2>8, StandingStillPreserves
       DEF ContainerExits, Receive, Close, OpenFails, SendFails, ReportFailure,
           vars, container, stream, memory, channel
  <2> QED
    BY <2>1, <2>2, <2>3, <2>4, <2>5, <2>6, <2>7, <2>8
       DEF Next, Environment, TaskStep
<1> QED BY <1>1, <1>2, TypeCorrect, PTL DEF Spec

\* Every tail without tail_lines hands each line over at most once, in order, and
\* leaves out only lines before `since` or of a replaced container: TailTask
\* implements LineDelivery.
THEOREM TailExactlyOnce ==
  ASSUME TailLines = -1
  PROVE  Spec => ExactlyOnce
<1>1. Init => Delivery!Init
  BY DEF Init, Delivery!Init
<1>2. /\ TypeOK /\ TypeOK' /\ DeliveryInv /\ DeliveryInv' /\ [Next]_vars
      => [Delivery!Next]_<<log, sent>>
  <2> SUFFICES ASSUME TypeOK, TypeOK', DeliveryInv, DeliveryInv', [Next]_vars
               PROVE  Delivery!Next \/ UNCHANGED <<log, sent>>
    OBVIOUS
  <2>1. CASE WriteLine
    <3>1. PICK at \in Instants, text \in Texts :
            log' = Append(log, [at |-> at, text |-> text, inst |-> inst])
      BY <2>1 DEF WriteLine
    <3> DEFINE line == [at |-> at, text |-> text, inst |-> inst]
    <3>2. inst \in 0..MaxRestarts /\ log \in Seq(Line) /\ log' \in Seq(Line)
      BY DEF TypeOK
    <3>3. line \in Line /\ line \in Delivery!Line
      BY <3>2 DEF Line, Delivery!Line
    <3>4. log # << >> => Delivery!Follows(line, log[Len(log)])
      <4> SUFFICES ASSUME log # << >> PROVE Delivery!Follows(line, log[Len(log)])
        OBVIOUS
      <4>1. /\ Len(log) \in Nat /\ Len(log) # 0 /\ Len(log') = Len(log) + 1
            /\ log'[Len(log) + 1] = line
            /\ log'[Len(log)] = log[Len(log)]
        BY <3>1, <3>2, <3>3
      <4>2. \A i, j \in 1..Len(log') : i < j => Delivery!Follows(log'[j], log'[i])
        BY DEF DeliveryInv, LogOrdered, Delivery!Follows
      <4>3. Delivery!Follows(log'[Len(log) + 1], log'[Len(log)])
        BY <4>1, <4>2
      <4> QED BY <4>1, <4>3
    <3>5. UNCHANGED sent
      BY <2>1 DEF WriteLine, channel
    <3> QED BY <3>1, <3>3, <3>4, <3>5 DEF Delivery!Next, Delivery!Write
  <2>2. CASE SendLine
    <3>1. /\ held \in 1..Len(log)
          /\ Delivery!MayFollow(held, Delivery!LastOf(sent))
      BY <2>2 DEF SendLine, DeliveryInv, HeldIsNext
    <3>2. sent' = Append(sent, held) /\ UNCHANGED log
      BY <2>2 DEF SendLine, container
    <3> QED BY <3>1, <3>2 DEF Delivery!Next, Delivery!Deliver
  <2>3. CASE ~WriteLine /\ ~SendLine
    BY <2>3
       DEF Next, Environment, TaskStep, ContainerExits, ContainerRestarts, Receive,
           Close, OpenStream, OpenFails, SkipLine, TakeLine, SendFails,
           StreamBreaks, StreamEnds, Resume, ReportFailure, vars, container,
           stream, memory, channel
  <2> QED BY <2>1, <2>2, <2>3
<1> QED BY <1>1, <1>2, TypeCorrect, BookkeepingExact, PTL
        DEF Spec, ExactlyOnce, Delivery!Spec
=============================================================================
