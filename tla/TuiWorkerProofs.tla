---------------------------- MODULE TuiWorkerProofs ----------------------------
(***************************************************************************)
(* TuiWorker for any workloads, any capacities of the two channels and any *)
(* number of keys, ticks and lines: the worker's tail follows the visible  *)
(* panel, and no panel comes to show what is not its own.                  *)
(*                                                                         *)
(* The argument follows a request to open a tail through the channel.      *)
(* While a log panel is visible the UI asks for nothing, and the first     *)
(* thing it asks for on leaving it is to stop the tail: so behind a        *)
(* request to open one there is nothing, or the request to stop it, and    *)
(* the worker, once it has taken the first, finds the same.                *)
(***************************************************************************)
EXTENDS TuiWorker, SequenceTheorems, TLAPS

\* What a panel is about, and that a detail panel shows nothing else.
PanelOK(p) ==
  /\ p \in Panels
  /\ p.kind = "detail" => p.of \in Pipelines /\ p.about \in {None, p.of}
  /\ p.kind = "mono" => p.of \in MonoVertices
  /\ p.kind = "logs" => p.of \in Workloads

\* Which panels lie on which: the list at the bottom, a log panel only on top.
StackOK(s) ==
  /\ s \in Seq(Panels) /\ Len(s) \in 1..3
  /\ \A i \in 1..Len(s) :
       /\ PanelOK(s[i])
       /\ s[i].kind = "list" <=> i = 1
       /\ s[i].kind = "logs" => i = Len(s)
  /\ Len(s) = 3 => s[3].kind = "logs"

StackInv == StackOK(stack)

\* Behind a request to open a tail, in s, comes the one to stop it, or nothing:
\* then p is its panel.
Ordered(s, p) ==
  \A i \in 1..Len(s) : s[i].kind = "StartLogs" =>
    IF i = Len(s) THEN p.kind = "logs" /\ p.of = s[i].of
                  ELSE s[i + 1].kind = "StopLogs"

StartsInv == Ordered(Asked, Top)

\* The workload whose tail the worker has, or is opening.
Tailed == IF opening = None THEN logs ELSE opening

\* The same of the tail the worker has: the next request stops it, or there is
\* none, and its panel is the visible one.
Follows(s, p, w) ==
  w # None => IF s = << >> THEN p.kind = "logs" /\ p.of = w
                           ELSE Head(s).kind = "StopLogs"

TailInv ==
  /\ logs # None => sending = << >> /\ opening = None
  /\ opening # None => sending = << >>
  /\ Follows(Asked, Top, Tailed)

IInv == TypeOK /\ StackInv /\ StartsInv /\ TailInv

-----------------------------------------------------------------------------
(* Panels and messages.                                                    *)

LEMMA PanelFields ==
  ASSUME NEW p \in Panels
  PROVE  /\ p = [kind |-> p.kind, of |-> p.of, shows |-> p.shows, about |-> p.about,
                 error |-> p.error]
         /\ p.kind \in {"list", "detail", "mono", "logs"} /\ p.of \in Workloads \cup {None}
         /\ p.shows \in {"nothing", "shape", "view"} /\ p.about \in Workloads \cup {None}
         /\ p.error \in BOOLEAN
<1>1. PICK k \in {"list", "detail", "mono", "logs"}, w \in Workloads \cup {None},
           s \in {"nothing", "shape", "view"}, v \in Workloads \cup {None}, e \in BOOLEAN :
             p = [kind |-> k, of |-> w, shows |-> s, about |-> v, error |-> e]
  BY DEF Panels
<1>2. p.kind = k /\ p.of = w /\ p.shows = s /\ p.about = v /\ p.error = e
  BY <1>1
<1> QED BY <1>1, <1>2

LEMMA PanelMade ==
  ASSUME NEW k \in {"list", "detail", "mono", "logs"}, NEW w \in Workloads \cup {None},
         NEW s \in {"nothing", "shape", "view"}, NEW v \in Workloads \cup {None},
         NEW e \in BOOLEAN
  PROVE  [kind |-> k, of |-> w, shows |-> s, about |-> v, error |-> e] \in Panels
<1> DEFINE K == {"list", "detail", "mono", "logs"}
           S == {"nothing", "shape", "view"}
           W == Workloads \cup {None}
<1>1. k \in K /\ w \in W /\ s \in S /\ v \in W /\ e \in BOOLEAN
  OBVIOUS
<1>2. Panels = {[kind |-> k1, of |-> w1, shows |-> s1, about |-> v1, error |-> e1] :
                  k1 \in K, w1 \in W, s1 \in S, v1 \in W, e1 \in BOOLEAN}
  BY DEF Panels
<1> HIDE DEF K, S, W
<1> QED BY <1>1, <1>2

\* A new panel shows nothing.
LEMMA NewPanel ==
  ASSUME NEW k, NEW w,
         \/ k = "list" /\ w = None
         \/ k = "detail" /\ w \in Pipelines
         \/ k = "mono" /\ w \in MonoVertices
         \/ k = "logs" /\ w \in Workloads
  PROVE  PanelOK(Panel(k, w)) /\ Panel(k, w).kind = k /\ Panel(k, w).of = w
<1>1. k \in {"list", "detail", "mono", "logs"} /\ w \in Workloads \cup {None}
  BY DEF Workloads
<1>2. Panel(k, w) = [kind |-> k, of |-> w, shows |-> "nothing", about |-> None, error |-> FALSE]
  BY DEF Panel
<1>3. Panel(k, w) \in Panels
  <2>1. "nothing" \in {"nothing", "shape", "view"} /\ None \in Workloads \cup {None}
    OBVIOUS
  <2>2. [kind |-> k, of |-> w, shows |-> "nothing", about |-> None, error |-> FALSE] \in Panels
    BY <1>1, <2>1, PanelMade, Zenon
  <2> QED BY <1>2, <2>2
<1>4. Panel(k, w).kind = k /\ Panel(k, w).of = w /\ Panel(k, w).about = None
  BY <1>2
<1> QED BY <1>3, <1>4 DEF PanelOK

\* A panel asks for one thing when it becomes visible; a log panel for its tail.
LEMMA Enters ==
  ASSUME NEW p, PanelOK(p)
  PROVE  \E m \in Request :
           /\ OnEnter(p) = <<m>>
           /\ m.kind # "StopLogs"
           /\ m.kind = "StartLogs" <=> p.kind = "logs"
           /\ m.kind = "StartLogs" => m.of = p.of
<1>0. p.kind \in {"list", "detail", "mono", "logs"}
  BY PanelFields DEF PanelOK
<1>1. CASE p.kind = "list"
  <2>1. OnEnter(p) = <<Msg("LoadWorkloads", None)>>
    BY <1>1 DEF OnEnter
  <2>2. Msg("LoadWorkloads", None) \in Request /\ Msg("LoadWorkloads", None).kind = "LoadWorkloads"
    BY DEF Msg, Request
  <2> QED BY <1>1, <2>1, <2>2
<1>2. CASE p.kind = "detail"
  <2>1. OnEnter(p) = <<Msg("LoadView", p.of)>>
    BY <1>2 DEF OnEnter
  <2>2. Msg("LoadView", p.of) \in Request /\ Msg("LoadView", p.of).kind = "LoadView"
    BY <1>2 DEF Msg, Request, PanelOK
  <2> QED BY <1>2, <2>1, <2>2
<1>3. CASE p.kind = "mono"
  <2>1. OnEnter(p) = <<Msg("LoadMonoVertex", p.of)>>
    BY <1>3 DEF OnEnter
  <2>2. /\ Msg("LoadMonoVertex", p.of) \in Request
        /\ Msg("LoadMonoVertex", p.of).kind = "LoadMonoVertex"
    BY <1>3 DEF Msg, Request, PanelOK
  <2> QED BY <1>3, <2>1, <2>2
<1>4. CASE p.kind = "logs"
  <2>1. OnEnter(p) = <<Msg("StartLogs", p.of)>>
    BY <1>4 DEF OnEnter
  <2>2. /\ Msg("StartLogs", p.of) \in Request
        /\ Msg("StartLogs", p.of).kind = "StartLogs" /\ Msg("StartLogs", p.of).of = p.of
    BY <1>4 DEF Msg, Request, PanelOK
  <2> QED BY <1>4, <2>1, <2>2
<1> QED BY <1>0, <1>1, <1>2, <1>3, <1>4

LEMMA StopTyped ==
  /\ Msg("StopLogs", None) \in Request
  /\ Msg("StopLogs", None).kind = "StopLogs"
BY DEF Msg, Request

\* A reply changes what the visible panel shows, not what it is about: it never
\* takes numbers away, and a detail panel takes only what is about its pipeline.
LEMMA Shows ==
  ASSUME NEW p, PanelOK(p), NEW r \in Reply
  PROVE  /\ PanelOK(Show(p, r))
         /\ Show(p, r).kind = p.kind /\ Show(p, r).of = p.of
         /\ p.shows = "view" => Show(p, r).shows = "view"
<1> DEFINE fields(q) == [kind |-> q.kind, of |-> q.of, shows |-> q.shows, about |-> q.about,
                         error |-> q.error]
<1>0. /\ p \in Panels /\ p = fields(p)
      /\ p.kind \in {"list", "detail", "mono", "logs"} /\ p.of \in Workloads \cup {None}
      /\ p.shows \in {"nothing", "shape", "view"} /\ p.about \in Workloads \cup {None}
      /\ p.error \in BOOLEAN
  BY PanelFields DEF PanelOK
<1>1. r.of \in Workloads \cup {None}
  BY DEF Reply
<1>2. ASSUME NEW q, NEW s \in {"nothing", "shape", "view"}, NEW v \in Workloads \cup {None},
             NEW e \in BOOLEAN,
             q = [kind |-> p.kind, of |-> p.of, shows |-> s, about |-> v, error |-> e],
             p.kind = "detail" => v \in {None, p.of},
             p.shows = "view" => s = "view"
      PROVE  PanelOK(q) /\ q.kind = p.kind /\ q.of = p.of /\ (p.shows = "view" => q.shows = "view")
  <2>0. /\ p.kind \in {"list", "detail", "mono", "logs"} /\ p.of \in Workloads \cup {None}
        /\ q = [kind |-> p.kind, of |-> p.of, shows |-> s, about |-> v, error |-> e]
    BY <1>0, <1>2
  <2> HIDE DEF fields
  <2>1. q \in Panels
    <3> DEFINE k == p.kind
               w == p.of
    <3>1. k \in {"list", "detail", "mono", "logs"} /\ w \in Workloads \cup {None}
      BY <2>0
    <3> HIDE DEF k, w
    <3>2. [kind |-> k, of |-> w, shows |-> s, about |-> v, error |-> e] \in Panels
      BY <3>1, PanelMade
    <3> QED BY <2>0, <3>2 DEF k, w
  <2>2. q.kind = p.kind /\ q.of = p.of /\ q.shows = s /\ q.about = v
    BY <1>2
  <2> QED BY <2>1, <2>2, <1>2 DEF PanelOK
<1>3. CASE Show(p, r) = p
  BY <1>3
<1>4. CASE p.kind = "detail" /\ r.kind = "Shape" /\ r.of = p.of /\ p.shows = "nothing"
  <2>1. Show(p, r) = Holding(p, "shape", r)
    BY <1>4 DEF Show
  <2>2. Show(p, r) = [kind |-> p.kind, of |-> p.of, shows |-> "shape", about |-> r.of,
                      error |-> FALSE]
    BY <2>1, <1>0 DEF Holding
  <2> QED BY <1>1, <1>2, <1>4, <2>2
<1>5. ASSUME Show(p, r) = Holding(p, "view", r), p.kind = "detail" => r.of = p.of
      PROVE  /\ PanelOK(Show(p, r))
             /\ Show(p, r).kind = p.kind /\ Show(p, r).of = p.of
             /\ p.shows = "view" => Show(p, r).shows = "view"
  <2>1. Show(p, r) = [kind |-> p.kind, of |-> p.of, shows |-> "view", about |-> r.of,
                      error |-> FALSE]
    BY <1>5, <1>0 DEF Holding
  <2> QED BY <1>1, <1>2, <1>5, <2>1
<1>6. CASE p.kind = "detail" /\ r.kind = "View" /\ r.of = p.of
  <2>1. Show(p, r) = Holding(p, "view", r)
    BY <1>6 DEF Show
  <2> QED BY <1>5, <1>6, <2>1
<1>7. CASE p.kind = "mono" /\ r.kind = "MonoVertex"
  <2>1. Show(p, r) = Holding(p, "view", r)
    BY <1>7 DEF Show
  <2> QED BY <1>5, <1>7, <2>1
<1>8. CASE p.kind = "logs" /\ r.kind = "Log"
  <2>1. Show(p, r) = [p EXCEPT !.shows = "view", !.about = r.of]
    BY <1>8 DEF Show
  <2>2. Show(p, r) = [kind |-> p.kind, of |-> p.of, shows |-> "view", about |-> r.of,
                      error |-> p.error]
    BY <2>1, <1>0
  <2> QED BY <1>0, <1>1, <1>2, <1>8, <2>2
<1>9. CASE \/ p.kind = "detail" /\ r.kind = "ViewErr"
           \/ p.kind = "mono" /\ r.kind = "MonoErr"
           \/ p.kind = "logs" /\ r.kind = "LogsFailed"
  <2>1. Show(p, r) = [p EXCEPT !.error = TRUE]
    BY <1>9 DEF Show
  <2>2. Show(p, r) = [kind |-> p.kind, of |-> p.of, shows |-> p.shows, about |-> p.about,
                      error |-> TRUE]
    BY <2>1, <1>0
  <2>3. /\ p.shows \in {"nothing", "shape", "view"} /\ p.about \in Workloads \cup {None}
        /\ p.kind = "detail" => p.about \in {None, p.of}
    BY <1>0 DEF PanelOK
  <2> HIDE DEF fields
  <2> QED BY <1>2, <2>2, <2>3
<1>10. CASE /\ ~(p.kind = "detail" /\ r.kind = "Shape" /\ r.of = p.of /\ p.shows = "nothing")
            /\ ~(p.kind = "detail" /\ r.kind = "View" /\ r.of = p.of)
            /\ ~(p.kind = "mono" /\ r.kind = "MonoVertex")
            /\ ~(p.kind = "logs" /\ r.kind = "Log")
            /\ ~(\/ p.kind = "detail" /\ r.kind = "ViewErr"
                 \/ p.kind = "mono" /\ r.kind = "MonoErr"
                 \/ p.kind = "logs" /\ r.kind = "LogsFailed")
  <2>1. Show(p, r) = p
    BY <1>10 DEF Show
  <2> QED BY <1>3, <2>1
<1> QED BY <1>4, <1>6, <1>7, <1>8, <1>9, <1>10

-----------------------------------------------------------------------------
(* The stack.                                                              *)

LEMMA Tops ==
  ASSUME NEW s, StackOK(s)
  PROVE  /\ Len(s) \in 1..3 /\ Len(s) \in Nat /\ PanelOK(s[Len(s)])
         /\ s[Len(s)].kind = "list" <=> Len(s) = 1
BY DEF StackOK

LEMMA Pushes ==
  ASSUME NEW s, StackOK(s), NEW p, PanelOK(p), p.kind # "list", s[Len(s)].kind # "logs",
         s[Len(s)].kind = "list" \/ p.kind = "logs"
  PROVE  /\ StackOK(Append(s, p))
         /\ Append(s, p)[Len(Append(s, p))] = p
         /\ \A i \in 1..Len(s) : Append(s, p)[i] = s[i]
<1> DEFINE t == Append(s, p)
<1>1. s \in Seq(Panels) /\ p \in Panels /\ Len(s) \in 1..3
  BY DEF StackOK, PanelOK
<1>2. /\ t \in Seq(Panels) /\ Len(t) = Len(s) + 1 /\ t[Len(s) + 1] = p
      /\ \A i \in 1..Len(s) : t[i] = s[i]
  BY <1>1, AppendProperties
<1>3. Len(s) < 3
  BY <1>1 DEF StackOK
<1>4. Len(s) = 2 => p.kind = "logs"
  <2>1. s[Len(s)].kind = "list" <=> Len(s) = 1
    BY Tops
  <2> QED BY <2>1
<1> HIDE DEF t
<1>5. ASSUME NEW i \in 1..Len(t)
      PROVE  PanelOK(t[i]) /\ (t[i].kind = "list" <=> i = 1) /\ (t[i].kind = "logs" => i = Len(t))
  <2>1. CASE i \in 1..Len(s)
    <3>1. t[i] = s[i] /\ PanelOK(s[i]) /\ (s[i].kind = "list" <=> i = 1)
          /\ (s[i].kind = "logs" => i = Len(s))
      BY <1>2, <2>1 DEF StackOK
    <3>2. s[i].kind # "logs"
      BY <3>1
    <3> QED BY <3>1, <3>2
  <2>2. CASE i = Len(s) + 1
    BY <1>1, <1>2, <2>2
  <2> QED BY <1>1, <1>2, <2>1, <2>2
<1>6. Len(t) \in 1..3 /\ (Len(t) = 3 => t[3].kind = "logs")
  BY <1>1, <1>2, <1>3, <1>4
<1> QED BY <1>2, <1>5, <1>6 DEF StackOK, t

LEMMA Pops ==
  ASSUME NEW s, StackOK(s), Len(s) > 1,
         NEW t, t = SubSeq(s, 1, Len(s) - 1)
  PROVE  /\ StackOK(t)
         /\ t[Len(t)].kind # "logs"
         /\ Len(t) = Len(s) - 1
         /\ \A i \in 1..Len(t) : t[i] = s[i]
<1>1. s \in Seq(Panels) /\ Len(s) \in 2..3
  BY DEF StackOK
<1>2. /\ t \in Seq(Panels) /\ Len(t) = Len(s) - 1
      /\ \A i \in 1..Len(t) : t[i] = s[i]
  BY <1>1, SubSeqProperties
<1>3. \A i \in 1..Len(t) : PanelOK(t[i]) /\ (t[i].kind = "list" <=> i = 1) /\ t[i].kind # "logs"
  BY <1>1, <1>2 DEF StackOK
<1>4. Len(t) \in 1..2
  <2>1. \A n \in 2..3 : n - 1 \in 1..2
    OBVIOUS
  <2>2. Len(s) - 1 \in 1..2
    BY <1>1, <2>1
  <2> QED BY <1>2, <2>2, Zenon
<1>5. Len(t) \in 1..Len(t) /\ Len(t) \in 1..3 /\ Len(t) # 3
  <2>1. \A n \in 1..2 : n \in 1..n /\ n \in 1..3 /\ n # 3
    OBVIOUS
  <2> QED BY <1>4, <2>1, Zenon
<1>6. t[Len(t)].kind # "logs"
  BY <1>3, <1>5, Zenon
<1>7. StackOK(t)
  BY <1>2, <1>3, <1>5, Zenon DEF StackOK
<1> QED BY <1>2, <1>6, <1>7

LEMMA Replaces ==
  ASSUME NEW s, StackOK(s), NEW p, PanelOK(p),
         p.kind = s[Len(s)].kind
  PROVE  /\ StackOK([s EXCEPT ![Len(s)] = p])
         /\ Len([s EXCEPT ![Len(s)] = p]) = Len(s)
         /\ [s EXCEPT ![Len(s)] = p][Len(s)] = p
         /\ \A i \in 1..Len(s) : i # Len(s) => [s EXCEPT ![Len(s)] = p][i] = s[i]
<1> DEFINE t == [s EXCEPT ![Len(s)] = p]
<1>1. s \in Seq(Panels) /\ Len(s) \in 1..3 /\ p \in Panels
  BY DEF StackOK, PanelOK
<1>2. /\ t \in Seq(Panels) /\ Len(t) = Len(s) /\ t[Len(s)] = p
      /\ \A i \in 1..Len(s) : i # Len(s) => t[i] = s[i]
  <2>1. Len(s) \in 1..Len(s)
    BY <1>1
  <2>2. s \in [1..Len(s) -> Panels] /\ Len(s) \in Nat
    BY <1>1, LenProperties
  <2>3. t = [i \in 1..Len(s) |-> IF i = Len(s) THEN p ELSE s[i]]
    BY <2>2
  <2> HIDE DEF t
  <2>4. \A i \in 1..Len(s) : t[i] = IF i = Len(s) THEN p ELSE s[i]
    BY <2>3
  <2>5. t \in Seq(Panels) /\ Len(t) = Len(s)
    <3>1. t \in [1..Len(s) -> Panels]
      BY <1>1, <2>2, <2>3
    <3> QED BY <2>2, <3>1
  <2> QED BY <2>1, <2>4, <2>5
<1> HIDE DEF t
<1>3. ASSUME NEW i \in 1..Len(t)
      PROVE  PanelOK(t[i]) /\ (t[i].kind = "list" <=> i = 1) /\ (t[i].kind = "logs" => i = Len(t))
  <2>1. CASE i = Len(s)
    BY <1>1, <1>2, <2>1, Tops
  <2>2. CASE i # Len(s)
    BY <1>2, <2>2 DEF StackOK
  <2> QED BY <2>1, <2>2
<1>4. Len(t) = 3 => t[3].kind = "logs"
  BY <1>2 DEF StackOK
<1> QED BY <1>1, <1>2, <1>3, <1>4 DEF StackOK, t

-----------------------------------------------------------------------------
(* What the UI has asked for and the worker not yet taken.                 *)

\* A request more at the end, when the visible panel is p before and q after.
LEMMA AsksMore ==
  ASSUME NEW s \in Seq(Request), NEW m \in Request, NEW p, NEW q, Ordered(s, p),
         p.kind = "logs" => m.kind = "StopLogs",
         m.kind = "StartLogs" => q.kind = "logs" /\ q.of = m.of
  PROVE  Ordered(Append(s, m), q)
<1> DEFINE t == Append(s, m)
<1>1. /\ Len(t) = Len(s) + 1 /\ t[Len(s) + 1] = m /\ Len(s) \in Nat
      /\ \A i \in 1..Len(s) : t[i] = s[i]
  BY AppendProperties
<1> HIDE DEF t
<1>2. ASSUME NEW i \in 1..Len(t), t[i].kind = "StartLogs"
      PROVE  IF i = Len(t) THEN q.kind = "logs" /\ q.of = t[i].of
                           ELSE t[i + 1].kind = "StopLogs"
  <2>1. CASE i = Len(t)
    BY <1>1, <1>2, <2>1
  <2>2. CASE i = Len(s)
    <3>1. t[i] = s[i] /\ t[i + 1] = m /\ i \in 1..Len(s)
      BY <1>1, <2>2
    <3>2. p.kind = "logs"
      BY <1>2, <2>2, <3>1 DEF Ordered
    <3> QED BY <1>1, <2>2, <3>1, <3>2
  <2>3. CASE i # Len(t) /\ i # Len(s)
    <3>1. i \in 1..Len(s) /\ i + 1 \in 1..Len(s)
      BY <1>1, <2>3
    <3>2. t[i] = s[i] /\ t[i + 1] = s[i + 1]
      BY <1>1, <3>1
    <3> QED BY <1>2, <2>3, <3>1, <3>2 DEF Ordered
  <2> QED BY <2>1, <2>2, <2>3
<1> QED BY <1>2 DEF Ordered, t

\* The worker takes the oldest.
LEMMA AsksLess ==
  ASSUME NEW s \in Seq(Request), s # << >>, NEW p, Ordered(s, p)
  PROVE  /\ Ordered(Tail(s), p)
         /\ Head(s).kind = "StartLogs" => Follows(Tail(s), p, Head(s).of)
<1> DEFINE t == Tail(s)
<1>1. /\ Len(t) = Len(s) - 1 /\ Len(s) \in Nat \ {0} /\ t \in Seq(Request)
      /\ \A i \in 1..Len(t) : t[i] = s[i + 1]
      /\ Head(s) = s[1]
  BY HeadTailProperties, EmptySeq
<1>2. t # << >> => Head(t) = t[1] /\ Len(t) \in Nat \ {0}
  BY <1>1, HeadTailProperties, EmptySeq
<1> HIDE DEF t
<1>3. Ordered(t, p)
  <2> SUFFICES ASSUME NEW i \in 1..Len(t), t[i].kind = "StartLogs"
               PROVE  IF i = Len(t) THEN p.kind = "logs" /\ p.of = t[i].of
                                    ELSE t[i + 1].kind = "StopLogs"
    BY DEF Ordered
  <2>1. i + 1 \in 1..Len(s) /\ t[i] = s[i + 1] /\ (i = Len(t) <=> i + 1 = Len(s))
    BY <1>1
  <2>2. i # Len(t) => t[i + 1] = s[(i + 1) + 1]
    BY <1>1
  <2> QED BY <2>1, <2>2 DEF Ordered
<1>4. ASSUME Head(s).kind = "StartLogs" PROVE Follows(t, p, Head(s).of)
  <2>1. CASE Len(s) = 1
    <3>1. p.kind = "logs" /\ p.of = s[1].of
      BY <1>1, <1>4, <2>1 DEF Ordered
    <3>2. t = << >>
      BY <1>1, <2>1, EmptySeq
    <3> QED BY <1>1, <3>1, <3>2 DEF Follows
  <2>2. CASE Len(s) # 1
    <3>1. s[1 + 1].kind = "StopLogs"
      BY <1>1, <1>4, <2>2 DEF Ordered
    <3>2. t # << >> /\ t[1] = s[2]
      BY <1>1, <2>2, EmptySeq
    <3> QED BY <1>2, <3>1, <3>2 DEF Follows
  <2> QED BY <2>1, <2>2
<1> QED BY <1>3, <1>4 DEF t

-----------------------------------------------------------------------------
(* What a step of the UI does to the stack, and what it asks for.          *)

UiStep == UserStep \/ Tick \/ TakeReply

\* Requests t go out when the visible panel is p before and q after.
UiAsks(t, p, q) ==
  \/ t = << >> /\ q.kind = p.kind /\ q.of = p.of
  \/ \E m \in Request :
       /\ t = <<m>>
       /\ p.kind = "logs" => m.kind = "StopLogs"
       /\ m.kind = "StartLogs" => q.kind = "logs" /\ q.of = m.of
  \/ \E m \in Request :
       /\ t = <<Msg("StopLogs", None), m>>
       /\ p.kind = "logs" /\ q.kind # "logs" /\ m.kind # "StartLogs"

UiEffect ==
  /\ StackInv'
  /\ UiAsks(outbox', Top, Top')
  /\ NumbersStay

LEMMA PushEffect ==
  ASSUME StackInv, NEW p, PanelOK(p), p.kind # "list", Top.kind # "logs",
         Top.kind = "list" \/ p.kind = "logs", Push(p)
  PROVE  UiEffect
<1>1. stack' = Append(stack, p) /\ outbox' = OnEnter(p)
  BY DEF Push
<1>2. /\ StackOK(stack') /\ stack'[Len(stack')] = p
      /\ \A i \in 1..Len(stack) : stack'[i] = stack[i]
  BY <1>1, Pushes DEF StackInv, Top
<1>3. PICK m \in Request : /\ OnEnter(p) = <<m>>
                           /\ m.kind = "StartLogs" <=> p.kind = "logs"
                           /\ m.kind = "StartLogs" => m.of = p.of
  BY Enters
<1>4. UiAsks(outbox', Top, Top')
  BY <1>1, <1>2, <1>3 DEF UiAsks, Top
<1> QED BY <1>2, <1>4 DEF UiEffect, StackInv, NumbersStay

LEMMA PairConcat ==
  ASSUME NEW S, NEW a \in S, NEW b \in S PROVE <<a>> \o <<b>> = <<a, b>>
<1>1. <<a>> \in Seq(S)
  OBVIOUS
<1>2. Append(<<a>>, b) = <<a>> \o <<b>>
  BY <1>1, AppendIsConcat
<1>3. Append(<<a>>, b) = <<a, b>>
  <2>1. Len(<<a>>) = 1 /\ <<a>>[1] = a /\ <<a, b>> \in Seq(S) /\ Len(<<a, b>>) = 2
        /\ <<a, b>>[1] = a /\ <<a, b>>[2] = b
    OBVIOUS
  <2>2. /\ Append(<<a>>, b) \in Seq(S)
        /\ Len(Append(<<a>>, b)) = 2
        /\ Append(<<a>>, b)[1] = a /\ Append(<<a>>, b)[2] = b
    <3>1. /\ Append(<<a>>, b) \in Seq(S)
          /\ Len(Append(<<a>>, b)) = Len(<<a>>) + 1
          /\ \A i \in 1..Len(<<a>>) : Append(<<a>>, b)[i] = <<a>>[i]
          /\ Append(<<a>>, b)[Len(<<a>>) + 1] = b
      BY <1>1, AppendProperties
    <3>2. 1 \in 1..1 /\ 1 + 1 = 2
      OBVIOUS
    <3> QED BY <2>1, <3>1, <3>2, Zenon
  <2>3. \A i \in 1..2 : i = 1 \/ i = 2
    OBVIOUS
  <2>4. \A i \in 1..2 : Append(<<a>>, b)[i] = <<a, b>>[i]
    BY <2>1, <2>2, <2>3, Zenon
  <2> QED BY <2>1, <2>2, <2>4, SeqEqual, Zenon
<1> QED BY <1>2, <1>3

\* The visible panel asks again.
LEMMA AskAgain ==
  ASSUME StackInv, Top.kind # "logs", UNCHANGED stack, outbox' = OnEnter(Top)
  PROVE  UiEffect
<1>1. PanelOK(Top)
  BY Tops DEF StackInv, Top
<1>2. PICK m \in Request : OnEnter(Top) = <<m>> /\ (m.kind = "StartLogs" <=> Top.kind = "logs")
  BY <1>1, Enters
<1>3. UiAsks(outbox', Top, Top')
  BY <1>2 DEF UiAsks
<1> QED BY <1>3 DEF UiEffect, StackInv, NumbersStay

LEMMA BackEffect == ASSUME StackInv, Back PROVE UiEffect
<1>1. /\ stack' = SubSeq(stack, 1, Len(stack) - 1) /\ Len(stack) > 1
      /\ outbox' = OnLeave(Top) \o OnEnter(stack'[Len(stack')])
  BY DEF Back, Below
<1>2. /\ StackOK(stack') /\ stack'[Len(stack')].kind # "logs"
      /\ \A i \in 1..Len(stack') : stack'[i] = stack[i]
      /\ Len(stack') = Len(stack) - 1
  BY <1>1, Pops DEF StackInv
<1>3. PanelOK(stack'[Len(stack')]) /\ Len(stack') \in Nat
  BY <1>2, Tops
<1>4. PICK m \in Request : /\ OnEnter(stack'[Len(stack')]) = <<m>>
                           /\ m.kind # "StartLogs"
  BY <1>2, <1>3, Enters
<1>5. UiAsks(outbox', Top, Top')
  <2>1. CASE Top.kind = "logs"
    <3>1. OnLeave(Top) = <<Msg("StopLogs", None)>>
      BY <2>1 DEF OnLeave
    <3>2. <<Msg("StopLogs", None)>> \o <<m>> = <<Msg("StopLogs", None), m>>
      BY StopTyped, PairConcat
    <3>3. outbox' = <<Msg("StopLogs", None), m>>
      BY <1>1, <1>4, <3>1, <3>2, Zenon
    <3> QED BY <1>2, <1>4, <2>1, <3>3 DEF UiAsks, Top
  <2>2. CASE Top.kind # "logs"
    <3>1. OnLeave(Top) = << >>
      BY <2>2 DEF OnLeave
    <3>2. outbox' = <<m>>
      BY <1>1, <1>4, <3>1
    <3> QED BY <1>4, <2>2, <3>2 DEF UiAsks
  <2> QED BY <2>1, <2>2
<1>6. NumbersStay
  BY <1>2, <1>3 DEF NumbersStay
<1> QED BY <1>2, <1>5, <1>6 DEF UiEffect, StackInv

LEMMA TakeEffect == ASSUME TypeOK, StackInv, TakeReply PROVE UiEffect
<1>1. PICK r \in Reply : stack' = [stack EXCEPT ![Len(stack)] = Show(Top, r)]
  <2>1. replies \in Seq(Reply) /\ replies # << >>
    BY DEF TypeOK, TakeReply
  <2>2. Head(replies) \in Reply
    BY <2>1, HeadTailProperties
  <2> QED BY <2>2 DEF TakeReply
<1>2. PanelOK(Top)
  BY Tops DEF StackInv, Top
<1>3. /\ PanelOK(Show(Top, r))
      /\ Show(Top, r).kind = Top.kind /\ Show(Top, r).of = Top.of
      /\ Top.shows = "view" => Show(Top, r).shows = "view"
  BY <1>2, Shows
<1>4. /\ StackOK(stack') /\ Len(stack') = Len(stack)
      /\ stack'[Len(stack)] = Show(Top, r)
      /\ \A i \in 1..Len(stack) : i # Len(stack) => stack'[i] = stack[i]
  BY <1>1, <1>3, Replaces DEF StackInv, Top
<1>5. Top'.kind = Top.kind /\ Top'.of = Top.of
  BY <1>3, <1>4 DEF Top
<1>6. outbox' = << >>
  BY DEF TakeReply, Listening
<1>7. NumbersStay
  <2> SUFFICES ASSUME NEW i \in 1..Len(stack), stack[i].shows = "view"
               PROVE  stack'[i].shows = "view"
    BY DEF NumbersStay
  <2>1. CASE i = Len(stack)
    BY <1>3, <1>4, <2>1 DEF Top
  <2>2. CASE i # Len(stack)
    BY <1>4, <2>2
  <2> QED BY <2>1, <2>2
<1> QED BY <1>4, <1>5, <1>6, <1>7 DEF UiEffect, StackInv, UiAsks

\* Nothing is asked for, or a log panel's tail is to be stopped.
LEMMA LeaveEffect ==
  ASSUME StackInv, UNCHANGED stack,
         outbox' = << >> \/ (Top.kind = "logs" /\ outbox' = <<Msg("StopLogs", None)>>)
  PROVE  UiEffect
<1>1. UiAsks(outbox', Top, Top')
  <2>1. Top' = Top
    BY DEF Top
  <2> QED BY <2>1, StopTyped DEF UiAsks
<1> QED BY <1>1 DEF UiEffect, StackInv, NumbersStay

LEMMA StepUi ==
  ASSUME TypeOK, StackInv, UiStep
  PROVE  UiEffect /\ outbox = << >> /\ UNCHANGED <<requests, worker>>
<1>1. outbox = << >> /\ UNCHANGED <<requests, worker>>
  BY DEF UiStep, UserStep, Tick, TakeReply, OpenDetail, OpenLogs, Refresh, Back, Quit, Key,
         Listening, worker
<1> SUFFICES UiEffect
  BY <1>1
<1>2. /\ PanelOK(Top)
      /\ Top.kind \in {"list", "detail", "mono", "logs"}
  BY Tops, PanelFields DEF StackInv, Top, PanelOK
<1>3. ASSUME NEW w \in Workloads, OpenDetail(w) PROVE UiEffect
  <2>1. Top.kind = "list"
    BY <1>3 DEF OpenDetail
  <2>2. CASE w \in Pipelines
    <3>1. Push(Panel("detail", w))
      BY <1>3, <2>2 DEF OpenDetail
    <3>2. PanelOK(Panel("detail", w)) /\ Panel("detail", w).kind = "detail"
      BY <2>2, NewPanel
    <3> QED BY <2>1, <3>1, <3>2, PushEffect
  <2>3. CASE w \notin Pipelines
    <3>1. Push(Panel("mono", w)) /\ w \in MonoVertices
      BY <1>3, <2>3 DEF OpenDetail, Workloads
    <3>2. PanelOK(Panel("mono", w)) /\ Panel("mono", w).kind = "mono"
      BY <3>1, NewPanel
    <3> QED BY <2>1, <3>1, <3>2, PushEffect
  <2> QED BY <2>2, <2>3
<1>4. ASSUME NEW w \in Workloads, OpenLogs(w) PROVE UiEffect
  <2>1. Top.kind # "logs" /\ Push(Panel("logs", w))
    BY <1>4 DEF OpenLogs
  <2>2. PanelOK(Panel("logs", w)) /\ Panel("logs", w).kind = "logs"
    BY NewPanel
  <2> QED BY <2>1, <2>2, PushEffect
<1>5. CASE Refresh
  BY <1>5, AskAgain DEF Refresh
<1>6. CASE Back
  BY <1>6, BackEffect
<1>7. CASE Quit
  <2>1. UNCHANGED stack /\ outbox' = OnLeave(Top)
    BY <1>7 DEF Quit
  <2> QED BY <2>1, LeaveEffect DEF OnLeave
<1>8. CASE Tick
  <2>1. UNCHANGED stack /\ outbox' = IF Top.kind = "logs" THEN << >> ELSE OnEnter(Top)
    BY <1>8 DEF Tick
  <2>2. CASE Top.kind = "logs"
    BY <2>1, <2>2, LeaveEffect
  <2>3. CASE Top.kind # "logs"
    BY <2>1, <2>3, AskAgain
  <2> QED BY <2>2, <2>3
<1>9. CASE TakeReply
  BY <1>9, TakeEffect
<1> QED BY <1>3, <1>4, <1>5, <1>6, <1>7, <1>8, <1>9 DEF UiStep, UserStep

-----------------------------------------------------------------------------
(* The two parts of what the UI has asked for.                             *)

LEMMA TailOfConcat ==
  ASSUME NEW S, NEW s \in Seq(S), s # << >>, NEW t \in Seq(S)
  PROVE  s \o t # << >> /\ Head(s \o t) = Head(s) /\ Tail(s \o t) = Tail(s) \o t
<1> DEFINE u == s \o t
           v == Tail(s)
<1>1. /\ v \in Seq(S) /\ Len(v) = Len(s) - 1
      /\ \A i \in 1..Len(v) : v[i] = s[i + 1]
      /\ Len(s) \in Nat \ {0} /\ Len(t) \in Nat
  BY HeadTailProperties, EmptySeq, LenProperties
<1>2. /\ u \in Seq(S) /\ Len(u) = Len(s) + Len(t)
      /\ \A i \in 1..Len(s) + Len(t) : u[i] = IF i <= Len(s) THEN s[i] ELSE t[i - Len(s)]
  BY ConcatProperties
<1>3. /\ v \o t \in Seq(S) /\ Len(v \o t) = Len(v) + Len(t)
      /\ \A i \in 1..Len(v) + Len(t) : (v \o t)[i] = IF i <= Len(v) THEN v[i] ELSE t[i - Len(v)]
  BY <1>1, ConcatProperties
<1>4. u # << >>
  BY ConcatEqualIffEmpty
<1> HIDE DEF u
<1>5. /\ Tail(u) \in Seq(S) /\ Len(Tail(u)) = Len(u) - 1
      /\ \A i \in 1..Len(Tail(u)) : Tail(u)[i] = u[i + 1]
  BY <1>2, <1>4, HeadTailProperties
<1>6. Head(u) = Head(s)
  BY <1>1, <1>2
<1> HIDE DEF v
<1>7. \A i \in 1..Len(Tail(u)) : Tail(u)[i] = (v \o t)[i]
  <2> TAKE i \in 1..Len(Tail(u))
  <2>1. i \in 1..Len(v) + Len(t) /\ i + 1 \in 1..Len(s) + Len(t)
    BY <1>1, <1>2, <1>5
  <2>2. Tail(u)[i] = IF i + 1 <= Len(s) THEN s[i + 1] ELSE t[(i + 1) - Len(s)]
    BY <1>2, <1>5, <2>1
  <2>3. (v \o t)[i] = IF i <= Len(v) THEN v[i] ELSE t[i - Len(v)]
    BY <1>3, <2>1
  <2>4. CASE i <= Len(v)
    <3>1. i \in 1..Len(v) /\ i + 1 <= Len(s)
      BY <1>1, <2>1, <2>4
    <3> QED BY <1>1, <2>2, <2>3, <2>4, <3>1
  <2>5. CASE ~(i <= Len(v))
    <3>1. ~(i + 1 <= Len(s)) /\ (i + 1) - Len(s) = i - Len(v)
      BY <1>1, <2>1, <2>5
    <3> QED BY <2>2, <2>3, <2>5, <3>1
  <2> QED BY <2>4, <2>5
<1>8. Len(Tail(u)) = Len(v \o t)
  BY <1>1, <1>2, <1>3, <1>5
<1>9. Tail(u) = v \o t
  BY <1>3, <1>5, <1>7, <1>8, SeqEqual
<1> QED BY <1>4, <1>6, <1>9 DEF u, v

LEMMA HeadMoves ==
  ASSUME NEW S, NEW s \in Seq(S), NEW t \in Seq(S), t # << >>
  PROVE  Append(s, Head(t)) \o Tail(t) = s \o t
<1>1. Head(t) \in S /\ Tail(t) \in Seq(S) /\ Len(Tail(t)) = Len(t) - 1
      /\ \A i \in 1..Len(Tail(t)) : Tail(t)[i] = t[i + 1]
      /\ Len(t) \in Nat \ {0}
  BY HeadTailProperties, EmptySeq
<1>2. <<Head(t)>> \in Seq(S) /\ Len(<<Head(t)>>) = 1 /\ <<Head(t)>>[1] = Head(t)
  BY <1>1
<1>3. <<Head(t)>> \o Tail(t) = t
  <2> DEFINE h == <<Head(t)>>
             v == Tail(t)
  <2>1. /\ h \o v \in Seq(S) /\ Len(h \o v) = Len(h) + Len(v)
        /\ \A i \in 1..Len(h) + Len(v) : (h \o v)[i] = IF i <= Len(h) THEN h[i] ELSE v[i - Len(h)]
    BY <1>1, <1>2, ConcatProperties
  <2>2. Head(t) = t[1]
    BY <1>1
  <2> HIDE DEF h, v
  <2>3. /\ Len(h) = 1 /\ h[1] = t[1] /\ Len(v) = Len(t) - 1
        /\ \A i \in 1..Len(v) : v[i] = t[i + 1]
    BY <1>1, <1>2, <2>2 DEF h, v
  <2>4. \A i \in 1..Len(h \o v) : (h \o v)[i] = t[i]
    <3> TAKE i \in 1..Len(h \o v)
    <3>1. CASE i = 1
      BY <1>1, <2>1, <2>3, <3>1
    <3>2. CASE i # 1
      <4>1. i - 1 \in 1..Len(v) /\ (i - 1) + 1 = i
        BY <1>1, <2>1, <2>3, <3>2
      <4>2. (h \o v)[i] = v[i - 1]
        BY <1>1, <2>1, <2>3, <3>2
      <4> QED BY <2>3, <4>1, <4>2
    <3> QED BY <3>1, <3>2
  <2>5. Len(h \o v) = Len(t)
    BY <1>1, <2>1, <2>3
  <2> QED BY <2>1, <2>4, <2>5, SeqEqual DEF h, v
<1>4. Append(s, Head(t)) = s \o <<Head(t)>>
  BY <1>1, AppendIsConcat
<1>5. (s \o <<Head(t)>>) \o Tail(t) = s \o (<<Head(t)>> \o Tail(t))
  BY <1>1, <1>2, ConcatAssociative
<1> QED BY <1>3, <1>4, <1>5

LEMMA AppendTwice ==
  ASSUME NEW S, NEW s \in Seq(S), NEW a \in S, NEW b \in S
  PROVE  s \o <<a, b>> = Append(Append(s, a), b)
<1>1. <<a>> \in Seq(S) /\ <<b>> \in Seq(S)
  OBVIOUS
<1>2. Append(s, a) = s \o <<a>> /\ Append(s, a) \in Seq(S)
  BY AppendIsConcat, AppendProperties
<1>3. Append(Append(s, a), b) = (s \o <<a>>) \o <<b>>
  BY <1>2, AppendIsConcat
<1>4. (s \o <<a>>) \o <<b>> = s \o (<<a>> \o <<b>>)
  BY <1>1, ConcatAssociative
<1> QED BY <1>3, <1>4, PairConcat

-----------------------------------------------------------------------------
(* The types.                                                              *)

LEMMA ShortSeq ==
  ASSUME NEW S
  PROVE  << >> \in Seq(S) /\ (\A a \in S : <<a>> \in Seq(S)) /\ \A a, b \in S : <<a, b>> \in Seq(S)
OBVIOUS

LEMMA OutcomesTyped ==
  ASSUME NEW m \in Request, NEW t \in Outcomes(m)
  PROVE  t \in Seq(Reply)
<1> USE DEF Msg, Reply
<1>1. /\ m.kind \in {"LoadWorkloads", "LoadView", "LoadMonoVertex", "StartLogs", "StopLogs"}
      /\ m.of \in Workloads \cup {None}
  BY DEF Request, Workloads
<1>2. /\ Msg("Workloads", None) \in Reply /\ Msg("ViewErr", None) \in Reply
      /\ Msg("MonoErr", None) \in Reply /\ Msg("LogsFailed", None) \in Reply
      /\ Msg("Shape", m.of) \in Reply /\ Msg("View", m.of) \in Reply
      /\ Msg("MonoVertex", m.of) \in Reply
  BY <1>1
<1> HIDE DEF Msg, Reply
<1>3. CASE m.kind = "LoadWorkloads"
  <2>1. Outcomes(m) = {<<Msg("Workloads", None)>>}
    BY <1>3 DEF Outcomes
  <2> QED BY <1>2, <2>1, ShortSeq
<1>4. CASE m.kind = "LoadView"
  <2>1. Outcomes(m) = {<<Msg("Shape", m.of), Msg("View", m.of)>>, <<Msg("ViewErr", None)>>}
    BY <1>4 DEF Outcomes
  <2> QED BY <1>2, <2>1, ShortSeq
<1>5. CASE m.kind = "LoadMonoVertex"
  <2>1. Outcomes(m) = {<<Msg("MonoVertex", m.of)>>, <<Msg("MonoErr", None)>>}
    BY <1>5 DEF Outcomes
  <2> QED BY <1>2, <2>1, ShortSeq
<1>6. CASE m.kind = "StartLogs"
  <2>1. Outcomes(m) = {<< >>, <<Msg("LogsFailed", None)>>}
    BY <1>6 DEF Outcomes
  <2> QED BY <1>2, <2>1, ShortSeq
<1>7. CASE m.kind = "StopLogs"
  BY <1>7 DEF Outcomes
<1> QED BY <1>1, <1>3, <1>4, <1>5, <1>6, <1>7

\* What is put among the replies.
LEMMA SendTyped ==
  ASSUME TypeOK, NEW r \in Reply, Send(r)
  PROVE  replies' \in Seq(Reply) /\ Len(replies') <= ReplyCap
<1>1. /\ replies \in Seq(Reply) /\ Len(replies) <= ReplyCap /\ Len(replies) \in Nat
  BY LenProperties DEF TypeOK
<1>2. /\ Append(replies, r) \in Seq(Reply) /\ Len(Append(replies, r)) = Len(replies) + 1
  BY <1>1, AppendProperties
<1>3. CASE Gone
  BY <1>1, <1>3 DEF Send
<1>4. CASE ~Gone
  BY <1>1, <1>2, <1>4, TuiWorkerAssumption DEF Send, TuiWorkerAssumption
<1> QED BY <1>3, <1>4

LEMMA UiAsksTyped ==
  ASSUME NEW t, NEW p, NEW q, UiAsks(t, p, q)
  PROVE  t \in Seq(Request)
BY StopTyped, ShortSeq, Zenon DEF UiAsks

LEMMA StepType == TypeOK /\ StackInv /\ [Next]_vars => TypeOK' /\ StackInv'
<1> SUFFICES ASSUME TypeOK, StackInv, [Next]_vars PROVE TypeOK' /\ StackInv'
  OBVIOUS
<1> USE DEF ui, worker
<1>0. TuiWorkerAssumption
  BY TuiWorkerAssumption
<1>1. CASE UiStep
  <2>1. /\ StackInv' /\ outbox' \in Seq(Request)
        /\ UNCHANGED <<requests, worker>>
    BY <1>1, StepUi, UiAsksTyped DEF UiEffect
  <2>2. keys' \in 0..MaxKeys /\ ticks' \in 0..MaxTicks /\ leaving' \in BOOLEAN
    <3>1. CASE UserStep
      <4>1. Key /\ leaving' \in {leaving, TRUE}
        BY <3>1 DEF UserStep, OpenDetail, OpenLogs, Refresh, Back, Quit, Push
      <4>2. keys' = keys + 1 /\ keys < MaxKeys /\ UNCHANGED ticks
        BY <4>1 DEF Key
      <4>3. keys \in 0..MaxKeys /\ ticks \in 0..MaxTicks /\ leaving \in BOOLEAN
        BY DEF TypeOK
      <4>4. leaving' \in BOOLEAN
        BY <4>1, <4>3
      <4> QED BY <1>0, <4>2, <4>3, <4>4 DEF TuiWorkerAssumption
    <3>2. CASE Tick
      BY <1>0, <3>2 DEF Tick, TypeOK, TuiWorkerAssumption
    <3>3. CASE TakeReply
      BY <3>3 DEF TakeReply, TypeOK
    <3> QED BY <1>1, <3>1, <3>2, <3>3 DEF UiStep
  <2>3. replies' \in Seq(Reply) /\ Len(replies') <= ReplyCap
    <3>1. CASE UNCHANGED replies
      BY <3>1 DEF TypeOK
    <3>2. CASE replies # << >> /\ replies' = Tail(replies)
      <4>1. Tail(replies) \in Seq(Reply) /\ Len(Tail(replies)) = Len(replies) - 1
        BY <3>2, HeadTailProperties DEF TypeOK
      <4>2. Len(replies) \in Nat /\ Len(replies) <= ReplyCap
        BY LenProperties DEF TypeOK
      <4> QED BY <1>0, <3>2, <4>1, <4>2 DEF TuiWorkerAssumption
    <3> QED BY <1>1, <3>1, <3>2 DEF UiStep, UserStep, OpenDetail, OpenLogs, Refresh, Back, Quit,
                                    Key, Tick, TakeReply
  <2>4. stack' \in Seq(Panels) /\ Len(stack') \in 1..3
    BY <2>1 DEF StackInv, StackOK
  <2> QED BY <2>1, <2>2, <2>3, <2>4 DEF TypeOK
<1>2. CASE SendRequest
  <2>1. /\ Head(outbox) \in Request /\ Tail(outbox) \in Seq(Request)
        /\ requests \in Seq(Request) /\ Len(requests) \in Nat
    BY <1>2, HeadTailProperties, LenProperties DEF SendRequest, TypeOK
  <2>2. requests' \in Seq(Request) /\ Len(requests') = Len(requests) + 1
    BY <1>2, <2>1, AppendProperties DEF SendRequest
  <2>3. Len(requests') <= RequestCap
    BY <1>0, <1>2, <2>1, <2>2 DEF SendRequest, TuiWorkerAssumption
  <2> QED BY <1>2, <2>1, <2>2, <2>3 DEF SendRequest, TypeOK, StackInv
<1>3. CASE TakeRequest
  <2>1. /\ Head(requests) \in Request /\ Tail(requests) \in Seq(Request)
        /\ Len(Tail(requests)) = Len(requests) - 1 /\ Len(requests) \in Nat
        /\ Len(requests) <= RequestCap
    BY <1>3, HeadTailProperties, LenProperties DEF TakeRequest, TypeOK
  <2>2. requests' \in Seq(Request) /\ Len(requests') <= RequestCap
    BY <1>0, <1>3, <2>1 DEF TakeRequest, TuiWorkerAssumption
  <2>3. sending' \in Seq(Reply)
    BY <1>3, <2>1, OutcomesTyped DEF TakeRequest
  <2>4. opening' \in Workloads \cup {None} /\ logs' \in {logs, None}
        /\ dying' \in {dying, dying \cup {logs}} /\ (logs = None => dying' = dying)
    BY <1>3, <2>1 DEF TakeRequest, StopLogs, Request
  <2>5. logs' \in Workloads \cup {None} /\ dying' \subseteq Workloads
    BY <2>4 DEF TypeOK
  <2> QED BY <1>3, <2>2, <2>3, <2>4, <2>5 DEF TakeRequest, TypeOK, StackInv
<1>4. CASE SendReply
  <2>1. Head(sending) \in Reply /\ Tail(sending) \in Seq(Reply)
    BY <1>4, HeadTailProperties DEF SendReply, TypeOK
  <2>2. replies' \in Seq(Reply) /\ Len(replies') <= ReplyCap
    BY <1>4, <2>1, SendTyped DEF SendReply
  <2> QED BY <1>4, <2>1, <2>2 DEF SendReply, TypeOK, StackInv
<1>5. CASE StartPump
  BY <1>5 DEF StartPump, TypeOK, StackInv
<1>6. ASSUME NEW w \in Workloads, PumpLine(w) PROVE TypeOK' /\ StackInv'
  <2>1. Msg("Log", w) \in Reply
    BY DEF Msg, Reply
  <2>2. replies' \in Seq(Reply) /\ Len(replies') <= ReplyCap
    BY <1>6, <2>1, SendTyped DEF PumpLine
  <2>3. lines' \in 0..MaxLines
    BY <1>0, <1>6 DEF PumpLine, TypeOK, TuiWorkerAssumption
  <2> QED BY <1>6, <2>2, <2>3 DEF PumpLine, TypeOK, StackInv
<1>7. ASSUME NEW w \in Workloads, PumpDies(w) PROVE TypeOK' /\ StackInv'
  BY <1>7 DEF PumpDies, TypeOK, StackInv
<1>8. CASE UNCHANGED vars
  BY <1>8 DEF vars, TypeOK, StackInv
<1> QED BY <1>1, <1>2, <1>3, <1>4, <1>5, <1>6, <1>7, <1>8 DEF Next, UiStep

-----------------------------------------------------------------------------
(* The tail.                                                               *)

LEMMA AskedTyped ==
  ASSUME TypeOK PROVE Asked \in Seq(Request)
BY ConcatProperties DEF TypeOK, Asked

\* What has been asked for is taken in the order it was asked for.
LEMMA AskedIsQueue ==
  ASSUME TypeOK
  PROVE  /\ SendRequest => Asked' = Asked
         /\ TakeRequest => Asked # << >> /\ Head(Asked) = Head(requests) /\ Asked' = Tail(Asked)
<1>1. requests \in Seq(Request) /\ outbox \in Seq(Request)
  BY DEF TypeOK
<1>2. ASSUME SendRequest PROVE Asked' = Asked
  <2>1. requests' = Append(requests, Head(outbox)) /\ outbox' = Tail(outbox) /\ outbox # << >>
    BY <1>2 DEF SendRequest
  <2> QED BY <1>1, <2>1, HeadMoves DEF Asked
<1>3. ASSUME TakeRequest
      PROVE  Asked # << >> /\ Head(Asked) = Head(requests) /\ Asked' = Tail(Asked)
  <2>1. requests # << >> /\ requests' = Tail(requests) /\ outbox' = outbox
    BY <1>3 DEF TakeRequest, ui
  <2> QED BY <1>1, <2>1, TailOfConcat DEF Asked
<1> QED BY <1>2, <1>3

\* A step of the UI puts what it asks for behind the rest.
LEMMA UiQueue ==
  ASSUME NEW s \in Seq(Request), NEW p, NEW q, NEW t, UiAsks(t, p, q), Ordered(s, p),
         NEW w, Follows(s, p, w)
  PROVE  Ordered(s \o t, q) /\ Follows(s \o t, q, w)
<1>1. s # << >> => /\ \A u \in Seq(Request) : s \o u # << >> /\ Head(s \o u) = Head(s)
  BY TailOfConcat
<1>2. \A u \in Seq(Request) : << >> \o u = u
  BY ConcatEmptySeq, ShortSeq
<1>3. t \in Seq(Request)
  BY UiAsksTyped
<1>4. ASSUME s # << >> PROVE Follows(s \o t, q, w)
  BY <1>1, <1>3, <1>4 DEF Follows
<1>5. CASE t = << >> /\ q.kind = p.kind /\ q.of = p.of
  <2>1. s \o t = s
    BY <1>5, ConcatEmptySeq
  <2> QED BY <1>5, <2>1 DEF Ordered, Follows
<1>6. ASSUME NEW m \in Request,
             t = <<m>>,
             p.kind = "logs" => m.kind = "StopLogs",
             m.kind = "StartLogs" => q.kind = "logs" /\ q.of = m.of
      PROVE  Ordered(s \o t, q) /\ Follows(s \o t, q, w)
  <2>1. s \o t = Append(s, m)
    BY <1>6, AppendIsConcat
  <2>2. Ordered(s \o t, q)
    <3>1. Ordered(Append(s, m), q)
      BY <1>6, AsksMore
    <3> QED BY <2>1, <3>1
  <2>3. ASSUME s = << >> PROVE Follows(s \o t, q, w)
    <3>1. s \o t = <<m>> /\ <<m>> # << >> /\ Head(<<m>>) = m
      BY <1>2, <1>3, <1>6, <2>3
    <3>2. w # None => p.kind = "logs"
      BY <2>3 DEF Follows
    <3> QED BY <1>6, <3>1, <3>2 DEF Follows
  <2> QED BY <1>4, <2>2, <2>3
<1>7. ASSUME NEW m \in Request,
             t = <<Msg("StopLogs", None), m>>,
             p.kind = "logs", q.kind # "logs", m.kind # "StartLogs"
      PROVE  Ordered(s \o t, q) /\ Follows(s \o t, q, w)
  <2> DEFINE stop == Msg("StopLogs", None)
  <2>1. stop \in Request /\ stop.kind = "StopLogs"
    BY StopTyped
  <2> HIDE DEF stop
  <2>2. s \o t = Append(Append(s, stop), m)
    BY <1>7, <2>1, AppendTwice DEF stop
  <2>3. Append(s, stop) \in Seq(Request)
    BY <2>1, AppendProperties
  <2>4. Ordered(Append(s, stop), q)
    BY <2>1, AsksMore
  <2>5. Ordered(s \o t, q)
    <3>1. Ordered(Append(Append(s, stop), m), q)
      BY <1>7, <2>3, <2>4, AsksMore
    <3> QED BY <2>2, <3>1
  <2>6. ASSUME s = << >> PROVE Follows(s \o t, q, w)
    <3>1. s \o t = <<stop, m>>
      BY <1>2, <1>3, <1>7, <2>6 DEF stop
    <3>2. <<stop, m>> # << >> /\ Head(<<stop, m>>) = stop
      OBVIOUS
    <3> QED BY <2>1, <3>1, <3>2 DEF Follows
  <2> QED BY <1>4, <2>5, <2>6
<1> QED BY <1>5, <1>6, <1>7 DEF UiAsks

LEMMA StepTail == IInv /\ [Next]_vars => StartsInv' /\ TailInv'
<1> SUFFICES ASSUME TypeOK, StackInv, StartsInv, TailInv, [Next]_vars
             PROVE  StartsInv' /\ TailInv'
  BY DEF IInv
<1>0. Asked \in Seq(Request) /\ None \notin Workloads
  BY AskedTyped, TuiWorkerAssumption DEF TuiWorkerAssumption, Workloads
<1>1. ASSUME UNCHANGED <<stack, Asked, opening, logs>>, sending' = sending \/ sending # << >>
      PROVE  StartsInv' /\ TailInv'
  <2>1. Top' = Top /\ Tailed' = Tailed
    BY <1>1 DEF Top, Tailed
  <2> QED BY <1>1, <2>1 DEF StartsInv, TailInv
<1>2. CASE UiStep
  <2>1. /\ outbox = << >> /\ UNCHANGED <<requests, worker>>
        /\ UiAsks(outbox', Top, Top')
    BY <1>2, StepUi DEF UiEffect
  <2>2. Asked = requests /\ Asked' = Asked \o outbox'
    <3>1. requests \o << >> = requests
      BY ConcatEmptySeq DEF TypeOK
    <3> QED BY <2>1, <3>1 DEF Asked
  <2>3. Ordered(Asked', Top') /\ Follows(Asked', Top', Tailed)
    BY <1>0, <2>1, <2>2, UiQueue DEF StartsInv, TailInv
  <2> QED BY <2>1, <2>3 DEF StartsInv, TailInv, Tailed, worker
<1>3. CASE SendRequest
  <2>1. Asked' = Asked
    BY <1>3, AskedIsQueue
  <2> QED BY <1>1, <1>3, <2>1 DEF SendRequest, worker
<1>4. CASE TakeRequest
  <2>1. Asked # << >> /\ Head(Asked) = Head(requests) /\ Asked' = Tail(Asked)
    BY <1>4, AskedIsQueue
  <2>2. Top' = Top /\ sending = << >> /\ opening = None
    BY <1>4 DEF TakeRequest, ui, Top
  <2>3. StartsInv'
    BY <1>0, <2>1, <2>2, AsksLess DEF StartsInv
  <2>4. logs # None => Head(requests).kind = "StopLogs"
    BY <2>1, <2>2 DEF TailInv, Follows, Tailed
  <2>5. logs' = None
    BY <1>4, <2>4 DEF TakeRequest, StopLogs
  <2>6. opening' # None => sending' = << >> /\ opening' = Head(requests).of
                           /\ Head(requests).kind = "StartLogs"
    BY <1>4 DEF TakeRequest
  <2>7. Tailed' = opening'
    BY <2>5 DEF Tailed
  <2>8. Follows(Asked', Top', opening')
    <3>1. CASE opening' = None
      BY <3>1 DEF Follows
    <3>2. CASE opening' # None
      BY <1>0, <2>1, <2>2, <2>6, <3>2, AsksLess DEF StartsInv
    <3> QED BY <3>1, <3>2
  <2> QED BY <2>3, <2>5, <2>6, <2>7, <2>8 DEF TailInv
<1>5. CASE SendReply
  BY <1>1, <1>5 DEF SendReply, ui, Asked
<1>6. CASE StartPump
  <2>1. Tailed' = Tailed /\ Top' = Top /\ Asked' = Asked /\ UNCHANGED sending
        /\ opening # None /\ opening' = None
    BY <1>6 DEF StartPump, Tailed, Top, Asked, ui
  <2> QED BY <2>1 DEF StartsInv, TailInv
<1>7. ASSUME NEW w \in Workloads, PumpLine(w) \/ PumpDies(w) PROVE StartsInv' /\ TailInv'
  BY <1>1, <1>7 DEF PumpLine, PumpDies, ui, Asked
<1>8. CASE UNCHANGED vars
  BY <1>1, <1>8 DEF vars, ui, worker, Asked
<1> QED BY <1>2, <1>3, <1>4, <1>5, <1>6, <1>7, <1>8 DEF Next, UiStep

-----------------------------------------------------------------------------
(* The theorems.                                                           *)

LEMMA InitInv == Init => IInv
<1> SUFFICES ASSUME Init PROVE IInv
  OBVIOUS
<1> DEFINE p == Panel("list", None)
<1>1. PanelOK(p) /\ p.kind = "list"
  BY NewPanel
<1>2. PICK m \in Request : OnEnter(p) = <<m>> /\ (m.kind = "StartLogs" <=> p.kind = "logs")
  BY <1>1, Enters
<1>3. /\ stack = <<p>> /\ outbox = <<m>> /\ leaving = FALSE /\ keys = 0 /\ ticks = 0
      /\ requests = << >> /\ replies = << >>
      /\ sending = << >> /\ opening = None /\ logs = None /\ dying = {} /\ lines = 0
  BY <1>2 DEF Init
<1> HIDE DEF p
<1>4. StackInv
  <2>1. p \in Panels
    BY <1>1 DEF PanelOK
  <2>2. stack \in Seq(Panels) /\ Len(stack) = 1 /\ stack[1] = p
    BY <1>3, <2>1
  <2> QED BY <1>1, <2>2 DEF StackInv, StackOK
<1>5. TypeOK
  <2>1. stack \in Seq(Panels) /\ Len(stack) \in 1..3
    BY <1>4 DEF StackInv, StackOK
  <2>2. outbox \in Seq(Request) /\ requests \in Seq(Request) /\ replies \in Seq(Reply)
        /\ sending \in Seq(Reply) /\ Len(requests) = 0 /\ Len(replies) = 0
    BY <1>2, <1>3
  <2>3. /\ 0 <= RequestCap /\ 0 <= ReplyCap
        /\ 0 \in 0..MaxKeys /\ 0 \in 0..MaxTicks /\ 0 \in 0..MaxLines
    BY TuiWorkerAssumption DEF TuiWorkerAssumption
  <2> QED BY <1>3, <2>1, <2>2, <2>3 DEF TypeOK
<1>6. Asked = <<m>> /\ m.kind # "StartLogs"
  BY <1>1, <1>2, <1>3 DEF Asked
<1>7. StartsInv
  BY <1>6 DEF StartsInv, Ordered
<1>8. TailInv
  BY <1>3 DEF TailInv, Tailed, Follows
<1> QED BY <1>4, <1>5, <1>7, <1>8 DEF IInv

THEOREM SpecInv == Spec => []IInv
<1>1. Init => IInv
  BY InitInv
<1>2. IInv /\ [Next]_vars => IInv'
  BY StepType, StepTail DEF IInv
<1> QED BY <1>1, <1>2, PTL DEF Spec

\* The two tasks keep what they hold well formed, the channels within their
\* capacities, and the stack to the panels the keys can open (app.rs 56-134).
THEOREM TypeOKThm == Spec => []TypeOK
<1>1. IInv => TypeOK
  BY DEF IInv
<1> QED BY <1>1, SpecInv, PTL

\* However keys, ticks and replies interleave, the worker's tail follows the
\* visible panel (worker.rs 112-155, app.rs 95-134).
THEOREM TailFollowsPanelThm == Spec => []TailFollowsPanel
<1>1. IInv => TailFollowsPanel
  <2> SUFFICES ASSUME TailInv PROVE TailFollowsPanel
    BY DEF IInv
  <2> QED BY DEF TailInv, Tailed, Follows, TailFollowsPanel, TailMatchesPanel, TailStopsFirst
<1> QED BY <1>1, SpecInv, PTL

\* No reply makes a panel show what is not its own, or takes its numbers away
\* (detail.rs 333-350).
THEOREM ViewsStayTrueThm == Spec => ViewsStayTrue
<1>1. IInv /\ [Next]_vars => [OwnPipelineView' /\ NumbersStay]_vars
  <2> SUFFICES ASSUME TypeOK, StackInv, [Next]_vars PROVE OwnPipelineView' /\ NumbersStay
    BY DEF IInv
  <2>1. StackInv'
    BY StepType
  <2>2. OwnPipelineView'
    BY <2>1 DEF OwnPipelineView, StackInv, StackOK, PanelOK
  <2> SUFFICES NumbersStay
    BY <2>2
  <2>3. CASE UiStep
    BY <2>3, StepUi DEF UiEffect
  <2>4. CASE ~UiStep
    <3>1. UNCHANGED stack
      BY <2>4 DEF Next, UiStep, SendRequest, TakeRequest, SendReply, StartPump, PumpLine, PumpDies,
                  ui, vars
    <3> QED BY <3>1 DEF NumbersStay
  <2> QED BY <2>3, <2>4
<1> QED BY <1>1, SpecInv, PTL DEF Spec, ViewsStayTrue
=============================================================================
