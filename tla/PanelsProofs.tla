----------------------------- MODULE PanelsProofs -----------------------------
(***************************************************************************)
(* Proofs about the panels, for every set of pipelines, screens, lists and *)
(* lines.                                                                  *)
(*                                                                         *)
(* The drawings of pipelines are folds over the topology; what a panel     *)
(* counts on in them, IsMeasured, is assumed of every drawing, and checked *)
(* by TLC of those it meets.                                               *)
(***************************************************************************)
EXTENDS Panels, FiniteSetTheorems, SequenceTheorems, TLAPS

DrawingsMeasured ==
  /\ \A v \in Views : ColumnsOf[v] \in Nat
  /\ \A v \in Views, a \in Areas, x \in BOOLEAN : IsMeasured(v, CardsOf[v][a][x])

-----------------------------------------------------------------------------
(* Least and greatest elements.                                            *)

LEMMA LeastNat ==
  ASSUME NEW S \in SUBSET Nat, S # {}
  PROVE  Min(S) \in S /\ \A y \in S : Min(S) <= y
<1> DEFINE below(x) == {y \in S : y <= x}
           T == {below(x) : x \in S}
<1>1. ASSUME NEW x \in S PROVE below(x) \in FiniteSubsetsOf(Nat)
  <2>0. x \in Nat /\ \A z \in S : z \in Nat
    OBVIOUS
  <2>3. ASSUME NEW y \in S, y <= x PROVE y \in 0..x
    BY <2>0, <2>3
  <2>4. IsFiniteSet(0..x)
    BY <2>0, FS_Interval
  <2>1. below(x) \in SUBSET (0..x) /\ IsFiniteSet(0..x)
    BY <2>3, <2>4
  <2>2. IsFiniteSet(below(x))
    BY <2>1, FS_Subset
  <2> QED BY <2>2 DEF FiniteSubsetsOf
<1>2. T \subseteq FiniteSubsetsOf(Nat) /\ T # {}
  BY <1>1
<1>3. PICK B \in T : \A C \in T : <<C, B>> \notin StrictSubsetOrdering(Nat)
  <2> HIDE DEF T
  <2> QED BY <1>2, FS_StrictSubsetOrderingWellFounded, WFMin
<1>4. PICK x \in S : B = below(x)
  BY <1>3
<1>5. ASSUME NEW y \in S PROVE x <= y
  <2>0. x \in Nat /\ y \in Nat /\ \A z \in S : z \in Nat
    OBVIOUS
  <2> SUFFICES ASSUME y < x PROVE FALSE
    BY <2>0
  <2>1. below(y) \subseteq below(x) /\ x \in below(x) /\ x \notin below(y)
    <3>1. x <= x /\ ~(x <= y)
      BY <2>0
    <3>2. ASSUME NEW z \in S, z <= y PROVE z <= x
      BY <2>0, <3>2
    <3> QED BY <3>1, <3>2
  <2>2. <<below(y), below(x)>> \in StrictSubsetOrdering(Nat)
    BY <2>1 DEF StrictSubsetOrdering
  <2> QED BY <1>3, <1>4, <2>2
<1> HIDE DEF T, below
<1> QED BY <1>5 DEF Min

LEMMA GreatestNat ==
  ASSUME NEW n \in Nat, NEW S \in SUBSET (0..n), S # {}
  PROVE  Max(S) \in S /\ \A y \in S : y <= Max(S)
<1> DEFINE T == {n - y : y \in S}
<1>0. \A y \in S : y \in Int /\ n - y \in Nat
  OBVIOUS
<1>1. T \in SUBSET Nat /\ T # {}
  BY <1>0
<1>2. Min(T) \in T /\ \A z \in T : Min(T) <= z
  BY <1>1, LeastNat
<1>3. PICK x \in S : Min(T) = n - x
  BY <1>2
<1>4. ASSUME NEW y \in S PROVE y <= x
  <2>1. n - x <= n - y
    BY <1>2, <1>3
  <2> QED BY <1>0, <2>1
<1> HIDE DEF T
<1> QED BY <1>4 DEF Max

LEMMA MaxPair ==
  ASSUME NEW a \in Int, NEW b \in Int
  PROVE  Max({a, b}) = IF a >= b THEN a ELSE b
BY DEF Max

LEMMA MinPair ==
  ASSUME NEW a \in Int, NEW b \in Int
  PROVE  Min({a, b}) = IF a <= b THEN a ELSE b
BY DEF Min

LEMMA Clamped ==
  ASSUME NEW x \in Int, NEW low \in Int, NEW high \in Int
  PROVE  /\ Clamp(x, low, high) \in Int /\ low <= Clamp(x, low, high)
         /\ low <= high => Clamp(x, low, high) <= high
<1> DEFINE m == Min({x, high})
<1>1. m \in Int /\ m <= high
  BY MinPair
<1>2. Clamp(x, low, high) = Max({low, m})
  BY DEF Clamp
<1> HIDE DEF m
<1>3. Max({low, m}) = IF low >= m THEN low ELSE m
  BY <1>1, MaxPair
<1> QED BY <1>1, <1>2, <1>3

\* The index of the first element that passes a test.
LEMMA FirstEqual ==
  ASSUME NEW s, s \in Seq(ToSet(s)), NEW e, e \in ToSet(s)
  PROVE  /\ SelectInSeq(s, LAMBDA i : i = e) \in DOMAIN s
         /\ s[SelectInSeq(s, LAMBDA i : i = e)] = e
<1> DEFINE I == {i \in 1..Len(s) : s[i] = e}
<1>1. I \in SUBSET Nat /\ I # {} /\ DOMAIN s = 1..Len(s)
  BY DEF ToSet
<1>2. Min(I) \in I
  BY <1>1, LeastNat
<1>3. SelectInSeq(s, LAMBDA i : i = e) = Min(I)
  BY <1>1 DEF SelectInSeq
<1> QED BY <1>1, <1>2, <1>3

-----------------------------------------------------------------------------
(* Sums.                                                                   *)

LEMMA SumExists ==
  ASSUME NEW s, NEW n \in Nat
  PROVE  \E f : f = [k \in 0..n |-> IF k = 0 THEN 0 ELSE f[k - 1] + s[k]]
<1> DEFINE Solved(j) == \E f : f = [k \in 0..j |-> IF k = 0 THEN 0 ELSE f[k - 1] + s[k]]
           bad == {j \in Nat : ~Solved(j)}
<1> HIDE DEF Solved
<1> SUFFICES ASSUME bad # {} PROVE FALSE
  BY DEF Solved
<1>1. Min(bad) \in bad /\ \A j \in bad : Min(bad) <= j
  BY LeastNat
<1> DEFINE m == Min(bad)
<1>2. m \in Nat /\ ~Solved(m) /\ \A j \in Nat : j < m => Solved(j)
  <2> HIDE DEF m
  <2>1. m \in bad /\ \A j \in bad : m <= j
    BY <1>1 DEF m
  <2> QED BY <2>1
<1> HIDE DEF bad, m
<1>3. m # 0
  <2> DEFINE f == [k \in 0..0 |-> 0]
  <2>1. f = [k \in 0..0 |-> IF k = 0 THEN 0 ELSE f[k - 1] + s[k]]
    OBVIOUS
  <2> QED BY <1>2, <2>1 DEF Solved
<1>4. PICK f : f = [k \in 0..(m - 1) |-> IF k = 0 THEN 0 ELSE f[k - 1] + s[k]]
  <2>1. m - 1 \in Nat /\ m - 1 < m
    BY <1>2, <1>3
  <2> QED BY <1>2, <2>1 DEF Solved
<1> DEFINE g == [k \in 0..m |-> IF k = 0 THEN 0 ELSE f[k - 1] + s[k]]
<1>5. \A k \in 0..(m - 1) : g[k] = f[k]
  <2> SUFFICES ASSUME NEW k \in 0..(m - 1) PROVE g[k] = f[k]
    OBVIOUS
  <2>1. k \in 0..m
    BY <1>2
  <2>2. f[k] = IF k = 0 THEN 0 ELSE f[k - 1] + s[k]
    BY <1>4
  <2> QED BY <2>1, <2>2
<1>6. g = [k \in 0..m |-> IF k = 0 THEN 0 ELSE g[k - 1] + s[k]]
  <2>1. ASSUME NEW k \in 0..m, k # 0
        PROVE  k - 1 \in 0..(m - 1)
    BY <1>2, <2>1
  <2> QED BY <1>5, <2>1
<1> QED BY <1>2, <1>6 DEF Solved

\* The sums of the first elements, one after the other.
LEMMA SumIs ==
  ASSUME NEW s, Len(s) \in Nat
  PROVE  \E sum : /\ sum[0] = 0 /\ \A k \in 1..Len(s) : sum[k] = sum[k - 1] + s[k]
                  /\ SumSeq(s) = sum[Len(s)]
<1> DEFINE n == Len(s)
           sum == CHOOSE f : f = [k \in 0..n |-> IF k = 0 THEN 0 ELSE f[k - 1] + s[k]]
<1>1. SumSeq(s) = sum[n]
  BY DEF SumSeq
<1>2. sum = [k \in 0..n |-> IF k = 0 THEN 0 ELSE sum[k - 1] + s[k]]
  BY SumExists
<1> HIDE DEF sum, n
<1>3. n \in Nat
  BY DEF n
<1>4. sum[0] = 0
  BY <1>2, <1>3
<1>5. ASSUME NEW k \in 1..n PROVE sum[k] = sum[k - 1] + s[k]
  <2>1. k \in 0..n /\ k # 0
    BY <1>3
  <2> QED BY <1>2, <2>1
<1> QED BY <1>1, <1>4, <1>5 DEF n

\* A sum of positive numbers is at least as large as there are of them.
LEMMA SumAtLeast ==
  ASSUME NEW s, Len(s) \in Nat, \A i \in 1..Len(s) : s[i] \in Nat \ {0}
  PROVE  SumSeq(s) \in Nat /\ Len(s) <= SumSeq(s)
<1>1. PICK sum : /\ sum[0] = 0 /\ \A k \in 1..Len(s) : sum[k] = sum[k - 1] + s[k]
                 /\ SumSeq(s) = sum[Len(s)]
  BY SumIs
<1> DEFINE bad == {k \in 0..Len(s) : ~(sum[k] \in Nat /\ k <= sum[k])}
<1>2. CASE bad = {}
  BY <1>1, <1>2
<1>3. CASE bad # {}
  <2>0. bad \in SUBSET Nat
    OBVIOUS
  <2>1. Min(bad) \in bad /\ \A k \in bad : Min(bad) <= k
    <3> HIDE DEF bad
    <3> QED BY <1>3, <2>0, LeastNat
  <2> DEFINE m == Min(bad)
  <2>2. m \in 0..Len(s) /\ ~(sum[m] \in Nat /\ m <= sum[m]) /\ m - 1 \notin bad
    <3> HIDE DEF m
    <3>1. m \in bad /\ \A k \in bad : m <= k
      BY <2>1 DEF m
    <3> QED BY <3>1
  <2> HIDE DEF m
  <2>3. m # 0
    BY <1>1, <2>2
  <2>4. m \in 1..Len(s) /\ m - 1 \in 0..Len(s)
    BY <2>2, <2>3
  <2>5. sum[m - 1] \in Nat /\ m - 1 <= sum[m - 1]
    BY <2>2, <2>4
  <2>6. sum[m] = sum[m - 1] + s[m] /\ s[m] \in Nat \ {0}
    BY <1>1, <2>4
  <2> QED BY <2>2, <2>4, <2>5, <2>6
<1> QED BY <1>2, <1>3

\* What every element gets on top, and all but the first once more.
LEMMA SumSpaced ==
  ASSUME NEW s \in Seq(Nat), Len(s) >= 1, NEW box \in Nat, NEW hop \in Nat
  PROVE  /\ SumSeq(s) \in Nat
         /\ SumSeq([i \in DOMAIN s |-> s[i] + box + (IF i > 1 THEN hop ELSE 0)])
              = SumSeq(s) + (Len(s) - 1) * hop + Len(s) * box
<1> DEFINE n == Len(s)
           t == [i \in DOMAIN s |-> s[i] + box + (IF i > 1 THEN hop ELSE 0)]
<1>0. /\ n \in Nat \ {0} /\ DOMAIN s = 1..n /\ Len(t) = n
      /\ \A i \in 1..n : s[i] \in Nat /\ t[i] = s[i] + box + (IF i > 1 THEN hop ELSE 0)
  OBVIOUS
<1>1. PICK sum : /\ sum[0] = 0 /\ \A k \in 1..n : sum[k] = sum[k - 1] + s[k]
                 /\ SumSeq(s) = sum[n]
  BY SumIs
<1>2. PICK more : /\ more[0] = 0 /\ \A k \in 1..n : more[k] = more[k - 1] + t[k]
                  /\ SumSeq(t) = more[n]
  <2> HIDE DEF t
  <2> QED BY <1>0, SumIs
<1> DEFINE Summed(k) == sum[k] \in Nat /\ more[k] = sum[k] + (k - 1) * hop + k * box
           bad == {k \in 1..n : ~Summed(k)}
<1> HIDE DEF n, t
<1>3. Summed(1)
  <2>1. sum[1] = sum[1 - 1] + s[1] /\ more[1] = more[1 - 1] + t[1] /\ 1 \in 1..n
    BY <1>0, <1>1, <1>2
  <2>2. s[1] \in Nat /\ t[1] = s[1] + box
    BY <1>0, <2>1
  <2> QED BY <1>1, <1>2, <2>1, <2>2
<1>4. ASSUME NEW k \in 2..n, Summed(k - 1)
      PROVE  Summed(k)
  <2>1. k \in 1..n /\ k > 1
    BY <1>0
  <2>2. sum[k] = sum[k - 1] + s[k] /\ more[k] = more[k - 1] + t[k]
    BY <1>1, <1>2, <2>1
  <2>3. s[k] \in Nat /\ t[k] = s[k] + box + hop
    BY <1>0, <2>1
  <2>4. sum[k - 1] \in Nat /\ more[k - 1] = sum[k - 1] + ((k - 1) - 1) * hop + (k - 1) * box
    BY <1>4
  <2>5. /\ ((k - 1) - 1) * hop + hop = (k - 1) * hop /\ (k - 1) * box + box = k * box
        /\ ((k - 1) - 1) * hop \in Int /\ (k - 1) * box \in Int
        /\ (k - 1) * hop \in Int /\ k * box \in Int
    BY <2>1
  <2> DEFINE hops == ((k - 1) - 1) * hop
             boxes == (k - 1) * box
             allHops == (k - 1) * hop
             allBoxes == k * box
  <2>6. /\ hops + hop = allHops /\ boxes + box = allBoxes
        /\ hops \in Int /\ boxes \in Int /\ allHops \in Int /\ allBoxes \in Int
        /\ sum[k - 1] \in Nat /\ more[k - 1] = sum[k - 1] + hops + boxes
    BY <2>4, <2>5
  <2> HIDE DEF hops, boxes, allHops, allBoxes
  <2>7. sum[k] \in Nat /\ more[k] = sum[k] + allHops + allBoxes
    <3> DEFINE a == sum[k - 1]
               b == s[k]
    <3>1. a \in Nat /\ b \in Nat /\ sum[k] = a + b /\ more[k] = (a + hops + boxes) + (b + box + hop)
      BY <2>2, <2>3, <2>6
    <3> HIDE DEF a, b
    <3>2. (a + hops + boxes) + (b + box + hop) = (a + b) + allHops + allBoxes
      BY <2>6, <3>1
    <3> QED BY <3>1, <3>2
  <2> QED BY <2>7 DEF allHops, allBoxes
<1> HIDE DEF Summed
<1>5. bad = {}
  <2> SUFFICES ASSUME bad # {} PROVE FALSE
    OBVIOUS
  <2>0. bad \in SUBSET Nat
    BY <1>0
  <2>1. Min(bad) \in bad /\ \A k \in bad : Min(bad) <= k
    <3> HIDE DEF bad
    <3> QED BY <2>0, LeastNat
  <2> DEFINE m == Min(bad)
  <2>2. m \in 1..n /\ ~Summed(m) /\ m - 1 \notin bad
    <3> HIDE DEF m
    <3>1. m \in bad /\ \A k \in bad : m <= k
      BY <2>1 DEF m
    <3> QED BY <3>1
  <2> HIDE DEF m
  <2>3. m # 1
    BY <1>3, <2>2
  <2>4. m \in 2..n /\ m - 1 \in 1..n
    BY <1>0, <2>2, <2>3
  <2> QED BY <1>4, <2>2, <2>4
<1>6. Summed(n)
  BY <1>0, <1>5
<1> QED BY <1>1, <1>2, <1>6 DEF Summed, n, t

-----------------------------------------------------------------------------
(* A log window: its lines are in the order they came in, each with a      *)
(* number of its own, and the pinned one is not the last.                  *)

Line == [no : Nat, columns : LineColumns]
LogOK(l) ==
  /\ l \in [lines : Seq(Line), scroll : Nat \cup {None},
            error : BOOLEAN, count : Nat]
  /\ Len(l.lines) <= CAPACITY
  /\ \A i, j \in 1..Len(l.lines) : i < j => l.lines[i].no < l.lines[j].no
  /\ \A i \in 1..Len(l.lines) : l.lines[i].no < l.count
  /\ l.scroll = None \/ l.scroll <= Len(l.lines) - 2

NewLine(l, columns) == [no |-> l.count, columns |-> columns]
LinesWith(l, columns) ==
  Append(IF Len(l.lines) = CAPACITY THEN Tail(l.lines) ELSE l.lines, NewLine(l, columns))
Gone(l) == IF Len(l.lines) = CAPACITY THEN 1 ELSE 0

\* The lines after one has arrived, of which the oldest may have gone.
LEMMA LinesAfter ==
  ASSUME NEW l, LogOK(l), NEW columns \in LineColumns
  PROVE  LET lines == LinesWith(l, columns)
         IN /\ lines \in Seq(Line)
            /\ Len(lines) = Len(l.lines) + 1 - Gone(l)
            /\ \A i \in 1..(Len(lines) - 1) :
                 i + Gone(l) \in 1..Len(l.lines) /\ lines[i] = l.lines[i + Gone(l)]
            /\ lines[Len(lines)] = NewLine(l, columns)
<1> DEFINE lines == LinesWith(l, columns)
           new == NewLine(l, columns)
           gone == Gone(l)
<1> USE DEF LinesWith, NewLine, Gone
<1>1. l.lines \in Seq(Line) /\ new \in Line /\ Len(l.lines) \in Nat /\ l.count \in Nat
  BY DEF LogOK, Line
<1>2. CAPACITY \in Nat \ {0}
  BY PanelsAssumption
<1>3. CASE Len(l.lines) = CAPACITY
  <2>0. Len(l.lines) >= 1
    BY <1>1, <1>2, <1>3
  <2>1. l.lines # << >>
    BY <1>1, <2>0
  <2>2. /\ Tail(l.lines) \in Seq(Line) /\ Len(Tail(l.lines)) = Len(l.lines) - 1
        /\ \A i \in 1..(Len(l.lines) - 1) : Tail(l.lines)[i] = l.lines[i + 1]
    BY <1>1, <2>1
  <2>3. lines = Append(Tail(l.lines), new) /\ gone = 1
    BY <1>3
  <2>4. lines \in Seq(Line) /\ Len(lines) = Len(l.lines)
    BY <1>1, <2>2, <2>3
  <2>5. \A i \in 1..(Len(l.lines) - 1) : lines[i] = Tail(l.lines)[i]
    BY <1>1, <2>2, <2>3
  <2>6. lines[Len(lines)] = new
    BY <1>1, <2>2, <2>3
  <2> QED BY <1>1, <2>2, <2>3, <2>4, <2>5, <2>6
<1>4. CASE Len(l.lines) # CAPACITY
  <2>1. lines = Append(l.lines, new) /\ gone = 0
    BY <1>4
  <2> QED BY <1>1, <2>1
<1> QED BY <1>3, <1>4

LEMMA LineArrives ==
  ASSUME NEW l, LogOK(l), NEW columns \in LineColumns
  PROVE  /\ LogOK(LogLine(l, columns))
         /\ l.scroll # None =>
              /\ LogLine(l, columns).scroll # None
              /\ LET line == l.lines[l.scroll + 1]
                     next == LogLine(l, columns)
                 IN line \in ToSet(next.lines) => next.lines[next.scroll + 1] = line
<1> DEFINE new == NewLine(l, columns)
           full == Len(l.lines) = CAPACITY
           lines == LinesWith(l, columns)
           gone == Gone(l)
           scroll == IF full /\ l.scroll # None THEN Max({0, l.scroll - 1}) ELSE l.scroll
           next == LogLine(l, columns)
<1>1. /\ lines \in Seq(Line)
      /\ Len(lines) = Len(l.lines) + 1 - gone
      /\ \A i \in 1..(Len(lines) - 1) : i + gone \in 1..Len(l.lines) /\ lines[i] = l.lines[i + gone]
      /\ lines[Len(lines)] = new
  BY LinesAfter
<1>2. next = [l EXCEPT !.lines = lines, !.scroll = scroll, !.count = l.count + 1]
  BY DEF LogLine, LinesWith, NewLine
<1>3. /\ l \in [lines : Seq(Line), scroll : Nat \cup {None},
                error : BOOLEAN, count : Nat]
      /\ Len(l.lines) \in Nat /\ Len(l.lines) <= CAPACITY /\ gone \in {0, 1}
      /\ CAPACITY \in Nat \ {0} /\ None \notin Int
  BY PanelsAssumption, DetailPanelAssumption DEF LogOK, Gone
<1>4. l.scroll # None =>
        /\ l.scroll \in Nat /\ l.scroll <= Len(l.lines) - 2
        /\ scroll = IF full /\ l.scroll > 0 THEN l.scroll - 1 ELSE l.scroll
  <2> SUFFICES ASSUME l.scroll # None
               PROVE  /\ l.scroll \in Nat /\ l.scroll <= Len(l.lines) - 2
                      /\ scroll = IF full /\ l.scroll > 0 THEN l.scroll - 1 ELSE l.scroll
    OBVIOUS
  <2>1. l.scroll \in Nat /\ l.scroll <= Len(l.lines) - 2
    BY <1>3 DEF LogOK
  <2>2. Max({0, l.scroll - 1}) = IF 0 >= l.scroll - 1 THEN 0 ELSE l.scroll - 1
    BY <2>1, MaxPair
  <2> QED BY <2>1, <2>2
<1>18. \A i \in 1..Len(l.lines) : l.lines[i].no \in Nat
  <2>1. \A i \in 1..Len(l.lines) : l.lines[i] \in Line
    BY <1>3
  <2> QED BY <2>1 DEF Line
<1>19. Len(lines) \in Nat
  BY <1>1
<1>5. full <=> gone = 1
  BY DEF Gone
<1>6. new.no = l.count /\ gone \in {0, 1}
  BY DEF NewLine, Gone
<1>7. l.scroll = None => scroll = None
  OBVIOUS
<1>8. Len(l.lines) = CAPACITY => gone = 1
  BY DEF Gone
<1> HIDE DEF new, full, lines, gone, scroll, next
<1>9. /\ next.lines = lines /\ next.scroll = scroll /\ next.count = l.count + 1
      /\ next.error = l.error
  BY <1>2, <1>3
<1>10. Len(lines) <= CAPACITY
  BY <1>1, <1>3, <1>6, <1>8
<1>11. \A i \in 1..Len(lines) : i # Len(lines) => lines[i].no < l.count
  <2> SUFFICES ASSUME NEW i \in 1..Len(lines), i # Len(lines) PROVE lines[i].no < l.count
    OBVIOUS
  <2>1. i \in 1..(Len(lines) - 1)
    BY <1>19
  <2>2. i + gone \in 1..Len(l.lines) /\ lines[i] = l.lines[i + gone]
    BY <1>1, <2>1
  <2> QED BY <2>2 DEF LogOK
<1>12. \A i, j \in 1..Len(lines) : i < j => lines[i].no < lines[j].no
  <2> SUFFICES ASSUME NEW i \in 1..Len(lines), NEW j \in 1..Len(lines), i < j
               PROVE  lines[i].no < lines[j].no
    OBVIOUS
  <2>1. CASE j = Len(lines)
    <3>1. i # Len(lines) /\ lines[j] = new
      BY <1>1, <1>19, <2>1
    <3> QED BY <1>6, <1>11, <3>1
  <2>2. CASE j # Len(lines)
    <3>1. i \in 1..(Len(lines) - 1) /\ j \in 1..(Len(lines) - 1)
      BY <1>19, <2>2
    <3>2. i + gone \in 1..Len(l.lines) /\ j + gone \in 1..Len(l.lines) /\ i + gone < j + gone
      BY <1>1, <1>6, <3>1
    <3> QED BY <1>1, <3>1, <3>2 DEF LogOK
  <2> QED BY <2>1, <2>2
<1>13. \A i \in 1..Len(lines) : lines[i].no < l.count + 1
  <2> SUFFICES ASSUME NEW i \in 1..Len(lines) PROVE lines[i].no < l.count + 1
    OBVIOUS
  <2>1. CASE i = Len(lines)
    BY <1>1, <1>3, <1>6, <2>1
  <2>2. CASE i # Len(lines)
    <3>1. i \in 1..(Len(lines) - 1)
      BY <1>19, <2>2
    <3>2. lines[i].no \in Nat /\ lines[i].no < l.count
      BY <1>1, <1>11, <1>18, <2>2, <3>1
    <3> QED BY <1>3, <3>2
  <2> QED BY <2>1, <2>2
<1>14. scroll \in Nat \cup {None} /\ (scroll = None \/ scroll <= Len(lines) - 2)
  BY <1>1, <1>3, <1>4, <1>5, <1>6, <1>7
<1>15. LogOK(next)
  <2>1. next \in [lines : Seq(Line), scroll : Nat \cup {None}, error : BOOLEAN, count : Nat]
    <3>1. lines \in Seq(Line) /\ scroll \in Nat \cup {None} /\ l.count + 1 \in Nat
      BY <1>1, <1>3, <1>14
    <3> QED BY <1>2, <1>3, <3>1
  <2> QED BY <1>9, <1>10, <1>12, <1>13, <1>14, <2>1 DEF LogOK
<1>16. ASSUME l.scroll # None, l.lines[l.scroll + 1] \in ToSet(lines)
       PROVE  lines[scroll + 1] = l.lines[l.scroll + 1]
  <2>1. scroll + 1 \in 1..(Len(lines) - 1)
    BY <1>1, <1>3, <1>4, <1>5, <1>6, <1>16, <1>19
  <2>2. CASE ~(full /\ l.scroll = 0)
    <3>1. scroll + 1 + gone = l.scroll + 1
      BY <1>4, <1>5, <1>6, <1>16, <2>2
    <3> QED BY <1>1, <2>1, <3>1
  <2>3. CASE full /\ l.scroll = 0
    <3>1. PICK i \in 1..Len(lines) : lines[i] = l.lines[1]
      BY <1>1, <1>16, <2>3 DEF ToSet
    <3>2. gone = 1 /\ 1 \in 1..Len(l.lines)
      BY <1>3, <1>4, <1>5, <1>16, <2>3
    <3>3. l.lines[1].no < l.count /\ l.lines[1].no \in Nat
      BY <1>18, <3>2 DEF LogOK
    <3>4. i # Len(lines)
      BY <1>1, <1>3, <1>6, <3>1, <3>3
    <3>5. i + 1 \in 1..Len(l.lines) /\ lines[i] = l.lines[i + 1] /\ 1 < i + 1
      BY <1>1, <3>1, <3>2, <3>4
    <3>6. l.lines[1].no < l.lines[i + 1].no
      BY <3>2, <3>5 DEF LogOK
    <3> QED BY <3>1, <3>3, <3>5, <3>6
  <2> QED BY <2>2, <2>3
<1>17. l.scroll # None => scroll # None
  BY <1>3, <1>4
<1> QED BY <1>9, <1>15, <1>16, <1>17 DEF next

LEMMA LogScrolls ==
  ASSUME NEW l, LogOK(l), NEW delta \in Int
  PROVE  LogOK(LogScroll(l, delta))
<1> DEFINE end == Max({0, Len(l.lines) - 1})
           at == IF l.scroll = None THEN end ELSE l.scroll
           to == Clamp(at + delta, 0, end)
           scroll == IF to >= end THEN None ELSE to
<1>1. Len(l.lines) \in Nat /\ l.scroll \in Nat \cup {None}
  BY DEF LogOK
<1>2. end \in Nat /\ (end > 0 => end = Len(l.lines) - 1)
  BY <1>1, MaxPair
<1>3. at + delta \in Int
  BY <1>1, <1>2
<1>4. to \in Int /\ 0 <= to
  <2> DEFINE sum == at + delta
  <2>1. to = Clamp(sum, 0, end) /\ sum \in Int /\ end \in Int
    BY <1>2, <1>3
  <2> HIDE DEF sum, end, to
  <2>2. 0 <= Clamp(sum, 0, end) /\ Clamp(sum, 0, end) \in Int
    BY <2>1, Clamped
  <2> QED BY <2>1, <2>2
<1>5. LogScroll(l, delta) = [l EXCEPT !.scroll = scroll]
  BY DEF LogScroll
<1> HIDE DEF end, to
<1>6. scroll \in Nat \cup {None} /\ (scroll = None \/ scroll <= Len(l.lines) - 2)
  BY <1>1, <1>2, <1>4
<1> HIDE DEF scroll
<1> QED BY <1>5, <1>6 DEF LogOK

LEMMA LogStep ==
  ASSUME LogOK(logs), Next
  PROVE  /\ LogOK(logs')
         /\ (top = "logs" /\ last' = "log" /\ logs.scroll # None) =>
              LET line == logs.lines[logs.scroll + 1]
              IN /\ logs'.scroll # None
                 /\ line \in ToSet(logs'.lines) => logs'.lines[logs'.scroll + 1] = line
<1>1. CASE ~LogsNext
  <2>1. logs' = logs /\ top # "logs"
    BY <1>1 DEF Next, Detail, WorkloadsNext, Workloads, MonoNext, Mono, Event
  <2> QED BY <2>1
<1>2. ASSUME NEW columns \in LineColumns, Logs("log", LogLine(logs, columns))
      PROVE  /\ LogOK(logs')
             /\ logs.scroll # None =>
                  LET line == logs.lines[logs.scroll + 1]
                  IN /\ logs'.scroll # None
                     /\ line \in ToSet(logs'.lines) => logs'.lines[logs'.scroll + 1] = line
  <2>1. logs' = LogLine(logs, columns)
    BY <1>2 DEF Logs
  <2> QED BY <2>1, LineArrives
<1>4. CASE Logs("follow", [logs EXCEPT !.scroll = None])
  <2>1. logs' = [logs EXCEPT !.scroll = None] /\ last' = "follow"
    BY <1>4 DEF Logs, Event
  <2> QED BY <2>1 DEF LogOK
<1>5. CASE Logs("error", [logs EXCEPT !.error = TRUE])
  <2>1. logs' = [logs EXCEPT !.error = TRUE] /\ last' = "error"
    BY <1>5 DEF Logs, Event
  <2> QED BY <2>1 DEF LogOK
<1>6. PAGE \in Int /\ -PAGE \in Int
  BY DEF PAGE
<1>7. CASE \E columns \in LineColumns : Logs("log", LogLine(logs, columns))
  BY <1>2, <1>7
<1>8. CASE \/ Logs("down", LogScroll(logs, 1)) \/ Logs("up", LogScroll(logs, -1))
           \/ Logs("page down", LogScroll(logs, PAGE)) \/ Logs("page up", LogScroll(logs, -PAGE))
  <2>1. last' # "log"
    BY <1>8 DEF Logs, Event
  <2>2. PICK delta \in {1, -1, PAGE, -PAGE} : logs' = LogScroll(logs, delta)
    BY <1>8 DEF Logs
  <2>3. delta \in Int
    BY <1>6
  <2>4. LogOK(logs')
    BY <2>2, <2>3, LogScrolls
  <2> QED BY <2>1, <2>4
<1> QED BY <1>1, <1>4, <1>5, <1>7, <1>8 DEF LogsNext

\* A part of a sequence.
LEMMA SubIs ==
  ASSUME NEW T, NEW s \in Seq(T), NEW i \in 1..Len(s), NEW j \in 1..Len(s), i <= j
  PROVE  /\ Len(SubSeq(s, i, j)) = j - i + 1 /\ DOMAIN SubSeq(s, i, j) = 1..(j - i + 1)
         /\ \A k \in 1..(j - i + 1) : SubSeq(s, i, j)[k] = s[i - 1 + k]
OBVIOUS

\* A line takes a row at least.
LEMMA RowsOfLine ==
  ASSUME NEW line \in Line, NEW a \in Areas
  PROVE  LineRows(line, a) \in Nat \ {0}
<1> DEFINE width == Max({a.width - 2, 1})
           wrapped == (line.columns + width - 1) \div width
<1>1. line.columns \in Nat /\ a.width \in Nat
  BY PanelsAssumption, DetailPanelAssumption DEF Line
<1>2. width \in Nat \ {0}
  BY <1>1, MaxPair
<1>3. LineRows(line, a) = Max({1, wrapped})
  BY DEF LineRows
<1> HIDE DEF width
<1>4. wrapped \in Int
  BY <1>1, <1>2
<1> HIDE DEF wrapped
<1> QED BY <1>3, <1>4, MaxPair

\* A window that follows ends with the newest line, whole, if that fits; one
\* that is pinned starts with the pinned line.
LEMMA LinesAreShown ==
  ASSUME NEW l, LogOK(l), l.lines # << >>, NEW a \in Areas
  PROVE  LET shown == LinesDrawn(l, a)
             rows == SumSeq([i \in DOMAIN shown |-> LineRows(shown[i], a)])
         IN IF l.scroll # None THEN shown[1] = l.lines[l.scroll + 1]
            ELSE LineRows(Last(l.lines), a) <= a.height - 2 =>
                   shown # << >> /\ Last(shown) = Last(l.lines) /\ rows <= a.height - 2
<1> DEFINE n == Len(l.lines)
           room == a.height - 2
           taken(k) == SumSeq([i \in 1..k |-> LineRows(l.lines[n - k + i], a)])
           S == {k \in 0..n : taken(k) <= room}
           K == Max(S)
           first == FirstDrawn(l, a)
           end == Min({n, first + a.height - 2})
           shown == LinesDrawn(l, a)
<1>1. /\ l.lines \in Seq(Line) /\ n \in Nat /\ n >= 1 /\ DOMAIN l.lines = 1..n
      /\ \A i \in 1..n : l.lines[i] \in Line
  <2>1. l.lines \in Seq(Line)
    BY DEF LogOK
  <2> QED BY <2>1
<1>2. a.height \in Nat /\ room \in Nat \ {0}
  BY PanelsAssumption, DetailPanelAssumption
<1>3. shown = SubSeq(l.lines, first + 1, end)
  BY DEF LinesDrawn
<1>4. l.scroll = None \/ (l.scroll \in Nat /\ l.scroll <= n - 2)
  BY DEF LogOK
<1> HIDE DEF n, room, shown
<1>5. ASSUME l.scroll # None
      PROVE  shown[1] = l.lines[l.scroll + 1]
  <2>1. first = l.scroll
    BY <1>5 DEF FirstDrawn
  <2>2. first \in Nat /\ first <= n - 2 /\ first + a.height - 2 >= first + 1
    BY <1>2, <1>4, <1>5, <2>1 DEF room
  <2>3. end \in Int /\ first + 1 <= end /\ end <= n
    <3> DEFINE reach == first + a.height - 2
    <3>1. reach \in Int /\ reach >= first + 1
      BY <1>2, <2>2
    <3> HIDE DEF reach, first
    <3>2. Min({n, reach}) = IF n <= reach THEN n ELSE reach
      BY <1>1, <3>1, MinPair
    <3> QED BY <1>1, <2>2, <3>1, <3>2 DEF reach
  <2> HIDE DEF first, end
  <2>4. SubSeq(l.lines, first + 1, end)[1] = l.lines[first + 1]
    <3>1. first + 1 \in 1..Len(l.lines) /\ end \in 1..Len(l.lines)
      BY <1>1, <2>2, <2>3 DEF n
    <3>2. \A k \in 1..(end - (first + 1) + 1) : SubSeq(l.lines, first + 1, end)[k] = l.lines[(first + 1) - 1 + k]
      <4> DEFINE from == first + 1
      <4>1. from \in 1..Len(l.lines) /\ end \in 1..Len(l.lines) /\ from <= end /\ l.lines \in Seq(Line)
        BY <1>1, <2>3, <3>1
      <4> HIDE DEF from
      <4>2. \A k \in 1..(end - from + 1) : SubSeq(l.lines, from, end)[k] = l.lines[from - 1 + k]
        BY <4>1, SubIs
      <4> QED BY <4>2 DEF from
    <3>3. 1 \in 1..(end - (first + 1) + 1) /\ (first + 1) - 1 + 1 = first + 1
      BY <2>2, <2>3
    <3> QED BY <3>2, <3>3
  <2> QED BY <1>3, <2>1, <2>4
<1>6. ASSUME l.scroll = None, LineRows(Last(l.lines), a) <= room
      PROVE  /\ shown # << >> /\ Last(shown) = Last(l.lines)
             /\ SumSeq([i \in DOMAIN shown |-> LineRows(shown[i], a)]) <= room
  <2>1. taken(1) <= room
    <3> DEFINE s == [i \in 1..1 |-> LineRows(l.lines[n - 1 + i], a)]
    <3>1. PICK sum : sum[0] = 0 /\ (\A k \in 1..Len(s) : sum[k] = sum[k - 1] + s[k]) /\ SumSeq(s) = sum[Len(s)]
      <4>1. Len(s) \in Nat
        OBVIOUS
      <4> HIDE DEF s
      <4> QED BY <4>1, SumIs
    <3>2. Len(s) = 1
      OBVIOUS
    <3>3. s[1] = LineRows(l.lines[n], a)
      <4>1. n - 1 + 1 = n
        BY <1>1
      <4> QED BY <4>1
    <3>4. Last(l.lines) = l.lines[n]
      BY DEF Last, n
    <3>5. LineRows(l.lines[n], a) \in Nat
      <4>1. l.lines[n] \in Line
        BY <1>1
      <4> QED BY <4>1, RowsOfLine
    <3>6. sum[1] = sum[1 - 1] + s[1]
      BY <3>1, <3>2
    <3> HIDE DEF s
    <3>7. SumSeq(s) = s[1]
      BY <3>1, <3>2, <3>3, <3>5, <3>6
    <3> QED BY <1>6, <3>3, <3>4, <3>7 DEF s
  <2>2. K \in 1..n /\ taken(K) <= room
    <3>1. 1 \in S /\ S \in SUBSET (0..n)
      BY <1>1, <2>1
    <3> HIDE DEF S
    <3>2. Max(S) \in S /\ 1 <= Max(S)
      BY <1>1, <3>1, GreatestNat
    <3>3. K \in S /\ 1 <= K
      BY <3>2
    <3> HIDE DEF K
    <3> QED BY <1>1, <3>3 DEF S
  <2>3. first = n - K
    BY <1>6 DEF FirstDrawn, n, room
  <2> HIDE DEF first, S, K
  <2>4. ASSUME NEW i \in 1..K PROVE n - K + i \in 1..n
    BY <1>1, <2>2
  <2> DEFINE s == [i \in 1..K |-> LineRows(l.lines[n - K + i], a)]
  <2>5. K <= room
    <3>1. Len(s) = K /\ Len(s) \in Nat /\ \A i \in 1..Len(s) : s[i] = LineRows(l.lines[n - K + i], a)
      BY <2>2
    <3>2. ASSUME NEW i \in 1..Len(s) PROVE s[i] \in Nat \ {0}
      <4>1. l.lines[n - K + i] \in Line
        BY <1>1, <2>4, <3>1
      <4> QED BY <3>1, <4>1, RowsOfLine
    <3>3. SumSeq(s) <= room
      BY <2>2
    <3> HIDE DEF s
    <3>4. SumSeq(s) \in Nat /\ Len(s) <= SumSeq(s)
      BY <3>1, <3>2, SumAtLeast
    <3> QED BY <1>2, <2>2, <3>1, <3>3, <3>4
  <2>6. end = n
    <3> DEFINE reach == first + a.height - 2
    <3>1. reach = n - K + room /\ reach \in Int /\ reach >= n
      BY <1>1, <1>2, <2>2, <2>3, <2>5 DEF room
    <3> HIDE DEF reach
    <3>2. Min({n, reach}) = IF n <= reach THEN n ELSE reach
      BY <1>1, <3>1, MinPair
    <3> QED BY <1>1, <3>1, <3>2 DEF reach
  <2> HIDE DEF end
  <2>7. first + 1 \in 1..n /\ first + 1 <= n /\ n - (first + 1) + 1 = K
    BY <1>1, <2>2, <2>3
  <2>8. /\ Len(shown) = K /\ DOMAIN shown = 1..K
        /\ \A i \in 1..K : shown[i] = l.lines[n - K + i]
    <3>1. shown = SubSeq(l.lines, first + 1, n)
      BY <1>3, <2>6
    <3>2. n \in 1..n
      BY <1>1
    <3>3. /\ Len(shown) = n - (first + 1) + 1 /\ DOMAIN shown = 1..(n - (first + 1) + 1)
          /\ \A i \in 1..(n - (first + 1) + 1) : shown[i] = l.lines[(first + 1) - 1 + i]
      <4> DEFINE from == first + 1
      <4>1. /\ from \in 1..Len(l.lines) /\ n \in 1..Len(l.lines) /\ from <= n /\ l.lines \in Seq(Line)
            /\ shown = SubSeq(l.lines, from, n)
        BY <1>1, <2>7, <3>1, <3>2 DEF n
      <4> HIDE DEF from, n
      <4>2. /\ Len(shown) = n - from + 1 /\ DOMAIN shown = 1..(n - from + 1)
            /\ \A i \in 1..(n - from + 1) : shown[i] = l.lines[from - 1 + i]
        BY <4>1, SubIs
      <4> QED BY <4>2 DEF from
    <3>4. ASSUME NEW i \in 1..K PROVE (first + 1) - 1 + i = n - K + i
      BY <1>1, <2>2, <2>3
    <3> QED BY <2>7, <3>3, <3>4
  <2>9. [i \in DOMAIN shown |-> LineRows(shown[i], a)] = s
    BY <2>8
  <2>10. SumSeq(s) <= room
    BY <2>2
  <2>11. shown # << >> /\ Last(shown) = Last(l.lines)
    <3>1. Len(shown) # 0
      BY <2>2, <2>8
    <3>2. Last(shown) = shown[K] /\ Last(l.lines) = l.lines[n]
      BY <2>8 DEF Last, n
    <3>3. K \in 1..K /\ n - K + K = n
      BY <1>1, <2>2
    <3> QED BY <2>8, <3>1, <3>2, <3>3
  <2> QED BY <2>9, <2>10, <2>11
<1> HIDE DEF first, end
<1> QED BY <1>5, <1>6 DEF shown, room

-----------------------------------------------------------------------------
(* The list of workloads: there is a cursor where there is a list.         *)

WorkOK(w) ==
  /\ w \in [items : Lists \cup {<< >>}, selected : Nat \cup {None}, loading : BOOLEAN,
            error : BOOLEAN]
  /\ w.selected = None <=> w.items = << >>
  /\ w.selected # None => w.selected \in DOMAIN w.items

LEMMA ItemsAre ==
  ASSUME NEW items \in Lists \cup {<< >>}
  PROVE  /\ items \in Seq(ToSet(items)) /\ Len(items) \in Nat /\ DOMAIN items = 1..Len(items)
         /\ items # << >> => Len(items) >= 1
         /\ None \notin ToSet(items)
<1>1. items \in Seq(ToSet(items)) /\ None \notin ToSet(items)
  <2>1. << >> \in Seq(ToSet(<< >>)) /\ None \notin ToSet(<< >>)
    BY DEF ToSet
  <2> QED BY <2>1, PanelsAssumption
<1>2. Len(items) \in Nat /\ DOMAIN items = 1..Len(items) /\ (Len(items) = 0 => items = << >>)
  BY <1>1, EmptySeq
<1> QED BY <1>1, <1>2

LEMMA CursorMoves ==
  ASSUME NEW w, WorkOK(w), NEW delta \in Int
  PROVE  WorkOK(CursorBy(w, delta))
<1>0. None \notin Int
  BY DetailPanelAssumption
<1>1. CASE w.items = << >>
  <2>1. CursorBy(w, delta) = [w EXCEPT !.selected = None]
    BY <1>1 DEF CursorBy
  <2> QED BY <1>1, <2>1 DEF WorkOK
<1>2. CASE w.items # << >>
  <2> DEFINE n == Len(w.items)
             sum == w.selected + delta
             to == Clamp(sum, 1, n)
  <2>1. n \in Nat /\ n >= 1 /\ DOMAIN w.items = 1..n
    BY <1>2, ItemsAre DEF WorkOK
  <2>2. w.selected \in Nat /\ w.selected # None
    BY <1>2 DEF WorkOK
  <2>3. CursorBy(w, delta) = [w EXCEPT !.selected = to]
    BY <1>2, <2>2 DEF CursorBy
  <2>4. sum \in Int /\ n \in Int /\ 1 <= n
    BY <2>1, <2>2
  <2>5. to \in 1..n
    <3> HIDE DEF sum, n
    <3>1. Clamp(sum, 1, n) \in Int /\ 1 <= Clamp(sum, 1, n) /\ Clamp(sum, 1, n) <= n
      BY <2>4, Clamped
    <3> QED BY <2>4, <3>1
  <2> HIDE DEF to
  <2>6. to \in Nat /\ to # None /\ to \in DOMAIN w.items
    BY <1>0, <2>1, <2>5
  <2> QED BY <1>2, <2>3, <2>6 DEF WorkOK
<1> QED BY <1>1, <1>2

LEMMA ListArrives ==
  ASSUME NEW w, WorkOK(w), NEW items \in Lists
  PROVE  /\ WorkOK(Listed(w, items))
         /\ Listed(w, items).items = items
         /\ Selected(w) \in ToSet(items) => Selected(Listed(w, items)) = Selected(w)
<1> DEFINE same == IF Selected(w) = None THEN 0 ELSE SelectInSeq(items, LAMBDA i : i = Selected(w))
           at == IF same # 0 THEN same ELSE IF items = << >> THEN None ELSE 1
<1>1. /\ items \in Seq(ToSet(items)) /\ Len(items) \in Nat /\ DOMAIN items = 1..Len(items)
      /\ items # << >> => Len(items) >= 1
      /\ None \notin ToSet(items) /\ None \notin Int
  BY ItemsAre, DetailPanelAssumption
<1>2. Listed(w, items) = [items |-> items, loading |-> FALSE, error |-> FALSE, selected |-> at]
  BY DEF Listed
<1>3. CASE Selected(w) \in ToSet(items)
  <2>1. same \in DOMAIN items /\ items[same] = Selected(w)
    <3> DEFINE e == Selected(w)
    <3>1. same = SelectInSeq(items, LAMBDA i : i = e)
      BY <1>1, <1>3
    <3>2. e \in ToSet(items)
      BY <1>3
    <3> HIDE DEF e, same
    <3>3. /\ SelectInSeq(items, LAMBDA i : i = e) \in DOMAIN items
          /\ items[SelectInSeq(items, LAMBDA i : i = e)] = e
      BY <1>1, <3>2, FirstEqual
    <3> QED BY <3>1, <3>3 DEF e
  <2> HIDE DEF same
  <2>2. at = same /\ at \in Nat /\ at # None /\ items # << >>
    BY <1>1, <2>1
  <2> HIDE DEF at
  <2>3. WorkOK(Listed(w, items))
    BY <1>2, <2>1, <2>2 DEF WorkOK
  <2>4. Selected(Listed(w, items)) = items[at]
    BY <1>2, <2>2 DEF Selected
  <2> QED BY <1>2, <2>1, <2>2, <2>3, <2>4
<1>4. CASE Selected(w) \notin ToSet(items)
  <2>1. same = 0
    <3> DEFINE e == Selected(w)
    <3>1. {i \in 1..Len(items) : items[i] = e} = {}
      BY <1>1, <1>4 DEF ToSet
    <3>2. SelectInSeq(items, LAMBDA i : i = e) = 0
      BY <3>1 DEF SelectInSeq
    <3> QED BY <3>2
  <2> HIDE DEF same
  <2>2. at = IF items = << >> THEN None ELSE 1
    BY <2>1
  <2> HIDE DEF at
  <2>3. WorkOK(Listed(w, items))
    BY <1>1, <1>2, <2>2 DEF WorkOK
  <2> QED BY <1>2, <1>4, <2>3
<1> QED BY <1>3, <1>4

LEMMA WorkStep ==
  ASSUME WorkOK(work), Next
  PROVE  /\ WorkOK(work')
         /\ (top = "workloads" /\ last' = "list" /\ Selected(work) \in ToSet(work'.items)) =>
              Selected(work') = Selected(work)
<1>1. CASE ~WorkloadsNext
  <2>1. work' = work /\ top # "workloads"
    BY <1>1 DEF Next, Detail, LogsNext, Logs, MonoNext, Mono, Event
  <2> QED BY <2>1
<1>2. CASE Workloads("down", CursorBy(work, 1)) \/ Workloads("up", CursorBy(work, -1))
  <2>1. \E delta \in Int : work' = CursorBy(work, delta)
    BY <1>2 DEF Workloads
  <2>2. last' # "list"
    BY <1>2 DEF Workloads, Event
  <2> QED BY <2>1, <2>2, CursorMoves
<1>3. CASE \E items \in Lists : Workloads("list", Listed(work, items))
  <2>1. PICK items \in Lists : work' = Listed(work, items)
    BY <1>3 DEF Workloads
  <2> QED BY <2>1, ListArrives
<1>4. CASE Workloads("error", [work EXCEPT !.loading = FALSE, !.error = TRUE])
  <2>1. work' = [work EXCEPT !.loading = FALSE, !.error = TRUE] /\ last' = "error"
    BY <1>4 DEF Workloads, Event
  <2> QED BY <2>1 DEF WorkOK
<1> QED BY <1>1, <1>2, <1>3, <1>4 DEF WorkloadsNext

\* What the reader looks at stays put, for any lines, lists and number of
\* events: lines that arrive leave the pinned line at the top until it falls out
\* of the window (logs.rs 59), a new list leaves the cursor on its workload while
\* that is listed (workloads.rs 111).
THEOREM StaysPutThm == Spec => StaysPut
<1> DEFINE Inv == LogOK(logs) /\ WorkOK(work)
<1>1. Init => Inv
  <2>1. LogOK(NewLogs)
    BY PanelsAssumption DEF LogOK, NewLogs
  <2>2. WorkOK(NewList)
    BY DEF WorkOK, NewList
  <2> QED BY <2>1, <2>2 DEF Init
<1>2. Inv /\ [Next]_panelVars => Inv'
  <2>1. UNCHANGED panelVars => UNCHANGED <<logs, work>>
    BY DEF panelVars
  <2> QED BY <2>1, LogStep, WorkStep
<1>3. Inv /\ [Next]_panelVars =>
        [(top = "logs" /\ last' = "log" /\ logs.scroll # None) =>
           LET line == logs.lines[logs.scroll + 1]
           IN /\ logs'.scroll # None
              /\ line \in ToSet(logs'.lines) => logs'.lines[logs'.scroll + 1] = line]_panelVars
  BY LogStep
<1>4. Inv /\ [Next]_panelVars =>
        [(top = "workloads" /\ last' = "list" /\ Selected(work) \in ToSet(work'.items)) =>
           Selected(work') = Selected(work)]_panelVars
  BY WorkStep
<1> HIDE DEF Inv
<1>5. Spec => PinnedLineStays
  BY <1>1, <1>2, <1>3, PTL DEF Spec, PinnedLineStays
<1>6. Spec => CursorStays
  BY <1>1, <1>2, <1>4, PTL DEF Spec, CursorStays
<1> QED BY <1>5, <1>6 DEF StaysPut

-----------------------------------------------------------------------------
(* The card of a MonoVertex: its chain is as wide as it was measured, the  *)
(* first rung of the ladder that fits is taken, and every row is filled up *)
(* to the same width.                                                      *)

MonoVertex == [name : Nat, transformer : BOOLEAN, map : BOOLEAN, fallback : BOOLEAN,
               badge : Nat, flow : Nat]
MonoOK(m) == m \in [view : MonoVertex \cup {None}, error : BOOLEAN]

LEMMA MonoStep ==
  ASSUME MonoOK(mono), [Next]_panelVars
  PROVE  MonoOK(mono')
<1>1. CASE ~MonoNext
  <2>1. mono' = mono
    BY <1>1 DEF Next, Detail, WorkloadsNext, Workloads, LogsNext, Logs, panelVars
  <2> QED BY <2>1
<1>2. ASSUME NEW m \in MonoVertices, Mono("view", [view |-> m, error |-> FALSE])
      PROVE  MonoOK(mono')
  <2>1. mono' = [view |-> m, error |-> FALSE]
    BY <1>2 DEF Mono
  <2> QED BY <2>1, PanelsAssumption DEF MonoOK, MonoVertex
<1>3. CASE Mono("error", [mono EXCEPT !.error = TRUE])
  <2>1. mono' = [mono EXCEPT !.error = TRUE]
    BY <1>3 DEF Mono
  <2> QED BY <2>1 DEF MonoOK
<1> QED BY <1>1, <1>2, <1>3 DEF MonoNext

LEMMA StagesAre ==
  ASSUME NEW m \in MonoVertex, NEW short \in BOOLEAN
  PROVE  Stages(m, short) \in Seq(Nat) /\ Len(Stages(m, short)) >= 1
<1> DEFINE first == <<IF short THEN 3 ELSE 6>>
           trf == IF m.transformer THEN <<IF short THEN 3 ELSE 9>> ELSE << >>
           map == IF m.map THEN <<3>> ELSE << >>
           fb == IF m.fallback THEN <<IF short THEN 2 ELSE 8>> ELSE << >>
<1>1. first \in Seq(Nat) /\ Len(first) = 1
  OBVIOUS
<1>2. trf \in Seq(Nat) /\ map \in Seq(Nat) /\ <<4>> \in Seq(Nat) /\ fb \in Seq(Nat)
  OBVIOUS
<1>3. Stages(m, short) = first \o trf \o map \o <<4>> \o fb
  BY DEF Stages
<1> HIDE DEF first, trf, map, fb
<1>4. first \o trf \in Seq(Nat) /\ Len(first \o trf) >= 1
  <2>1. Len(first \o trf) = Len(first) + Len(trf)
    BY <1>1, <1>2, ConcatProperties
  <2>2. Len(trf) \in Nat
    BY <1>2
  <2> QED BY <1>1, <1>2, <2>1, <2>2
<1>5. first \o trf \o map \in Seq(Nat) /\ Len(first \o trf \o map) >= 1
  BY <1>2, <1>4
<1>6. first \o trf \o map \o <<4>> \in Seq(Nat) /\ Len(first \o trf \o map \o <<4>>) >= 1
  BY <1>2, <1>5
<1>7. first \o trf \o map \o <<4>> \o fb \in Seq(Nat) /\ Len(first \o trf \o map \o <<4>> \o fb) >= 1
  BY <1>2, <1>6
<1> QED BY <1>3, <1>7

Step == [short : BOOLEAN, boxed : BOOLEAN]

\* The rows of the chain are as wide as the chain was measured.
LEMMA ChainIsMeasured ==
  ASSUME NEW m \in MonoVertex, NEW step \in Step
  PROVE  /\ ChainWidth(m, step) \in Nat
         /\ ChainRows(m, step) \in Seq({ChainWidth(m, step)})
<1> DEFINE labels == Stages(m, step.short)
           box == IF step.boxed THEN 4 ELSE 0
           hop == IF step.boxed THEN 3 ELSE 5
           row == SumSeq([i \in DOMAIN labels |-> labels[i] + box + (IF i > 1 THEN hop ELSE 0)])
           width == ChainWidth(m, step)
<1>1. labels \in Seq(Nat) /\ Len(labels) \in Nat /\ Len(labels) >= 1
  <2>1. step.short \in BOOLEAN
    BY DEF Step
  <2> QED BY <2>1, StagesAre
<1>2. SumSeq(labels) \in Nat /\ row = SumSeq(labels) + (Len(labels) - 1) * hop + Len(labels) * box
  <2>1. box \in Nat /\ hop \in Nat
    OBVIOUS
  <2> HIDE DEF labels, box, hop
  <2> QED BY <1>1, <2>1, SumSpaced
<1>3. width = SumSeq(labels) + (Len(labels) - 1) * hop + Len(labels) * box
  <2> DEFINE n == Len(labels)
             sum == SumSeq(labels)
  <2>0. n \in Nat /\ sum \in Nat
    BY <1>1, <1>2
  <2>1. width = sum + (n - 1) * HopWidth(step) + (IF step.boxed THEN n * (1 + BOX_PAD) * 2 ELSE 0)
    BY DEF ChainWidth
  <2>2. HopWidth(step) = hop
    BY DEF HopWidth, HOP
  <2>3. (IF step.boxed THEN n * (1 + BOX_PAD) * 2 ELSE 0) = n * box
    <3> HIDE DEF n
    <3> QED BY <2>0 DEF BOX_PAD
  <2> HIDE DEF n, sum, hop, box, width
  <2> QED BY <2>1, <2>2, <2>3 DEF n, sum
<1>4. row = width
  <2> HIDE DEF row, width, labels, box, hop
  <2> QED BY <1>2, <1>3
<1>5. width \in Nat
  <2> DEFINE n == Len(labels)
             sum == SumSeq(labels)
  <2>1. n \in Nat /\ n >= 1 /\ sum \in Nat
    BY <1>1, <1>2
  <2>2. width = sum + (n - 1) * hop + n * box
    BY <1>3
  <2> HIDE DEF n, sum, width
  <2> QED BY <2>1, <2>2
<1>6. ChainRows(m, step) = IF step.boxed THEN <<row, row, row>> ELSE <<row>>
  <2> DEFINE hop2 == IF step.boxed THEN HOP ELSE 1 + HOP + 1
             box2(l) == IF step.boxed THEN 1 + (BOX_PAD + l + BOX_PAD) + 1 ELSE l
             row2 == SumSeq([i \in DOMAIN labels |-> box2(labels[i]) + (IF i > 1 THEN hop2 ELSE 0)])
  <2>1. ChainRows(m, step) = IF step.boxed THEN <<row2, row2, row2>> ELSE <<row2>>
    BY DEF ChainRows
  <2>2. hop2 = hop
    BY DEF HOP
  <2>3. ASSUME NEW i \in DOMAIN labels
        PROVE  box2(labels[i]) = labels[i] + box
    <3>1. labels[i] \in Nat
      <4> HIDE DEF labels
      <4> QED BY <1>1, <2>3
    <3> HIDE DEF labels
    <3> QED BY <3>1 DEF BOX_PAD
  <2> HIDE DEF labels, box, hop, box2, hop2
  <2>4. row2 = row
    BY <2>2, <2>3
  <2> QED BY <2>1, <2>4
<1>7. ChainRows(m, step) \in Seq({width})
  <2> HIDE DEF row, width
  <2>1. <<width, width, width>> \in Seq({width}) /\ <<width>> \in Seq({width})
    OBVIOUS
  <2> QED BY <1>4, <1>6, <2>1, Zenon
<1> QED BY <1>5, <1>7

\* The rung that is taken fits when the last one does.
LEMMA StepFits ==
  ASSUME NEW m \in MonoVertex, NEW room \in Int,
         ChainWidth(m, LADDER[3]) + PAD * 2 + 2 <= room
  PROVE  /\ StepFor(m, room) \in Step
         /\ ChainWidth(m, StepFor(m, room)) + PAD * 2 + 2 <= room
<1> DEFINE fits(s) == ChainWidth(m, s) + PAD * 2 + 2 <= room
           I == {i \in 1..Len(LADDER) : fits(LADDER[i])}
           first == SelectInSeq(LADDER, fits)
<1>1. Len(LADDER) = 3 /\ DOMAIN LADDER = 1..3 /\ \A i \in 1..3 : LADDER[i] \in Step
  BY DEF LADDER, Step
<1>2. 3 \in I /\ I \in SUBSET Nat
  BY <1>1
<1>3. first = Min(I)
  BY <1>2 DEF SelectInSeq
<1>4. Min(I) \in I
  <2> HIDE DEF I
  <2> QED BY <1>2, LeastNat
<1>5. StepFor(m, room) = LADDER[IF first = 0 THEN Len(LADDER) ELSE first]
  BY DEF StepFor
<1> HIDE DEF first
<1>6. first \in 1..3 /\ fits(LADDER[first]) /\ first # 0
  BY <1>1, <1>3, <1>4
<1> QED BY <1>1, <1>5, <1>6

\* Every row of a card is as wide as the card, which fits the room when the
\* shortest chain and the labels do.
LEMMA CardFitsRoom ==
  ASSUME NEW m \in MonoVertex, NEW room \in Int
  PROVE  CardFits(m, room)
<1> SUFFICES ASSUME m.name + PAD * 2 + 2 <= room, m.flow + 5 <= room, m.badge + 5 <= room,
                    ChainWidth(m, LADDER[3]) + PAD * 2 + 2 <= room
             PROVE  \A row \in ToSet(CardRows(m, room)) : row = CardInner(m, room) + 2 /\ row <= room
  BY DEF CardFits
<1> DEFINE step == StepFor(m, room)
           chain == ChainWidth(m, step)
           rows == ChainRows(m, step)
           name == m.name
           badge == m.badge
           flow == m.flow
           inner == CardInner(m, room)
           W == inner + 2
           row(used) == 1 + PAD + used + Max({0, inner - (used + PAD)}) + 1
           lead == Max({0, inner - (name + PAD * 2)}) \div 2
<1>1. PAD = 3
  BY DEF PAD
<1>2. step \in Step /\ chain + 8 <= room
  <2>1. step \in Step /\ chain + PAD * 2 + 2 <= room
    BY StepFits
  <2> HIDE DEF chain
  <2>2. chain \in Nat
    BY <2>1, ChainIsMeasured DEF chain
  <2> HIDE DEF step
  <2> QED BY <1>1, <2>1, <2>2
<1>3. chain \in Nat /\ rows \in Seq({chain})
  BY <1>2, ChainIsMeasured
<1>4. name \in Nat /\ badge \in Nat /\ flow \in Nat
  BY DEF MonoVertex
<1>5. name + 8 <= room /\ flow + 5 <= room /\ badge + 5 <= room
  BY <1>1, <1>4
<1>6. CardRows(m, room)
        = <<3 + badge + 1 + Max({0, inner - (badge + 3)}) + 1, row(lead + name), row(0)>>
            \o [i \in DOMAIN rows |-> row(rows[i])]
            \o <<row(0), 1 + Max({0, inner - (flow + 3)}) + 1 + flow + 3>>
  BY DEF CardRows
<1>7. inner = Min({Max({Max({name, chain}) + PAD * 2, badge + flow + 8}), Max({0, room - 2})})
  BY DEF CardInner
<1> HIDE DEF step, chain, rows, name, badge, flow, inner
<1>8. /\ inner \in Int /\ inner <= room - 2 /\ name + 6 <= inner /\ chain + 6 <= inner
      /\ badge + 3 <= inner /\ flow + 3 <= inner
  <2> DEFINE x == Max({name, chain})
             y == Max({x + 6, badge + flow + 8})
             z == Max({0, room - 2})
  <2>1. x = IF name >= chain THEN name ELSE chain
    BY <1>3, <1>4, MaxPair
  <2>2. x \in Nat /\ name <= x /\ chain <= x
    BY <1>3, <1>4, <2>1
  <2>3. inner = Min({y, z})
    BY <1>1, <1>7
  <2> HIDE DEF x
  <2>4. y = IF x + 6 >= badge + flow + 8 THEN x + 6 ELSE badge + flow + 8
    BY <1>4, <2>2, MaxPair
  <2>5. z = IF 0 >= room - 2 THEN 0 ELSE room - 2
    BY MaxPair
  <2> HIDE DEF y, z
  <2>6. y \in Int /\ z \in Int
    BY <1>4, <2>2, <2>4, <2>5
  <2>7. inner = IF y <= z THEN y ELSE z
    BY <2>3, <2>6, MinPair
  <2> QED BY <1>2, <1>3, <1>4, <1>5, <2>2, <2>4, <2>5, <2>6, <2>7
<1>9. ASSUME NEW used \in Int, used + 3 <= inner
      PROVE  row(used) = W
  <2>1. inner - (used + PAD) \in Nat /\ inner - (used + PAD) = inner - used - 3
    BY <1>1, <1>8, <1>9
  <2> DEFINE rest == inner - (used + PAD)
  <2>2. Max({0, rest}) = rest
    <3> HIDE DEF rest
    <3> QED BY <2>1, MaxPair DEF rest
  <2> QED BY <1>1, <1>8, <2>1, <2>2
<1>10. lead \in Int /\ lead + name + 3 <= inner
  <2> DEFINE blank == inner - (name + PAD * 2)
  <2>1. blank \in Nat /\ name + 6 + blank = inner
    BY <1>1, <1>4, <1>8
  <2> HIDE DEF blank
  <2>2. lead = blank \div 2
    <3>1. Max({0, blank}) = blank
      BY <2>1, MaxPair
    <3> QED BY <3>1 DEF blank
  <2> HIDE DEF lead
  <2>3. lead \in Int /\ lead <= blank
    BY <2>1, <2>2
  <2> QED BY <1>4, <1>8, <2>1, <2>3
<1>11. row(lead + name) = W /\ row(0) = W
  <2>1. lead + name \in Int /\ (lead + name) + 3 <= inner /\ 0 + 3 <= inner /\ 0 \in Int
    BY <1>4, <1>8, <1>10
  <2> HIDE DEF row, lead, W
  <2> QED BY <1>9, <2>1
<1>12. ASSUME NEW i \in DOMAIN rows
       PROVE  row(rows[i]) = W
  <2>1. rows[i] = chain
    BY <1>3
  <2>2. chain \in Int /\ chain + 3 <= inner
    BY <1>3, <1>8
  <2> HIDE DEF row, W
  <2> QED BY <1>9, <2>1, <2>2
<1>13. 3 + badge + 1 + Max({0, inner - (badge + 3)}) + 1 = W
  <2> DEFINE rest == inner - (badge + 3)
  <2>1. rest \in Nat
    BY <1>4, <1>8
  <2>2. Max({0, rest}) = rest
    <3> HIDE DEF rest
    <3> QED BY <2>1, MaxPair
  <2> QED BY <1>4, <1>8, <2>2
<1>14. 1 + Max({0, inner - (flow + 3)}) + 1 + flow + 3 = W
  <2> DEFINE rest == inner - (flow + 3)
  <2>1. rest \in Nat
    BY <1>4, <1>8
  <2>2. Max({0, rest}) = rest
    <3> HIDE DEF rest
    <3> QED BY <2>1, MaxPair
  <2> QED BY <1>4, <1>8, <2>2
<1> DEFINE middle == [i \in DOMAIN rows |-> row(rows[i])]
<1>15. middle \in Seq({W})
  <2>1. DOMAIN rows = 1..Len(rows) /\ Len(rows) \in Nat
    BY <1>3
  <2>2. middle = [i \in 1..Len(rows) |-> W]
    <3> HIDE DEF row, W
    <3> QED BY <1>12, <2>1
  <2> HIDE DEF middle, W
  <2> QED BY <2>1, <2>2
<1>16. CardRows(m, room) = <<W, W, W>> \o middle \o <<W, W>>
  <2> HIDE DEF row, lead, W, middle
  <2> QED BY <1>6, <1>11, <1>13, <1>14 DEF middle
<1>17. W \in Int /\ W <= room
  BY <1>8
<1> HIDE DEF middle, W
<1>18. <<W, W, W>> \in Seq({W}) /\ <<W, W>> \in Seq({W})
  OBVIOUS
<1>19. <<W, W, W>> \o middle \in Seq({W})
  BY <1>15, <1>18
<1>20. CardRows(m, room) \in Seq({W})
  BY <1>16, <1>18, <1>19
<1>21. \A r \in ToSet(CardRows(m, room)) : r = W
  BY <1>20 DEF ToSet
<1> QED BY <1>17, <1>21 DEF W, inner

-----------------------------------------------------------------------------
(* The detail panel: what a drawing leaves.                                *)

Box == [top : Int, bottom : Int]
PanelType ==
  [view : Views \cup {None}, error : BOOLEAN, selected : Nat, expand : BOOLEAN,
   scroll : Nat, vscroll : Nat, follow : BOOLEAN, split : Int, focus : {"flow", "edges"},
   rows : Nat, rows_at : Nat, hit : {None} \cup [flow : Box, edges : Box], dragging : BOOLEAN]

\* The two boxes lie one under the other, above their floors.
LaidOut(p, a, hit) ==
  /\ Rows(hit.edges) + 2 >= MIN_TABLE /\ Rows(hit.flow) + 2 >= MIN_FLOW
  /\ hit.flow.bottom < hit.edges.top
  /\ hit.edges.bottom + 1 + p.view.warnings = a.height - 1

Positioned(p, a, c) ==
  /\ p.hit = Boxes(p, a, c)
  /\ p.scroll \in 0..(Len(c.drawing.colX) - 1)
  /\ p.vscroll \in 0..Max({0, c.drawing.height - Rows(p.hit.flow)})
  /\ p.rows_at \in 0..Max({0, Edges(p.view) - 1})

InView(p, a, c) ==
  (p.follow /\ SelectedVertex(p) # None) =>
    LET card == SelectedCard(p, c)
        rows == Rows(p.hit.flow)
    IN /\ p.scroll < card.column
       /\ Visible(c, p.scroll, Room(a)) >= card.column - 1
       /\ card.h <= rows => card.y >= p.vscroll /\ card.y + card.h <= p.vscroll + rows

Placed(p, a, c) == Positioned(p, a, c) /\ LaidOut(p, a, p.hit) /\ InView(p, a, c)

DetailInv ==
  /\ panel \in PanelType /\ area \in Areas /\ cards = Cards(panel, area)
  /\ panel.view # None => Placed(panel, area, cards)

LEMMA TableFits ==
  ASSUME NEW p \in PanelType, NEW a \in Areas, p.view # None, NEW c, c.drawing.height \in Nat
  PROVE  /\ TableHeight(p, a, c) \in Int /\ TableHeight(p, a, c) >= MIN_TABLE
         /\ TableHeight(p, a, c) <= a.height - 2 - p.view.warnings - HeadRows - MIN_FLOW
<1> DEFINE X == a.height - 2 - p.view.warnings - HeadRows
           spare == Max({0, X})
           wants == Max({c.drawing.height + 2, MIN_FLOW})
           most == spare - wants
           least == Max({most, MIN_TABLE})
           three == Edges(p.view) + 3
           rows == Max({three, 6})
           longest == Max({rows, MIN_TABLE})
           own == Min({least, longest})
           moved == own + p.split
           asked == Max({0, moved})
           low == Min({MIN_TABLE, spare})
           room == spare - MIN_FLOW
           high == Max({room, MIN_TABLE})
<1>1. /\ p.view \in Views /\ p.split \in Int /\ HeadRows \in Nat /\ a.height \in Nat
      /\ p.view.warnings \in Nat /\ Edges(p.view) \in Nat
      /\ X \in Int /\ X >= MIN_FLOW + MIN_TABLE /\ MIN_TABLE = 4 /\ MIN_FLOW = 7
  <2>1. p.view \in Views /\ p.split \in Int
    BY DEF PanelType
  <2>2. /\ p.view.warnings \in Nat /\ a.height \in Nat
        /\ p.view.topology.edges \in Seq(ToSet(p.view.topology.edges))
        /\ a.height >= 2 + p.view.warnings + HeadRows + MIN_FLOW + MIN_TABLE
    BY <2>1, DetailPanelAssumption
  <2>3. HeadRows \in Nat
    BY DEF HeadRows
  <2>4. Edges(p.view) \in Nat
    BY <2>2 DEF Edges
  <2>5. MIN_TABLE = 4 /\ MIN_FLOW = 7
    BY DEF MIN_FLOW, MIN_TABLE
  <2>6. X \in Int /\ X >= MIN_FLOW + MIN_TABLE
    <3> DEFINE w == p.view.warnings
               h == a.height
    <3>1. w \in Nat /\ h \in Nat /\ h >= 2 + w + HeadRows + MIN_FLOW + MIN_TABLE
      BY <2>2
    <3>2. X = h - 2 - w - HeadRows
      OBVIOUS
    <3> HIDE DEF X, w, h
    <3> QED BY <2>3, <2>5, <3>1, <3>2
  <2> QED BY <2>1, <2>2, <2>3, <2>4, <2>5, <2>6
<1>2. TableHeight(p, a, c) = Clamp(asked, low, high)
  BY DEF TableHeight, TableRows
<1> HIDE DEF X
<1>3. spare = X
  BY <1>1, MaxPair
<1> HIDE DEF spare
<1>4. wants \in Int
  <2>1. c.drawing.height + 2 \in Int /\ MIN_FLOW \in Int
    BY <1>1
  <2> QED BY <2>1, MaxPair
<1> HIDE DEF wants
<1>5. most \in Int /\ three \in Int
  BY <1>1, <1>3, <1>4
<1> HIDE DEF most, three
<1>6. least \in Int /\ rows \in Int
  BY <1>1, <1>5, MaxPair
<1> HIDE DEF least, rows
<1>7. longest \in Int
  BY <1>1, <1>6, MaxPair
<1> HIDE DEF longest
<1>8. own \in Int
  BY <1>6, <1>7, MinPair
<1> HIDE DEF own
<1>9. moved \in Int
  BY <1>1, <1>8
<1> HIDE DEF moved
<1>10. asked \in Int
  BY <1>9, MaxPair
<1>11. low = MIN_TABLE
  BY <1>1, <1>3, MinPair
<1>12. room \in Int /\ room = X - MIN_FLOW /\ room >= MIN_TABLE
  BY <1>1, <1>3
<1> HIDE DEF room, asked, low
<1>13. high = room
  BY <1>1, <1>12, MaxPair
<1> HIDE DEF high
<1>14. /\ Clamp(asked, low, high) \in Int /\ low <= Clamp(asked, low, high)
       /\ low <= high => Clamp(asked, low, high) <= high
  <2>1. asked \in Int /\ low \in Int /\ high \in Int
    BY <1>1, <1>10, <1>11, <1>12, <1>13
  <2> QED BY <2>1, Clamped
<1> QED BY <1>1, <1>2, <1>11, <1>12, <1>13, <1>14 DEF X

LEMMA BoxesFit ==
  ASSUME NEW p \in PanelType, NEW a \in Areas, p.view # None, NEW c, c.drawing.height \in Nat
  PROVE  Boxes(p, a, c) \in [flow : Box, edges : Box] /\ LaidOut(p, a, Boxes(p, a, c))
<1> DEFINE table == TableHeight(p, a, c)
           top1 == 1 + HeadRows
           line == a.height - 1 - p.view.warnings - table
           b == Boxes(p, a, c)
<1>1. table \in Int /\ table >= MIN_TABLE /\ table <= a.height - 2 - p.view.warnings - HeadRows - MIN_FLOW
  BY TableFits
<1>2. p.view \in Views /\ HeadRows \in Nat /\ a.height \in Nat /\ p.view.warnings \in Nat
  BY DetailPanelAssumption DEF PanelType, HeadRows
<1>3. b = [flow |-> [top |-> top1 + 1, bottom |-> line - 1],
           edges |-> [top |-> line + 1, bottom |-> line + table - 1]]
  BY DEF Boxes
<1> HIDE DEF table
<1>4. line \in Int /\ top1 \in Int
  BY <1>1, <1>2
<1>5. b \in [flow : Box, edges : Box]
  BY <1>1, <1>3, <1>4 DEF Box
<1>6. /\ b.flow.top = HeadRows + 2 /\ b.flow.bottom = line - 1
      /\ b.edges.top = line + 1 /\ b.edges.bottom = line + table - 1
  BY <1>2, <1>3
<1> HIDE DEF b
<1>7. LaidOut(p, a, b)
  BY <1>1, <1>2, <1>4, <1>6 DEF LaidOut, Rows, MIN_TABLE, MIN_FLOW
<1> QED BY <1>5, <1>7 DEF b

\* A selected vertex has a card.
LEMMA SelectedHasCard ==
  ASSUME NEW p \in PanelType, NEW c, p.view # None, IsMeasured(p.view, c),
         SelectedVertex(p) # None
  PROVE  LET card == SelectedCard(p, c)
         IN /\ card.column \in 1..Len(c.drawing.colX)
            /\ card.y \in Nat /\ card.h \in Nat /\ card.y + card.h <= c.drawing.height
<1> DEFINE vs == p.view.topology.vertices
<1>1. vs \in Seq(ToSet(vs)) /\ p.selected \in Nat
  BY DetailPanelAssumption DEF PanelType
<1>2. ~(p.selected >= Len(vs)) /\ SelectedVertex(p) = vs[p.selected + 1].name
  BY DEF SelectedVertex
<1>3. vs[p.selected + 1] \in ToSet(vs)
  BY <1>1, <1>2 DEF ToSet
<1>4. SelectedVertex(p) \in VertexNames(p.view.topology)
  BY <1>2, <1>3 DEF VertexNames
<1>5. DOMAIN c.drawing.colX = 1..Len(c.drawing.colX)
  BY DEF IsMeasured
<1> QED BY <1>4, <1>5 DEF IsMeasured, SelectedCard

LEMMA ScrollIsRight ==
  ASSUME NEW p \in PanelType, NEW c, p.view # None, IsMeasured(p.view, c), NEW width
  PROVE  LET s == ScrollFor(p, c, width)
         IN /\ s \in 0..(Len(c.drawing.colX) - 1)
            /\ (p.follow /\ SelectedVertex(p) # None) =>
                 /\ s < SelectedCard(p, c).column
                 /\ Visible(c, s, width) >= SelectedCard(p, c).column - 1
<1> DEFINE last0 == Len(c.drawing.colX) - 1
           at == Min({p.scroll, Max({last0, 0})})
           s == ScrollFor(p, c, width)
<1>1. /\ Len(c.drawing.colX) \in Nat \ {0} /\ DOMAIN c.drawing.colX = 1..Len(c.drawing.colX)
      /\ p.scroll \in Nat
  BY DEF IsMeasured, PanelType
<1>2. last0 \in Nat
  BY <1>1
<1>3. at \in 0..last0
  <2> DEFINE most == Max({last0, 0})
  <2>1. most = last0
    BY <1>2, MaxPair
  <2>2. at = Min({p.scroll, most})
    OBVIOUS
  <2> HIDE DEF most, at
  <2> QED BY <1>1, <1>2, <2>1, <2>2, MinPair
<1>4. CASE ~p.follow \/ SelectedVertex(p) = None
  <2>1. s = at
    BY <1>4 DEF ScrollFor
  <2> HIDE DEF at, last0, s
  <2>2. s \in 0..(Len(c.drawing.colX) - 1)
    BY <1>3, <2>1 DEF last0
  <2> QED BY <1>4, <2>2 DEF s
<1>5. CASE p.follow /\ SelectedVertex(p) # None
  <2> DEFINE card == SelectedCard(p, c)
             col == card.column - 1
             S == {col} \cup {t \in at..col : Visible(c, t, width) >= col}
  <2>1. card.column \in 1..Len(c.drawing.colX)
    BY <1>5, SelectedHasCard
  <2>2. s = Min(S)
    BY <1>5 DEF ScrollFor
  <2> HIDE DEF s, card, at
  <2>3. col \in Nat /\ col + 1 = card.column /\ col <= last0
    BY <1>1, <2>1
  <2>4. \A t \in S : t = col \/ (t \in at..col /\ Visible(c, t, width) >= col)
    OBVIOUS
  <2>5. S \in SUBSET Nat /\ S # {}
    <3>1. \A t \in S : t \in Nat
      BY <1>2, <1>3, <2>3, <2>4
    <3> QED BY <3>1
  <2>6. s \in S
    BY <2>2, <2>5, LeastNat
  <2>7. s = col \/ (s \in at..col /\ Visible(c, s, width) >= col)
    BY <2>4, <2>6
  <2> HIDE DEF S, col
  <2>8. Visible(c, col, width) >= col
    <3> DEFINE fit == {k \in DOMAIN c.drawing.colX :
                         c.drawing.colX[k] - c.drawing.colX[col + 1] + c.cardWidth <= width}
               F == {col + 1} \cup fit
               n == Len(c.drawing.colX)
    <3>1. LastVisible(c, col + 1, width) = Max(F)
      BY DEF LastVisible
    <3>2. n \in Nat /\ F \in SUBSET (1..n) /\ F # {} /\ col + 1 \in F
      <4>1. fit \subseteq 1..n /\ col + 1 \in 1..n
        BY <1>1, <2>1, <2>3
      <4> QED BY <1>1, <4>1
    <3> HIDE DEF F, fit, n
    <3>3. col + 1 <= Max(F) /\ Max(F) \in 1..n
      <4>1. F \in SUBSET (0..n)
        BY <3>2
      <4>2. Max(F) \in F /\ \A y \in F : y <= Max(F)
        BY <3>2, <4>1, GreatestNat
      <4> QED BY <3>2, <4>2
    <3> QED BY <2>3, <3>1, <3>2, <3>3 DEF Visible
  <2>9. s \in Nat /\ s <= col /\ Visible(c, s, width) >= col
    BY <1>2, <1>3, <2>3, <2>7, <2>8
  <2>10. s \in 0..(Len(c.drawing.colX) - 1) /\ s < card.column
    BY <1>1, <2>3, <2>9
  <2>11. Visible(c, s, width) >= card.column - 1
    BY <2>9 DEF col
  <2> QED BY <2>10, <2>11 DEF s, card
<1> QED BY <1>4, <1>5

LEMMA VscrollIsRight ==
  ASSUME NEW p \in PanelType, NEW c, p.view # None, IsMeasured(p.view, c), NEW room \in Int
  PROVE  LET s == VscrollFor(p, c, room)
         IN /\ s \in 0..Max({0, c.drawing.height - room})
            /\ (p.follow /\ SelectedVertex(p) # None) =>
                 LET card == SelectedCard(p, c)
                 IN card.h <= room => card.y >= s /\ card.y + card.h <= s + room
            /\ ~p.follow => s = Min({p.vscroll, Max({0, c.drawing.height - room})})
<1> DEFINE height == c.drawing.height
           beyond == height - room
           over == Max({0, beyond})
           at == Min({p.vscroll, over})
           s == VscrollFor(p, c, room)
<1>1. height \in Nat /\ p.vscroll \in Nat
  BY DEF IsMeasured, PanelType
<1>2. over \in Nat /\ over >= beyond /\ beyond \in Int
  <2>1. beyond \in Int
    BY <1>1
  <2> HIDE DEF beyond
  <2>2. over = IF 0 >= beyond THEN 0 ELSE beyond
    BY <2>1, MaxPair
  <2> QED BY <2>1, <2>2
<1>3. at \in 0..over
  <2> HIDE DEF over
  <2> QED BY <1>1, <1>2, MinPair
<1>4. CASE ~p.follow \/ SelectedVertex(p) = None
  <2>1. s = at
    BY <1>4 DEF VscrollFor
  <2> HIDE DEF s
  <2>2. s \in 0..over /\ s = Min({p.vscroll, over})
    BY <1>3, <2>1
  <2> QED BY <1>4, <2>2 DEF s
<1>5. CASE p.follow /\ SelectedVertex(p) # None
  <2> DEFINE card == SelectedCard(p, c)
             top1 == Min({at, card.y})
             below == card.y + card.h - room
             need == Max({0, below})
             pulled == Max({top1, need})
  <2>1. card.y \in Nat /\ card.h \in Nat /\ card.y + card.h <= height
    BY <1>5, SelectedHasCard
  <2>2. s = Min({pulled, over})
    BY <1>5 DEF VscrollFor
  <2> HIDE DEF card, at, s, over, height
  <2>3. top1 \in Int /\ 0 <= top1 /\ top1 <= card.y
    BY <1>2, <1>3, <2>1, MinPair
  <2> HIDE DEF top1
  <2>4. below \in Int /\ below = card.y + card.h - room
    BY <2>1
  <2> HIDE DEF below
  <2>5. need = IF 0 >= below THEN 0 ELSE below
    BY <2>4, MaxPair
  <2>6. need \in Int
    BY <2>4, <2>5
  <2> HIDE DEF need
  <2>7. pulled = IF top1 >= need THEN top1 ELSE need
    BY <2>3, <2>6, MaxPair
  <2>8. pulled \in Int
    BY <2>3, <2>6, <2>7
  <2> HIDE DEF pulled
  <2>9. s = IF pulled <= over THEN pulled ELSE over
    BY <1>2, <2>2, <2>8, MinPair
  <2>10. s \in 0..over
    BY <1>2, <2>3, <2>4, <2>5, <2>7, <2>9
  <2>11. ASSUME card.h <= room PROVE card.y >= s /\ card.y + card.h <= s + room
    <3>1. below <= card.y /\ below <= over
      BY <1>1, <1>2, <2>1, <2>4, <2>11 DEF beyond
    <3>2. pulled <= card.y /\ pulled >= below
      BY <2>1, <2>3, <2>4, <2>5, <2>6, <2>7, <3>1
    <3>3. s <= card.y /\ s >= below
      BY <1>2, <2>1, <2>4, <2>8, <2>9, <3>1, <3>2
    <3> QED BY <1>2, <2>1, <2>4, <2>10, <3>3
  <2> QED BY <1>5, <2>10, <2>11 DEF s, over, height, card
<1> QED BY <1>4, <1>5

LEMMA DrawnIsPlaced ==
  ASSUME DrawingsMeasured, NEW p \in PanelType, NEW a \in Areas, NEW c, c = Cards(p, a)
  PROVE  LET q == Drawn(p, a, c)
         IN /\ q \in PanelType /\ c = Cards(q, a) /\ q.view = p.view
            /\ p.view = None => q = p
            /\ p.view # None =>
                 /\ Placed(q, a, c) /\ q.hit = Boxes(p, a, c)
                 /\ ~p.follow => q.vscroll = Min({p.vscroll, Max({0, c.drawing.height - Rows(q.hit.flow)})})
                 /\ q.rows_at = Min({p.rows, Max({0, Edges(p.view) - 1})})
<1> DEFINE q == Drawn(p, a, c)
<1>1. CASE p.view = None
  <2>1. q = p
    BY <1>1 DEF Drawn
  <2> QED BY <1>1, <2>1
<1>2. CASE p.view # None
  <2> DEFINE boxes == Boxes(p, a, c)
             scroll == ScrollFor(p, c, Room(a))
             vscroll == VscrollFor(p, c, Rows(boxes.flow))
             end == Max({0, Edges(p.view) - 1})
             rows_at == Min({p.rows, end})
  <2>1. q = [p EXCEPT !.scroll = scroll, !.vscroll = vscroll, !.rows_at = rows_at, !.hit = boxes]
    BY <1>2 DEF Drawn
  <2>2. IsMeasured(p.view, c)
    <3>1. p.view \in Views /\ p.expand \in BOOLEAN /\ c = CardsOf[p.view][a][p.expand]
      BY <1>2 DEF PanelType, Cards
    <3> QED BY <3>1 DEF DrawingsMeasured
  <2>3. boxes \in [flow : Box, edges : Box] /\ LaidOut(p, a, boxes)
    <3>1. c.drawing.height \in Nat
      BY <2>2 DEF IsMeasured
    <3> QED BY <1>2, <3>1, BoxesFit
  <2>4. Rows(boxes.flow) \in Int
    BY <2>3 DEF Rows, Box
  <2>5. /\ scroll \in 0..(Len(c.drawing.colX) - 1)
        /\ (p.follow /\ SelectedVertex(p) # None) =>
             /\ scroll < SelectedCard(p, c).column
             /\ Visible(c, scroll, Room(a)) >= SelectedCard(p, c).column - 1
    BY <1>2, <2>2, ScrollIsRight
  <2>6. /\ vscroll \in 0..Max({0, c.drawing.height - Rows(boxes.flow)})
        /\ (p.follow /\ SelectedVertex(p) # None) =>
             LET card == SelectedCard(p, c)
             IN card.h <= Rows(boxes.flow) =>
                  card.y >= vscroll /\ card.y + card.h <= vscroll + Rows(boxes.flow)
        /\ ~p.follow => vscroll = Min({p.vscroll, Max({0, c.drawing.height - Rows(boxes.flow)})})
    <3> DEFINE room == Rows(boxes.flow)
    <3> HIDE DEF boxes
    <3>1. room \in Int
      BY <2>4
    <3>2. vscroll = VscrollFor(p, c, room)
      OBVIOUS
    <3> HIDE DEF room, vscroll
    <3>3. LET s == VscrollFor(p, c, room)
          IN /\ s \in 0..Max({0, c.drawing.height - room})
             /\ (p.follow /\ SelectedVertex(p) # None) =>
                  LET card == SelectedCard(p, c)
                  IN card.h <= room => card.y >= s /\ card.y + card.h <= s + room
             /\ ~p.follow => s = Min({p.vscroll, Max({0, c.drawing.height - room})})
      BY <1>2, <2>2, <3>1, VscrollIsRight
    <3> QED BY <3>2, <3>3 DEF room
  <2>7. end \in Nat
    <3>1. p.view.topology.edges \in Seq(ToSet(p.view.topology.edges))
      BY <1>2, DetailPanelAssumption DEF PanelType
    <3> DEFINE e == Edges(p.view) - 1
    <3>2. e \in Int /\ end = Max({0, e})
      BY <3>1 DEF Edges
    <3> HIDE DEF e, end
    <3> QED BY <3>2, MaxPair
  <2>8. rows_at \in 0..end
    <3>1. p.rows \in Nat
      BY DEF PanelType
    <3> HIDE DEF end
    <3> QED BY <2>7, <3>1, MinPair
  <2>9. scroll \in Nat /\ vscroll \in Nat /\ rows_at \in Nat
    BY <2>5, <2>6, <2>8
  <2> HIDE DEF boxes, scroll, vscroll, end, rows_at, q
  <2>10. q \in PanelType
    BY <2>1, <2>3, <2>9 DEF PanelType
  <2>11. /\ q.view = p.view /\ q.expand = p.expand /\ q.selected = p.selected
         /\ q.follow = p.follow /\ q.split = p.split
         /\ q.scroll = scroll /\ q.vscroll = vscroll /\ q.rows_at = rows_at /\ q.hit = boxes
    BY <2>1 DEF PanelType
  <2>12. c = Cards(q, a)
    BY <2>11 DEF Cards
  <2>13. Boxes(q, a, c) = boxes
    BY <2>11 DEF boxes, Boxes, TableHeight
  <2>14. Positioned(q, a, c)
    BY <2>5, <2>6, <2>8, <2>11, <2>13 DEF Positioned, end
  <2>15. LaidOut(q, a, q.hit)
    BY <2>3, <2>11 DEF LaidOut
  <2>16. InView(q, a, c)
    <3>1. SelectedVertex(q) = SelectedVertex(p)
      BY <2>11 DEF SelectedVertex
    <3>2. SelectedCard(q, c) = SelectedCard(p, c)
      BY <3>1 DEF SelectedCard
    <3> QED BY <2>5, <2>6, <2>11, <3>1, <3>2 DEF InView
  <2>17. Placed(q, a, c)
    BY <2>14, <2>15, <2>16 DEF Placed
  <2> QED BY <1>2, <2>6, <2>10, <2>11, <2>12, <2>17 DEF q, boxes, rows_at, end
<1> QED BY <1>1, <1>2

(* The events.                                                             *)

LEMMA Moves ==
  ASSUME NEW p \in PanelType, NEW delta \in Int
  PROVE  /\ MoveBy(p, delta) \in PanelType
         /\ MoveBy(p, delta).view = p.view /\ MoveBy(p, delta).expand = p.expand
<1> DEFINE n == Selectable(p)
           sum == p.selected + delta
           last1 == n - 1
           to == Clamp(sum, 0, last1)
<1>1. n \in Nat
  BY DetailPanelAssumption DEF Selectable, PanelType
<1>2. CASE n = 0
  BY <1>2 DEF MoveBy
<1>3. CASE n # 0
  <2>1. MoveBy(p, delta) = [p EXCEPT !.selected = to, !.follow = TRUE]
    BY <1>3 DEF MoveBy
  <2>2. sum \in Int /\ last1 \in Int
    BY <1>1 DEF PanelType
  <2> HIDE DEF n, sum, last1
  <2>3. 0 <= Clamp(sum, 0, last1) /\ Clamp(sum, 0, last1) \in Int
    BY <2>2, Clamped
  <2>4. to \in Nat
    BY <2>3
  <2> HIDE DEF to
  <2> QED BY <2>1, <2>4 DEF PanelType
<1> QED BY <1>2, <1>3

LEMMA Scrolls ==
  ASSUME NEW p \in PanelType, NEW delta \in Int
  PROVE  /\ ScrollBy(p, delta) \in PanelType
         /\ ScrollBy(p, delta).view = p.view /\ ScrollBy(p, delta).expand = p.expand
         /\ ScrollBy(p, delta).split = p.split
         /\ IF p.focus = "flow"
              THEN ScrollBy(p, delta).vscroll = Max({0, p.vscroll + delta}) /\ ~ScrollBy(p, delta).follow
              ELSE ScrollBy(p, delta).rows = Max({0, p.rows_at + delta})
<1> DEFINE v == p.vscroll + delta
           r == p.rows_at + delta
           toV == Max({0, v})
           toR == Max({0, r})
<1>1. v \in Int /\ r \in Int
  BY DEF PanelType
<1>2. toV \in Nat /\ toR \in Nat
  <2> HIDE DEF v, r
  <2> QED BY <1>1, MaxPair
<1>3. ScrollBy(p, delta) = IF p.focus = "flow" THEN [p EXCEPT !.vscroll = toV, !.follow = FALSE]
                           ELSE [p EXCEPT !.rows = toR]
  BY DEF ScrollBy
<1> HIDE DEF toV, toR
<1>4. CASE p.focus = "flow"
  <2>1. ScrollBy(p, delta) = [p EXCEPT !.vscroll = toV, !.follow = FALSE]
    BY <1>3, <1>4
  <2> QED BY <1>2, <1>4, <2>1 DEF PanelType, toV
<1>5. CASE p.focus # "flow"
  <2>1. ScrollBy(p, delta) = [p EXCEPT !.rows = toR]
    BY <1>3, <1>5
  <2> QED BY <1>2, <1>5, <2>1 DEF PanelType, toR
<1> QED BY <1>4, <1>5

LEMMA ColumnMoves ==
  ASSUME DrawingsMeasured, NEW p \in PanelType, NEW delta \in {1, -1}
  PROVE  /\ ColumnBy(p, delta) \in PanelType
         /\ ColumnBy(p, delta).view = p.view /\ ColumnBy(p, delta).expand = p.expand
<1> DEFINE columns == IF p.view = None THEN 0 ELSE ColumnsOf[p.view]
           before == columns - 1
           last1 == Max({0, before})
           right == p.scroll + 1
           left == p.scroll - 1
           to == IF delta > 0 THEN Min({right, last1}) ELSE Max({0, left})
<1>1. columns \in Nat /\ p.scroll \in Nat
  BY DEF PanelType, DrawingsMeasured
<1>2. before \in Int /\ right \in Nat /\ left \in Int
  BY <1>1
<1>3. ColumnBy(p, delta) = IF p.focus = "flow" THEN [p EXCEPT !.scroll = to, !.follow = FALSE] ELSE p
  BY DEF ColumnBy
<1> HIDE DEF before, right, left
<1>4. last1 \in Nat
  BY <1>2, MaxPair
<1> HIDE DEF last1
<1>5. Min({right, last1}) \in Nat /\ Max({0, left}) \in Nat
  BY <1>2, <1>4, MinPair, MaxPair
<1>6. to \in Nat
  BY <1>5
<1> HIDE DEF to
<1>7. CASE p.focus = "flow"
  <2>1. ColumnBy(p, delta) = [p EXCEPT !.scroll = to, !.follow = FALSE]
    BY <1>3, <1>7
  <2> QED BY <1>6, <2>1 DEF PanelType
<1>8. CASE p.focus # "flow"
  BY <1>3, <1>8
<1> QED BY <1>7, <1>8

LEMMA OtherEvents ==
  ASSUME NEW p \in PanelType, NEW row \in MouseRows
  PROVE  \A q \in {PressAt(p, row), DragTo(p, row)} :
           q \in PanelType /\ q.view = p.view /\ q.expand = p.expand
<1> USE DEF PanelType
<1>1. row \in Int /\ None \notin Int
  BY DetailPanelAssumption
<1>2. PressAt(p, row) \in PanelType /\ PressAt(p, row).view = p.view /\ PressAt(p, row).expand = p.expand
  <2> DEFINE focus == PressAt(p, row).focus
             dragging == PressAt(p, row).dragging
  <2>1. PressAt(p, row) = [p EXCEPT !.focus = focus, !.dragging = dragging]
    BY DEF PressAt
  <2>2. focus \in {"flow", "edges"} /\ dragging \in BOOLEAN
    BY DEF PressAt
  <2> HIDE DEF focus, dragging
  <2> QED BY <2>1, <2>2
<1>3. DragTo(p, row) \in PanelType /\ DragTo(p, row).view = p.view /\ DragTo(p, row).expand = p.expand
  <2> DEFINE line == IF p.hit = None THEN 0 ELSE p.hit.flow.bottom
  <2>1. line \in Int
    BY DEF Box
  <2>2. DragTo(p, row) = IF p.dragging THEN [p EXCEPT !.split = p.split + line - row] ELSE p
    BY DEF DragTo
  <2> HIDE DEF line
  <2>3. p.split + line - row \in Int
    BY <1>1, <2>1
  <2> QED BY <2>2, <2>3
<1> QED BY <1>2, <1>3

\* Every event is a change of the panel and the drawing after it.
LEMMA EventIsDrawn ==
  ASSUME DrawingsMeasured, DetailInv, DetailNext
  PROVE  \E p \in PanelType, a \in Areas :
            /\ area' = a /\ cards' = Cards(p, a) /\ panel' = Drawn(p, a, cards')
<1>0. \A delta \in {1, -1, SCROLL_ROWS, -SCROLL_ROWS} : delta \in Int
  BY DEF SCROLL_ROWS
<1>1. panel \in PanelType /\ area \in Areas /\ cards = Cards(panel, area)
  BY DEF DetailInv
<1>2. ASSUME NEW p \in PanelType, p.view = panel.view, p.expand = panel.expand,
             NEW what, Handle(what, p)
      PROVE  area' = area /\ cards' = Cards(p, area) /\ panel' = Drawn(p, area, cards')
  BY <1>1, <1>2 DEF Handle, Draw, Cards
<1>3. ASSUME NEW p \in PanelType, NEW a \in Areas, NEW what, HandleNew(what, p, a)
      PROVE  area' = a /\ cards' = Cards(p, a) /\ panel' = Drawn(p, a, cards')
  BY <1>3 DEF HandleNew, Draw
<1>4. CASE NextVertex \/ PreviousVertex
  <2>1. PICK delta \in {1, -1}, what \in {"tab", "backtab"} : Handle(what, MoveBy(panel, delta))
    BY <1>4 DEF NextVertex, PreviousVertex
  <2> QED BY <1>1, <1>2, <2>1, Moves
<1>5. CASE ScrollDown \/ ScrollUp \/ PageDown \/ PageUp
  <2>1. PICK delta \in {1, -1, SCROLL_ROWS, -SCROLL_ROWS}, what \in {"down", "up", "page down", "page up"} :
          Handle(what, ScrollBy(panel, delta))
    BY <1>5 DEF ScrollDown, ScrollUp, PageDown, PageUp
  <2>2. delta \in Int
    BY <1>0
  <2> QED BY <1>1, <1>2, <2>1, <2>2, Scrolls
<1>6. CASE Left \/ Right
  <2>1. PICK delta \in {1, -1}, what \in {"left", "right"} : Handle(what, ColumnBy(panel, delta))
    BY <1>6 DEF Left, Right
  <2> QED BY <1>1, <1>2, <2>1, ColumnMoves
<1>7. CASE MoveLine(1) \/ MoveLine(-1)
  <2>1. PICK delta \in {1, -1} : Handle("line", [panel EXCEPT !.split = panel.split + delta])
    BY <1>7 DEF MoveLine
  <2> DEFINE p == [panel EXCEPT !.split = panel.split + delta]
  <2>2. p \in PanelType /\ p.view = panel.view /\ p.expand = panel.expand
    BY <1>1 DEF PanelType
  <2> HIDE DEF p
  <2> QED BY <1>1, <1>2, <2>1, <2>2 DEF p
<1>8. CASE ToggleShards
  <2> DEFINE p == [panel EXCEPT !.expand = ~panel.expand]
  <2>1. p \in PanelType
    BY <1>1 DEF PanelType
  <2>2. HandleNew("shards", p, area)
    BY <1>8 DEF ToggleShards
  <2> HIDE DEF p
  <2> QED BY <1>1, <1>3, <2>1, <2>2
<1>9. CASE \E row \in MouseRows : MouseDown(row) \/ MouseDrag(row)
  <2>1. PICK row \in MouseRows : Handle("press", PressAt(panel, row)) \/ Handle("drag", DragTo(panel, row))
    BY <1>9 DEF MouseDown, MouseDrag
  <2>2. \A p \in {PressAt(panel, row), DragTo(panel, row)} :
           p \in PanelType /\ p.view = panel.view /\ p.expand = panel.expand
    BY <1>1, OtherEvents
  <2> QED BY <1>1, <1>2, <2>1, <2>2
<1>10. CASE MouseUp \/ TakeError
  <2>1. PICK p \in {Release(panel), Failed(panel)}, what \in {"release", "error"} : Handle(what, p)
    BY <1>10 DEF MouseUp, TakeError
  <2>2. /\ Release(panel) \in PanelType /\ Release(panel).view = panel.view
        /\ Release(panel).expand = panel.expand
    BY <1>1 DEF Release, PanelType
  <2>3. /\ Failed(panel) \in PanelType /\ Failed(panel).view = panel.view
        /\ Failed(panel).expand = panel.expand
    BY <1>1 DEF Failed, PanelType
  <2>4. p \in PanelType /\ p.view = panel.view /\ p.expand = panel.expand
    BY <2>2, <2>3
  <2> QED BY <1>1, <1>2, <2>1, <2>4
<1>11. CASE \E v \in Views : TakeView(v)
  <2>1. PICK v \in Views : HandleNew("view", Loaded(panel, v), area)
    BY <1>11 DEF TakeView
  <2>2. Loaded(panel, v) \in PanelType
    BY <1>1 DEF Loaded, PanelType
  <2> QED BY <1>1, <1>3, <2>1, <2>2
<1>12. CASE \E a \in Areas : Resize(a)
  BY <1>1, <1>3, <1>12 DEF Resize
<1> QED
  BY <1>4, <1>5, <1>6, <1>7, <1>8, <1>9, <1>10, <1>11, <1>12 DEF DetailNext

LEMMA DetailStep ==
  ASSUME DrawingsMeasured, DetailInv, [Next]_panelVars
  PROVE  DetailInv'
<1>1. CASE Detail
  <2>1. DetailNext
    BY <1>1 DEF Detail
  <2>2. PICK p \in PanelType, a \in Areas :
          area' = a /\ cards' = Cards(p, a) /\ panel' = Drawn(p, a, cards')
    BY <2>1, EventIsDrawn
  <2> DEFINE c == cards'
  <2>3. c = Cards(p, a) /\ panel' = Drawn(p, a, c)
    BY <2>2
  <2> HIDE DEF c
  <2> DEFINE q == Drawn(p, a, c)
  <2>4. /\ q \in PanelType /\ c = Cards(q, a) /\ q.view = p.view
        /\ p.view # None => Placed(q, a, c)
    <3>1. c = Cards(p, a)
      BY <2>3
    <3> QED BY <3>1, DrawnIsPlaced
  <2>5. /\ panel' \in PanelType /\ area' \in Areas /\ cards' = Cards(panel', area')
        /\ panel'.view # None => Placed(panel', area', cards')
    BY <2>2, <2>3, <2>4 DEF c
  <2> QED BY <2>5 DEF DetailInv
<1>2. CASE ~Detail
  <2>1. UNCHANGED <<panel, cards, area>>
    BY <1>2 DEF Next, WorkloadsNext, Workloads, LogsNext, Logs, MonoNext, Mono, panelVars, vars
  <2> QED BY <2>1 DEF DetailInv
<1> QED BY <1>1, <1>2

LEMMA DetailStarts == Init => DetailInv
<1> SUFFICES ASSUME Init PROVE DetailInv
  OBVIOUS
<1>1. panel = NewPanel /\ cards = None /\ area \in Areas
  BY DEF Init, DetailInit
<1>2. panel \in PanelType /\ panel.view = None
  BY <1>1 DEF NewPanel, PanelType
<1> QED BY <1>1, <1>2 DEF DetailInv, Cards

IInv == DetailInv /\ LogOK(logs) /\ WorkOK(work) /\ MonoOK(mono)

LEMMA Inductive ==
  ASSUME DrawingsMeasured
  PROVE  Spec => []IInv
<1>1. Init => IInv
  <2>1. LogOK(NewLogs)
    BY PanelsAssumption DEF LogOK, NewLogs
  <2>2. WorkOK(NewList)
    BY DEF WorkOK, NewList
  <2>3. MonoOK(NewMono)
    BY DEF MonoOK, NewMono
  <2> QED BY <2>1, <2>2, <2>3, DetailStarts DEF Init, IInv
<1>2. IInv /\ [Next]_panelVars => IInv'
  <2>1. UNCHANGED panelVars => UNCHANGED <<logs, work>>
    BY DEF panelVars
  <2> QED BY <2>1, LogStep, WorkStep, MonoStep, DetailStep DEF IInv
<1> QED BY <1>1, <1>2, PTL DEF Spec

\* The boxes of the detail panel lie one under the other inside the screen and
\* above their floors (detail.rs 28), and every position is one that can be
\* drawn: for any pipelines, screens that are tall enough, and any events.
THEOREM PanelsTypeOKThm ==
  ASSUME DrawingsMeasured
  PROVE  Spec => []PanelsTypeOK
<1>1. IInv => PanelsTypeOK
  <2> SUFFICES ASSUME IInv PROVE PanelsTypeOK
    OBVIOUS
  <2>1. /\ panel.selected \in Nat /\ panel.rows \in Nat /\ panel.split \in Int
        /\ panel.focus \in {"flow", "edges"}
    BY DEF IInv, DetailInv, PanelType
  <2>2. ASSUME OnScreen
        PROVE  /\ panel.scroll \in 0..(Len(cards.drawing.colX) - 1)
               /\ panel.vscroll \in 0..Max({0, cards.drawing.height - Rows(panel.hit.flow)})
               /\ panel.rows_at \in 0..Max({0, Edges(panel.view) - 1})
               /\ panel.hit = Boxes(panel, area, cards)
               /\ LaidOut(panel, area, panel.hit)
    BY <2>2 DEF IInv, DetailInv, OnScreen, Placed, Positioned
  <2>3. /\ work.selected = None <=> work.items = << >>
        /\ work.selected # None => work.selected \in DOMAIN work.items
    BY DEF IInv, WorkOK
  <2>4. Len(logs.lines) <= CAPACITY
    BY DEF IInv, LogOK
  <2>5. logs.scroll # None => logs.scroll \in 0..(Len(logs.lines) - 2)
    BY DEF IInv, LogOK
  <2> QED BY <2>1, <2>2, <2>3, <2>4, <2>5 DEF PanelsTypeOK, LaidOut
<1> QED BY <1>1, Inductive, PTL

\* What there is to see is on the screen: after a tab every drawing shows all
\* rows of the selected card that fit its box, and starts no further right than
\* its column, whatever was resized, reloaded or expanded since (detail.rs 47);
\* the rows of a MonoVertex card are of one length and fit the room
\* (monovertex.rs 33); a log window that follows ends with the newest line, whole,
\* and one that is pinned starts with the pinned line.
THEOREM ShownInViewThm ==
  ASSUME DrawingsMeasured
  PROVE  Spec => []ShownInView
<1>1. IInv => SelectionInView
  BY DEF IInv, DetailInv, Placed, InView, SelectionInView, OnScreen
<1>2. IInv => CardsFit
  <2> SUFFICES ASSUME MonoOK(mono), area \in Areas, mono.view # None
               PROVE  CardFits(mono.view, area.width - 2)
    BY DEF IInv, DetailInv, CardsFit
  <2>1. mono.view \in MonoVertex
    BY DEF MonoOK
  <2>2. area.width - 2 \in Int
    BY DetailPanelAssumption
  <2> QED BY <2>1, <2>2, CardFitsRoom
<1>3. IInv => NewestShown
  <2> SUFFICES ASSUME LogOK(logs), area \in Areas, logs.lines # << >>
               PROVE  LET shown == LinesDrawn(logs, area)
                          rows == SumSeq([i \in DOMAIN shown |-> LineRows(shown[i], area)])
                      IN IF logs.scroll # None THEN shown[1] = logs.lines[logs.scroll + 1]
                         ELSE LineRows(Last(logs.lines), area) <= area.height - 2 =>
                                shown # << >> /\ Last(shown) = Last(logs.lines) /\ rows <= area.height - 2
    BY DEF IInv, DetailInv, NewestShown
  <2> QED BY LinesAreShown
<1>4. IInv => ShownInView
  BY <1>1, <1>2, <1>3 DEF ShownInView
<1> QED BY <1>4, Inductive, PTL

\* Scrolling back starts at once, also after scrolling past the end or after a
\* reload that left less to scroll (detail.rs 306): where the last drawing
\* stopped is where the next event starts.
THEOREM NoUnwindingThm ==
  ASSUME DrawingsMeasured
  PROVE  Spec => NoUnwinding
<1>1. ASSUME IInv, [Next]_panelVars
      PROVE  [(OnScreen /\ last' = "up") =>
                IF panel.focus = "flow" THEN panel'.vscroll = Max({0, panel.vscroll - 1})
                ELSE panel'.rows_at = Max({0, panel.rows_at - 1})]_panelVars
  <2> SUFFICES ASSUME Next, OnScreen, last' = "up"
               PROVE  IF panel.focus = "flow" THEN panel'.vscroll = Max({0, panel.vscroll - 1})
                      ELSE panel'.rows_at = Max({0, panel.rows_at - 1})
    BY <1>1
  <2>1. ScrollUp
    <3>1. DetailNext
      BY DEF OnScreen, Next, Detail, WorkloadsNext, Workloads, LogsNext, Logs, MonoNext, Mono, Event
    <3>2. ASSUME NEW what, NEW next, Handle(what, next) PROVE last' = what
      BY <3>2 DEF Handle, Draw
    <3>3. ASSUME NEW what, NEW next, NEW a, HandleNew(what, next, a) PROVE last' = what
      BY <3>3 DEF HandleNew, Draw
    <3>4. ~\E a \in Areas : Resize(a)
      BY <3>3 DEF Resize
    <3>5. ~\E v \in Views : TakeView(v)
      BY <3>3 DEF TakeView
    <3>6. ~\E row \in MouseRows : MouseDown(row) \/ MouseDrag(row)
      BY <3>2 DEF MouseDown, MouseDrag
    <3>7. ~(NextVertex \/ PreviousVertex \/ ScrollDown \/ PageDown \/ PageUp)
      BY <3>2 DEF NextVertex, PreviousVertex, ScrollDown, PageDown, PageUp
    <3>8. ~(Left \/ Right \/ MoveLine(1) \/ MoveLine(-1) \/ MouseUp \/ TakeError)
      BY <3>2 DEF Left, Right, MoveLine, MouseUp, TakeError
    <3>9. ~ToggleShards
      BY <3>3 DEF ToggleShards
    <3> QED BY <3>1, <3>4, <3>5, <3>6, <3>7, <3>8, <3>9 DEF DetailNext
  <2> DEFINE p == ScrollBy(panel, -1)
             q == Drawn(p, area, cards)
             back == panel.vscroll + -1
             backE == panel.rows_at + -1
  <2>2. cards' = cards /\ panel' = q
    BY <2>1 DEF ScrollUp, Handle, Draw
  <2>3. /\ panel \in PanelType /\ area \in Areas /\ cards = Cards(panel, area)
        /\ panel.view # None /\ Positioned(panel, area, cards)
    BY <1>1 DEF IInv, DetailInv, OnScreen, Placed
  <2>4. /\ p \in PanelType /\ p.view = panel.view /\ p.expand = panel.expand
        /\ p.split = panel.split
        /\ IF panel.focus = "flow" THEN p.vscroll = Max({0, back}) /\ ~p.follow
           ELSE p.rows = Max({0, backE})
    <3>1. -1 \in Int
      OBVIOUS
    <3> QED BY <2>3, <3>1, Scrolls
  <2> HIDE DEF p
  <2>5. cards = Cards(p, area)
    BY <2>3, <2>4 DEF Cards
  <2>6. /\ q.hit = Boxes(p, area, cards)
        /\ ~p.follow => q.vscroll = Min({p.vscroll, Max({0, cards.drawing.height - Rows(q.hit.flow)})})
        /\ q.rows_at = Min({p.rows, Max({0, Edges(p.view) - 1})})
    BY <2>3, <2>4, <2>5, DrawnIsPlaced
  <2>7. Boxes(p, area, cards) = panel.hit
    <3>1. Boxes(p, area, cards) = Boxes(panel, area, cards)
      BY <2>4 DEF Boxes, TableHeight
    <3> QED BY <2>3, <3>1 DEF Positioned
  <2> DEFINE over == Max({0, cards.drawing.height - Rows(panel.hit.flow)})
             end == Max({0, Edges(panel.view) - 1})
  <2>8. panel.vscroll \in 0..over /\ panel.rows_at \in 0..end
    BY <2>3 DEF Positioned
  <2>9. panel.vscroll \in Nat /\ panel.rows_at \in Nat
    BY <2>3 DEF PanelType
  <2>10. over \in Int /\ end \in Int
    <3>1. panel.expand \in BOOLEAN /\ panel.view \in Views /\ cards = CardsOf[panel.view][area][panel.expand]
      BY <2>3 DEF PanelType, Cards
    <3>2. cards.drawing.height \in Nat
      BY <2>3, <3>1 DEF DrawingsMeasured, IsMeasured
    <3>3. panel.hit \in [flow : Box, edges : Box]
      BY <2>3, <3>2, BoxesFit DEF Positioned
    <3>4. panel.view.topology.edges \in Seq(ToSet(panel.view.topology.edges))
      BY <3>1, DetailPanelAssumption
    <3> DEFINE x == cards.drawing.height - Rows(panel.hit.flow)
               y == Edges(panel.view) - 1
    <3>5. x \in Int /\ y \in Int /\ over = Max({0, x}) /\ end = Max({0, y})
      BY <3>2, <3>3, <3>4 DEF Rows, Box, Edges
    <3> HIDE DEF x, y, over, end
    <3> QED BY <3>5, MaxPair
  <2>11. /\ ~p.follow => q.vscroll = Min({p.vscroll, over})
         /\ q.rows_at = Min({p.rows, end})
    BY <2>4, <2>6, <2>7
  <2> HIDE DEF over, end, q
  <2>12. CASE panel.focus = "flow"
    <3>1. back \in Int /\ back = panel.vscroll - 1
      BY <2>9
    <3> DEFINE to == Max({0, back})
    <3>2. q.vscroll = Min({to, over})
      BY <2>4, <2>11, <2>12
    <3>3. to = Max({0, panel.vscroll - 1})
      BY <3>1
    <3> HIDE DEF back
    <3>4. to \in Int /\ to <= over
      BY <2>8, <2>9, <2>10, <3>1, MaxPair
    <3> HIDE DEF to
    <3>5. q.vscroll = to
      BY <2>10, <3>2, <3>4, MinPair
    <3> QED BY <2>2, <2>12, <3>3, <3>5
  <2>13. CASE panel.focus # "flow"
    <3>1. backE \in Int /\ backE = panel.rows_at - 1
      BY <2>9
    <3> DEFINE to == Max({0, backE})
    <3>2. q.rows_at = Min({to, end})
      BY <2>4, <2>11, <2>13
    <3>3. to = Max({0, panel.rows_at - 1})
      BY <3>1
    <3> HIDE DEF backE
    <3>4. to \in Int /\ to <= end
      BY <2>8, <2>9, <2>10, <3>1, MaxPair
    <3> HIDE DEF to
    <3>5. q.rows_at = to
      BY <2>10, <3>2, <3>4, MinPair
    <3> QED BY <2>2, <2>13, <3>3, <3>5
  <2> QED BY <2>12, <2>13
<1>2. IInv /\ [Next]_panelVars =>
        [(OnScreen /\ last' = "up") =>
           IF panel.focus = "flow" THEN panel'.vscroll = Max({0, panel.vscroll - 1})
           ELSE panel'.rows_at = Max({0, panel.rows_at - 1})]_panelVars
  BY <1>1
<1> QED BY <1>2, Inductive, PTL DEF Spec, NoUnwinding
=============================================================================
