-------------------------------- MODULE Panels --------------------------------
(***************************************************************************)
(* The panels of the terminal UI that keep state of their own: the list of *)
(* workloads (panels/workloads.rs), a log window (panels/logs.rs), the     *)
(* card of a MonoVertex (panels/monovertex.rs) and the detail panel        *)
(* (DetailPanel).  Events go to the panel on top; which panel is opened    *)
(* when, and what it asks the worker for, is the subject of TuiWorker, so  *)
(* here one panel stays on top.                                            *)
(***************************************************************************)
EXTENDS DetailPanel

CONSTANTS
  Kinds,        \* the panels looked at: "detail", "workloads", "logs", "monovertex"
  Lists,        \* what a list may hold: sequences of workloads
  CAPACITY,     \* lines a log window holds
  LineColumns,  \* columns a log line takes, its pod and container included
  MonoVertices  \* [name, transformer, map, fallback, badge, flow]: columns of
                \* the name, of the replica badge and of the throughput

(* Screens have a row inside the borders of a log window.                 *)
ASSUME PanelsAssumption ==
  /\ CAPACITY \in Nat \ {0}
  /\ \A items \in Lists : items \in Seq(ToSet(items)) /\ None \notin ToSet(items)
  /\ LineColumns \subseteq Nat /\ \A a \in Areas : a.height >= 3
  /\ MonoVertices \subseteq [name : Nat, transformer : BOOLEAN, map : BOOLEAN,
                             fallback : BOOLEAN, badge : Nat, flow : Nat]

VARIABLES top, work, logs, mono
panelVars == <<vars, top, work, logs, mono>>

Event(kind, what) ==
  /\ top = kind
  /\ events < MaxEvents
  /\ events' = events + 1
  /\ last' = what

(***************************************************************************)
(* The list of workloads.                                                  *)
(***************************************************************************)
NewList == [items |-> << >>, selected |-> None, loading |-> TRUE, error |-> FALSE]
Selected(w) == IF w.selected = None THEN None ELSE w.items[w.selected]

CursorBy(w, delta) ==
  IF w.items = << >> THEN [w EXCEPT !.selected = None]
  ELSE LET at == IF w.selected = None THEN 1 ELSE w.selected
       IN [w EXCEPT !.selected = Clamp(at + delta, 1, Len(w.items))]

(* A new list keeps the cursor on its workload, or on the first. *)
Listed(w, items) ==
  LET same == IF Selected(w) = None THEN 0 ELSE SelectInSeq(items, LAMBDA i : i = Selected(w))
  IN [items |-> items, loading |-> FALSE, error |-> FALSE,
      selected |-> IF same # 0 THEN same ELSE IF items = << >> THEN None ELSE 1]

Workloads(what, next) ==
  /\ Event("workloads", what)
  /\ work' = next
  /\ UNCHANGED <<panel, cards, area, top, logs, mono>>
WorkloadsNext ==
  \/ Workloads("down", CursorBy(work, 1))
  \/ Workloads("up", CursorBy(work, -1))
  \/ \E items \in Lists : Workloads("list", Listed(work, items))
  \/ Workloads("error", [work EXCEPT !.loading = FALSE, !.error = TRUE])

(***************************************************************************)
(* A log window: follows the newest lines, or is pinned to a line.         *)
(***************************************************************************)
NewLogs == [lines |-> << >>, scroll |-> None, error |-> FALSE, count |-> 0]
PAGE == 20

(* Faulty variant: the pinned line keeps its index.                        *)
LogKeepingIndex(l, columns) ==
  [l EXCEPT !.lines = Append(IF Len(@) = CAPACITY THEN Tail(@) ELSE @, [no |-> l.count, columns |-> columns]),
            !.count = @ + 1]
(* A line arrives: beyond the capacity the oldest one goes, and a pinned   *)
(* line moves up with the others.                                          *)
LogLine(l, columns) ==
  LET full == Len(l.lines) = CAPACITY
  IN [l EXCEPT !.lines = Append(IF full THEN Tail(@) ELSE @, [no |-> l.count, columns |-> columns]),
               !.scroll = IF full /\ @ # None THEN Max({0, @ - 1}) ELSE @,
               !.count = @ + 1]

(* scroll_by, whose page is 1: the last line is the end. *)
LogScroll(l, delta) ==
  LET end == Max({0, Len(l.lines) - 1})
      at == IF l.scroll = None THEN end ELSE l.scroll
      next == Clamp(at + delta, 0, end)
  IN [l EXCEPT !.scroll = IF next >= end THEN None ELSE next]

(* The first line drawn: the pinned one, or as many of the newest as fit   *)
(* once wrapped; none when the newest does not fit by itself.              *)
LineRows(line, a) == Max({1, (line.columns + Max({a.width - 2, 1}) - 1) \div Max({a.width - 2, 1})})
FirstDrawn(l, a) ==
  LET n == Len(l.lines)
      rows(k) == SumSeq([i \in 1..k |-> LineRows(l.lines[n - k + i], a)])
  IN IF l.scroll # None THEN l.scroll
     ELSE n - Max({k \in 0..n : rows(k) <= a.height - 2})
LinesDrawn(l, a) ==
  SubSeq(l.lines, FirstDrawn(l, a) + 1, Min({Len(l.lines), FirstDrawn(l, a) + a.height - 2}))

Logs(what, next) ==
  /\ Event("logs", what)
  /\ logs' = next
  /\ UNCHANGED <<panel, cards, area, top, work, mono>>
LogsNext ==
  \/ \E columns \in LineColumns : Logs("log", LogLine(logs, columns))
  \/ Logs("down", LogScroll(logs, 1))
  \/ Logs("up", LogScroll(logs, -1))
  \/ Logs("page down", LogScroll(logs, PAGE))
  \/ Logs("page up", LogScroll(logs, -PAGE))
  \/ Logs("follow", [logs EXCEPT !.scroll = None])
  \/ Logs("error", [logs EXCEPT !.error = TRUE])

(***************************************************************************)
(* The card of a MonoVertex: its chain of containers, drawn on the first   *)
(* rung of the ladder that fits.                                           *)
(***************************************************************************)
PAD == 3
BOX_PAD == 1
HOP == 3
LADDER == <<[short |-> FALSE, boxed |-> TRUE], [short |-> TRUE, boxed |-> TRUE],
            [short |-> TRUE, boxed |-> FALSE]>>

(* Columns of the labels: source, transform, map, sink, fallback, or src,  *)
(* trf, map, sink, fb.                                                     *)
Stages(m, short) ==
  <<IF short THEN 3 ELSE 6>>
    \o (IF m.transformer THEN <<IF short THEN 3 ELSE 9>> ELSE << >>)
    \o (IF m.map THEN <<3>> ELSE << >>)
    \o <<4>>
    \o (IF m.fallback THEN <<IF short THEN 2 ELSE 8>> ELSE << >>)

HopWidth(step) == IF step.boxed THEN HOP ELSE HOP + 2
ChainWidth(m, step) ==
  LET labels == Stages(m, step.short)
  IN SumSeq(labels) + (Len(labels) - 1) * HopWidth(step)
       + (IF step.boxed THEN Len(labels) * (1 + BOX_PAD) * 2 ELSE 0)

(* The columns of the chain's rows as they are painted. *)
ChainRows(m, step) ==
  LET labels == Stages(m, step.short)
      hop == IF step.boxed THEN HOP ELSE 1 + HOP + 1
      box(l) == IF step.boxed THEN 1 + (BOX_PAD + l + BOX_PAD) + 1 ELSE l
      row == SumSeq([i \in DOMAIN labels |-> box(labels[i]) + (IF i > 1 THEN hop ELSE 0)])
  IN IF step.boxed THEN <<row, row, row>> ELSE <<row>>

StepFor(m, room) ==
  LET fits(s) == ChainWidth(m, s) + PAD * 2 + 2 <= room
      first == SelectInSeq(LADDER, fits)
  IN LADDER[IF first = 0 THEN Len(LADDER) ELSE first]

CardInner(m, room) ==
  Min({Max({Max({m.name, ChainWidth(m, StepFor(m, room))}) + PAD * 2, m.badge + m.flow + 8}),
       Max({0, room - 2})})

(* The columns of every row of the card: the borders with the badge and    *)
(* the throughput in them, the name, blanks and the chain.                 *)
CardRows(m, room) ==
  LET inner == CardInner(m, room)
      row(used) == 1 + PAD + used + Max({0, inner - (used + PAD)}) + 1
      lead == Max({0, inner - (m.name + PAD * 2)}) \div 2
      chain == ChainRows(m, StepFor(m, room))
  IN <<3 + m.badge + 1 + Max({0, inner - (m.badge + 3)}) + 1, row(lead + m.name), row(0)>>
       \o [i \in DOMAIN chain |-> row(chain[i])]
       \o <<row(0), 1 + Max({0, inner - (m.flow + 3)}) + 1 + m.flow + 3>>

NewMono == [view |-> None, error |-> FALSE]
Mono(what, next) ==
  /\ Event("monovertex", what)
  /\ mono' = next
  /\ UNCHANGED <<panel, cards, area, top, work, logs>>
MonoNext ==
  \/ \E m \in MonoVertices : Mono("view", [view |-> m, error |-> FALSE])
  \/ Mono("error", [mono EXCEPT !.error = TRUE])

(***************************************************************************)
(* The whole.                                                              *)
(***************************************************************************)
Init ==
  /\ DetailInit
  /\ top \in Kinds
  /\ work = NewList
  /\ logs = NewLogs
  /\ mono = NewMono

Detail == top = "detail" /\ DetailNext /\ UNCHANGED <<top, work, logs, mono>>

Next == Detail \/ WorkloadsNext \/ LogsNext \/ MonoNext
Spec == Init /\ [][Next]_panelVars

(***************************************************************************)
(* Properties.                                                             *)
(***************************************************************************)
OnScreen == top = "detail" /\ panel.view # None

(* Types, and what every drawing leaves: the boxes lie one under the other *)
(* inside the screen, above their floors when there is room for both       *)
(* (detail.rs:28), and every position is one that can be drawn.            *)
PanelsTypeOK ==
  /\ panel.selected \in Nat /\ panel.rows \in Nat /\ panel.split \in Int
  /\ panel.focus \in {"flow", "edges"}
  /\ OnScreen =>
       /\ panel.scroll \in 0..(Len(cards.drawing.colX) - 1)
       /\ panel.vscroll \in 0..Max({0, cards.drawing.height - Rows(panel.hit.flow)})
       /\ panel.rows_at \in 0..Max({0, Edges(panel.view) - 1})
       /\ panel.hit = Boxes(panel, area, cards)
       /\ Rows(panel.hit.edges) + 2 >= MIN_TABLE /\ Rows(panel.hit.flow) + 2 >= MIN_FLOW
       /\ panel.hit.flow.bottom < panel.hit.edges.top
       /\ panel.hit.edges.bottom + 1 + panel.view.warnings = area.height - 1
  /\ work.selected = None <=> work.items = << >>
  /\ work.selected # None => work.selected \in DOMAIN work.items
  /\ Len(logs.lines) <= CAPACITY
  /\ logs.scroll # None => logs.scroll \in 0..(Len(logs.lines) - 2)

(* After a tab every drawing shows all rows of the selected card that fit  *)
(* its box, and starts no further right than its column, whatever was      *)
(* resized, reloaded or expanded since (detail.rs:47).                     *)
SelectionInView ==
  (OnScreen /\ panel.follow /\ SelectedVertex(panel) # None) =>
    LET card == SelectedCard(panel, cards)
        rows == Rows(panel.hit.flow)
    IN /\ panel.scroll < card.column
       /\ Visible(cards, panel.scroll, Room(area)) >= card.column - 1
       /\ card.h <= rows => card.y >= panel.vscroll /\ card.y + card.h <= panel.vscroll + rows

(* After a tab the selected card is drawn whenever a card fits the box at  *)
(* all: "Scroll so the selected card is visible on the next draw"          *)
(* (detail.rs:47).  The drawing has GUTTER columns less than the width the *)
(* cards are made for and the columns scrolled by (detail.rs:196), and a   *)
(* card that reaches past it is left out (cards.rs:536).                   *)
SelectionDrawn ==
  (OnScreen /\ panel.follow /\ SelectedVertex(panel) # None) =>
    LET card == SelectedCard(panel, cards)
        x == cards.drawing.colX
        w == cards.cardWidth
    IN w <= Room(area) - GUTTER => x[card.column] - x[panel.scroll + 1] + w <= Room(area) - GUTTER

(* Scrolling back starts at once, also after scrolling past the end or     *)
(* after a reload that left less to scroll (detail.rs:306).                *)
NoUnwinding ==
  [][(OnScreen /\ last' = "up") =>
       IF panel.focus = "flow" THEN panel'.vscroll = Max({0, panel.vscroll - 1})
       ELSE panel'.rows_at = Max({0, panel.rows_at - 1})]_panelVars

(* What the reader looks at stays put: lines that arrive leave the pinned  *)
(* line at the top until it falls out of the window (logs.rs:59), and a    *)
(* new list leaves the cursor on its workload while that is listed         *)
(* (workloads.rs:111).                                                     *)
PinnedLineStays ==
  [][(top = "logs" /\ last' = "log" /\ logs.scroll # None) =>
       LET line == logs.lines[logs.scroll + 1]
       IN /\ logs'.scroll # None
          /\ line \in ToSet(logs'.lines) => logs'.lines[logs'.scroll + 1] = line]_panelVars
CursorStays ==
  [][(top = "workloads" /\ last' = "list" /\ Selected(work) \in ToSet(work'.items)) =>
       Selected(work') = Selected(work)]_panelVars
StaysPut == PinnedLineStays /\ CursorStays

(* The view graph of a topology, collapsed or not: every vertex is in one  *)
(* node, with vertices of its own kind and partitions; every edge is drawn *)
(* once, or lies inside a group; an edge drawn is lossy when one it stands *)
(* for is; expanded, the edges are the topology's in its order, as the     *)
(* edge table counts on (detail.rs:581); and what the cards say is pending *)
(* adds up to what is known.                                               *)
ProjectionIsWhole(v, g, collapse) ==
  LET t == v.topology
      nodes == ToSet(g.nodes)
      pending(n) == LET p == NumbersOf(v.pending, n) IN IF p = None THEN 0 ELSE p
      known == {n \in VertexNames(t) : v.pending[n] # None}
  IN /\ UNION {ToSet(n.members) : n \in nodes} = VertexNames(t)
     /\ MapThenSumSet(LAMBDA n : Len(n.members), nodes) = Len(t.vertices)
     /\ \A n \in nodes : \A m \in ToSet(n.members) :
          n.kind = VertexOf(t, m).kind /\ n.partitions = VertexOf(t, m).partitions
     /\ \A e \in ToSet(t.edges) :
          LET drawn == {i \in DOMAIN g.edges : Contains(g.edges[i].members, Key(e))}
          IN \/ Cardinality(drawn) = 1 /\ (e.lossy => \A i \in drawn : g.edges[i].lossy)
             \/ drawn = {} /\ \E n \in nodes : {e.from, e.to} \subseteq ToSet(n.members)
     /\ collapse \/ [i \in DOMAIN g.edges |-> g.edges[i].members] = [i \in DOMAIN t.edges |-> <<Key(t.edges[i])>>]
     /\ MapThenSumSet(pending, nodes) = MapThenSumSet(LAMBDA n : v.pending[n], known)

(* What the panel counts on in a drawing: every vertex has a card, in one  *)
(* of the columns and inside the height of the whole (cards.rs:139).       *)
IsMeasured(v, c) ==
  /\ c.cardWidth \in Int /\ c.drawing.height \in Nat
  /\ Len(c.drawing.colX) \in Nat \ {0}
  /\ c.drawing.colX \in [1..Len(c.drawing.colX) -> Int]
  /\ \A n \in VertexNames(v.topology) :
       LET card == c.drawing.boxes[NodeOf(c.graph.nodes, n)]
       IN /\ card.column \in DOMAIN c.drawing.colX
          /\ card.y \in Nat /\ card.h \in Nat /\ card.y + card.h <= c.drawing.height

(* The rows of a MonoVertex card are of one length and fit the room when   *)
(* its name, its throughput and the shortest chain do: a narrow terminal   *)
(* steps down a rung (monovertex.rs:33) and the chain is as wide as it was *)
(* measured (monovertex.rs:128).                                           *)
CardFits(m, room) ==
  LET fits == /\ m.name + PAD * 2 + 2 <= room /\ m.flow + 5 <= room /\ m.badge + 5 <= room
              /\ ChainWidth(m, LADDER[3]) + PAD * 2 + 2 <= room
  IN fits => \A row \in ToSet(CardRows(m, room)) : row = CardInner(m, room) + 2 /\ row <= room

(* A log window that follows ends with the newest line, whole, if that     *)
(* fits at all; one that is pinned starts with the pinned line.            *)
NewestShown ==
  (top = "logs" /\ logs.lines # << >>) =>
    LET shown == LinesDrawn(logs, area)
        rows == SumSeq([i \in DOMAIN shown |-> LineRows(shown[i], area)])
    IN IF logs.scroll # None THEN shown[1] = logs.lines[logs.scroll + 1]
       ELSE LineRows(Last(logs.lines), area) <= area.height - 2 =>
              shown # << >> /\ Last(shown) = Last(logs.lines) /\ rows <= area.height - 2

(* What there is to see is on the screen: the selection, all of a card     *)
(* that has room, and the lines a log window is about.                     *)
CardsFit == (top = "monovertex" /\ mono.view # None) => CardFits(mono.view, area.width - 2)
ShownInView == SelectionInView /\ CardsFit /\ NewestShown

(* What is drawn is the whole of what is shown: the columns follow the     *)
(* flow and the view graph is whole.                                       *)
FollowsFlow == [v \in Views |-> With(Layers(v.topology), LAMBDA ls : ColumnsFollowFlow(v.topology, ls))]
IsWhole == [v \in Views |-> [collapse \in BOOLEAN |->
             With(ViewGraph(v.topology, collapse), LAMBDA g : ProjectionIsWhole(v, g, collapse))]]
DrawingsAreWhole ==
  OnScreen => FollowsFlow[panel.view] /\ IsWhole[panel.view][~panel.expand]
              /\ IsMeasured(panel.view, cards)
=============================================================================
