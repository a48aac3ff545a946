------------------------------ MODULE DetailPanel ------------------------------
(***************************************************************************)
(* The detail panel of the terminal UI, nfctl-tui/src/panels/detail.rs:    *)
(* the flow of a pipeline over the table of its edges, with a selection,   *)
(* two scroll positions and a line between the boxes that can be moved.    *)
(*                                                                         *)
(* The UI draws once after every event (app.rs), and drawing moves the     *)
(* scroll positions, so a step is an event and the drawing after it.  The  *)
(* panel is a record with the fields of the struct; columns and rows of    *)
(* the drawing, the edge table and the screen are counted from 0.          *)
(***************************************************************************)
EXTENDS Diagram

CONSTANTS
  Views,      \* what may be loaded: [topology, warnings]
  Areas,      \* sizes of the screen: [width, height]
  Timings,    \* --timings
  MouseRows,  \* rows the mouse is seen at
  MaxEvents,  \* bound: events
  MaxSplit    \* bound: rows the line is moved in all

SCROLL_ROWS == 5
MIN_TABLE == 4
MIN_FLOW == 7
GUTTER == 2

HeadRows == IF Timings THEN 2 ELSE 1
Edges(v) == Len(v.topology.edges)

(* Screens are tall enough for the floors of both boxes.                   *)
ASSUME DetailPanelAssumption ==
  /\ None \notin Int
  /\ Timings \in BOOLEAN /\ MouseRows \subseteq Nat /\ MaxEvents \in Nat /\ MaxSplit \in Nat
  /\ \A v \in Views : /\ v.warnings \in Nat
                      /\ v.topology.vertices \in Seq(ToSet(v.topology.vertices))
                      /\ v.topology.edges \in Seq(ToSet(v.topology.edges))
  /\ \A a \in Areas : a.width \in Nat /\ a.height \in Nat
  /\ \A v \in Views, a \in Areas : a.height >= 2 + v.warnings + HeadRows + MIN_FLOW + MIN_TABLE

VARIABLES
  panel,
  cards,  \* the CardView of the last drawing
  area, events,
  last    \* the event just handled
vars == <<panel, cards, area, events, last>>

NewPanel ==
  [view |-> None, error |-> FALSE, selected |-> 0, expand |-> FALSE,
   scroll |-> 0, vscroll |-> 0, follow |-> FALSE, split |-> 0, focus |-> "flow", rows |-> 0,
   rows_at |-> 0, hit |-> None, dragging |-> FALSE]

(***************************************************************************)
(* Drawing.                                                                *)
(***************************************************************************)
Room(a) == a.width - 4
CardsOf == [v \in Views |-> [a \in Areas |-> [x \in BOOLEAN |-> CardView(v.topology, Room(a), x)]]]
ColumnsOf == [v \in Views |-> Len(Layers(v.topology))]
Cards(p, a) == IF p.view = None THEN None ELSE CardsOf[p.view][a][p.expand]

TableRows(edges) == Max({edges + 3, 6})

(* Faulty variant: the line may be moved until the flow is gone.           *)
TableHeightUpToTheTop(p, a, c) ==
  LET spare == Max({0, a.height - 2 - p.view.warnings - HeadRows})
      wants == Max({c.drawing.height + 2, MIN_FLOW})
      own == Min({Max({spare - wants, MIN_TABLE}), Max({TableRows(Edges(p.view)), MIN_TABLE})})
  IN Clamp(Max({0, own + p.split}), Min({MIN_TABLE, spare}), spare)
(* Rows the table gets: what the drawing leaves, at least its floor and at *)
(* most a row an edge; moved by the split, then between both floors.       *)
TableHeight(p, a, c) ==
  LET spare == Max({0, a.height - 2 - p.view.warnings - HeadRows})
      wants == Max({c.drawing.height + 2, MIN_FLOW})
      own == Min({Max({spare - wants, MIN_TABLE}), Max({TableRows(Edges(p.view)), MIN_TABLE})})
  IN Clamp(Max({0, own + p.split}), Min({MIN_TABLE, spare}), Max({spare - MIN_FLOW, MIN_TABLE}))

(* The rows inside the two boxes; the screens are tall enough for all of   *)
(* them, so the layout gives every part what it asks for.                  *)
Boxes(p, a, c) ==
  LET table == TableHeight(p, a, c)
      top == 1 + HeadRows
      line == a.height - 1 - p.view.warnings - table
  IN [flow |-> [top |-> top + 1, bottom |-> line - 1],
      edges |-> [top |-> line + 1, bottom |-> line + table - 1]]
Rows(box) == box.bottom - box.top

SelectedVertex(p) ==
  IF p.view = None \/ p.selected >= Len(p.view.topology.vertices) THEN None
  ELSE p.view.topology.vertices[p.selected + 1].name
SelectedCard(p, c) ==
  c.drawing.boxes[NodeOf(c.graph.nodes, SelectedVertex(p))]

(* scroll_for: the stored column, pulled until the selection is visible.   *)
Visible(c, scroll, width) == LastVisible(c, scroll + 1, width) - 1
ScrollFor(p, c, width) ==
  LET last0 == Len(c.drawing.colX) - 1
      at == Min({p.scroll, Max({last0, 0})})
      col == SelectedCard(p, c).column - 1
  IN IF ~p.follow \/ SelectedVertex(p) = None THEN at
     ELSE Min({col} \cup {s \in at..col : Visible(c, s, width) >= col})

(* Faulty variant: the row is pulled to the top of the card only.          *)
VscrollToTop(p, c, room) ==
  LET over == Max({0, c.drawing.height - room})
      at == Min({p.vscroll, over})
      card == SelectedCard(p, c)
  IN IF ~p.follow \/ SelectedVertex(p) = None THEN at ELSE Min({at, card.y, over})
(* vscroll_for *)
VscrollFor(p, c, room) ==
  LET over == Max({0, c.drawing.height - room})
      at == Min({p.vscroll, over})
      card == SelectedCard(p, c)
      pulled == Max({Min({at, card.y}), Max({0, card.y + card.h - room})})
  IN IF ~p.follow \/ SelectedVertex(p) = None THEN at ELSE Min({pulled, over})

Drawn(p, a, c) ==
  IF p.view = None THEN p
  ELSE LET boxes == Boxes(p, a, c)
       IN [p EXCEPT !.scroll = ScrollFor(p, c, Room(a)),
                    !.vscroll = VscrollFor(p, c, Rows(boxes.flow)),
                    !.rows_at = Min({p.rows, Max({0, Edges(p.view) - 1})}),
                    !.hit = boxes]

(***************************************************************************)
(* Events.                                                                 *)
(***************************************************************************)
Selectable(p) == IF p.view = None THEN 0 ELSE Len(p.view.topology.vertices)

(* move_by: tab and shift-tab *)
MoveBy(p, delta) ==
  IF Selectable(p) = 0 THEN p
  ELSE [p EXCEPT !.selected = Clamp(@ + delta, 0, Selectable(p) - 1), !.follow = TRUE]

(* Faulty variant: the table scrolls from the row asked for last.          *)
ScrollFromAsked(p, delta) ==
  IF p.focus = "flow" THEN [p EXCEPT !.vscroll = Max({0, @ + delta}), !.follow = FALSE]
  ELSE [p EXCEPT !.rows = Max({0, @ + delta})]
(* scroll_by: the focused box; the table from where it was drawn.          *)
ScrollBy(p, delta) ==
  IF p.focus = "flow" THEN [p EXCEPT !.vscroll = Max({0, @ + delta}), !.follow = FALSE]
  ELSE [p EXCEPT !.rows = Max({0, p.rows_at + delta})]

(* Left and right move a column of the flow. *)
ColumnBy(p, delta) ==
  LET columns == IF p.view = None THEN 0 ELSE ColumnsOf[p.view]
      to == IF delta > 0 THEN Min({p.scroll + 1, Max({0, columns - 1})}) ELSE Max({0, p.scroll - 1})
  IN IF p.focus = "flow" THEN [p EXCEPT !.scroll = to, !.follow = FALSE] ELSE p

Inside(box, row) == row >= box.top /\ row < box.bottom
(* mouse: the column lies inside the boxes. *)
PressAt(p, row) ==
  LET flow == p.hit # None /\ Inside(p.hit.flow, row)
      edges == p.hit # None /\ ~flow /\ Inside(p.hit.edges, row)
  IN [p EXCEPT !.focus = IF flow THEN "flow" ELSE IF edges THEN "edges" ELSE @,
               !.dragging = ~flow /\ ~edges /\ row > (IF p.hit = None THEN 0 ELSE p.hit.flow.top)]
DragTo(p, row) ==
  LET line == IF p.hit = None THEN 0 ELSE p.hit.flow.bottom
  IN IF p.dragging THEN [p EXCEPT !.split = @ + line - row] ELSE p
Release(p) == [p EXCEPT !.dragging = FALSE]

(* The replies of the worker.  A view of another pipeline is passed over,  *)
(* as is a shape when there is a view (TuiWorker.Show), a shape otherwise  *)
(* taken like a view; an error leaves the view.                            *)
Loaded(p, v) == [p EXCEPT !.view = v, !.error = FALSE]
Failed(p) == [p EXCEPT !.error = TRUE]

Draw(what, p, a) ==
  /\ events < MaxEvents
  /\ events' = events + 1
  /\ last' = what
  /\ area' = a
  /\ panel' = Drawn(p, a, cards')
(* The cards are built in every drawing; they change with the view, the    *)
(* size of the screen and the shards.                                      *)
Handle(what, next) == UNCHANGED cards /\ \E p \in {next} : Draw(what, p, area)
HandleNew(what, next, a) == \E p \in {next} : cards' = Cards(p, a) /\ Draw(what, p, a)

NextVertex == Handle("tab", MoveBy(panel, 1))
PreviousVertex == Handle("backtab", MoveBy(panel, -1))
ScrollDown == Handle("down", ScrollBy(panel, 1))
ScrollUp == Handle("up", ScrollBy(panel, -1))
PageDown == Handle("page down", ScrollBy(panel, SCROLL_ROWS))
PageUp == Handle("page up", ScrollBy(panel, -SCROLL_ROWS))
Left == Handle("left", ColumnBy(panel, -1))
Right == Handle("right", ColumnBy(panel, 1))
MoveLine(delta) ==
  /\ panel.split + delta \in -MaxSplit..MaxSplit
  /\ Handle("line", [panel EXCEPT !.split = @ + delta])
ToggleShards == HandleNew("shards", [panel EXCEPT !.expand = ~@], area)
MouseDown(row) == Handle("press", PressAt(panel, row))
MouseDrag(row) ==
  /\ DragTo(panel, row).split \in -MaxSplit..MaxSplit
  /\ Handle("drag", DragTo(panel, row))
MouseUp == Handle("release", Release(panel))
TakeView(v) == HandleNew("view", Loaded(panel, v), area)
TakeError == Handle("error", Failed(panel))
Resize(a) == HandleNew("resize", panel, a)

DetailInit ==
  /\ panel = NewPanel
  /\ cards = None
  /\ area \in Areas
  /\ events = 0
  /\ last = "enter"

DetailNext ==
  \/ NextVertex \/ PreviousVertex
  \/ ScrollDown \/ ScrollUp \/ PageDown \/ PageUp \/ Left \/ Right
  \/ MoveLine(1) \/ MoveLine(-1) \/ ToggleShards
  \/ \E row \in MouseRows : MouseDown(row) \/ MouseDrag(row)
  \/ MouseUp
  \/ \E v \in Views : TakeView(v)
  \/ TakeError
  \/ \E a \in Areas : Resize(a)
=============================================================================
