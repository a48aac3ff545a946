-------------------------------- MODULE Diagram --------------------------------
(***************************************************************************)
(* From a topology to the cards on the screen: the view graph, with shard  *)
(* groups drawn as one node (nfctl-graph/src/view.rs), and the measures of *)
(* the cards (nfctl-tui/src/cards.rs).  Pure functions of their arguments. *)
(*                                                                         *)
(* Names and tag words are words.  What the code finds out of the text of  *)
(* a word is given by two constants: how it splits at its last dash, and   *)
(* how many columns it takes.                                              *)
(***************************************************************************)
EXTENDS PipelineTopology

CONSTANTS
  Split,   \* words of the form stem-digits: [stem, index, plain], plain when
           \* the digits are the index without leading zeros
  Columns  \* function: word -> columns it takes on the screen

(* A value that is worked out once. *)
With(value, in(_)) == CHOOSE y \in {in(x) : x \in {value}} : TRUE

(***************************************************************************)
(* A tag as drawn is [not, words, star]: the words of an `and` are joined, *)
(* and the last may have a star for the index of a shard.                  *)
(***************************************************************************)
TagStrings(c) ==
  IF c = None THEN << >>
  ELSE IF c.operator = "and" THEN <<[not |-> FALSE, words |-> c.values, star |-> FALSE]>>
  ELSE [i \in DOMAIN c.values |->
          [not |-> c.operator = "not", words |-> <<c.values[i]>>, star |-> FALSE]]

(* norm_tags: the index of a shard at the end of a tag becomes a star. *)
NormTags(tags, idx) ==
  LET ends(w) == w \in DOMAIN Split /\ Split[w].index = idx /\ Split[w].plain
      norm(tag) == IF tag.words # << >> /\ ~tag.star /\ ends(Last(tag.words))
                   THEN [tag EXCEPT !.words = Append(Front(@), Split[Last(@)].stem), !.star = TRUE]
                   ELSE tag
  IN IF idx = None THEN tags ELSE [i \in DOMAIN tags |-> norm(tags[i])]

IndexOf(name) == IF name \in DOMAIN Split THEN Split[name].index ELSE None
NamesOf(t) == [i \in DOMAIN t.vertices |-> t.vertices[i].name]

(* The vertices stem-N of a stem, in spec order. *)
ByStem(t, stem) ==
  SelectSeq(NamesOf(t), LAMBDA n : n \in DOMAIN Split /\ Split[n].stem = stem)
Stems(t) == {Split[n].stem : n \in VertexNames(t) \cap DOMAIN Split}

(***************************************************************************)
(* ViewGraph::collapsed: a stem's vertices are one node when kind,         *)
(* partitions and neighbours agree.  A neighbour that shares its stem with *)
(* another vertex counts as the stem, whether or not that stem's vertices  *)
(* are drawn as one in the end.                                            *)
(***************************************************************************)
Outside(t, name) ==
  IF name \in DOMAIN Split /\ Len(ByStem(t, Split[name].stem)) >= 2 THEN Split[name].stem ELSE name
Signature(t, name) ==
  LET tags(e) == NormTags(TagStrings(e.tags), IndexOf(name))
      v == VertexOf(t, name)
  IN [kind |-> v.kind, partitions |-> v.partitions,
      ins |-> {<<Outside(t, e.from), tags(e)>> : e \in {x \in ToSet(t.edges) : x.to = name}},
      outs |-> {<<Outside(t, e.to), tags(e)>> : e \in {x \in ToSet(t.edges) : x.from = name}}]

Accepted(t) ==
  {s \in Stems(t) : /\ Len(ByStem(t, s)) >= 2
                    /\ \A m, n \in ToSet(ByStem(t, s)) : Signature(t, m) = Signature(t, n)}

(* Faulty variant: one vertex of the form stem-N is a group too, and their *)
(* signatures are not compared.                                            *)
GroupByName(t, name, collapse) ==
  IF collapse /\ name \in DOMAIN Split THEN SortSeq(ByStem(t, Split[name].stem), LAMBDA a, b : IndexOf(a) < IndexOf(b))
  ELSE <<name>>
(* The vertices drawn with a vertex, by index. *)
GroupOf(t, name, collapse) ==
  IF collapse /\ name \in DOMAIN Split /\ Split[name].stem \in Accepted(t)
  THEN SortSeq(ByStem(t, Split[name].stem), LAMBDA a, b : IndexOf(a) < IndexOf(b))
  ELSE <<name>>

(***************************************************************************)
(* ViewGraph::build.                                                       *)
(***************************************************************************)
NodeOf(nodes, name) == SelectInSeq(nodes, LAMBDA n : Contains(n.members, name))
IsGroup(node) == Len(node.members) > 1

Nodes(t, collapse) ==
  LET add(nodes, v) ==
        IF NodeOf(nodes, v.name) # 0 THEN nodes
        ELSE Append(nodes, [members |-> GroupOf(t, v.name, collapse), kind |-> v.kind,
                            partitions |-> v.partitions])
  IN FoldLeft(add, << >>, t.vertices)

ViewEdges(t, nodes) ==
  LET norm(tags, name) == IF IsGroup(nodes[NodeOf(nodes, name)]) THEN NormTags(tags, IndexOf(name)) ELSE tags
      add(edges, e) ==
        LET new == [from |-> NodeOf(nodes, e.from), to |-> NodeOf(nodes, e.to),
                    tags |-> norm(norm(TagStrings(e.tags), e.from), e.to),
                    lossy |-> e.lossy, members |-> <<Key(e)>>]
            same == SelectInSeq(edges, LAMBDA x : /\ x.from = new.from /\ x.to = new.to
                                                  /\ x.tags = new.tags)
        IN IF new.from = new.to /\ IsGroup(nodes[new.from]) /\ e.from # e.to THEN edges
           ELSE IF same # 0 THEN [edges EXCEPT ![same].lossy = @ \/ e.lossy,
                                               ![same].members = Append(@, Key(e))]
           ELSE Append(edges, new)
  IN FoldLeft(add, << >>, t.edges)

ViewGraph(t, collapse) ==
  With(Nodes(t, collapse), LAMBDA nodes : [nodes |-> nodes, edges |-> ViewEdges(t, nodes)])

(***************************************************************************)
(* Cards.                                                                  *)
(***************************************************************************)
MIN_CARD == 17
FULL_CARD == 24
WIDEST_CARD == 34
GAP == 5
CARD_HEIGHT == 5

SumSeq(s) ==
  LET sum[k \in 0..Len(s)] == IF k = 0 THEN 0 ELSE sum[k - 1] + s[k]
  IN sum[Len(s)]
KindColumns == [source |-> 6, sink |-> 4, map |-> 3, reduce |-> 6]
Digits(n) == IF n < 10 THEN 1 ELSE IF n < 100 THEN 2 ELSE 3
(* "stem ×N", of groups of fewer than a thousand. *)
LabelColumns(node) ==
  IF IsGroup(node) THEN Columns[Split[node.members[1]].stem] + 2 + Digits(Len(node.members))
  ELSE Columns[node.members[1]]
TagColumns(tag) ==
  (IF tag.not THEN 4 ELSE 0) + (IF tag.star THEN 2 ELSE 0)
    + SumSeq([i \in DOMAIN tag.words |-> Columns[tag.words[i]]]) + 3 * Max({0, Len(tag.words) - 1})
TagsColumns(tags) == SumSeq([i \in DOMAIN tags |-> TagColumns(tags[i])]) + 2 * (Len(tags) - 1)

(* badge_labels: the tags that arrive at a node, each once. *)
Badges(g, node) ==
  LET add(held, e) == IF e.to # node \/ e.tags = << >> \/ Contains(held, e.tags) THEN held
                      ELSE Append(held, e.tags)
  IN FoldLeft(add, << >>, g.edges)
BadgeColumns(g, node) == [i \in DOMAIN Badges(g, node) |-> TagsColumns(Badges(g, node)[i])]

(* badge_rows: how many rows whole badges take at a width. *)
BadgeRows(badges, width) ==
  LET place(acc, w) ==
        IF acc.used > 0 /\ acc.used + 1 + w > width THEN [rows |-> acc.rows + 1, used |-> w]
        ELSE [acc EXCEPT !.used = @ + (IF @ > 0 THEN 1 ELSE 0) + w]
  IN IF badges = << >> \/ width = 0 THEN 0
     ELSE FoldLeft(place, [rows |-> 1, used |-> 0], badges).rows

Clamp(x, low, high) == Max({low, Min({x, high})})
Wanted(g) ==
  LET node(i) == LabelColumns(g.nodes[i]) + KindColumns[g.nodes[i].kind] + 6
      tags(i) == IF Badges(g, i) = << >> THEN 0
                 ELSE SumSeq(BadgeColumns(g, i)) + Len(Badges(g, i)) - 1 + 2
  IN Clamp(Max({0} \cup {Max({node(i), tags(i)}) : i \in DOMAIN g.nodes}), FULL_CARD, WIDEST_CARD)
CardWidth(layers, g, width) ==
  LET n == Max({Len(layers), 1})
      fits == Max({0, width - GAP * (n - 1)}) \div n
  IN IF fits >= Wanted(g) THEN Wanted(g) ELSE Max({fits, MIN_CARD})
(* A card has a row for each tag set of its busiest side. *)
BusiestSide(g, node) ==
  LET sets(edges) == Cardinality({e.tags : e \in edges})
      edges == ToSet(g.edges)
  IN Max({sets({e \in edges : e.to = node}), sets({e \in edges : e.from = node})})
CardHeight(g, node, cardWidth) ==
  Max({CARD_HEIGHT, 4 + BadgeRows(BadgeColumns(g, node), cardWidth - 2), 2 + BusiestSide(g, node)})

(* The drawing is orthodag's: columns of cards from left to right, the     *)
(* cards of a column one under the other.                                  *)
AsTopology(g) ==
  [vertices |-> [i \in DOMAIN g.nodes |-> [name |-> i]],
   edges |-> [i \in DOMAIN g.edges |-> [from |-> g.edges[i].from, to |-> g.edges[i].to]]]
Drawing(g, layers, cardWidth) ==
  LET drawing(height) ==
        LET column(i) == ColumnOf(layers, i)
            above(i) == {j \in ToSet(layers[column(i)]) : j < i}
            y(i) == MapThenSumSet(LAMBDA j : height[j] + 1, above(i))
        IN [boxes |-> [i \in DOMAIN height |-> [column |-> column(i), y |-> y(i), h |-> height[i]]],
            height |-> Max({y(i) + height[i] : i \in DOMAIN height}),
            colX |-> [k \in DOMAIN layers |-> (k - 1) * (cardWidth + GAP)]]
  IN With([i \in DOMAIN g.nodes |-> CardHeight(g, i, cardWidth)], drawing)

(* CardView::new *)
CardView(t, width, expand) ==
  LET of(g) ==
        LET view(w) == [graph |-> g, cardWidth |-> w,
                        drawing |-> With(Layers(AsTopology(g)), LAMBDA ls : Drawing(g, ls, w))]
        IN With(With(Layers(t), LAMBDA ls : CardWidth(ls, g, width)), view)
  IN With(ViewGraph(t, ~expand), of)

(* last_visible, with columns counted from 1. *)
LastVisible(cards, first, width) ==
  LET x == cards.drawing.colX
      fit == {k \in DOMAIN x : x[k] - x[first] + cards.cardWidth <= width}
  IN Max({first} \cup fit)

(* numbers: a node has the sum of what is known of its members. *)
Sum(known) == IF known = {} THEN None ELSE MapThenSumSet(LAMBDA k : k[2], known)
NumbersOf(field, node) == Sum({<<m, field[m]>> : m \in {x \in ToSet(node.members) \cap DOMAIN field : field[x] # None}})
=============================================================================
