--------------------------- MODULE PipelineTopology ---------------------------
(***************************************************************************)
(* The shape of a pipeline, nfctl-core/src/model/topology.rs: what         *)
(* Topology::new accepts, the columns ranks() lays the vertices out in and *)
(* what diff() reports between two topologies.  Everything here is a pure  *)
(* function of its arguments.                                              *)
(*                                                                         *)
(* A topology is [vertices, edges], both sequences in spec order.  A       *)
(* vertex is [name, kind, partitions, scale, image], an edge is            *)
(* [from, to, tags, lossy]: tags stands for the condition on the edge      *)
(* (None, or [operator, values]) and lossy says that its onFull policy is  *)
(* discardLatest.                                                          *)
(***************************************************************************)
EXTENDS Integers, Sequences, FiniteSets, SequencesExt, FiniteSetsExt

CONSTANT None      \* an absent Option

TagOperators == {"or", "and", "not"}

VertexNames(t) == {v.name : v \in ToSet(t.vertices)}
Key(e) == <<e.from, e.to>>
EdgeKeys(t) == {Key(e) : e \in ToSet(t.edges)}
VertexOf(t, name) == CHOOSE v \in ToSet(t.vertices) : v.name = name

(* Topology::new: at least one vertex, names and edges unique, every edge  *)
(* between two of the vertices, none into a source or out of a sink.  The  *)
(* code tells the five refusals apart only in the message.                 *)
WellFormed(t) ==
  /\ t.vertices # << >>
  /\ Cardinality(VertexNames(t)) = Len(t.vertices)
  /\ Cardinality(EdgeKeys(t)) = Len(t.edges)
  /\ \A e \in ToSet(t.edges) :
       /\ {e.from, e.to} \subseteq VertexNames(t)
       /\ VertexOf(t, e.to).kind # "source"
       /\ VertexOf(t, e.from).kind # "sink"

(***************************************************************************)
(* ranks: positions 1..n stand for the vertices.                           *)
(***************************************************************************)
Position(t, name) == SelectInSeq(t.vertices, LAMBDA v : v.name = name)
Arcs(t) == [i \in DOMAIN t.edges |->
              <<Position(t, t.edges[i].from), Position(t, t.edges[i].to)>>]
OutEdges(t) ==
  [v \in DOMAIN t.vertices |->
     LET own == SelectSeq(Arcs(t), LAMBDA a : a[1] = v)
     IN [i \in DOMAIN own |-> own[i][2]]]

NoDepth == -1

(* depth looks at the vertices a vertex leads to one after the other: one   *)
(* on the stack is skipped, which cuts cycles, one without a memo entry is *)
(* looked at first, and what is memoised below a cut keeps the smaller     *)
(* depth for every later caller.  The result is the memo afterwards.       *)
DepthMemo(out, start, first) ==
  LET look[v \in DOMAIN out, i \in Nat, memo \in [DOMAIN out -> Int], best \in Nat,
           stack \in SUBSET DOMAIN out] ==
        IF i > Len(out[v]) THEN [memo EXCEPT ![v] = best]
        ELSE IF out[v][i] \in stack THEN look[v, i + 1, memo, best, stack]
        ELSE IF memo[out[v][i]] = NoDepth
             THEN look[v, i, look[out[v][i], 1, memo, 0, stack \cup {out[v][i]}], best, stack]
             ELSE look[v, i + 1, memo, Max({best, memo[out[v][i]] + 1}), stack]
  IN look[first, 1, start, 0, {first}]

ToSink(t) ==
  LET out == OutEdges(t)
      call[v \in Nat, memo \in [DOMAIN out -> Int]] ==
        IF v > Len(t.vertices) THEN memo
        ELSE call[v + 1, IF memo[v] # NoDepth THEN memo ELSE DepthMemo(out, memo, v)]
  IN call[1, [v \in DOMAIN out |-> NoDepth]]

(* The loop over the edges reaches its fixed point when every vertex is    *)
(* one past the furthest of its predecessors that lie deeper: the longest  *)
(* chain into it along edges that come closer to a sink.                   *)
RanksBy(t, sink) ==
  LET before(v) == {a[1] : a \in {b \in ToSet(Arcs(t)) : b[2] = v /\ sink[b[1]] > sink[v]}}
      rank[v \in DOMAIN t.vertices] == Max({0} \cup {rank[u] + 1 : u \in before(v)})
  IN rank

(* The columns, left to right, without the empty ones; spec order within   *)
(* a column.                                                               *)
Columned(t, sink) ==
  LET depths == {sink[v] : v \in DOMAIN t.vertices}
      columns[rank \in [DOMAIN t.vertices -> Nat]] ==
        LET at(k) == SelectSeq([i \in DOMAIN rank |-> i], LAMBDA i : Min({rank[i], Max(depths)}) = k)
            names(s) == [i \in DOMAIN s |-> t.vertices[s[i]].name]
        IN SelectSeq([k \in 1..(Max(depths) + 1) |-> names(at(k - 1))], LAMBDA l : l # << >>)
  IN columns[RanksBy(t, sink)]

Layers(t) ==
  LET layers[sink \in [DOMAIN t.vertices -> Nat]] == Columned(t, sink)
  IN layers[ToSink(t)]

ColumnOf(layers, name) == CHOOSE k \in DOMAIN layers : Contains(layers[k], name)

(***************************************************************************)
(* diff: what changes when old is replaced by new.                         *)
(***************************************************************************)
Diff(old, new) ==
  LET kept == VertexNames(old) \cap VertexNames(new)
      moved(field) == {n \in kept : VertexOf(old, n)[field] # VertexOf(new, n)[field]}
  IN [added_vertices |-> VertexNames(new) \ VertexNames(old),
      removed_vertices |-> VertexNames(old) \ VertexNames(new),
      added_edges |-> EdgeKeys(new) \ EdgeKeys(old),
      removed_edges |-> EdgeKeys(old) \ EdgeKeys(new),
      kind_changed |-> moved("kind"),
      partitions_changed |-> moved("partitions"),
      image_changed |-> moved("image")]

ShapeChanged(d) ==
  {} # d.added_vertices \cup d.removed_vertices \/ {} # d.added_edges \cup d.removed_edges

(***************************************************************************)
(* What the layout promises, stated without the depths.                    *)
(***************************************************************************)
Reaches(t) ==
  LET next(seen) == {a[2] : a \in {b \in ToSet(Arcs(t)) : b[1] \in seen}}
      grow[k \in Nat, seen \in SUBSET DOMAIN t.vertices] ==
        IF k = 0 THEN seen ELSE grow[k - 1, seen \cup next(seen)]
  IN [u \in DOMAIN t.vertices |-> grow[Len(t.vertices), {u}]]

OnCycle(t, e) == Position(t, e.from) \in Reaches(t)[Position(t, e.to)]

(* Every vertex in exactly one column; an edge that lies on no cycle goes  *)
(* to a later column; without cycles, a vertex that is not in the first    *)
(* column has a predecessor in the column just before (the column is the   *)
(* longest chain into the vertex, topology.rs:200).                        *)
ColumnsFollowFlow(t, layers) ==
  /\ \A n \in VertexNames(t) : Cardinality({k \in DOMAIN layers : Contains(layers[k], n)}) = 1
  /\ \A e \in ToSet(t.edges) :
       OnCycle(t, e) \/ ColumnOf(layers, e.from) < ColumnOf(layers, e.to)
  /\ (\A e \in ToSet(t.edges) : ~OnCycle(t, e)) =>
       \A n \in VertexNames(t) :
         \/ ColumnOf(layers, n) = 1
         \/ \E e \in ToSet(t.edges) : e.to = n /\ ColumnOf(layers, e.from) = ColumnOf(layers, n) - 1
=============================================================================
