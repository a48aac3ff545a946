------------------------------- MODULE MCPanels -------------------------------
(***************************************************************************)
(* Three pipelines (a chain, shards behind tags, a cycle) on two screens,  *)
(* short lists of workloads, and MonoVertices with every chain.            *)
(***************************************************************************)
EXTENDS Panels

V(name, kind, partitions) == [name |-> name, kind |-> kind, partitions |-> partitions, scale |-> None, image |-> "image"]
E(from, to) == [from |-> from, to |-> to, tags |-> None, lossy |-> FALSE]
Tagged(from, to, tag) == [from |-> from, to |-> to, tags |-> [operator |-> "or", values |-> <<tag>>], lossy |-> to = "w-1"]

Chain == [vertices |-> <<V("in", "source", 1), V("cat", "map", 1), V("out", "sink", 1)>>,
          edges |-> <<E("in", "cat"), E("cat", "out")>>]
(* Shards behind tags, of which one more has partitions of its own. *)
Shards == [vertices |-> <<V("in", "source", 1), V("w-1", "map", 1), V("w-0", "map", 1), V("x-0", "map", 1),
                          V("x-1", "map", 2), V("out", "sink", 1)>>,
           edges |-> <<Tagged("in", "w-0", "s-0"), Tagged("in", "w-1", "s-1"), E("in", "x-0"), E("in", "x-1"),
                       E("w-0", "out"), E("w-1", "out"), E("x-0", "out"), E("x-1", "out")>>]
(* A cycle, entered half way, whose depths are memoised below a cut. *)
Cycle == [vertices |-> <<V("cat", "map", 1), V("b", "map", 1), V("in", "source", 1), V("c", "map", 1), V("out", "sink", 1)>>,
          edges |-> <<E("in", "b"), E("cat", "b"), E("b", "c"), E("c", "cat"), E("cat", "out")>>]

View(t, warnings) ==
  [topology |-> t, warnings |-> warnings,
   pending |-> [n \in VertexNames(t) |-> IF n = "w-0" THEN None ELSE Position(t, n)]]

MCViews == {View(Chain, 1), View(Shards, 0), View(Cycle, 0)}
MCAreas == {[width |-> 70, height |-> 16], [width |-> 44, height |-> 22]}
MCNarrow == {[width |-> 80, height |-> 24]}
MCSplit == [n \in {"w-0", "w-1", "x-0", "x-1", "s-0", "s-1"} |->
              [stem |-> IF n \in {"w-0", "w-1"} THEN "w" ELSE IF n \in {"x-0", "x-1"} THEN "x" ELSE "s",
               index |-> IF n \in {"w-0", "x-0", "s-0"} THEN 0 ELSE 1, plain |-> TRUE]]
MCColumns == [n \in {"in", "cat", "b", "c", "out", "w", "x", "s", "w-0", "w-1", "x-0", "x-1", "s-0", "s-1"} |->
                IF n = "cat" THEN 12 ELSE 3]
MCLists == {<< >>, <<"p">>, <<"p", "q">>, <<"q", "m", "p">>}
MCMonoVertices ==
  {[name |-> n, transformer |-> t, map |-> m, fallback |-> f, badge |-> 2, flow |-> 14] :
     n \in {8, 20, 50}, t \in BOOLEAN, m \in BOOLEAN, f \in BOOLEAN}
=============================================================================
