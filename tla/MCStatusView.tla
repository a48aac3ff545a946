---------------------------- MODULE MCStatusView ----------------------------
(***************************************************************************)
(* StatusView on a pipeline of three vertices, one of whose names ends     *)
(* another's, with a loop between the two.  Of the partitions, one vertex  *)
(* has two.                                                                *)
(***************************************************************************)
EXTENDS StatusView

MCPrefix == <<"isb", "p">>

In == <<"in">>
Cat == <<"cat">>
BigCat == <<"big", "cat">>

MCVertices == {In, Cat, BigCat}
MCLinks == {<<In, Cat>>, <<In, BigCat>>, <<BigCat, Cat>>}
MCParts == [v \in MCVertices |-> IF v = Cat THEN 2 ELSE 1]

\* Empty, one message waiting, not known with one in flight.
MCReports ==
  {[pending |-> 0, unacked |-> 0], [pending |-> 1, unacked |-> 0],
   [pending |-> None, unacked |-> 1]}

ASSUME MCNamesApart == NamesApart
=============================================================================
