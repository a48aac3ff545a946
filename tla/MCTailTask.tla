----------------------------- MODULE MCTailTask -----------------------------
(***************************************************************************)
(* TailTask on small instances: two texts and a few instants, so that      *)
(* lines that are equal, share an instant or differ all occur; the cfg     *)
(* files choose the rest.                                                  *)
(***************************************************************************)
EXTENDS TailTask

MCInstants == 1..2
MCThreeInstants == 1..3
MCNone == -1
=============================================================================
