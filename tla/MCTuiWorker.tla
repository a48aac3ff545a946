----------------------------- MODULE MCTuiWorker -----------------------------
(***************************************************************************)
(* TuiWorker on small instances.                                           *)
(***************************************************************************)
EXTENDS TuiWorker
=============================================================================
