----------------------------- MODULE MCLifecycle -----------------------------
(***************************************************************************)
(* Lifecycle on small instances: every command, every starting phase.      *)
(***************************************************************************)
EXTENDS Lifecycle
=============================================================================
