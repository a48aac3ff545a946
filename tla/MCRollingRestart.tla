--------------------------- MODULE MCRollingRestart ---------------------------
(***************************************************************************)
(* RollingRestart on small instances.                                      *)
(***************************************************************************)
EXTENDS RollingRestart
=============================================================================
