---------------------------- MODULE MCDaemonClient ----------------------------
(***************************************************************************)
(* DaemonClient on small instances.                                        *)
(***************************************************************************)
EXTENDS DaemonClient
=============================================================================
