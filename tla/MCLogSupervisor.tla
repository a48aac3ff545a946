-------------------------- MODULE MCLogSupervisor ---------------------------
(***************************************************************************)
(* LogSupervisor on small instances.                                       *)
(***************************************************************************)
EXTENDS LogSupervisor
=============================================================================
