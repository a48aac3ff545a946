------------------------------- MODULE OneChange -------------------------------
(***************************************************************************)
(* What a command line tool promises of its commands: each settles on one  *)
(* target at most, keeps it until it ends, and changes nothing but that    *)
(* target, and only when it was asked to change something.                 *)
(***************************************************************************)
CONSTANT Nothing   \* no target yet

VARIABLES
  running,  \* a command is under way
  armed,    \* it was asked to change something
  target,   \* what it settled on
  touched   \* what it has changed

vars == <<running, armed, target, touched>>

Init == ~running /\ ~armed /\ target = Nothing /\ touched = {}

(* A new command; it may know its target from the start, or end at once.   *)
Begin == ~running /\ touched' = {}

(* While it runs, what it was asked does not change. *)
Settle == target = Nothing /\ target' # Nothing /\ UNCHANGED touched
Change == armed /\ target # Nothing /\ touched' = {target} /\ UNCHANGED target
End == ~running' /\ UNCHANGED <<target, touched>>

Next == Begin \/ (running /\ UNCHANGED armed /\ (Settle \/ Change \/ End))

Spec == Init /\ [][Next]_vars
=============================================================================
