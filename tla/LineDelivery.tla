---------------------------- MODULE LineDelivery ----------------------------
(***************************************************************************)
(* What tailing one container promises to whoever reads the merged log     *)
(* stream (crates/nfctl-core/src/service/logs.rs, module comment: "output  *)
(* survives pod churn").  A container writes timestamped lines; the reader *)
(* is handed line numbers.  Each line is handed over at most once and in   *)
(* order, and a line is passed over only if it is older than the `since`   *)
(* the caller asked for, or if its container was replaced before the line  *)
(* could be read.  Connections, replays and retries do not exist here:     *)
(* TailTask shows that its reopen-and-deduplicate loop implements this.    *)
(***************************************************************************)
EXTENDS Integers, Sequences

CONSTANTS
  Texts,     (* what a line can say                                        *)
  Instants,  (* the timestamps a line can carry, positive numbers          *)
  Since,     (* inclusive lower bound the caller asked for; 0 is none      *)
  MaxRestarts(* bound: how often the container is restarted                *)

VARIABLES
  log,       (* every line the container ever wrote, over all its restarts *)
  sent       (* the lines handed over, as positions in log                 *)

Line == [at : Instants, text : Texts, inst : 0..MaxRestarts]

\* The lines of one container appear in timestamp order, and a restarted
\* container (a later inst) writes strictly after the one it replaces.
Follows(line, earlier) ==
  /\ earlier.at <= line.at
  /\ earlier.inst <= line.inst
  /\ earlier.inst < line.inst => earlier.at < line.at

\* The last line handed over, 0 before the first.
LastOf(s) == IF s = << >> THEN 0 ELSE s[Len(s)]

\* Line i may come next after line k: nothing between them still had to come.
MayFollow(i, k) ==
  /\ k < i
  /\ log[i].at >= Since
  /\ \A j \in (k + 1)..(i - 1) :
        log[j].at < Since \/ log[j].inst < log[i].inst

Init ==
  /\ log = << >>
  /\ sent = << >>

Write ==
  \E line \in Line :
    /\ log # << >> => Follows(line, log[Len(log)])
    /\ log' = Append(log, line)
    /\ UNCHANGED sent

Deliver ==
  \E i \in 1..Len(log) :
    /\ MayFollow(i, LastOf(sent))
    /\ sent' = Append(sent, i)
    /\ UNCHANGED log

Next == Write \/ Deliver

Spec == Init /\ [][Next]_<<log, sent>>
=============================================================================
