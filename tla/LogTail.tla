------------------------------- MODULE LogTail -------------------------------
(***************************************************************************)
(* What tailing a directory of combat logs promises: the lines that reach  *)
(* a log after tailing began are handed on once each, whole, in the order  *)
(* they were written.  Logs are independent of each other.                 *)
(***************************************************************************)
EXTENDS Naturals, Sequences

CONSTANT Names

VARIABLES log,      \* the lines each log holds, from where tailing began
          seen      \* the lines handed on, by log

vars == <<log, seen>>

Prefixes(s) == {SubSeq(s, 1, n) : n \in 0 .. Len(s)}

Init ==
  /\ log \in [Names -> {<<>>}]
  /\ seen = [n \in Names |-> <<>>]

\* The game writes; lines are never unwritten.
Write ==
  /\ \A n \in Names : log[n] \in Prefixes(log'[n])
  /\ UNCHANGED seen

\* The watcher catches up with a log, in part or in whole.
CatchUp(n) ==
  /\ seen'[n] \in Prefixes(log[n])
  /\ seen[n] \in Prefixes(seen'[n])
  /\ \A m \in Names \ {n} : seen'[m] = seen[m]
  /\ UNCHANGED log

Next == Write \/ \E n \in Names : CatchUp(n)

Spec == Init /\ [][Next]_vars
=============================================================================
