---------------------------- MODULE RunLifecycle ----------------------------
(***************************************************************************)
(* What the activity tracker promises about one kind of activity (raid     *)
(* encounters, or Mythic+ dungeons), whatever the combat log does:         *)
(*                                                                         *)
(*   - at most one run is in progress at a time;                           *)
(*   - a run that began is reported as ended exactly once, under the       *)
(*     identity it began with;                                             *)
(*   - the outcome reported is the last verdict the log gave on that very  *)
(*     run, or "abandoned" if the log gave none before the next run began; *)
(*   - a run with a verdict is eventually reported.                        *)
(*                                                                         *)
(* ActivityTracker is shown to implement this specification twice, once    *)
(* for each kind.                                                          *)
(***************************************************************************)
EXTENDS Naturals

CONSTANTS Runs,        \* the identities a run can have
          Verdicts,    \* what an END line can say of a run
          Abandoned,   \* the outcome of a run the log never closed
          None         \* no run, no verdict, no report

VARIABLES run,         \* the run in progress, or None
          verdict,     \* the log's last word on it, or None
          report,      \* what this step reported, or None
          begun,       \* how many runs began
          ended        \* how many runs were reported as ended

vars == <<run, verdict, report, begun, ended>>

Report(outcome) == [run |-> run, outcome |-> outcome]

Init ==
  /\ run = None
  /\ verdict = None
  /\ report = None
  /\ begun = 0
  /\ ended = 0

Begin(r) ==
  /\ run = None
  /\ run' = r
  /\ verdict' = None
  /\ report' = None
  /\ begun' = begun + 1
  /\ UNCHANGED ended

\* The log closes the run, or corrects an earlier verdict on it.
Judge(v) ==
  /\ run # None
  /\ verdict' = v
  /\ report' = None
  /\ UNCHANGED <<run, begun, ended>>

Finish ==
  /\ run # None
  /\ verdict # None
  /\ report' = Report(verdict)
  /\ run' = None
  /\ verdict' = None
  /\ ended' = ended + 1
  /\ UNCHANGED begun

\* The next run (r), or one that is not tracked (None), pushes this one out.
Displace(r) ==
  /\ run # None
  /\ report' = Report(IF verdict = None THEN Abandoned ELSE verdict)
  /\ run' = r
  /\ verdict' = None
  /\ ended' = ended + 1
  /\ begun' = IF r = None THEN begun ELSE begun + 1

\* A step that concerns neither this run nor its report.
Quiet ==
  /\ report' = None
  /\ UNCHANGED <<run, verdict, begun, ended>>

Next ==
  \/ \E r \in Runs : Begin(r)
  \/ \E v \in Verdicts : Judge(v)
  \/ Finish
  \/ \E r \in Runs \cup {None} : Displace(r)
  \/ Quiet

Safety == Init /\ [][Next]_vars

Spec == Safety /\ WF_vars(Finish)
=============================================================================
