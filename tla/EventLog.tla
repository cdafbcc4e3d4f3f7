------------------------------ MODULE EventLog ------------------------------
(***************************************************************************)
(* The GUI's list of activities (src/gui): ObserverController polls the    *)
(* Activity property each second, or when the user asks for it, and hears  *)
(* ActivityEnded by signal; ActivityModel keeps one row per activity.      *)
(*                                                                         *)
(* The poll is a blocking call and sees the daemon as it is; a signal      *)
(* waits on the bus, and then in the GUI's event queue, and is handled     *)
(* later.  So a poll may overtake signals, though no signal overtakes      *)
(* another.  The daemon may crash and be started again: it has then        *)
(* forgotten its activities, and what it sent before still arrives.        *)
(*                                                                         *)
(* The daemon's side is PublishedActivity, which ObserverService is shown  *)
(* to implement: what the GUI's properties rely on is what the daemon      *)
(* does.  A run is a number, which stands for its start time and its       *)
(* title: later runs have larger ones, and none is zero.                   *)
(***************************************************************************)
EXTENDS Naturals, SequencesExt

CONSTANTS
  MaxRuns,           \* bound: runs the daemon sees
  MaxCrashes         \* bound: crashes of the daemon

ASSUME EventLogAssumption == MaxRuns \in Nat /\ MaxCrashes \in Nat

VARIABLES
  up,                \* the daemon owns its name on the bus
  activity,          \* its Activity property
  open,              \* the runs its tracker has not stopped, by slot
  lastEnded,         \* the run it last reported as ended
  began,             \* how many runs began
  outcomes,          \* history: how each run ended that was reported as ended
  crashes,           \* how often it crashed
  bus,               \* signals the GUI has not handled yet
  valid,             \* m_manager.isValid()
  previous,          \* m_previousActivity
  entries            \* m_entries

shownVars == <<activity, open, lastEnded>>
daemonVars == <<up, shownVars, began, outcomes, crashes>>
guiVars == <<valid, previous, entries>>
vars == <<daemonVars, bus, guiVars>>

NoRun == 0
Runs == 1 .. MaxRuns

Shown == INSTANCE PublishedActivity WITH None <- NoRun

Outcomes == {"success", "failure", "abandoned"}
States == {"InProgress", "Success", "Failure"}

\* A row: the run it was made for, its state, and the run whose stop time and
\* duration it shows.
Entries == [start : Runs, state : States, stop : Runs \cup {NoRun}]

Ended(run, outcome) == [signal |-> "ActivityEnded", run |-> run, outcome |-> outcome]
OwnerChanged(owned) == [signal |-> "NameOwnerChanged", owned |-> owned]

Init ==
  /\ up \in BOOLEAN
  /\ Shown!Init
  /\ began = 0
  /\ outcomes = [r \in Runs |-> "unknown"]
  /\ crashes = 0
  /\ bus = <<>>
  /\ valid = up
  /\ previous = NoRun
  /\ entries = <<>>

-----------------------------------------------------------------------------
(* The daemon. *)

BeginRun(slot) ==
  /\ up
  /\ began < MaxRuns
  /\ began' = began + 1
  /\ Shown!Begin(slot, began + 1)
  /\ UNCHANGED <<up, outcomes, crashes, bus, guiVars>>

Report(slot, outcome) ==
  /\ outcomes' = [outcomes EXCEPT ![open[slot]] = outcome]
  /\ bus' = Append(bus, Ended(open[slot], outcome))

EndRun(slot, outcome) ==
  /\ up
  /\ Shown!End(slot)
  /\ Report(slot, outcome)
  /\ UNCHANGED <<up, began, crashes, guiVars>>

\* Stop and start in one step: no poll comes between them.
ReplaceRun(slot, outcome) ==
  /\ up
  /\ began < MaxRuns
  /\ began' = began + 1
  /\ Shown!Replace(slot, began + 1)
  /\ Report(slot, outcome)
  /\ UNCHANGED <<up, crashes, guiVars>>

DaemonCrash ==
  /\ up
  /\ crashes < MaxCrashes
  /\ crashes' = crashes + 1
  /\ up' = FALSE
  /\ Shown!Forget
  /\ bus' = Append(bus, OwnerChanged(FALSE))
  /\ UNCHANGED <<began, outcomes, guiVars>>

DaemonStart ==
  /\ ~up
  /\ up' = TRUE
  /\ bus' = Append(bus, OwnerChanged(TRUE))
  /\ UNCHANGED <<shownVars, began, outcomes, crashes, guiVars>>

-----------------------------------------------------------------------------
(* ActivityModel. *)

RowsOf(run) == {i \in DOMAIN entries : entries[i].start = run}
RowsInProgress == {i \in DOMAIN entries : entries[i].state = "InProgress"}

\* Mutant of StateOf: the outcome is shown as it is.
StateOfUnmapped(outcome) == outcome

StateOf(outcome) == IF outcome = "success" THEN "Success" ELSE "Failure"

\* Mutant of BeginActivity: rows are not compared with the start time.
BeginActivityAgain(run) ==
  entries' = <<[start |-> run, state |-> "InProgress", stop |-> NoRun]>> \o entries

BeginActivity(run) ==
  entries' = IF RowsOf(run) # {} THEN entries
             ELSE <<[start |-> run, state |-> "InProgress", stop |-> NoRun]>> \o entries

\* Mutant of EndActivity: a row that is no longer in progress is not corrected.
EndActivityInProgressOnly(run, outcome) ==
  entries' =
    IF RowsInProgress = {}
    THEN <<[start |-> run, state |-> StateOf(outcome), stop |-> run]>> \o entries
    ELSE [entries EXCEPT ![Min(RowsInProgress)].state = StateOf(outcome),
                         ![Min(RowsInProgress)].stop = run]

\* Mutant of EndActivity: the state of a row that is found is not changed.
EndActivityKeepsState(run, outcome) ==
  LET rows == IF RowsOf(run) # {} THEN RowsOf(run) ELSE RowsInProgress IN
  entries' =
    IF rows = {}
    THEN <<[start |-> run, state |-> StateOf(outcome), stop |-> run]>> \o entries
    ELSE [entries EXCEPT ![Min(rows)].stop = run]

\* The row of the run, else the first in progress, else a new one.
EndActivity(run, outcome) ==
  LET rows == IF RowsOf(run) # {} THEN RowsOf(run) ELSE RowsInProgress IN
  entries' =
    IF rows = {}
    THEN <<[start |-> run, state |-> StateOf(outcome), stop |-> run]>> \o entries
    ELSE [entries EXCEPT ![Min(rows)].state = StateOf(outcome), ![Min(rows)].stop = run]

-----------------------------------------------------------------------------
(* ObserverController. *)

\* A property read from a daemon that is gone is empty, as is an idle one's.
Refresh ==
  /\ IF valid
     THEN /\ previous' = activity
          /\ IF previous = NoRun /\ activity # NoRun
             THEN BeginActivity(activity) ELSE UNCHANGED entries
     ELSE UNCHANGED <<previous, entries>>
  /\ UNCHANGED <<daemonVars, bus, valid>>

\* Mutant of OnActivityEnded: m_previousActivity is not cleared.
OnActivityEndedKeepsPrevious ==
  /\ bus # <<>> /\ Head(bus).signal = "ActivityEnded"
  /\ EndActivity(Head(bus).run, Head(bus).outcome)
  /\ bus' = Tail(bus)
  /\ UNCHANGED <<daemonVars, valid, previous>>

OnActivityEnded ==
  /\ bus # <<>> /\ Head(bus).signal = "ActivityEnded"
  /\ EndActivity(Head(bus).run, Head(bus).outcome)
  /\ previous' = NoRun
  /\ bus' = Tail(bus)
  /\ UNCHANGED <<daemonVars, valid>>

OnOwnerChanged ==
  /\ bus # <<>> /\ Head(bus).signal = "NameOwnerChanged"
  /\ valid' = Head(bus).owned
  /\ bus' = Tail(bus)
  /\ UNCHANGED <<daemonVars, previous, entries>>

Daemon ==
  \/ \E slot \in Shown!Slots :
       \/ BeginRun(slot)
       \/ \E outcome \in Outcomes : EndRun(slot, outcome) \/ ReplaceRun(slot, outcome)
  \/ DaemonCrash \/ DaemonStart

Next == Daemon \/ Refresh \/ OnActivityEnded \/ OnOwnerChanged

\* The poll timer fires and what is on the bus arrives.
Fairness == WF_vars(Refresh) /\ WF_vars(OnActivityEnded) /\ WF_vars(OnOwnerChanged)

Spec == Init /\ [][Next]_vars /\ Fairness
-----------------------------------------------------------------------------
(* Properties. *)

\* Every member keeps its C++ type; a row shows a stop once it has one.
TypeOK ==
  /\ {up, valid} \subseteq BOOLEAN
  /\ {activity, previous} \subseteq Runs \cup {NoRun}
  /\ entries \in Seq(Entries)
  /\ \A i \in DOMAIN entries : entries[i].state = "InProgress" <=> entries[i].stop = NoRun

\* A run has at most one row, whether the poll or the signal comes first,
\* twice, or late: begin and end recognise it by its start time.
OneRowPerRun == \A r \in Runs : Cardinality(RowsOf(r)) <= 1

\* Once the signals are handled, the row of a run that was reported as ended
\* shows that run's outcome and stop time, also when the end of another run
\* was written into it before.
SettledRowsAreTrue ==
  bus = <<>> =>
    \A i \in DOMAIN entries :
      outcomes[entries[i].start] # "unknown" =>
        /\ entries[i].state = StateOf(outcomes[entries[i].start])
        /\ entries[i].stop = entries[i].start

\* Until the daemon crashes, a row in progress is of a run the daemon still
\* follows, or whose end is on its way: no row is left in progress.
InProgressRowsAreLive ==
  crashes = 0 =>
    \A i \in RowsInProgress :
      \/ \E s \in Shown!Slots : open[s] = entries[i].start
      \/ \E j \in DOMAIN bus :
           bus[j].signal = "ActivityEnded" /\ bus[j].run = entries[i].start

StaysShown(r) ==
  crashes = 0 /\ activity = r /\ \A s \in Shown!Slots : open[s] \in {NoRun, r}

\* Until the daemon crashes, a run that stays published gets its row, even if
\* the poll that first saw it took it for the one before.  (Not so a dungeon
\* that began over an encounter: the controller only looks for a new activity
\* after an empty one or an ActivityEnded.)
LiveRunGetsARow ==
  \A r \in Runs : StaysShown(r) ~> (~StaysShown(r) \/ RowsOf(r) # {})

\* "endActivityWithoutMatchPrependsRow": a run whose end was handled has a row.
EndedRunsHaveARow ==
  bus = <<>> =>
    \A r \in Runs : outcomes[r] # "unknown" => RowsOf(r) # {}
=============================================================================
