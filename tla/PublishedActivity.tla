------------------------- MODULE PublishedActivity -------------------------
(***************************************************************************)
(* What the daemon shows of its runs, whatever the combat log does: two    *)
(* slots, of which a client sees one Activity property and an              *)
(* ActivityEnded signal for each run that leaves its slot.                 *)
(*                                                                         *)
(*   - a run that begins is what the property shows;                       *)
(*   - a run that ends is reported, and clears the property, even if the   *)
(*     property shows the run in the other slot;                           *)
(*   - a run that takes over its slot does both in one step;               *)
(*   - nothing begins while a dungeon is in progress, but a dungeon may    *)
(*     begin over an encounter, and an encounter's slot may empty during   *)
(*     one.                                                                *)
(*                                                                         *)
(* ObserverService is shown to implement this specification, and the GUI's *)
(* model, EventLog, takes it for its daemon: what one provides is what the *)
(* other relies on.                                                        *)
(***************************************************************************)
CONSTANTS Runs,        \* the runs there can be
          None         \* no run

VARIABLES open,        \* the run in progress in each slot, or None
          activity,    \* the Activity property
          lastEnded    \* the run the last ActivityEnded signal was for

vars == <<open, activity, lastEnded>>

Slots == {"encounter", "dungeon"}

Init ==
  /\ open = [s \in Slots |-> None]
  /\ activity = None
  /\ lastEnded = None

Begin(slot, r) ==
  /\ open[slot] = None
  /\ open["dungeon"] = None
  /\ open' = [open EXCEPT ![slot] = r]
  /\ activity' = r
  /\ UNCHANGED lastEnded

End(slot) ==
  /\ open[slot] # None
  /\ open' = [open EXCEPT ![slot] = None]
  /\ activity' = None
  /\ lastEnded' = open[slot]

Replace(slot, r) ==
  /\ open[slot] # None
  /\ slot = "encounter" => open["dungeon"] = None
  /\ open' = [open EXCEPT ![slot] = r]
  /\ activity' = r
  /\ lastEnded' = open[slot]

\* The daemon crashes, or is stopped, and forgets its runs.
Forget ==
  /\ open' = [s \in Slots |-> None]
  /\ activity' = None
  /\ UNCHANGED lastEnded

Next ==
  \/ \E slot \in Slots : End(slot) \/ \E r \in Runs : Begin(slot, r) \/ Replace(slot, r)
  \/ Forget

Spec == Init /\ [][Next]_vars

\* Types, and what is shown is in progress: it is the run in one of the slots.
ShownRunIsOpen ==
  /\ open \in [Slots -> Runs \cup {None}]
  /\ activity # None => \E slot \in Slots : activity = open[slot]
=============================================================================
