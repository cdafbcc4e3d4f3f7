----------------------- MODULE PublishedActivityProofs -----------------------
(***************************************************************************)
(* What follows from PublishedActivity alone, and so holds of the daemon   *)
(* that implements it and of the one the GUI's model assumes.              *)
(***************************************************************************)
EXTENDS PublishedActivity, TLAPS

\* A client is never shown a run that is over: whichever slot empties, and in
\* whatever order, the property is cleared or holds the run of the other slot.
THEOREM ShownIsOpen == Spec => []ShownRunIsOpen
<1>1. Init => ShownRunIsOpen
  BY DEF Init, ShownRunIsOpen, Slots
<1>2. ShownRunIsOpen /\ [Next]_vars => ShownRunIsOpen'
  <2> SUFFICES ASSUME ShownRunIsOpen, [Next]_vars PROVE ShownRunIsOpen'
    OBVIOUS
  <2>1. ASSUME NEW slot \in Slots, End(slot) PROVE ShownRunIsOpen'
    BY <2>1 DEF End, ShownRunIsOpen
  <2>2. ASSUME NEW slot \in Slots, NEW r \in Runs, Begin(slot, r) PROVE ShownRunIsOpen'
    BY <2>2 DEF Begin, ShownRunIsOpen
  <2>3. ASSUME NEW slot \in Slots, NEW r \in Runs, Replace(slot, r) PROVE ShownRunIsOpen'
    BY <2>3 DEF Replace, ShownRunIsOpen
  <2>4. CASE Forget
    BY <2>4 DEF Forget, ShownRunIsOpen
  <2>5. CASE UNCHANGED vars
    BY <2>5 DEF vars, ShownRunIsOpen
  <2> QED
    BY <2>1, <2>2, <2>3, <2>4, <2>5 DEF Next
<1> QED
  BY <1>1, <1>2, PTL DEF Spec
=============================================================================
