------------------------ MODULE ActivityTrackerProofs ------------------------
(***************************************************************************)
(* The safety of the activity tracker for every value of its constants:    *)
(* type correctness, the timer invariant, the balance of started and       *)
(* stopped signals, and the safety part of the two refinements.            *)
(***************************************************************************)
EXTENDS ActivityTracker, TLAPS

\* The three invariants support each other: a timeout keeps the balance only
\* because a running timer has a run (OverrunHasJudgedRun), and what it emits
\* is well typed only because that run is known.
IInv == TypeOK /\ OverrunHasJudgedRun /\ EachStartStopsOnce

-----------------------------------------------------------------------------
(* What the handlers compute has the types of the members they assign. *)

\* The narrowing conversion yields an integer.
LEMMA ToIntType ==
  ASSUME NEW n \in Int
  PROVE  ToInt(n) \in Int
<1>1. 2 * IntMax + 2 \in Nat /\ 2 * IntMax + 2 > 0
  BY TrackerAssumption
<1>2. (n + IntMax + 1) % (2 * IntMax + 2) \in Int
  BY <1>1, TrackerAssumption
<1> QED
  BY <1>2, TrackerAssumption DEF ToInt

\* So does the elapsed time between two timestamps.
LEMMA ElapsedType ==
  ASSUME NEW a \in Int, NEW b \in Int
  PROVE  Elapsed(a, b) \in Int
<1>1. (IF b > a THEN b - a ELSE 0) \in Int
  OBVIOUS
<1> QED
  BY <1>1, ToIntType DEF Elapsed

\* An END line judges the pull: success or failure, never abandoned.
LEMMA EncounterEndingType ==
  ASSUME NEW l \in EncounterEndLines, current \in Encounters
  PROVE  /\ EncounterEnding(l) \in Endings
         /\ EncounterEnding(l).outcome \in {"success", "failure"}
<1>1. l.time \in Int /\ l.fightTime \in Int /\ current.startTime \in Int
  BY TrackerAssumption DEF EncounterEndLines, Encounters
<1>2. Elapsed(current.startTime, l.time) \in Int
  BY <1>1, ElapsedType
<1>3. l.time + RaidOverrun \in Int
  BY <1>1, TrackerAssumption
<1> QED
  BY <1>1, <1>2, <1>3 DEF EncounterEnding, Endings, Outcomes

\* A CHALLENGE_MODE_END line judges the key: success or abandoned.
LEMMA DungeonEndingType ==
  ASSUME NEW l \in ChallengeModeEndLines
  PROVE  /\ DungeonEnding(l) \in Endings
         /\ DungeonEnding(l).outcome \in {"success", "abandoned"}
<1>1. l.time \in Int /\ l.fightTime \in Int
  BY TrackerAssumption DEF ChallengeModeEndLines
<1>2. l.time + DungeonOverrun \in Int
  BY <1>1, TrackerAssumption
<1> QED
  BY <1>1, <1>2 DEF DungeonEnding, Endings, Outcomes

\* A pull the log never closed gets a well-typed ending.
LEMMA AbandonmentType ==
  ASSUME NEW l \in EncounterStartLines, current \in Encounters
  PROVE  Abandonment(l) \in Endings
<1>1. l.time \in Int /\ current.startTime \in Int
  BY TrackerAssumption DEF EncounterStartLines, Encounters
<1>2. Elapsed(current.startTime, l.time) \in Int
  BY <1>1, ElapsedType
<1> QED
  BY <1>1, <1>2 DEF Abandonment, Endings, Outcomes

\* The run a START line describes is of the kind its handler tracks.
LEMMA RunTypes ==
  /\ \A l \in EncounterStartLines : EncounterOf(l) \in Encounters
  /\ \A l \in ChallengeModeStartLines : DungeonOf(l) \in Dungeons
BY DEF EncounterStartLines, EncounterOf, Encounters,
       ChallengeModeStartLines, DungeonOf, Dungeons

\* A run is one of the two kinds, and None is no run.
LEMMA RunKinds ==
  /\ \A r \in Encounters : r \in Runs /\ r # None /\ r.kind = "encounter"
  /\ \A r \in Dungeons : r \in Runs /\ r # None /\ r.kind = "dungeon"
BY NoneAssumption DEF Runs, Encounters, Dungeons

-----------------------------------------------------------------------------
(* Signals and their counts. *)

\* Emitting well-typed signals keeps the outputs well typed.
LEMMA EmitType ==
  ASSUME NEW e \in Emissions, begun \in [Kinds -> Nat], ended \in [Kinds -> Nat], Emit(e)
  PROVE  /\ emitted' \in Emissions
         /\ begun' \in [Kinds -> Nat]
         /\ ended' \in [Kinds -> Nat]
BY DEF Emit, Kinds

\* A step without started or stopped signals counts nothing.
LEMMA EmitNoRun ==
  ASSUME NEW e \in Emissions, begun \in [Kinds -> Nat], ended \in [Kinds -> Nat], Emit(e),
         e.started = None, e.stopped = None
  PROVE  begun' = begun /\ ended' = ended
BY DEF Emit, Kinds

\* A signal about a run counts for the run's own kind and for no other.
LEMMA EmitRun ==
  ASSUME NEW e \in Emissions, begun \in [Kinds -> Nat], ended \in [Kinds -> Nat], Emit(e),
         NEW kind \in Kinds,
         e.started # None => e.started.kind = kind,
         e.stopped # None => e.stopped.run.kind = kind
  PROVE  /\ begun'[kind] = IF e.started = None THEN begun[kind] ELSE begun[kind] + 1
         /\ ended'[kind] = IF e.stopped = None THEN ended[kind] ELSE ended[kind] + 1
         /\ \A k \in Kinds \ {kind} : begun'[k] = begun[k] /\ ended'[k] = ended[k]
BY DEF Emit, Kinds

\* What a handler of one kind of run emits.
LEMMA RunEmissions ==
  ASSUME NEW stopped \in Stops \cup {None}, NEW started \in Runs \cup {None}
  PROVE  LET e == [NoEmission EXCEPT !.stopped = stopped, !.started = started]
         IN  /\ e \in Emissions
             /\ e.stopped = stopped
             /\ e.started = started
BY DEF NoEmission, Emissions

\* A stopped signal carries its run, and is not None.
LEMMA StoppedType ==
  ASSUME NEW r \in Runs, NEW ending \in Endings
  PROVE  /\ Stopped(r, ending) \in Stops
         /\ Stopped(r, ending) # None
         /\ Stopped(r, ending).run = r
         /\ Stopped(r, ending).ending = ending
BY NoneAssumption DEF Stopped, Stops

-----------------------------------------------------------------------------
(* The inductive invariant. *)

\* It holds initially.
LEMMA InitIInv == Init => IInv
<1> SUFFICES ASSUME Init PROVE IInv
  OBVIOUS
<1>1. NoEmission \in Emissions
  BY DEF NoEmission, Emissions
<1>2. 0 \in 0 .. MaxLines
  BY TrackerAssumption
<1>3. [outcome |-> "unknown", durationMs |-> 0, stopTime |-> 0] \in Endings
  BY DEF Endings, Outcomes
<1>4. TypeOK
  BY <1>1, <1>2, <1>3 DEF Init, TypeOK
<1>5. OverrunHasJudgedRun
  BY DEF Init, OverrunHasJudgedRun
<1>6. EachStartStopsOnce
  BY DEF Init, EachStartStopsOnce, Kinds
<1> QED
  BY <1>4, <1>5, <1>6 DEF IInv

\* What ENCOUNTER_START emits: a stop of the pull in progress, if any, then a
\* start of the new one, if it is tracked.
LEMMA EncounterStartEmits ==
  ASSUME IInv, NEW l \in EncounterStartLines, HandleEncounterStart(l)
  PROVE  /\ active => current \in Encounters
         /\ EncounterOf(l) \in Encounters
         /\ pending' \in Endings
         /\ emitted' \in Emissions
         /\ begun' \in [Kinds -> Nat]
         /\ ended' \in [Kinds -> Nat]
         /\ emitted'.stopped = IF active THEN Stopped(current, pending') ELSE None
         /\ begun'["encounter"] =
              IF TrackedEncounter(l) THEN begun["encounter"] + 1 ELSE begun["encounter"]
         /\ ended'["encounter"] =
              IF active THEN ended["encounter"] + 1 ELSE ended["encounter"]
         /\ begun'["dungeon"] = begun["dungeon"]
         /\ ended'["dungeon"] = ended["dungeon"]
<1> DEFINE stopped == IF active THEN Stopped(current, pending') ELSE None
           started == IF TrackedEncounter(l) THEN EncounterOf(l) ELSE None
           e == [NoEmission EXCEPT !.stopped = stopped, !.started = started]
<1>1. active => current \in Encounters
  BY DEF IInv, TypeOK, OverrunHasJudgedRun
<1>2. pending' \in Endings
  BY <1>1, AbandonmentType DEF HandleEncounterStart, IInv, TypeOK
<1>3. EncounterOf(l) \in Encounters
  BY RunTypes
<1>4. active => /\ stopped \in Stops
                /\ stopped # None
                /\ stopped.run.kind = "encounter"
  BY <1>1, <1>2, RunKinds, StoppedType
<1>5. TrackedEncounter(l) => /\ started \in Runs
                             /\ started # None
                             /\ started.kind = "encounter"
  BY <1>3, RunKinds
<1> HIDE DEF stopped, started
<1>6. ~active => stopped = None
  BY DEF stopped
<1>7. ~TrackedEncounter(l) => started = None
  BY DEF started
<1>8. e \in Emissions /\ e.stopped = stopped /\ e.started = started
  BY <1>4, <1>5, <1>6, <1>7, RunEmissions
<1>9. Emit(e)
  BY DEF HandleEncounterStart, stopped, started
<1> HIDE DEF e
<1>10. /\ emitted' \in Emissions
       /\ begun' \in [Kinds -> Nat]
       /\ ended' \in [Kinds -> Nat]
  BY <1>8, <1>9, EmitType DEF IInv, TypeOK
<1>11. /\ begun'["encounter"] =
            IF TrackedEncounter(l) THEN begun["encounter"] + 1 ELSE begun["encounter"]
       /\ ended'["encounter"] =
            IF active THEN ended["encounter"] + 1 ELSE ended["encounter"]
       /\ begun'["dungeon"] = begun["dungeon"]
       /\ ended'["dungeon"] = ended["dungeon"]
  BY <1>4, <1>5, <1>6, <1>7, <1>8, <1>9, EmitRun DEF Kinds, IInv, TypeOK
<1>12. emitted'.stopped = stopped
  BY <1>8, <1>9 DEF Emit
<1> QED
  BY <1>1, <1>2, <1>3, <1>10, <1>11, <1>12 DEF stopped

\* ENCOUNTER_START closes the pull in progress, judged or not, and may begin one.
LEMMA EncounterStartIInv ==
  ASSUME IInv, NEW l \in EncounterStartLines, HandleEncounterStart(l)
  PROVE  IInv'
<1>1. TypeOK'
  <2>1. lines' \in 0 .. MaxLines
    BY TrackerAssumption DEF HandleEncounterStart, NextLine, IInv, TypeOK
  <2>2. active' \in BOOLEAN /\ overrun' \in BOOLEAN
    BY DEF HandleEncounterStart, TrackedEncounter
  <2>3. current' \in Encounters \cup {None}
    BY EncounterStartEmits DEF HandleEncounterStart, IInv, TypeOK
  <2> QED
    BY EncounterStartEmits, <2>1, <2>2, <2>3 DEF HandleEncounterStart, dungeonVars, IInv, TypeOK
<1>2. OverrunHasJudgedRun'
  BY EncounterStartEmits, RunKinds
  DEF HandleEncounterStart, dungeonVars, IInv, OverrunHasJudgedRun
<1>3. EachStartStopsOnce'
  <2>1. /\ begun'["encounter"] = IF TrackedEncounter(l) THEN begun["encounter"] + 1 ELSE begun["encounter"]
        /\ ended'["encounter"] = IF active THEN ended["encounter"] + 1 ELSE ended["encounter"]
        /\ begun'["dungeon"] = begun["dungeon"]
        /\ ended'["dungeon"] = ended["dungeon"]
    BY EncounterStartEmits
  <2> QED
    BY <2>1 DEF HandleEncounterStart, dungeonVars, IInv, EachStartStopsOnce, TypeOK, Kinds
<1> QED
  BY <1>1, <1>2, <1>3 DEF IInv

\* NoEmission is well typed; a step that emits it moves no count.
LEMMA QuietStep ==
  ASSUME IInv, Emit(NoEmission)
  PROVE  /\ emitted' \in Emissions
         /\ begun' = begun
         /\ ended' = ended
<1>1. NoEmission \in Emissions /\ NoEmission.started = None /\ NoEmission.stopped = None
  BY DEF NoEmission, Emissions
<1> QED
  BY <1>1, EmitType, EmitNoRun DEF IInv, TypeOK

\* The line counter stays within its bound.
LEMMA NextLineType ==
  ASSUME IInv, NextLine
  PROVE  lines' \in 0 .. MaxLines
BY TrackerAssumption DEF NextLine, IInv, TypeOK

\* ENCOUNTER_END judges the pull in progress and starts the overrun timer.
LEMMA EncounterEndIInv ==
  ASSUME IInv, NEW l \in EncounterEndLines, HandleEncounterEnd(l)
  PROVE  IInv'
<1>1. current \in Encounters
  BY DEF HandleEncounterEnd, AcceptsEncounterEnd, IInv, TypeOK, OverrunHasJudgedRun
<1>2. /\ pending' \in Endings
      /\ pending'.outcome \in {"success", "failure"}
  BY <1>1, EncounterEndingType DEF HandleEncounterEnd
<1>3. /\ emitted' \in Emissions
      /\ begun' = begun
      /\ ended' = ended
  BY QuietStep DEF HandleEncounterEnd
<1>4. TypeOK'
  BY <1>2, <1>3, NextLineType DEF HandleEncounterEnd, dungeonVars, IInv, TypeOK
<1>5. OverrunHasJudgedRun'
  BY <1>2 DEF HandleEncounterEnd, AcceptsEncounterEnd, dungeonVars, IInv, OverrunHasJudgedRun
<1>6. EachStartStopsOnce'
  BY <1>3 DEF HandleEncounterEnd, dungeonVars, IInv, EachStartStopsOnce
<1> QED
  BY <1>4, <1>5, <1>6 DEF IInv

\* What the encounter timeout emits: the stop of the run its timer belongs to.
LEMMA OverrunElapsedEmits ==
  ASSUME IInv, OnOverrunElapsed
  PROVE  /\ active /\ current \in Encounters /\ pending \in Endings
         /\ emitted' \in Emissions
         /\ begun' \in [Kinds -> Nat]
         /\ ended' \in [Kinds -> Nat]
         /\ emitted'.stopped = Stopped(current, pending)
         /\ begun'["encounter"] = begun["encounter"]
         /\ ended'["encounter"] = ended["encounter"] + 1
         /\ begun'["dungeon"] = begun["dungeon"]
         /\ ended'["dungeon"] = ended["dungeon"]
<1> DEFINE stopped == Stopped(current, pending)
           e == [NoEmission EXCEPT !.stopped = stopped]
<1>1. active /\ current \in Encounters /\ pending \in Endings
  BY DEF OnOverrunElapsed, IInv, TypeOK, OverrunHasJudgedRun
<1>2. stopped \in Stops /\ stopped # None /\ stopped.run.kind = "encounter"
  BY <1>1, RunKinds, StoppedType
<1> HIDE DEF stopped
<1>3. e \in Emissions /\ e.stopped = stopped /\ e.started = None
  BY <1>2 DEF NoEmission, Emissions
<1>4. Emit(e)
  BY DEF OnOverrunElapsed, stopped
<1> HIDE DEF e
<1>5. /\ emitted' \in Emissions
      /\ begun' \in [Kinds -> Nat]
      /\ ended' \in [Kinds -> Nat]
  BY <1>3, <1>4, EmitType DEF IInv, TypeOK
<1>6. /\ begun'["encounter"] = begun["encounter"]
      /\ ended'["encounter"] = ended["encounter"] + 1
      /\ begun'["dungeon"] = begun["dungeon"]
      /\ ended'["dungeon"] = ended["dungeon"]
  BY <1>2, <1>3, <1>4, EmitRun DEF Kinds, IInv, TypeOK
<1>7. emitted'.stopped = stopped
  BY <1>3, <1>4 DEF Emit
<1> QED
  BY <1>1, <1>5, <1>6, <1>7 DEF stopped

\* The encounter timeout empties its slot as it reports.
LEMMA OverrunElapsedIInv ==
  ASSUME IInv, OnOverrunElapsed
  PROVE  IInv'
<1>1. TypeOK'
  BY OverrunElapsedEmits DEF OnOverrunElapsed, dungeonVars, IInv, TypeOK
<1>2. OverrunHasJudgedRun'
  BY DEF OnOverrunElapsed, dungeonVars, IInv, OverrunHasJudgedRun
<1>3. EachStartStopsOnce'
  <2>1. /\ active
        /\ begun'["encounter"] = begun["encounter"]
        /\ ended'["encounter"] = ended["encounter"] + 1
        /\ begun'["dungeon"] = begun["dungeon"]
        /\ ended'["dungeon"] = ended["dungeon"]
    BY OverrunElapsedEmits
  <2> QED
    BY <2>1 DEF OnOverrunElapsed, dungeonVars, IInv, EachStartStopsOnce, TypeOK, Kinds
<1> QED
  BY <1>1, <1>2, <1>3 DEF IInv

\* What CHALLENGE_MODE_START emits: a stop of the key in progress, if any, then a
\* start of the new one, if it is tracked.
LEMMA ChallengeModeStartEmits ==
  ASSUME IInv, NEW l \in ChallengeModeStartLines, HandleChallengeModeStart(l)
  PROVE  /\ dungeonActive => currentDungeon \in Dungeons
         /\ DungeonOf(l) \in Dungeons
         /\ pendingDungeon \in Endings
         /\ emitted' \in Emissions
         /\ begun' \in [Kinds -> Nat]
         /\ ended' \in [Kinds -> Nat]
         /\ emitted'.stopped = IF dungeonActive THEN Stopped(currentDungeon, pendingDungeon) ELSE None
         /\ begun'["dungeon"] =
              IF TrackedDungeon(l) THEN begun["dungeon"] + 1 ELSE begun["dungeon"]
         /\ ended'["dungeon"] =
              IF dungeonActive THEN ended["dungeon"] + 1 ELSE ended["dungeon"]
         /\ begun'["encounter"] = begun["encounter"]
         /\ ended'["encounter"] = ended["encounter"]
<1> DEFINE stopped == IF dungeonActive THEN Stopped(currentDungeon, pendingDungeon) ELSE None
           started == IF TrackedDungeon(l) THEN DungeonOf(l) ELSE None
           e == [NoEmission EXCEPT !.stopped = stopped, !.started = started]
<1>1. dungeonActive => currentDungeon \in Dungeons
  BY DEF IInv, TypeOK, OverrunHasJudgedRun
<1>2. pendingDungeon \in Endings
  BY DEF IInv, TypeOK
<1>3. DungeonOf(l) \in Dungeons
  BY RunTypes
<1>4. dungeonActive => /\ stopped \in Stops
                /\ stopped # None
                /\ stopped.run.kind = "dungeon"
  BY <1>1, <1>2, RunKinds, StoppedType
<1>5. TrackedDungeon(l) => /\ started \in Runs
                             /\ started # None
                             /\ started.kind = "dungeon"
  BY <1>3, RunKinds
<1> HIDE DEF stopped, started
<1>6. ~dungeonActive => stopped = None
  BY DEF stopped
<1>7. ~TrackedDungeon(l) => started = None
  BY DEF started
<1>8. e \in Emissions /\ e.stopped = stopped /\ e.started = started
  BY <1>4, <1>5, <1>6, <1>7, RunEmissions
<1>9. Emit(e)
  BY DEF HandleChallengeModeStart, stopped, started
<1> HIDE DEF e
<1>10. /\ emitted' \in Emissions
       /\ begun' \in [Kinds -> Nat]
       /\ ended' \in [Kinds -> Nat]
  BY <1>8, <1>9, EmitType DEF IInv, TypeOK
<1>11. /\ begun'["dungeon"] =
            IF TrackedDungeon(l) THEN begun["dungeon"] + 1 ELSE begun["dungeon"]
       /\ ended'["dungeon"] =
            IF dungeonActive THEN ended["dungeon"] + 1 ELSE ended["dungeon"]
       /\ begun'["encounter"] = begun["encounter"]
       /\ ended'["encounter"] = ended["encounter"]
  BY <1>4, <1>5, <1>6, <1>7, <1>8, <1>9, EmitRun DEF Kinds, IInv, TypeOK
<1>12. emitted'.stopped = stopped
  BY <1>8, <1>9 DEF Emit
<1> QED
  BY <1>1, <1>2, <1>3, <1>10, <1>11, <1>12 DEF stopped

\* CHALLENGE_MODE_START closes a judged key, and may begin one.
LEMMA ChallengeModeStartIInv ==
  ASSUME IInv, NEW l \in ChallengeModeStartLines, HandleChallengeModeStart(l)
  PROVE  IInv'
<1>1. TypeOK'
  <2>1. lines' \in 0 .. MaxLines
    BY TrackerAssumption DEF HandleChallengeModeStart, NextLine, IInv, TypeOK
  <2>2. dungeonActive' \in BOOLEAN /\ dungeonOverrun' \in BOOLEAN
    BY DEF HandleChallengeModeStart, TrackedDungeon
  <2>3. currentDungeon' \in Dungeons \cup {None}
    BY ChallengeModeStartEmits DEF HandleChallengeModeStart, IInv, TypeOK
  <2> QED
    BY ChallengeModeStartEmits, <2>1, <2>2, <2>3 DEF HandleChallengeModeStart, encounterVars, IInv, TypeOK
<1>2. OverrunHasJudgedRun'
  BY ChallengeModeStartEmits, RunKinds
  DEF HandleChallengeModeStart, encounterVars, IInv, OverrunHasJudgedRun
<1>3. EachStartStopsOnce'
  <2>1. /\ begun'["dungeon"] = IF TrackedDungeon(l) THEN begun["dungeon"] + 1 ELSE begun["dungeon"]
        /\ ended'["dungeon"] = IF dungeonActive THEN ended["dungeon"] + 1 ELSE ended["dungeon"]
        /\ begun'["encounter"] = begun["encounter"]
        /\ ended'["encounter"] = ended["encounter"]
    BY ChallengeModeStartEmits
  <2> QED
    BY <2>1 DEF HandleChallengeModeStart, encounterVars, IInv, EachStartStopsOnce, TypeOK, Kinds
<1> QED
  BY <1>1, <1>2, <1>3 DEF IInv

\* CHALLENGE_MODE_END judges the key in progress and starts its overrun timer.
LEMMA ChallengeModeEndIInv ==
  ASSUME IInv, NEW l \in ChallengeModeEndLines, HandleChallengeModeEnd(l)
  PROVE  IInv'
<1>1. /\ pendingDungeon' \in Endings
      /\ pendingDungeon'.outcome \in {"success", "abandoned"}
  BY DungeonEndingType DEF HandleChallengeModeEnd
<1>2. /\ emitted' \in Emissions
      /\ begun' = begun
      /\ ended' = ended
  BY QuietStep DEF HandleChallengeModeEnd
<1>3. TypeOK'
  BY <1>1, <1>2, NextLineType DEF HandleChallengeModeEnd, encounterVars, IInv, TypeOK
<1>4. OverrunHasJudgedRun'
  BY <1>1
  DEF HandleChallengeModeEnd, AcceptsChallengeModeEnd, encounterVars, IInv, OverrunHasJudgedRun
<1>5. EachStartStopsOnce'
  BY <1>2 DEF HandleChallengeModeEnd, encounterVars, IInv, EachStartStopsOnce
<1> QED
  BY <1>3, <1>4, <1>5 DEF IInv

\* What the dungeon timeout emits: the stop of the run its timer belongs to.
LEMMA DungeonOverrunElapsedEmits ==
  ASSUME IInv, OnDungeonOverrunElapsed
  PROVE  /\ dungeonActive /\ currentDungeon \in Dungeons /\ pendingDungeon \in Endings
         /\ emitted' \in Emissions
         /\ begun' \in [Kinds -> Nat]
         /\ ended' \in [Kinds -> Nat]
         /\ emitted'.stopped = Stopped(currentDungeon, pendingDungeon)
         /\ begun'["dungeon"] = begun["dungeon"]
         /\ ended'["dungeon"] = ended["dungeon"] + 1
         /\ begun'["encounter"] = begun["encounter"]
         /\ ended'["encounter"] = ended["encounter"]
<1> DEFINE stopped == Stopped(currentDungeon, pendingDungeon)
           e == [NoEmission EXCEPT !.stopped = stopped]
<1>1. dungeonActive /\ currentDungeon \in Dungeons /\ pendingDungeon \in Endings
  BY DEF OnDungeonOverrunElapsed, IInv, TypeOK, OverrunHasJudgedRun
<1>2. stopped \in Stops /\ stopped # None /\ stopped.run.kind = "dungeon"
  BY <1>1, RunKinds, StoppedType
<1> HIDE DEF stopped
<1>3. e \in Emissions /\ e.stopped = stopped /\ e.started = None
  BY <1>2 DEF NoEmission, Emissions
<1>4. Emit(e)
  BY DEF OnDungeonOverrunElapsed, stopped
<1> HIDE DEF e
<1>5. /\ emitted' \in Emissions
      /\ begun' \in [Kinds -> Nat]
      /\ ended' \in [Kinds -> Nat]
  BY <1>3, <1>4, EmitType DEF IInv, TypeOK
<1>6. /\ begun'["dungeon"] = begun["dungeon"]
      /\ ended'["dungeon"] = ended["dungeon"] + 1
      /\ begun'["encounter"] = begun["encounter"]
      /\ ended'["encounter"] = ended["encounter"]
  BY <1>2, <1>3, <1>4, EmitRun DEF Kinds, IInv, TypeOK
<1>7. emitted'.stopped = stopped
  BY <1>3, <1>4 DEF Emit
<1> QED
  BY <1>1, <1>5, <1>6, <1>7 DEF stopped

\* The dungeon timeout empties its slot as it reports.
LEMMA DungeonOverrunElapsedIInv ==
  ASSUME IInv, OnDungeonOverrunElapsed
  PROVE  IInv'
<1>1. TypeOK'
  BY DungeonOverrunElapsedEmits DEF OnDungeonOverrunElapsed, encounterVars, IInv, TypeOK
<1>2. OverrunHasJudgedRun'
  BY DEF OnDungeonOverrunElapsed, encounterVars, IInv, OverrunHasJudgedRun
<1>3. EachStartStopsOnce'
  <2>1. /\ dungeonActive
        /\ begun'["dungeon"] = begun["dungeon"]
        /\ ended'["dungeon"] = ended["dungeon"] + 1
        /\ begun'["encounter"] = begun["encounter"]
        /\ ended'["encounter"] = ended["encounter"]
    BY DungeonOverrunElapsedEmits
  <2> QED
    BY <2>1 DEF OnDungeonOverrunElapsed, encounterVars, IInv, EachStartStopsOnce, TypeOK, Kinds
<1> QED
  BY <1>1, <1>2, <1>3 DEF IInv

\* The other lines emit neither a started nor a stopped signal.
LEMMA OtherLineEmits ==
  ASSUME IInv,
         \/ \E l \in MapChangeLines : HandleMapChange(l)
         \/ \E l \in ZoneChangeLines : HandleZoneChange(l)
         \/ IgnoreLine
  PROVE  emitted' \in Emissions /\ begun' = begun /\ ended' = ended
<1>1. \E e \in Emissions : Emit(e) /\ e.started = None /\ e.stopped = None
  <2>1. CASE \E l \in MapChangeLines : HandleMapChange(l)
    <3>1. PICK l \in MapChangeLines : HandleMapChange(l)
      BY <2>1
    <3>2. l.uiMap \in UiMaps
      BY DEF MapChangeLines
    <3> DEFINE e == [NoEmission EXCEPT !.uiMap = l.uiMap]
    <3>3. e \in Emissions /\ e.started = None /\ e.stopped = None
      BY <3>2 DEF NoEmission, Emissions
    <3> QED
      BY <3>1, <3>3 DEF HandleMapChange
  <2>2. CASE \E l \in ZoneChangeLines : HandleZoneChange(l)
    <3>1. PICK l \in ZoneChangeLines : HandleZoneChange(l)
      BY <2>2
    <3>2. ZoneOf(l) \in [name : ZoneNames, difficultyId : Nat]
      BY TrackerAssumption DEF ZoneChangeLines, ZoneOf
    <3> DEFINE e == [NoEmission EXCEPT !.zone = ZoneOf(l)]
    <3>3. e \in Emissions /\ e.started = None /\ e.stopped = None
      BY <3>2 DEF NoEmission, Emissions
    <3> QED
      BY <3>1, <3>3 DEF HandleZoneChange
  <2>3. CASE IgnoreLine
    <3>1. NoEmission \in Emissions /\ NoEmission.started = None /\ NoEmission.stopped = None
      BY DEF NoEmission, Emissions
    <3> QED
      BY <2>3, <3>1 DEF IgnoreLine
  <2> QED
    BY <2>1, <2>2, <2>3
<1> QED
  BY <1>1, EmitType, EmitNoRun DEF IInv, TypeOK

\* The other lines touch neither slot.
LEMMA OtherLineIInv ==
  ASSUME IInv,
         \/ \E l \in MapChangeLines : HandleMapChange(l)
         \/ \E l \in ZoneChangeLines : HandleZoneChange(l)
         \/ IgnoreLine
  PROVE  IInv'
<1>1. lines' \in 0 .. MaxLines /\ UNCHANGED <<encounterVars, dungeonVars>>
  BY NextLineType DEF HandleMapChange, HandleZoneChange, IgnoreLine
<1>2. emitted' \in Emissions /\ begun' = begun /\ ended' = ended
  BY OtherLineEmits
<1>3. TypeOK'
  BY <1>1, <1>2 DEF encounterVars, dungeonVars, IInv, TypeOK
<1>4. OverrunHasJudgedRun' /\ EachStartStopsOnce'
  BY <1>1, <1>2
  DEF encounterVars, dungeonVars, IInv, OverrunHasJudgedRun, EachStartStopsOnce
<1> QED
  BY <1>3, <1>4 DEF IInv

\* Every handler and timeout preserves it.
LEMMA NextIInv == IInv /\ [Next]_trackerVars => IInv'
<1> SUFFICES ASSUME IInv, [Next]_trackerVars PROVE IInv'
  OBVIOUS
<1>1. CASE \E l \in EncounterStartLines : HandleEncounterStart(l)
  BY <1>1, EncounterStartIInv
<1>2. CASE \E l \in EncounterEndLines : HandleEncounterEnd(l)
  BY <1>2, EncounterEndIInv
<1>3. CASE \E l \in ChallengeModeStartLines : HandleChallengeModeStart(l)
  BY <1>3, ChallengeModeStartIInv
<1>4. CASE \E l \in ChallengeModeEndLines : HandleChallengeModeEnd(l)
  BY <1>4, ChallengeModeEndIInv
<1>5. CASE \/ \E l \in MapChangeLines : HandleMapChange(l)
           \/ \E l \in ZoneChangeLines : HandleZoneChange(l)
           \/ IgnoreLine
  BY <1>5, OtherLineIInv
<1>6. CASE OnOverrunElapsed
  BY <1>6, OverrunElapsedIInv
<1>7. CASE OnDungeonOverrunElapsed
  BY <1>7, DungeonOverrunElapsedIInv
<1>8. CASE UNCHANGED trackerVars
  BY <1>8
  DEF trackerVars, encounterVars, dungeonVars, outputVars, IInv, TypeOK,
      OverrunHasJudgedRun, EachStartStopsOnce
<1> QED
  BY <1>1, <1>2, <1>3, <1>4, <1>5, <1>6, <1>7, <1>8 DEF Next, OnLineReceived

\* The strengthening holds in every reachable state.
THEOREM TrackerInvariant == Spec => []IInv
BY InitIInv, NextIInv, PTL DEF Spec

\* Whatever lines the log holds and whenever the timers fire, the tracker's
\* members keep their types.
THEOREM TypeCorrect == Spec => []TypeOK
<1>1. IInv => TypeOK
  BY DEF IInv
<1> QED
  BY <1>1, TrackerInvariant, PTL

\* No timer outlives the run it was started for.
THEOREM TimersHaveRuns == Spec => []OverrunHasJudgedRun
<1>1. IInv => OverrunHasJudgedRun
  BY DEF IInv
<1> QED
  BY <1>1, TrackerInvariant, PTL

\* Every run that starts is stopped exactly once, at most one being open.
THEOREM StartsAndStopsBalance == Spec => []EachStartStopsOnce
<1>1. IInv => EachStartStopsOnce
  BY DEF IInv
<1> QED
  BY <1>1, TrackerInvariant, PTL

-----------------------------------------------------------------------------
(* How long a run lasted. *)

\* The log covers less than 2^31 milliseconds, some 24 days, and its own fight
\* times are not negative.
ShortLog ==
  /\ \A from, to \in Times : to - from <= IntMax
  /\ FightTimes \subseteq Nat

PendingIsLength == pending.durationMs >= 0 /\ pendingDungeon.durationMs >= 0

\* A number that fits an int is not changed by the cast.
LEMMA CastKeeps ==
  ASSUME NEW n \in 0 .. IntMax
  PROVE  ToInt(n) = n
<1>1. PICK w \in Nat : w = IntMax + 1
  BY TrackerAssumption
<1>2. (n + w) % (2 * w) = n + w
  BY <1>1, TrackerAssumption
<1>3. 2 * IntMax + 2 = 2 * w /\ n + IntMax + 1 = n + w
  BY <1>1, TrackerAssumption
<1> QED
  BY <1>1, <1>2, <1>3 DEF ToInt

\* So the time between two lines is not negative, whichever comes first.
LEMMA ElapsedIsLength ==
  ASSUME ShortLog, NEW from \in Times, NEW to \in Times
  PROVE  Elapsed(from, to) >= 0
<1>1. from \in Int /\ to \in Int /\ to - from <= IntMax
  BY TrackerAssumption DEF ShortLog
<1> DEFINE n == IF to > from THEN to - from ELSE 0
<1>2. n \in 0 .. IntMax
  <2>1. IntMax \in Nat
    BY TrackerAssumption
  <2> QED
    BY <1>1, <2>1
<1>3. Elapsed(from, to) = ToInt(n)
  BY DEF Elapsed
<1> HIDE DEF n
<1>4. ToInt(n) = n /\ n >= 0
  BY <1>2, CastKeeps
<1> QED
  BY <1>3, <1>4

\* What is emitted for a run lasted as long as what was pending says.
LEMMA EmitLength ==
  ASSUME NEW e, Emit(e), NEW run, NEW ending, ending.durationMs >= 0,
         e.stopped = None \/ e.stopped = Stopped(run, ending)
  PROVE  DurationsAreNotNegative'
BY DEF Emit, DurationsAreNotNegative, Stopped

\* Each step keeps what is pending a length of time.
LEMMA NextLength ==
  ASSUME ShortLog, IInv, PendingIsLength, DurationsAreNotNegative, [Next]_trackerVars
  PROVE  PendingIsLength' /\ DurationsAreNotNegative'
<1> USE DEF PendingIsLength
<1>1. ASSUME NEW l \in EncounterStartLines, HandleEncounterStart(l)
      PROVE  PendingIsLength' /\ DurationsAreNotNegative'
  <2> DEFINE started == IF TrackedEncounter(l) THEN EncounterOf(l) ELSE None
             e == [NoEmission EXCEPT
                    !.stopped = IF active THEN Stopped(current, pending') ELSE None,
                    !.started = started]
  <2>1. /\ pending' = IF active /\ ~overrun THEN Abandonment(l) ELSE pending
        /\ Emit(e) /\ UNCHANGED pendingDungeon
    BY <1>1 DEF HandleEncounterStart, dungeonVars
  <2>2. active => current.startTime \in Times
    BY DEF IInv, TypeOK, OverrunHasJudgedRun, Encounters
  <2>3. active => Abandonment(l).durationMs >= 0
    <3>1. l.time \in Times
      BY DEF EncounterStartLines
    <3> QED
      BY <2>2, <3>1, ElapsedIsLength DEF Abandonment
  <2>4. PendingIsLength'
    BY <2>1, <2>3
  <2>5. e.stopped = None \/ e.stopped = Stopped(current, pending')
    BY DEF NoEmission
  <2> HIDE DEF e
  <2> QED
    BY <2>1, <2>4, <2>5, EmitLength
<1>2. ASSUME NEW l \in EncounterEndLines, HandleEncounterEnd(l)
      PROVE  PendingIsLength' /\ DurationsAreNotNegative'
  <2>1. pending' = EncounterEnding(l) /\ Emit(NoEmission) /\ UNCHANGED pendingDungeon
    BY <1>2 DEF HandleEncounterEnd, dungeonVars
  <2>2. current.startTime \in Times /\ l.time \in Times
    BY <1>2 DEF HandleEncounterEnd, AcceptsEncounterEnd, IInv, TypeOK, OverrunHasJudgedRun,
                Encounters, EncounterEndLines
  <2>3. Elapsed(current.startTime, l.time) >= 0
    BY <2>2, ElapsedIsLength
  <2>4. l.fightTime >= 0
    <3>1. l.fightTime \in FightTimes
      BY DEF EncounterEndLines
    <3>2. l.fightTime \in Nat
      BY <3>1 DEF ShortLog
    <3> QED
      BY <3>2
  <2>5. EncounterEnding(l).durationMs >= 0
    BY <2>3, <2>4 DEF EncounterEnding
  <2> QED
    BY <2>1, <2>5, EmitLength DEF NoEmission
<1>3. ASSUME NEW l \in ChallengeModeStartLines, HandleChallengeModeStart(l)
      PROVE  PendingIsLength' /\ DurationsAreNotNegative'
  <2> DEFINE started == IF TrackedDungeon(l) THEN DungeonOf(l) ELSE None
             e == [NoEmission EXCEPT
                    !.stopped = IF dungeonActive THEN Stopped(currentDungeon, pendingDungeon)
                                ELSE None,
                    !.started = started]
  <2>1. Emit(e) /\ UNCHANGED <<pending, pendingDungeon>>
    BY <1>3 DEF HandleChallengeModeStart, encounterVars
  <2>2. e.stopped = None \/ e.stopped = Stopped(currentDungeon, pendingDungeon)
    BY DEF NoEmission
  <2> HIDE DEF e
  <2> QED
    BY <2>1, <2>2, EmitLength
<1>4. ASSUME NEW l \in ChallengeModeEndLines, HandleChallengeModeEnd(l)
      PROVE  PendingIsLength' /\ DurationsAreNotNegative'
  <2>1. pendingDungeon' = DungeonEnding(l) /\ Emit(NoEmission) /\ UNCHANGED pending
    BY <1>4 DEF HandleChallengeModeEnd, encounterVars
  <2>2. DungeonEnding(l).durationMs >= 0
    <3>1. l.fightTime \in FightTimes
      BY DEF ChallengeModeEndLines
    <3>2. l.fightTime \in Nat
      BY <3>1 DEF ShortLog
    <3> QED
      BY <3>2 DEF DungeonEnding
  <2> QED
    BY <2>1, <2>2, EmitLength DEF NoEmission
<1>5. CASE OnOverrunElapsed
  <2> DEFINE e == [NoEmission EXCEPT !.stopped = Stopped(current, pending)]
  <2>1. Emit(e) /\ UNCHANGED <<pending, pendingDungeon>>
    BY <1>5 DEF OnOverrunElapsed, dungeonVars
  <2>2. e.stopped = Stopped(current, pending)
    BY DEF NoEmission
  <2> HIDE DEF e
  <2> QED
    BY <2>1, <2>2, EmitLength
<1>6. CASE OnDungeonOverrunElapsed
  <2> DEFINE e == [NoEmission EXCEPT !.stopped = Stopped(currentDungeon, pendingDungeon)]
  <2>1. Emit(e) /\ UNCHANGED <<pending, pendingDungeon>>
    BY <1>6 DEF OnDungeonOverrunElapsed, encounterVars
  <2>2. e.stopped = Stopped(currentDungeon, pendingDungeon)
    BY DEF NoEmission
  <2> HIDE DEF e
  <2> QED
    BY <2>1, <2>2, EmitLength
<1>7. ASSUME \/ \E l \in MapChangeLines : HandleMapChange(l)
             \/ \E l \in ZoneChangeLines : HandleZoneChange(l)
             \/ IgnoreLine
      PROVE  PendingIsLength' /\ DurationsAreNotNegative'
  <2>1. UNCHANGED <<pending, pendingDungeon>> /\ emitted'.stopped = None
    BY <1>7 DEF HandleMapChange, HandleZoneChange, IgnoreLine, Emit, NoEmission,
                encounterVars, dungeonVars
  <2> QED
    BY <2>1 DEF DurationsAreNotNegative
<1>8. CASE UNCHANGED trackerVars
  BY <1>8 DEF trackerVars, encounterVars, dungeonVars, outputVars, DurationsAreNotNegative
<1> QED
  BY <1>1, <1>2, <1>3, <1>4, <1>5, <1>6, <1>7, <1>8 DEF Next, OnLineReceived

\* In a log that covers less than 2^31 milliseconds the cast to int, which comes
\* after the clamp, does no harm: no run is reported with a negative duration.
THEOREM DurationsOfShortLogs ==
  ASSUME ShortLog PROVE Spec => []DurationsAreNotNegative
<1>1. Init => PendingIsLength /\ DurationsAreNotNegative
  BY DEF Init, PendingIsLength, DurationsAreNotNegative, NoEmission
<1>2. IInv /\ PendingIsLength /\ DurationsAreNotNegative /\ [Next]_trackerVars
        => PendingIsLength' /\ DurationsAreNotNegative'
  BY NextLength
<1> QED
  BY <1>1, <1>2, TrackerInvariant, PTL DEF Spec

-----------------------------------------------------------------------------
(* The tracker implements RunLifecycle, for raid encounters and for        *)
(* dungeons: seen through the refinement mapping, every step is one of the *)
(* abstract specification or a stutter.  The invariant supplies what the   *)
(* mapping needs: a running timer stands for a verdict on the run in       *)
(* progress.                                                               *)

\* The outcome a pull is reported with when it is displaced.
EncounterVerdict == IF overrun THEN pending.outcome ELSE None

\* A stop of the other kind is no report of this kind.
LEMMA ReportOfStop ==
  ASSUME NEW r \in Runs, NEW ending \in Endings, emitted'.stopped = Stopped(r, ending)
  PROVE  \A kind \in Kinds :
           ReportOf(kind)' = IF r.kind = kind THEN [run |-> r, outcome |-> ending.outcome]
                                              ELSE None
BY StoppedType DEF ReportOf

\* No stopped signal, no report.
LEMMA ReportOfNothing ==
  ASSUME emitted'.stopped = None
  PROVE  \A kind \in Kinds : ReportOf(kind)' = None
BY DEF ReportOf

\* A stop that a START line causes is a report of its own kind only.
LEMMA EncounterStartReport ==
  ASSUME IInv, NEW l \in EncounterStartLines, HandleEncounterStart(l)
  PROVE  ReportOf("dungeon")' = None
<1>1. CASE active
  <2>1. current \in Encounters /\ pending' \in Endings
        /\ emitted'.stopped = Stopped(current, pending')
    BY <1>1, EncounterStartEmits
  <2> QED
    BY <2>1, StoppedType, RunKinds DEF ReportOf
<1>2. CASE ~active
  BY <1>2, EncounterStartEmits, ReportOfNothing DEF Kinds
<1> QED
  BY <1>1, <1>2

\* The same for a key.
LEMMA ChallengeModeStartReport ==
  ASSUME IInv, NEW l \in ChallengeModeStartLines, HandleChallengeModeStart(l)
  PROVE  ReportOf("encounter")' = None
<1>1. CASE dungeonActive
  <2>1. currentDungeon \in Dungeons /\ pendingDungeon \in Endings
        /\ emitted'.stopped = Stopped(currentDungeon, pendingDungeon)
    BY <1>1, ChallengeModeStartEmits
  <2> QED
    BY <2>1, StoppedType, RunKinds DEF ReportOf
<1>2. CASE ~dungeonActive
  BY <1>2, ChallengeModeStartEmits, ReportOfNothing DEF Kinds
<1> QED
  BY <1>1, <1>2

-----------------------------------------------------------------------------
(* Raid encounters. *)

\* No pull is in progress initially.
LEMMA EncounterInit == Init => EncounterRuns!Init
BY DEF Init, NoEmission, EncounterRuns!Init, ReportOf, Kinds

\* A fresh pull begins a run, displaces the one in progress, or (when it is not
\* tracked) leaves the slot empty.
LEMMA EncounterStartStep ==
  ASSUME IInv, NEW l \in EncounterStartLines, HandleEncounterStart(l)
  PROVE  EncounterRuns!Next
<1> DEFINE r == IF TrackedEncounter(l) THEN EncounterOf(l) ELSE None
<1>1. r \in Encounters \cup {None} /\ (r = None <=> ~TrackedEncounter(l))
  BY EncounterStartEmits, RunKinds
<1>2. (IF active' THEN current' ELSE None) = r
  BY DEF HandleEncounterStart
<1>3. ~overrun'
  BY DEF HandleEncounterStart, IInv, OverrunHasJudgedRun
<1>4. begun'["encounter"] = IF r = None THEN begun["encounter"] ELSE begun["encounter"] + 1
  BY <1>1, EncounterStartEmits
<1> HIDE DEF r
<1>5. CASE active
  <2>1. current \in Encounters /\ current # None
    BY <1>5, EncounterStartEmits, RunKinds
  <2>2. ReportOf("encounter")' = [run |-> current, outcome |-> pending'.outcome]
    BY <1>5, <2>1, EncounterStartEmits, RunKinds, ReportOfStop DEF Kinds
  <2>3. pending'.outcome = IF EncounterVerdict = None THEN "abandoned" ELSE EncounterVerdict
    BY <1>5, NoneAssumption
    DEF HandleEncounterStart, Abandonment, EncounterVerdict, IInv, OverrunHasJudgedRun, Outcomes
  <2>4. ended'["encounter"] = ended["encounter"] + 1
    BY <1>5, EncounterStartEmits
  <2>5. EncounterRuns!Displace(r)
    BY <1>2, <1>3, <1>4, <1>5, <2>1, <2>2, <2>3, <2>4
    DEF EncounterRuns!Displace, EncounterRuns!Report, EncounterVerdict
  <2> QED
    BY <1>1, <2>5 DEF EncounterRuns!Next
<1>6. CASE ~active
  <2>1. ReportOf("encounter")' = None
    BY <1>6, EncounterStartEmits, ReportOfNothing DEF Kinds
  <2>2. ~overrun
    BY <1>6 DEF IInv, OverrunHasJudgedRun
  <2>3. ended'["encounter"] = ended["encounter"]
    BY <1>6, EncounterStartEmits
  <2>4. CASE r # None
    <3>1. EncounterRuns!Begin(r)
      BY <1>2, <1>3, <1>4, <1>6, <2>1, <2>3, <2>4 DEF EncounterRuns!Begin
    <3> QED
      BY <1>1, <2>4, <3>1 DEF EncounterRuns!Next
  <2>5. CASE r = None
    <3>1. EncounterRuns!Quiet
      BY <1>2, <1>3, <1>4, <1>6, <2>1, <2>2, <2>3, <2>5 DEF EncounterRuns!Quiet
    <3> QED
      BY <3>1 DEF EncounterRuns!Next
  <2> QED
    BY <2>4, <2>5
<1> QED
  BY <1>5, <1>6

\* A matching END line is the log's verdict on the run in progress.
LEMMA EncounterEndStep ==
  ASSUME IInv, NEW l \in EncounterEndLines, HandleEncounterEnd(l)
  PROVE  EncounterRuns!Next
<1>1. active /\ current \in Encounters
  BY DEF HandleEncounterEnd, AcceptsEncounterEnd, IInv, TypeOK, OverrunHasJudgedRun
<1>2. pending'.outcome \in {"success", "failure"}
  BY <1>1, EncounterEndingType DEF HandleEncounterEnd
<1>3. begun' = begun /\ ended' = ended
  BY QuietStep DEF HandleEncounterEnd
<1>4. emitted'.stopped = None
  BY DEF HandleEncounterEnd, Emit, NoEmission
<1>5. ReportOf("encounter")' = None
  BY <1>4, ReportOfNothing DEF Kinds
<1>6. EncounterRuns!Judge(pending'.outcome)
  BY <1>1, <1>3, <1>5, RunKinds DEF HandleEncounterEnd, EncounterRuns!Judge
<1> QED
  BY <1>2, <1>6 DEF EncounterRuns!Next

\* The timeout reports it.
LEMMA OverrunElapsedStep ==
  ASSUME IInv, OnOverrunElapsed
  PROVE  EncounterRuns!Next
<1>1. active /\ current \in Encounters /\ current # None /\ pending \in Endings
  BY OverrunElapsedEmits, RunKinds
<1>2. ReportOf("encounter")' = [run |-> current, outcome |-> pending.outcome]
  BY <1>1, OverrunElapsedEmits, RunKinds, ReportOfStop DEF Kinds
<1>3. pending.outcome # None
  BY <1>1, NoneAssumption DEF Endings
<1>4. EncounterRuns!Finish
  BY <1>1, <1>2, <1>3, OverrunElapsedEmits
  DEF OnOverrunElapsed, EncounterRuns!Finish, EncounterRuns!Report
<1> QED
  BY <1>4 DEF EncounterRuns!Next
\* Lines and timeouts about dungeons, maps and zones say nothing about pulls.
LEMMA EncounterQuiet ==
  ASSUME IInv, UNCHANGED encounterVars,
         begun'["encounter"] = begun["encounter"], ended'["encounter"] = ended["encounter"],
         ReportOf("encounter")' = None
  PROVE  EncounterRuns!Next
BY DEF encounterVars, EncounterRuns!Next, EncounterRuns!Quiet

\* A line that neither slot reacts to.
LEMMA OtherLineStep ==
  ASSUME IInv,
         \/ \E l \in MapChangeLines : HandleMapChange(l)
         \/ \E l \in ZoneChangeLines : HandleZoneChange(l)
         \/ IgnoreLine
  PROVE  /\ UNCHANGED <<encounterVars, dungeonVars>>
         /\ begun' = begun
         /\ ended' = ended
         /\ \A kind \in Kinds : ReportOf(kind)' = None
<1>1. emitted'.stopped = None /\ UNCHANGED <<encounterVars, dungeonVars>>
  BY DEF HandleMapChange, HandleZoneChange, IgnoreLine, Emit, NoEmission
<1> QED
  BY <1>1, OtherLineEmits, ReportOfNothing

\* The tracker's raid slot implements RunLifecycle's safety.
THEOREM EncounterRefinement == Spec => EncounterRuns!Safety
<1>1. IInv /\ [Next]_trackerVars => [EncounterRuns!Next]_EncounterRuns!vars
  <2> SUFFICES ASSUME IInv, [Next]_trackerVars
               PROVE  EncounterRuns!Next \/ UNCHANGED EncounterRuns!vars
    OBVIOUS
  <2>1. CASE \E l \in EncounterStartLines : HandleEncounterStart(l)
    BY <2>1, EncounterStartStep
  <2>2. CASE \E l \in EncounterEndLines : HandleEncounterEnd(l)
    BY <2>2, EncounterEndStep
  <2>3. CASE OnOverrunElapsed
    BY <2>3, OverrunElapsedStep
  <2>4. CASE \E l \in ChallengeModeStartLines : HandleChallengeModeStart(l)
    <3>1. PICK l \in ChallengeModeStartLines : HandleChallengeModeStart(l)
      BY <2>4
    <3>2. /\ begun'["encounter"] = begun["encounter"]
          /\ ended'["encounter"] = ended["encounter"]
      BY <3>1, ChallengeModeStartEmits
    <3>3. ReportOf("encounter")' = None
      BY <3>1, ChallengeModeStartReport
    <3>4. UNCHANGED encounterVars
      BY <3>1 DEF HandleChallengeModeStart
    <3> QED
      BY <3>2, <3>3, <3>4, EncounterQuiet
  <2>5. CASE \E l \in ChallengeModeEndLines : HandleChallengeModeEnd(l)
    <3>1. begun' = begun /\ ended' = ended /\ UNCHANGED encounterVars
      BY <2>5, QuietStep DEF HandleChallengeModeEnd
    <3>2. emitted'.stopped = None
      BY <2>5 DEF HandleChallengeModeEnd, Emit, NoEmission
    <3>3. ReportOf("encounter")' = None
      BY <3>2, ReportOfNothing DEF Kinds
    <3> QED
      BY <3>1, <3>3, EncounterQuiet
  <2>6. CASE OnDungeonOverrunElapsed
    <3>1. /\ begun'["encounter"] = begun["encounter"]
          /\ ended'["encounter"] = ended["encounter"]
      BY <2>6, DungeonOverrunElapsedEmits
    <3>2. ReportOf("encounter")' = None
      BY <2>6, DungeonOverrunElapsedEmits, RunKinds, ReportOfStop DEF Kinds
    <3>3. UNCHANGED encounterVars
      BY <2>6 DEF OnDungeonOverrunElapsed
    <3> QED
      BY <3>1, <3>2, <3>3, EncounterQuiet
  <2>7. CASE \/ \E l \in MapChangeLines : HandleMapChange(l)
             \/ \E l \in ZoneChangeLines : HandleZoneChange(l)
             \/ IgnoreLine
    BY <2>7, OtherLineStep, EncounterQuiet DEF Kinds
  <2>8. CASE UNCHANGED trackerVars
    BY <2>8
    DEF trackerVars, encounterVars, outputVars, EncounterRuns!vars, ReportOf
  <2> QED
    BY <2>1, <2>2, <2>3, <2>4, <2>5, <2>6, <2>7, <2>8 DEF Next, OnLineReceived
<1> QED
  BY EncounterInit, TrackerInvariant, <1>1, PTL DEF Spec, EncounterRuns!Safety

-----------------------------------------------------------------------------
(* Dungeons. *)

\* No key is in progress initially.
LEMMA DungeonInit == Init => DungeonRuns!Init
BY DEF Init, NoEmission, DungeonRuns!Init, ReportOf, Kinds

\* A key begins a run, or displaces one that has its verdict.
LEMMA ChallengeModeStartStep ==
  ASSUME IInv, NEW l \in ChallengeModeStartLines, HandleChallengeModeStart(l)
  PROVE  DungeonRuns!Next
<1> DEFINE r == IF TrackedDungeon(l) THEN DungeonOf(l) ELSE None
<1>1. r \in Dungeons \cup {None} /\ (r = None <=> ~TrackedDungeon(l))
  BY ChallengeModeStartEmits, RunKinds
<1>2. (IF dungeonActive' THEN currentDungeon' ELSE None) = r
  BY DEF HandleChallengeModeStart
<1>3. ~dungeonOverrun'
  BY DEF HandleChallengeModeStart, IInv, OverrunHasJudgedRun
<1>4. begun'["dungeon"] = IF r = None THEN begun["dungeon"] ELSE begun["dungeon"] + 1
  BY <1>1, ChallengeModeStartEmits
<1> HIDE DEF r
<1>5. CASE dungeonActive
  <2>1. /\ currentDungeon \in Dungeons /\ currentDungeon # None
        /\ pendingDungeon' = pendingDungeon
        /\ dungeonOverrun
        /\ pendingDungeon.outcome # None
    BY <1>5, ChallengeModeStartEmits, RunKinds, NoneAssumption
    DEF HandleChallengeModeStart, AcceptsChallengeModeStart, IInv, TypeOK, Endings
  <2>2. ReportOf("dungeon")' = [run |-> currentDungeon, outcome |-> pendingDungeon.outcome]
    BY <1>5, <2>1, ChallengeModeStartEmits, RunKinds, ReportOfStop DEF Kinds
  <2>3. ended'["dungeon"] = ended["dungeon"] + 1
    BY <1>5, ChallengeModeStartEmits
  <2>4. DungeonRuns!Displace(r)
    BY <1>2, <1>3, <1>4, <1>5, <2>1, <2>2, <2>3
    DEF DungeonRuns!Displace, DungeonRuns!Report
  <2> QED
    BY <1>1, <2>4 DEF DungeonRuns!Next
<1>6. CASE ~dungeonActive
  <2>1. ReportOf("dungeon")' = None
    BY <1>6, ChallengeModeStartEmits, ReportOfNothing DEF Kinds
  <2>2. ~dungeonOverrun
    BY <1>6 DEF IInv, OverrunHasJudgedRun
  <2>3. ended'["dungeon"] = ended["dungeon"]
    BY <1>6, ChallengeModeStartEmits
  <2>4. CASE r # None
    <3>1. DungeonRuns!Begin(r)
      BY <1>2, <1>3, <1>4, <1>6, <2>1, <2>3, <2>4 DEF DungeonRuns!Begin
    <3> QED
      BY <1>1, <2>4, <3>1 DEF DungeonRuns!Next
  <2>5. CASE r = None
    <3>1. DungeonRuns!Quiet
      BY <1>2, <1>3, <1>4, <1>6, <2>1, <2>2, <2>3, <2>5 DEF DungeonRuns!Quiet
    <3> QED
      BY <3>1 DEF DungeonRuns!Next
  <2> QED
    BY <2>4, <2>5
<1> QED
  BY <1>5, <1>6

\* CHALLENGE_MODE_END is the log's verdict on the key.
LEMMA ChallengeModeEndStep ==
  ASSUME IInv, NEW l \in ChallengeModeEndLines, HandleChallengeModeEnd(l)
  PROVE  DungeonRuns!Next
<1>1. dungeonActive /\ currentDungeon # None
  BY DEF HandleChallengeModeEnd, AcceptsChallengeModeEnd, IInv, OverrunHasJudgedRun
<1>2. pendingDungeon'.outcome \in {"success", "abandoned"}
  BY DungeonEndingType DEF HandleChallengeModeEnd
<1>3. begun' = begun /\ ended' = ended
  BY QuietStep DEF HandleChallengeModeEnd
<1>4. emitted'.stopped = None
  BY DEF HandleChallengeModeEnd, Emit, NoEmission
<1>5. ReportOf("dungeon")' = None
  BY <1>4, ReportOfNothing DEF Kinds
<1>6. DungeonRuns!Judge(pendingDungeon'.outcome)
  BY <1>1, <1>3, <1>5 DEF HandleChallengeModeEnd, DungeonRuns!Judge
<1> QED
  BY <1>2, <1>6 DEF DungeonRuns!Next

\* The dungeon timeout reports it.
LEMMA DungeonOverrunElapsedStep ==
  ASSUME IInv, OnDungeonOverrunElapsed
  PROVE  DungeonRuns!Next
<1>1. /\ dungeonActive /\ currentDungeon \in Dungeons /\ currentDungeon # None
      /\ pendingDungeon \in Endings
  BY DungeonOverrunElapsedEmits, RunKinds
<1>2. ReportOf("dungeon")' = [run |-> currentDungeon, outcome |-> pendingDungeon.outcome]
  BY <1>1, DungeonOverrunElapsedEmits, RunKinds, ReportOfStop DEF Kinds
<1>3. pendingDungeon.outcome # None
  BY <1>1, NoneAssumption DEF Endings
<1>4. DungeonRuns!Finish
  BY <1>1, <1>2, <1>3, DungeonOverrunElapsedEmits
  DEF OnDungeonOverrunElapsed, DungeonRuns!Finish, DungeonRuns!Report
<1> QED
  BY <1>4 DEF DungeonRuns!Next

\* Lines and timeouts about pulls say nothing about keys.
LEMMA DungeonQuiet ==
  ASSUME IInv, UNCHANGED dungeonVars,
         begun'["dungeon"] = begun["dungeon"], ended'["dungeon"] = ended["dungeon"],
         ReportOf("dungeon")' = None
  PROVE  DungeonRuns!Next
BY DEF dungeonVars, DungeonRuns!Next, DungeonRuns!Quiet

\* So does its dungeon slot.
THEOREM DungeonRefinement == Spec => DungeonRuns!Safety
<1>1. IInv /\ [Next]_trackerVars => [DungeonRuns!Next]_DungeonRuns!vars
  <2> SUFFICES ASSUME IInv, [Next]_trackerVars
               PROVE  DungeonRuns!Next \/ UNCHANGED DungeonRuns!vars
    OBVIOUS
  <2>1. CASE \E l \in ChallengeModeStartLines : HandleChallengeModeStart(l)
    BY <2>1, ChallengeModeStartStep
  <2>2. CASE \E l \in ChallengeModeEndLines : HandleChallengeModeEnd(l)
    BY <2>2, ChallengeModeEndStep
  <2>3. CASE OnDungeonOverrunElapsed
    BY <2>3, DungeonOverrunElapsedStep
  <2>4. CASE \E l \in EncounterStartLines : HandleEncounterStart(l)
    <3>1. PICK l \in EncounterStartLines : HandleEncounterStart(l)
      BY <2>4
    <3>2. begun'["dungeon"] = begun["dungeon"] /\ ended'["dungeon"] = ended["dungeon"]
      BY <3>1, EncounterStartEmits
    <3>3. ReportOf("dungeon")' = None
      BY <3>1, EncounterStartReport
    <3>4. UNCHANGED dungeonVars
      BY <3>1 DEF HandleEncounterStart
    <3> QED
      BY <3>2, <3>3, <3>4, DungeonQuiet
  <2>5. CASE \E l \in EncounterEndLines : HandleEncounterEnd(l)
    <3>1. begun' = begun /\ ended' = ended /\ UNCHANGED dungeonVars
      BY <2>5, QuietStep DEF HandleEncounterEnd
    <3>2. emitted'.stopped = None
      BY <2>5 DEF HandleEncounterEnd, Emit, NoEmission
    <3>3. ReportOf("dungeon")' = None
      BY <3>2, ReportOfNothing DEF Kinds
    <3> QED
      BY <3>1, <3>3, DungeonQuiet
  <2>6. CASE OnOverrunElapsed
    <3>1. begun'["dungeon"] = begun["dungeon"] /\ ended'["dungeon"] = ended["dungeon"]
      BY <2>6, OverrunElapsedEmits
    <3>2. ReportOf("dungeon")' = None
      BY <2>6, OverrunElapsedEmits, RunKinds, ReportOfStop DEF Kinds
    <3>3. UNCHANGED dungeonVars
      BY <2>6 DEF OnOverrunElapsed
    <3> QED
      BY <3>1, <3>2, <3>3, DungeonQuiet
  <2>7. CASE \/ \E l \in MapChangeLines : HandleMapChange(l)
             \/ \E l \in ZoneChangeLines : HandleZoneChange(l)
             \/ IgnoreLine
    BY <2>7, OtherLineStep, DungeonQuiet DEF Kinds
  <2>8. CASE UNCHANGED trackerVars
    BY <2>8
    DEF trackerVars, dungeonVars, outputVars, DungeonRuns!vars, ReportOf
  <2> QED
    BY <2>1, <2>2, <2>3, <2>4, <2>5, <2>6, <2>7, <2>8 DEF Next, OnLineReceived
<1> QED
  BY DungeonInit, TrackerInvariant, <1>1, PTL DEF Spec, DungeonRuns!Safety
=============================================================================
