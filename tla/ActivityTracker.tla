--------------------------- MODULE ActivityTracker ---------------------------
(***************************************************************************)
(* The activity tracker of constellard (src/daemon/tracker): combat-log    *)
(* lines in, started/stopped signals out.  It keeps two slots, one for a   *)
(* raid encounter and one for a Mythic+ dungeon, each with a single-shot   *)
(* overrun timer that delays the stop signal after an END line.            *)
(*                                                                         *)
(* The daemon is one Qt event loop: a line or a timeout is handled to its  *)
(* end before the next, so each handler is one step.  The timers run on    *)
(* the wall clock and the lines carry the game's own local time, so a      *)
(* timeout may fall between any two lines and the times of successive      *)
(* lines need not increase.                                                *)
(*                                                                         *)
(* A line is a record of its type, its number of arguments (argument 0 is  *)
(* the type itself) and the arguments the tracker reads.                   *)
(***************************************************************************)
EXTENDS Integers

CONSTANTS
  EncounterIds,      \* encounterID arguments
  DifficultyIds,     \* difficultyID arguments of ENCOUNTER_START
  MinDifficulty,     \* Config::minDifficulty
  DungeonMaps,       \* (zoneID, challengeMapID) pairs of a dungeon
  KeystoneLevels,    \* keystoneLevel arguments
  MinKeystoneLevel,  \* Config::minKeystoneLevel
  UiMaps,            \* (uiMapID, uiMapName) pairs of MAP_CHANGE
  ZoneNames,         \* zoneText arguments of ZONE_CHANGE
  ZoneDifficulties,  \* difficultyID arguments of ZONE_CHANGE
  Times,             \* the lines' timestamps
  FightTimes,        \* the durations END lines carry
  RaidOverrun,       \* Config::raidOverrunSeconds
  DungeonOverrun,    \* Config::dungeonOverrunSeconds
  IntMax,            \* the largest int (the width of m_pendingDurationMs)
  MaxLines,          \* bound: how many lines the log delivers
  None               \* no run, no report, no map, no zone

VARIABLES
  active,            \* m_active
  current,           \* m_current
  pending,           \* m_pendingOutcome, m_pendingDurationMs, m_pendingStopTime
  overrun,           \* m_overrunTimer.isActive()
  dungeonActive,     \* m_dungeonActive
  currentDungeon,    \* m_currentDungeon
  pendingDungeon,    \* m_pendingDungeonOutcome, ...DurationMs, ...StopTime
  dungeonOverrun,    \* m_dungeonOverrunTimer.isActive()
  emitted,           \* the signals this step emitted
  begun,             \* history: started signals emitted, by kind
  ended,             \* history: stopped signals emitted, by kind
  lines              \* lines delivered so far (at most MaxLines)

encounterVars == <<active, current, pending, overrun>>
dungeonVars == <<dungeonActive, currentDungeon, pendingDungeon, dungeonOverrun>>
outputVars == <<emitted, begun, ended>>
trackerVars == <<encounterVars, dungeonVars, outputVars, lines>>

ASSUME TrackerAssumption ==
  /\ DifficultyIds \subseteq Int
  /\ KeystoneLevels \subseteq Int
  /\ Times \subseteq Int
  /\ FightTimes \subseteq Int
  /\ ZoneDifficulties \subseteq Nat
  /\ MinDifficulty \in Int
  /\ MinKeystoneLevel \in Int
  /\ RaidOverrun \in Nat
  /\ DungeonOverrun \in Nat
  /\ IntMax \in Nat
  /\ MaxLines \in Nat

\* A level is an int, and the least that is tracked, 2 in the code, is no
\* negative one.
ASSUME LevelAssumption ==
  KeystoneLevels \subseteq -(IntMax + 1) .. IntMax /\ MinKeystoneLevel \in Nat

Kinds == {"encounter", "dungeon"}

Encounters == [kind : {"encounter"}, id : EncounterIds,
               difficultyId : DifficultyIds, startTime : Times]

Dungeons == [kind : {"dungeon"}, map : DungeonMaps,
             level : KeystoneLevels, startTime : Times]

Runs == Encounters \cup Dungeons

Outcomes == {"unknown", "success", "failure", "abandoned"}

Endings == [outcome : Outcomes, durationMs : Int, stopTime : Int]

Stops == [run : Runs, ending : Endings]

\* The sentinel is none of the values it stands beside.
ASSUME NoneAssumption == None \notin Runs /\ None \notin Stops /\ None \notin Outcomes

-----------------------------------------------------------------------------
(* The lines the tracker acts on. *)

EncounterStartLines ==
  [argCount : {4, 5}, id : EncounterIds, difficultyId : DifficultyIds, time : Times]

\* Argument 5 is the success flag, argument 6 the fight time in milliseconds.
EncounterEndLines ==
  [argCount : {4, 5, 6, 7}, id : EncounterIds, success : BOOLEAN,
   fightTime : FightTimes, time : Times]

ChallengeModeStartLines ==
  [argCount : {4, 5}, map : DungeonMaps, level : KeystoneLevels, time : Times]

ChallengeModeEndLines ==
  [argCount : {4, 5}, success : BOOLEAN, fightTime : FightTimes, time : Times]

MapChangeLines == [argCount : {2, 3}, uiMap : UiMaps]

ZoneChangeLines ==
  [argCount : {2, 3, 4}, name : ZoneNames, difficultyId : ZoneDifficulties]

-----------------------------------------------------------------------------
(* What the handlers compute. *)

LFR == 0
Normal == 1
Heroic == 2
Mythic == 3
NoDifficulty == -1   \* std::nullopt

raidDifficultyFromId(id) ==
  CASE id = 17 -> LFR
    [] id = 14 -> Normal
    [] id = 15 -> Heroic
    [] id = 16 -> Mythic
    [] OTHER   -> NoDifficulty

TrackedEncounter(l) ==
  /\ raidDifficultyFromId(l.difficultyId) # NoDifficulty
  /\ raidDifficultyFromId(l.difficultyId) >= MinDifficulty

TrackedDungeon(l) == l.level >= MinKeystoneLevel

\* static_cast<int> of a 64-bit count of milliseconds keeps its low bits.
ToInt(n) == ((n + IntMax + 1) % (2 * IntMax + 2)) - (IntMax + 1)

\* Elapsed time clamped at zero, then narrowed.
Elapsed(from, to) == ToInt(IF to > from THEN to - from ELSE 0)

\* Mutant of EncounterOf: the line's timestamp is not stored.
EncounterOfUndated(l) ==
  [kind |-> "encounter", id |-> l.id, difficultyId |-> l.difficultyId,
   startTime |-> None]

EncounterOf(l) ==
  [kind |-> "encounter", id |-> l.id, difficultyId |-> l.difficultyId,
   startTime |-> l.time]

DungeonOf(l) ==
  [kind |-> "dungeon", map |-> l.map, level |-> l.level, startTime |-> l.time]

\* Mutant of Abandonment: the outcome of an earlier run is left in place.
AbandonmentKeepsOutcome(l) ==
  [pending EXCEPT !.durationMs = Elapsed(current.startTime, l.time), !.stopTime = l.time]

\* A fresh START closes a run that never saw its END.
Abandonment(l) ==
  [outcome |-> "abandoned", durationMs |-> Elapsed(current.startTime, l.time),
   stopTime |-> l.time]

\* A missing argument reads as the empty string, which is not "1".
EncounterEnding(l) ==
  [outcome |-> IF l.argCount >= 6 /\ l.success THEN "success" ELSE "failure",
   durationMs |-> IF l.argCount >= 7 THEN l.fightTime
                                     ELSE Elapsed(current.startTime, l.time),
   stopTime |-> l.time + RaidOverrun]

DungeonEnding(l) ==
  [outcome |-> IF l.success THEN "success" ELSE "abandoned",
   durationMs |-> l.fightTime,
   stopTime |-> l.time + DungeonOverrun]

ZoneOf(l) ==
  [name |-> l.name,
   difficultyId |-> IF l.argCount >= 4 THEN l.difficultyId ELSE 0]

Stopped(run, ending) == [run |-> run, ending |-> ending]

-----------------------------------------------------------------------------
(* Signals.  No handler emits more than one stopped and one started        *)
(* signal, and always in that order.                                       *)

NoEmission == [stopped |-> None, started |-> None, uiMap |-> None, zone |-> None]

Emit(e) ==
  /\ emitted' = e
  /\ begun' = [k \in Kinds |->
       IF e.started # None /\ e.started.kind = k THEN begun[k] + 1 ELSE begun[k]]
  /\ ended' = [k \in Kinds |->
       IF e.stopped # None /\ e.stopped.run.kind = k THEN ended[k] + 1 ELSE ended[k]]

NextLine ==
  /\ lines < MaxLines
  /\ lines' = lines + 1

-----------------------------------------------------------------------------
(* The handlers. *)

Init ==
  /\ active = FALSE
  /\ current = None
  /\ pending = [outcome |-> "unknown", durationMs |-> 0, stopTime |-> 0]
  /\ overrun = FALSE
  /\ dungeonActive = FALSE
  /\ currentDungeon = None
  /\ pendingDungeon = [outcome |-> "unknown", durationMs |-> 0, stopTime |-> 0]
  /\ dungeonOverrun = FALSE
  /\ emitted = NoEmission
  /\ begun = [k \in Kinds |-> 0]
  /\ ended = [k \in Kinds |-> 0]
  /\ lines = 0

AcceptsEncounterStart(l) == ~dungeonActive /\ l.argCount >= 5

HandleEncounterStart(l) ==
  /\ AcceptsEncounterStart(l)
  /\ NextLine
  /\ pending' = IF active /\ ~overrun THEN Abandonment(l) ELSE pending
  /\ overrun' = (overrun /\ ~active)
  /\ active' = TrackedEncounter(l)
  /\ current' = IF TrackedEncounter(l) THEN EncounterOf(l) ELSE current
  /\ Emit([NoEmission EXCEPT
       !.stopped = IF active THEN Stopped(current, pending') ELSE None,
       !.started = IF TrackedEncounter(l) THEN EncounterOf(l) ELSE None])
  /\ UNCHANGED dungeonVars

AcceptsEncounterEnd(l) ==
  ~dungeonActive /\ active /\ l.argCount >= 5 /\ l.id = current.id

HandleEncounterEnd(l) ==
  /\ AcceptsEncounterEnd(l)
  /\ NextLine
  /\ pending' = EncounterEnding(l)
  /\ overrun' = TRUE
  /\ Emit(NoEmission)
  /\ UNCHANGED <<active, current, dungeonVars>>

\* Mutant of OnOverrunElapsed: the timer is not single-shot.
OnOverrunElapsedRepeats ==
  /\ overrun
  /\ overrun' = TRUE
  /\ active' = FALSE
  /\ Emit([NoEmission EXCEPT !.stopped = Stopped(current, pending)])
  /\ UNCHANGED <<current, pending, dungeonVars, lines>>

OnOverrunElapsed ==
  /\ overrun
  /\ overrun' = FALSE
  /\ active' = FALSE
  /\ Emit([NoEmission EXCEPT !.stopped = Stopped(current, pending)])
  /\ UNCHANGED <<current, pending, dungeonVars, lines>>

\* Mutant of AcceptsChallengeModeStart: a repeated START restarts a live key.
AcceptsEveryChallengeModeStart(l) == l.argCount >= 5

AcceptsChallengeModeStart(l) == l.argCount >= 5 /\ (dungeonActive => dungeonOverrun)

HandleChallengeModeStart(l) ==
  /\ AcceptsChallengeModeStart(l)
  /\ NextLine
  /\ dungeonOverrun' = (dungeonOverrun /\ ~dungeonActive)
  /\ dungeonActive' = TrackedDungeon(l)
  /\ currentDungeon' = IF TrackedDungeon(l) THEN DungeonOf(l) ELSE currentDungeon
  /\ Emit([NoEmission EXCEPT
       !.stopped = IF dungeonActive THEN Stopped(currentDungeon, pendingDungeon) ELSE None,
       !.started = IF TrackedDungeon(l) THEN DungeonOf(l) ELSE None])
  /\ UNCHANGED <<encounterVars, pendingDungeon>>

AcceptsChallengeModeEnd(l) == dungeonActive /\ l.argCount >= 5

HandleChallengeModeEnd(l) ==
  /\ AcceptsChallengeModeEnd(l)
  /\ NextLine
  /\ pendingDungeon' = DungeonEnding(l)
  /\ dungeonOverrun' = TRUE
  /\ Emit(NoEmission)
  /\ UNCHANGED <<encounterVars, dungeonActive, currentDungeon>>

\* Mutant of OnDungeonOverrunElapsed: m_dungeonActive is not cleared.
OnDungeonOverrunElapsedStaysActive ==
  /\ dungeonOverrun
  /\ dungeonOverrun' = FALSE
  /\ Emit([NoEmission EXCEPT !.stopped = Stopped(currentDungeon, pendingDungeon)])
  /\ UNCHANGED <<encounterVars, dungeonActive, currentDungeon, pendingDungeon, lines>>

OnDungeonOverrunElapsed ==
  /\ dungeonOverrun
  /\ dungeonOverrun' = FALSE
  /\ dungeonActive' = FALSE
  /\ Emit([NoEmission EXCEPT !.stopped = Stopped(currentDungeon, pendingDungeon)])
  /\ UNCHANGED <<encounterVars, currentDungeon, pendingDungeon, lines>>

HandleMapChange(l) ==
  /\ l.argCount >= 3
  /\ NextLine
  /\ Emit([NoEmission EXCEPT !.uiMap = l.uiMap])
  /\ UNCHANGED <<encounterVars, dungeonVars>>

HandleZoneChange(l) ==
  /\ l.argCount >= 3
  /\ NextLine
  /\ Emit([NoEmission EXCEPT !.zone = ZoneOf(l)])
  /\ UNCHANGED <<encounterVars, dungeonVars>>

\* Every line a handler returns from early, or whose type is not one of these.
IgnoreLine ==
  /\ \/ \E l \in EncounterStartLines : ~AcceptsEncounterStart(l)
     \/ \E l \in EncounterEndLines : ~AcceptsEncounterEnd(l)
     \/ \E l \in ChallengeModeStartLines : ~AcceptsChallengeModeStart(l)
     \/ \E l \in ChallengeModeEndLines : ~AcceptsChallengeModeEnd(l)
  /\ NextLine
  /\ Emit(NoEmission)
  /\ UNCHANGED <<encounterVars, dungeonVars>>

OnLineReceived ==
  \/ \E l \in EncounterStartLines : HandleEncounterStart(l)
  \/ \E l \in EncounterEndLines : HandleEncounterEnd(l)
  \/ \E l \in ChallengeModeStartLines : HandleChallengeModeStart(l)
  \/ \E l \in ChallengeModeEndLines : HandleChallengeModeEnd(l)
  \/ \E l \in MapChangeLines : HandleMapChange(l)
  \/ \E l \in ZoneChangeLines : HandleZoneChange(l)
  \/ IgnoreLine

Next == OnLineReceived \/ OnOverrunElapsed \/ OnDungeonOverrunElapsed

\* The event loop delivers an expired timer; nothing makes the game write.
Fairness == WF_trackerVars(OnOverrunElapsed) /\ WF_trackerVars(OnDungeonOverrunElapsed)

Spec == Init /\ [][Next]_trackerVars /\ Fairness
-----------------------------------------------------------------------------
(* Properties. *)

Emissions ==
  [stopped : Stops \cup {None},
   started : Runs \cup {None},
   uiMap : UiMaps \cup {None},
   zone : [name : ZoneNames, difficultyId : Nat] \cup {None}]

\* Every member keeps its C++ type.
TypeOK ==
  /\ active \in BOOLEAN
  /\ current \in Encounters \cup {None}
  /\ pending \in Endings
  /\ overrun \in BOOLEAN
  /\ dungeonActive \in BOOLEAN
  /\ currentDungeon \in Dungeons \cup {None}
  /\ pendingDungeon \in Endings
  /\ dungeonOverrun \in BOOLEAN
  /\ emitted \in Emissions
  /\ begun \in [Kinds -> Nat]
  /\ ended \in [Kinds -> Nat]
  /\ lines \in 0 .. MaxLines

\* A slot in use holds a run, and a running overrun timer always belongs to a
\* run still in progress that an END line has judged: onOverrunElapsed and
\* onDungeonOverrunElapsed check neither, so otherwise they would report a run
\* twice, or one left over.
OverrunHasJudgedRun ==
  /\ active => current # None
  /\ dungeonActive => currentDungeon # None
  /\ overrun => active /\ pending.outcome \in {"success", "failure"}
  /\ dungeonOverrun => /\ dungeonActive
                       /\ pendingDungeon.outcome \in {"success", "abandoned"}

\* Over any history of lines and timeouts, each started signal is answered by
\* exactly one stopped signal of its kind, the run in progress being the only
\* one outstanding.
EachStartStopsOnce ==
  /\ begun["encounter"] = ended["encounter"] + (IF active THEN 1 ELSE 0)
  /\ begun["dungeon"] = ended["dungeon"] + (IF dungeonActive THEN 1 ELSE 0)

\* The clamp to zero in handleEncounterStart and handleEncounterEnd is there so
\* that a reported duration is a length of time, never negative.
DurationsAreNotNegative ==
  emitted.stopped # None => emitted.stopped.ending.durationMs >= 0

ReportOf(kind) ==
  IF emitted.stopped # None /\ emitted.stopped.run.kind = kind
  THEN [run |-> emitted.stopped.run, outcome |-> emitted.stopped.ending.outcome]
  ELSE None

EncounterRuns == INSTANCE RunLifecycle WITH
  Runs <- Encounters,
  Verdicts <- {"success", "failure"},
  Abandoned <- "abandoned",
  run <- IF active THEN current ELSE None,
  verdict <- IF overrun THEN pending.outcome ELSE None,
  report <- ReportOf("encounter"),
  begun <- begun["encounter"],
  ended <- ended["encounter"]

DungeonRuns == INSTANCE RunLifecycle WITH
  Runs <- Dungeons,
  Verdicts <- {"success", "abandoned"},
  Abandoned <- "abandoned",
  run <- IF dungeonActive THEN currentDungeon ELSE None,
  verdict <- IF dungeonOverrun THEN pendingDungeon.outcome ELSE None,
  report <- ReportOf("dungeon"),
  begun <- begun["dungeon"],
  ended <- ended["dungeon"]

\* The raid slot keeps the promise of RunLifecycle: a pull is reported once,
\* as itself, with the last verdict the log gave on that pull and none left
\* over from an earlier one, and a judged pull is eventually reported even if
\* the log falls silent or a dungeon begins meanwhile.
EncounterLifecycle == EncounterRuns!Spec

\* The dungeon slot keeps it too.
DungeonLifecycle == DungeonRuns!Spec
=============================================================================
