------------------------- MODULE ActivityProjection -------------------------
(***************************************************************************)
(* How a run is described to D-Bus clients: the a{sv} bag of its metadata  *)
(* (daemon/activitymetadata) and, projected from that bag, the properties  *)
(* of the activity object's interfaces (daemon/observer/ActivityProjection)*)
(*                                                                         *)
(* A value on the bus is a pair of its D-Bus type and what it holds; a bag *)
(* is a record with a field for each key.                                  *)
(***************************************************************************)
EXTENDS ActivityTracker

CONSTANTS
  EncounterNames       \* the encounterName argument that goes with each id

Str(s) == <<"s", s>>
UInt(n) == <<"u", n % (2 * IntMax + 2)>>   \* static_cast<uint>
Int64(n) == <<"x", n>>
ObjectPath(path) == <<"o", path>>

-----------------------------------------------------------------------------
(* ActivityMetadata. *)

raidDifficultyDisplayName(difficultyId) ==
  LET difficulty == raidDifficultyFromId(difficultyId) IN
  CASE difficulty = LFR -> "LFR"
    [] difficulty = Normal -> "Normal"
    [] difficulty = Heroic -> "Heroic"
    [] difficulty = Mythic -> "Mythic"
    [] OTHER -> "Unknown"

fromEncounter(e) ==
  [type          |-> Str("encounter"),
   encounterId   |-> UInt(e.id),
   encounterName |-> Str(EncounterNames[e.id]),
   difficulty    |-> Str(raidDifficultyDisplayName(e.difficultyId)),
   difficultyId  |-> UInt(e.difficultyId),
   startTime     |-> Int64(e.startTime)]

fromDungeon(d) ==
  [type           |-> Str("dungeon"),
   challengeMapId |-> UInt(d.map.challengeMapId),
   zoneId         |-> UInt(d.map.zoneId),
   keystoneLevel  |-> UInt(d.level),
   startTime      |-> Int64(d.startTime)]

\* The bag of a run in progress; an empty bag is None.
BagOf(run) ==
  IF run = None THEN None
  ELSE IF run.kind = "encounter" THEN fromEncounter(run) ELSE fromDungeon(run)

\* The empty bag is none of the bags of a run.
ASSUME BagAssumption == \A run \in Runs : BagOf(run) # None

\* A map with the entries of two; the first one's where both have a key.
Merged(first, second) ==
  [key \in (DOMAIN first) \cup DOMAIN second |->
     IF key \in DOMAIN first THEN first[key] ELSE second[key]]

\* fromEncounterEnded and fromDungeonEnded add the same keys.
EndedBagOf(stopped) ==
  Merged([outcome    |-> Str(stopped.ending.outcome),
          durationMs |-> Int64(stopped.ending.durationMs),
          stopTime   |-> Int64(stopped.ending.stopTime)],
         BagOf(stopped.run))

-----------------------------------------------------------------------------
(* ActivityProjection: a key a bag does not have reads as zero or empty. *)

Default(type) == CASE type = "s" -> "" [] type = "o" -> "/" [] OTHER -> 0

Read(bag, key, type) ==
  <<type, IF key \in DOMAIN bag THEN bag[key][2] ELSE Default(type)>>

bagString(bag, key, fallback) ==
  IF Read(bag, key, "s")[2] = "" THEN Str(fallback) ELSE Read(bag, key, "s")

isEncounter(bag) == Read(bag, "type", "s") = Str("encounter")
isDungeon(bag) == Read(bag, "type", "s") = Str("dungeon")

activityInterfaceProperties(bag) ==
  [Type      |-> bagString(bag, "type", "unknown"),
   StartTime |-> Read(bag, "startTime", "x"),
   StopTime  |-> Read(bag, "stopTime", "x"),
   Outcome   |-> bagString(bag, "outcome", "unknown"),
   Recording |-> ObjectPath("/")]

\* Mutant of encounterInterfaceProperties: one property is of another type than
\* the contract's.
encounterInterfacePropertiesSigned(bag) ==
  [EncounterId   |-> Read(bag, "encounterId", "u"),
   EncounterName |-> Read(bag, "encounterName", "s"),
   Difficulty    |-> Read(bag, "difficulty", "s"),
   DifficultyId  |-> Read(bag, "difficultyId", "x")]

encounterInterfaceProperties(bag) ==
  [EncounterId   |-> Read(bag, "encounterId", "u"),
   EncounterName |-> Read(bag, "encounterName", "s"),
   Difficulty    |-> Read(bag, "difficulty", "s"),
   DifficultyId  |-> Read(bag, "difficultyId", "u")]

\* Mutant of dungeonInterfaceProperties: a slip of the key.
dungeonInterfacePropertiesSlip(bag) ==
  [ZoneId         |-> Read(bag, "zoneId", "u"),
   KeystoneLevel  |-> Read(bag, "keystoneLevel", "u"),
   ChallengeMapId |-> Read(bag, "zoneId", "u"),
   DurationMs     |-> Read(bag, "durationMs", "x")]

dungeonInterfaceProperties(bag) ==
  [ZoneId         |-> Read(bag, "zoneId", "u"),
   KeystoneLevel  |-> Read(bag, "keystoneLevel", "u"),
   ChallengeMapId |-> Read(bag, "challengeMapId", "u"),
   DurationMs     |-> Read(bag, "durationMs", "x")]
=============================================================================
