-------------------------- MODULE MCObserverService --------------------------
(* Small instances of ObserverService and PropertyTree: two maps that share an *)
(* id, a zone with an empty name, an open-world and a raid difficulty, one     *)
(* boss and one dungeon.                                                       *)
EXTENDS PropertyTree

CONSTANTS Silvermoon, Ulduar, Freya

MCUiMaps == {[id |-> 1, name |-> Silvermoon], [id |-> 1, name |-> Ulduar]}
MCEncounterNames == [id \in {3} |-> Freya]
MCDungeonMaps == {[zoneId |-> 5, challengeMapId |-> 6]}
=============================================================================
