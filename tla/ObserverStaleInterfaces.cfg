CONSTANTS
  Silvermoon = Silvermoon
  Ulduar = Ulduar
  Freya = Freya
  Unnamed = Unnamed
  EncounterIds = {3}
  EncounterNames <- MCEncounterNames
  DifficultyIds = {15, 17}
  MinDifficulty = 1
  DungeonMaps <- MCDungeonMaps
  KeystoneLevels = {1, 2}
  MinKeystoneLevel = 2
  UiMaps <- MCUiMaps
  ZoneNames = {Ulduar, Unnamed}
  ZoneDifficulties = {0, 15}
  Times = {1}
  FightTimes = {4}
  RaidOverrun = 2
  DungeonOverrun = 1
  IntMax = 127
  MaxLines = 4
  None = None
SPECIFICATION ObserverSpec
INVARIANT
  AnnouncedInterfacesAreServed
CHECK_DEADLOCK FALSE
