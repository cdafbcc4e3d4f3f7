CONSTANTS
  EncounterIds = {e1, e2}
  DifficultyIds = {15, 17}
  MinDifficulty = 1
  DungeonMaps = {d1}
  KeystoneLevels = {1, 2}
  MinKeystoneLevel = 2
  UiMaps = {}
  ZoneNames = {}
  ZoneDifficulties = {}
  Times = {0, 3, 9}
  FightTimes = {4}
  RaidOverrun = 2
  DungeonOverrun = 1
  IntMax = 7
  MaxLines = 3
  None = None
SPECIFICATION Spec
INVARIANT
  DurationsAreNotNegative
CHECK_DEADLOCK FALSE
