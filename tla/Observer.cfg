CONSTANTS
  Silvermoon = Silvermoon
  Ulduar = Ulduar
  Freya = Freya
  Unnamed = Unnamed
  EncounterIds = {3}
  EncounterNames <- MCEncounterNames
  DifficultyIds = {15, 16, 17}
  MinDifficulty = 1
  DungeonMaps <- MCDungeonMaps
  KeystoneLevels = {1, 2, 3}
  MinKeystoneLevel = 2
  UiMaps <- MCUiMaps
  ZoneNames = {Ulduar, Unnamed}
  ZoneDifficulties = {15}
  Times = {1}
  FightTimes = {4}
  RaidOverrun = 2
  DungeonOverrun = 1
  IntMax = 127
  MaxLines = 5
  None = None
SPECIFICATION ObserverSpec
INVARIANTS
  ObserverTypeOK
  MirrorMatchesProperties
  ObjectExistsWhilePublished
  AnnouncedObjectIsServed
  PublishedRunIsTracked
  EndPrecedesRemoval
  PresenceIsCurrent
  ReadersAgree
  ObjectTellsTheBag
  StatusNamesTheState
PROPERTY
  ShowsRuns
CHECK_DEADLOCK FALSE
