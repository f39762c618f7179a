SPECIFICATION ToolSpec
CONSTANTS
  SECTOR_SIZE = 8
  NUM_SYSTEM_SECTORS = 1
  SKIPSECTORS = 1
  SIZE_OFFSET = 1
  APPDATA_OFFSET = 2
  APPDATA_SIZE = 6
  FRAGMENT_COUNT = 3
  FRAGMENT_SUM_SIZE = 6
  Cell <- MCCell
  Uninitialized = Uninitialized
  Media <- MCMedia
  HasCallback = TRUE
  ShortReads = FALSE
  Prefetch = 0
  Options <- MCOptions
  Platforms = {"unix", "windows"}
  MaxKeys = 2
INVARIANTS
  ToolTypeOK
  CorrectChecksumPasses
  BadFragmentStopsCheck
  GaugeIsFull
PROPERTIES
  KeepsPromise
  GaugeIncreases
  EscIsApproached
  TerminalRestored
