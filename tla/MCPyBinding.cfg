SPECIFICATION Spec
CONSTANTS
  SECTOR_SIZE = 8
  NUM_SYSTEM_SECTORS = 1
  SKIPSECTORS = 1
  SIZE_OFFSET = 1
  APPDATA_OFFSET = 2
  APPDATA_SIZE = 6
  FRAGMENT_COUNT = 3
  FRAGMENT_SUM_SIZE = 3
  Cell <- MCCell
  Uninitialized = Uninitialized
  Media <- MCMedia
  Prefetch = 1
  Held = 2
  MaxCalls = 2
INVARIANT
  CallbackLives
PROPERTY
  OutcomeTellsTheAnswers
