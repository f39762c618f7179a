SPECIFICATION Spec
CONSTANTS
  SECTOR_SIZE = 9
  NUM_SYSTEM_SECTORS = 1
  SKIPSECTORS = 1
  SIZE_OFFSET = 1
  APPDATA_OFFSET = 2
  APPDATA_SIZE = 7
  FRAGMENT_COUNT = 4
  FRAGMENT_SUM_SIZE = 8
  Cell <- MCCell
  Uninitialized = Uninitialized
  Media <- MCMedia
  Requests <- MCRequests
  Errnos = {0, 9}
INVARIANTS
  TypeOK
  SuccessMeansImplanted
  FragmentSumsFit
PROPERTIES
  NoFalseCertificate
  OnlyUnusedChanges
  Terminates
