SPECIFICATION Spec
CONSTANTS
  SECTOR_SIZE = 8
  NUM_SYSTEM_SECTORS = 1
  SKIPSECTORS = 1
  SIZE_OFFSET = 1
  APPDATA_OFFSET = 2
  APPDATA_SIZE = 6
  FRAGMENT_COUNT = 2
  FRAGMENT_SUM_SIZE = 2
  Cell <- MCCell
  Uninitialized = Uninitialized
  Media <- MCMedia
  RequestsA <- MCRequestsA
  RequestsB <- MCRequestsB
  Errnos = {9}
  DamageAt = {5, 11}
  MaxDamage = 1
INVARIANTS
  PassedIsUndamaged
  UndamagedIsNotCondemned
  SuccessIsFound
PROPERTY
  AllReturn
