SPECIFICATION ParseSpec
CONSTANTS
  SECTOR_SIZE = 24
  NUM_SYSTEM_SECTORS = 1
  SKIPSECTORS = 1
  SIZE_OFFSET = 1
  APPDATA_OFFSET = 2
  APPDATA_SIZE = 22
  FRAGMENT_COUNT = 1
  FRAGMENT_SUM_SIZE = 2
  HASH_SIZE = 2
  MD5_HASH_SIZE = 1
  Cell <- MCCell
  Uninitialized = Uninitialized
  Media <- MCMedia
  Certificates <- MCCertificates
  ShortReads = FALSE
  INT64_MODULUS = 16777216
INVARIANTS
  ParseTypeOK
  FindsThePrimary
  OffsetIsPvdOffset
  ParsesFields
  TornIsNotMisread
PROPERTY
  ParseTerminates
