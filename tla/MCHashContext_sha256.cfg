SPECIFICATION Spec
CONSTANTS
  BLOCK = 4
  BITS = 8
  WORD = 96
  Byte <- MCByte
  PieceLengths = {0, 1, 3, 7, 13}
  MaxLength = 14
INVARIANT
  SHA256AsSpecified
