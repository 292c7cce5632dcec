CONSTANTS
  First = First
  b1 = b1
  b2 = b2
  b3 = b3
  NULL = NULL
  Blocks <- MCBlocks
SPECIFICATION Spec
PROPERTY
  NoUseAfterFree
