CONSTANTS
  A = A
  NLc = NLc
  Red = Red
  Blk = Blk
  Null = Null
  Chars <- MCChars
  NL <- NLc
  Class <- MCClass
  Colors <- MCColors
  Black <- Blk
  NoText <- Null
  MaxLen <- MCMaxLen
  MaxStyles <- StyleMaxStyles
  InitClipboard <- StyleInitClipboard
  FlagValues <- StyleFlagValues
SPECIFICATION Spec
\* A process that took the NULL dereference in insertStyle is dead.
CHECK_DEADLOCK FALSE
INVARIANTS StylesSorted RedrawShowsState
PROPERTY ColorRangeApplied
