CONSTANTS
  A = A
  NLc = NLc
  Red = Red
  Blk = Blk
  Null = Null
  Chars <- MCChars
  NL <- NLc
  Class <- MCClass
  Colors <- MCColors
  Black <- Blk
  NoText <- Null
  MaxLen <- MCMaxLen
  MaxStyles <- EditMaxStyles
  InitClipboard <- EditInitClipboard
  FlagValues <- EditFlagValues
SPECIFICATION Spec
\* A process that left defined behaviour is not followed further.
CHECK_DEADLOCK FALSE
INVARIANT TypeOK
PROPERTY DoubleClickSelectsWord
