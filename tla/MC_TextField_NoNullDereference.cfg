CONSTANTS
  A = A
  NLc = NLc
  Red = Red
  Blk = Blk
  Null = Null
  Chars <- MCChars
  NL <- NLc
  Class <- MCClass
  Colors <- MCColors
  Black <- Blk
  NoText <- Null
  MaxLen <- MCMaxLen
  MaxStyles <- StyleMaxStyles
  InitClipboard <- StyleInitClipboard
  FlagValues <- StyleFlagValues
SPECIFICATION Spec
CHECK_DEADLOCK FALSE
INVARIANT NoNullDereference
