CONSTANTS
  LabelWidths <- MCLabelWidths
  Garbage <- MCGarbage
  MaxMenus <- MCMaxMenus
  MaxX <- MCMaxX
SPECIFICATION Spec
INVARIANTS
  TypeOK
CHECK_DEADLOCK FALSE
