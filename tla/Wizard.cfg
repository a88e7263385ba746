SPECIFICATION WizardSpec
CONSTANTS
  Format = "csv"
  NumCols = 3
  Schemas <- MCSchemas
  Cells <- MCCells
  Null = Null
  NullText <- MCNullText
  VecSz = 3
  Capacity = 3
  H <- MCH
  NullNum = 1
  NullDen = 2
  RatioNum = 1
  RatioDen = 1
  Junk = Junk
INVARIANTS
  WizardTypeOK
  NoUnreachable
  SourcesStand
  DecodedEqualsOriginal
CHECK_DEADLOCK FALSE
