SPECIFICATION WizardSpec
CONSTANTS
  Format = "csv"
  NumCols = 2
  Schemas <- Gaps
  Cells <- GapCells
  Null = Null
  NullText <- MCNullText
  VecSz = 3
  Capacity = 3
  H <- MCH
  NullNum = 1
  NullDen = 2
  RatioNum = 3
  RatioDen = 4
  Junk = Junk
INVARIANT
  DecodedEqualsOriginal
CHECK_DEADLOCK FALSE
