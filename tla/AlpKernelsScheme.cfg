SPECIFICATION Spec
CONSTANTS
  NULL = NULL
  NAN = NAN
  NEGZERO = NEGZERO
  Null <- NULL
  NaN <- NAN
  NegZero <- NEGZERO
  Inputs <- RandomInputs
  Base = 3
  Digits = 4
  MaxExponent = 3
  MaxFactor = 2
  Width = 8
  Magic = 64
  VecSz = 4
  Increment = 2
  MaxSampled = 5
  Jump = 2
  MaxK = 4
  EarlyExit = 2
  ExcSize = 9
  PosSize = 2
  RdLimit = 14
  NumLanes = 2
  RdBits = 5
  CuttingLimit = 3
  MaxDict = 2
  RdExcSize = 5
CHECK_DEADLOCK FALSE
INVARIANT CombinationFound
