SPECIFICATION Spec
CONSTANTS
  NULL = NULL
  Null <- NULL
  Inputs <- MCInputs
  NullText <- MCNullText
  VecSz = 4
  NumLanes = 2
  Width = 3
  MaxWidth = 5
  PosBits = 1
  ExcLimit = 2
  OfsWidth = 5
  Escape = 9
  Slack = 1
CHECK_DEADLOCK FALSE
INVARIANTS
  KernelsTypeOK
  RoundTrip
  FewExceptions
  NoBetterRange
  RunsTile
