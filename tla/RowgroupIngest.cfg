SPECIFICATION IngestSpec
CONSTANTS
  Format = "csv"
  NumCols = 2
  Schemas <- MCSchemas
  Cells <- MCCells
  Null = Null
  NullText <- MCNullText
  VecSz = 2
  Capacity = 2
  H <- MCH
INVARIANTS
  IngestTypeOK
  VectorsComplete
  CastExact
PROPERTIES
  TypesFinal
