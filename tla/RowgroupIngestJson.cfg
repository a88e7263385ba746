SPECIFICATION IngestSpec
CONSTANTS
  Format = "jsonl"
  NumCols = 1
  Schemas <- Measures
  Cells <- MCCells
  Null = Null
  NullText <- MCNullText
  VecSz = 2
  Capacity = 2
  H <- MCH
INVARIANT
  VectorsComplete
