CONSTANTS
  NumColumns = 3
  Parent <- MCParent
  Segments <- MCSegments
  Sizes <- MCSizes
  Capacity = 2
  HeaderSize = 2
  U8Max = 3
  U16Max = 6
  MaxRowgroups = 2
SPECIFICATION FairSpec
INVARIANTS TypeOK ReadsBack RegionsTile ColumnsNest RowgroupsTile
PROPERTIES ImplementsVectorStore EncodeReturns
