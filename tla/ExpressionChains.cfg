SPECIFICATION FairSpec
CONSTANTS
  NumVectors = 3
  Schemas <- MCSchemas
INVARIANTS
  TypeOK
  NoUnreachable
  TokensNameSegments
  ChunkIsCurrent
  RoundTrip
PROPERTY
  EveryVectorDelivered
