SPECIFICATION Spec
CONSTANTS
  TzOffset = 1
  BlockTypes <- MCBlockTypes
  Values <- MCValues
  InsertBlockSize = 2
  MaxRows = 3
  MaxBlocks = 2
CHECK_DEADLOCK FALSE
INVARIANTS
  TypeOK
  ReceivedIsSent
  CastKeepsRows
  EqualIsSameRows
  FlatChunksRoundTrip
