SPECIFICATION Spec
CONSTANTS
  TzOffset = 0
  BlockTypes <- MCArrayTypes
  Values <- MCValues
  InsertBlockSize = 1
  MaxRows = 2
  MaxBlocks = 1
CHECK_DEADLOCK FALSE
INVARIANTS
  ChunksRoundTrip
