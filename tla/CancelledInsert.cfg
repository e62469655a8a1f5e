SPECIFICATION CancelSpec
CONSTANTS
  i1 = i1
  i2 = i2
  s1 = s1
  b1 = b1
  empty = empty
  none = none
  Inserts <- const_Inserts
  Selects <- const_Selects
  Blocks <- const_Blocks
  EmptyBlock <- empty
  None <- none
  ChannelCapacity = 1
  SelectBlocks = 1
  MaxBlocks = 2
  MaxPings = 0
INVARIANT
  AckedInsertIsStored
