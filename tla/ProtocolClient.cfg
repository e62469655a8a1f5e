SPECIFICATION Spec
CONSTANTS
  i1 = i1
  i2 = i2
  s1 = s1
  b1 = b1
  b2 = b2
  empty = empty
  none = none
  Inserts <- const_Inserts
  Selects <- const_Selects
  Blocks <- const_Blocks
  EmptyBlock <- empty
  None <- none
  ChannelCapacity = 1
  SelectBlocks = 1
  MaxBlocks = 2
  MaxPings = 1
INVARIANTS
  AckedInsertIsStored
  RepliesExpected
  NoStalePermit
PROPERTIES
  ImplementsService
  EveryQueryAnswered
