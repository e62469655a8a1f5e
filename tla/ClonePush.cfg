SPECIFICATION Spec
CONSTANTS
  TzOffset = 0
  Tasks = {t1, t2}
  Names = {"a", "b"}
  RowsToPush <- MCFullRows
  Received <- MCNone
  Capacity = 1
  MaxLen = 2
  Cells <- MCCells
  EmptyFor <- MCEmptyFor
  FromWire <- MCFromWire
  LengthOf <- Length
  Takes <- MCTakes
  Pushed <- Push
  RowsOf <- Rows
  Stored <- MCStored
  Whole <- MCWhole
INVARIANTS
  PushReturns
