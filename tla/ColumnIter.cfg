SPECIFICATION Spec
CONSTANTS
  TzOffset = 1
  Types <- MCTypes
  Values <- MCValues
  NullFlags = {1, 2}
  MaxRows = 3
  MaxParts = 3
INVARIANTS
  ConcatIsAll
  ItemIsRow
  LenIsRest
PROPERTIES
  NoneIsTheEnd
  EndIsNone
