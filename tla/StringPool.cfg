SPECIFICATION Spec
CONSTANTS
  Capacity = 2
  AVG_STR_SIZE = 2
  Sizes <- const_Sizes
  MaxStrings = 5
INVARIANTS
  TypeOK
  InBounds
  GetReturnsPushed
  FreeIsZero
