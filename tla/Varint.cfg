SPECIFICATION Spec
CONSTANTS
  DigitBits = 2
  WordBits = 5
  LastIndex = 2
  Release = TRUE
  WordOr <- BitOr
  MaxBytes = 4
INVARIANTS
  ExactUpToTen
  RoundTrip
PROPERTY
  Stable
