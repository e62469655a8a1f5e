SPECIFICATION Spec
CONSTANTS
  DigitBits = 3
  WordBits = 4
  LastIndex = 1
  Release = FALSE
  WordOr <- BitOr
  Revisions = {0, 3, 5, 7}
  ServerRevisions = {2, 4, 6}
  ResultBlocks <- const_ResultBlocks
  Progresses <- const_Progresses
  Errors <- const_Errors
  MaxRequests = 3
  MaxWritten = 2
  Put <- PutReply
  Fields <- FieldsOf
  Read <- ReadReply
INVARIANTS
  TypeOK
  RepliesDecode
