SPECIFICATION Spec
CONSTANTS
  DigitBits = 3
  WordBits = 4
  LastIndex = 1
  Release = FALSE
  WordOr <- BitOr
  Hellos <- const_Hellos
  Queries <- const_Queries
  DataBlocks <- const_DataBlocks
  Splits <- const_Splits
  MaxPackets = 3
  Parse <- ParsePacket
  Encode <- PutPacket
  Speakable <- Speaks
  Understood <- Meaning
  AsksCompression <- Asks
  ReadsCompression <- Reads
INVARIANTS
  TypeOK
  DeliveredInOrder
  NeverRejected
  EofReported
PROPERTIES
  AllDelivered
