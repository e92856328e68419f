CONSTANTS
  RecordType <- MCRecordType
  Byte <- MCByte
  Width = 2
  Discriminator <- Nested
  Domain <- HeaderNumeric
  Decoded <- MCDecoded
  Expressions <- Everything
  Layouts <- Accepted
  Inputs <- NestedInputs
  MaxRecords = 4
  Persistent = TRUE
SPECIFICATION ExchangeSpec
INVARIANTS
  ReaderFollowsWriter
PROPERTIES
  DeliversInOrder
CHECK_DEADLOCK FALSE
