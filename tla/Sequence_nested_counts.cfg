CONSTANTS
  RecordType <- MCRecordType
  Byte <- MCByte
  Width = 2
  Discriminator <- Aligned
  Domain <- Numeric
  Decoded <- MCDecoded
  Expressions <- NestedCounts
  Layouts <- Accepted
  Inputs <- AlignedInputs
  MaxRecords = 5
  Requests = {}
  Menu = {}
  Edge = {}
  Persistent = FALSE
SPECIFICATION LayoutSpec
INVARIANTS
  OnlyWhatIsDescribed
CHECK_DEADLOCK FALSE
