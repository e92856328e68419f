CONSTANTS
  RecordType <- SixTypes
  Byte <- MCByte
  Width = 2
  Discriminator <- AlignedAndBatched
  Domain <- NumericAndAny
  Decoded <- MCDecoded
  Expressions <- Level2
  Layouts <- AcceptedAfresh
  Inputs <- AllInputs
  MaxRecords = 4
  Requests <- CopybookRequests
  Menu <- Parts
  Edge <- EdgeParts
  Persistent = FALSE
SPECIFICATION LayoutSpec
INVARIANTS
  NeverUnbound
  OneWayOn
  OnlyWhatIsDescribed
  EverythingDescribed
  RecordsCoverTheirStorage
  CountsCanBeRead
  OneReadingOfACopybook
  EveryRecordFitsItsDataset
PROPERTIES
  CountsDownToZero
CHECK_DEADLOCK FALSE
