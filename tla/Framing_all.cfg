CONSTANTS
  Digit <- MCDigit
  RecordType <- MCRecordType
  Form <- MCForm
  Layouts <- MCLayouts
  Framings <- MCFramings
  MaxStated = 6
  Values <- MCValues
  MaxRecords = 3
  MaxFailures = 1
  Damages <- MCDamages
SPECIFICATION FramedSpec
INVARIANTS
  WrittenIsReadBack
  CutShortIsSaid
  DamageStaysInItsRecord
CHECK_DEADLOCK FALSE
