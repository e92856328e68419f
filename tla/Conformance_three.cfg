SPECIFICATION FairSpec
CONSTANTS
  Count = 3
  Axed <- LastEntry
  Room = 1
INVARIANTS OneResultEach OneMisdeedOneFault KeepsTheContract NoneLeftBehind
PROPERTIES VerdictsAreTold RunEnds
CHECK_DEADLOCK FALSE
