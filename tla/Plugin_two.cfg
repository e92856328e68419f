CONSTANTS
  Streams = {"stdout", "stderr"}
  MaxLine = 2
  Runs <- MCRuns
SPECIFICATION FairSpec
INVARIANTS
  DescriptorThere
  EveryLineSurfaced
PROPERTIES
  EndsOnceItMay
  KeepsTheVerdicts
CHECK_DEADLOCK FALSE
