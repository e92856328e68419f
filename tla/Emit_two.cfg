SPECIFICATION Spec
CONSTANTS
  r1 = r1
  r2 = r2
  Runs = {r1, r2}
  Attempts = 2
  Nothing = Nothing
  Before = Before
  Litter = Litter
  Link = Link
  Overlapping = TRUE
SYMMETRY Alike
INVARIANTS WholeOrNotAtAll LitterIsOfTheKilledOrUnheard
PROPERTIES FailureLeavesThePath ModeAndLinkKept
CHECK_DEADLOCK FALSE
