SPECIFICATION Spec
CONSTANTS
  r1 = r1
  r2 = r2
  r3 = r3
  Runs = {r1, r2, r3}
  Attempts = 1
  Nothing = Nothing
  Before = Before
  Litter = Litter
  Link = Link
  Overlapping = TRUE
SYMMETRY Alike
INVARIANTS WholeOrNotAtAll
CHECK_DEADLOCK FALSE
