SPECIFICATION Spec
CONSTANTS
  first = first
  second = second
  shared = shared
  layoutA = layoutA
  layoutB = layoutB
  Runs = {first, second}
  Places = {shared, layoutA, layoutB}
  Set <- Crossed
  Attempts = 2
  Littered <- Leftover
  Nothing = Nothing
  Theirs = Theirs
INVARIANTS WholeFiles NeverALayoutAlone TheWholeSetOrNone
PROPERTIES NothingIsReplaced
CHECK_DEADLOCK FALSE
