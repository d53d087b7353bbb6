SPECIFICATION Spec
CONSTANTS
  x = x
  y = y
  w1 = w1
  w2 = w2
  None = None
  Branches <- TwoBranches
  Staff <- TwoStaff
  Shifts = {1, 2}
  Lines = {1}
  DayLength = 4
  SecondLength = 2
  MaxTime = 6
INVARIANT TypeOK
INVARIANT OneOpenPerBranch
INVARIANT FuelCountedOnce
INVARIANT CountsItsEntries
PROPERTY ClosedStaysAsCounted
SYMMETRY Symmetry
CHECK_DEADLOCK FALSE
