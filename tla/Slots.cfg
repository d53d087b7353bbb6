SPECIFICATION Spec
CONSTANTS
  q1 = q1
  w1 = w1
  Bookings = {1, 2}
  LastHour = 3
  Plan = {1, 3}
  Branch = {1, 3}
  Students <- OneStudent
  Staff <- OneOfStaff
INVARIANT TypeOK
INVARIANT UntouchedHoldsItsHours
PROPERTY KeepsCalendar
