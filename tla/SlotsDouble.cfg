SPECIFICATION Spec
CONSTANTS
  q1 = q1
  w1 = w1
  Bookings = {1, 2}
  LastHour = 2
  Plan = {1, 2}
  Branch = {1, 2}
  Students <- OneStudent
  Staff <- OneOfStaff
INVARIANT NoDoubleBooking
