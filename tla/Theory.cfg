SPECIFICATION Spec
CONSTANTS
  c1 = c1
  s1 = s1
  s2 = s2
  b1 = b1
  b2 = b2
  r1 = r1
  None = None
  Cohorts <- OneCohort
  Students <- TwoStudents
  Bookings <- TwoBookings
  Requests <- OneRequest
  Seats = {1}
  Plans <- ThreePlans
  LastDay = 1
  WeekLength = 2
INVARIANT TypeOK
INVARIANT ConfirmedIsEnrolled
PROPERTY HistoryKept
PROPERTY SessionsToComeKept
PROPERTY EnrolmentFits
SYMMETRY Symmetry
CHECK_DEADLOCK FALSE
