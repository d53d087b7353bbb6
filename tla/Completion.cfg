SPECIFICATION Spec
CONSTANTS
  b1 = b1
  p1 = p1
  p2 = p2
  q1 = q1
  q2 = q2
  Bookings <- OneBooking
  Passes <- TwoPasses
  Cron = p1
  Requests <- TwoRequests
  MaxChanges = 3
INVARIANT TypeOK
PROPERTY Settles
