SPECIFICATION Spec
CONSTANTS
  s1 = s1
  s2 = s2
  b1 = b1
  p1 = p1
  e1 = e1
  r1 = r1
  r2 = r2
  c1 = c1
  None = None
  Sessions <- TwoSessions
  Bookings <- OneBooking
  Packages = {}
  Extras = {}
  Requests <- OneRequest
  Crons <- OneCron
  PAYMENT_HOLD = 1
  PAYMENT_EXTENSION = 1
  PAYMENT_EXTEND_THRESHOLD = 1
  RECONCILE_MIN_AGE = 0
  MAX_PAYMENT_HOLD_EXTENSIONS = 1
  MaxRestarts = 1
INVARIANT TypeOK
PROPERTY ClosedStaysClosed
PROPERTY KeepsDelivery
PROPERTY PaidIsDelivered
SYMMETRY Symmetry
