SPECIFICATION Spec
CONSTANTS
  p1 = p1
  p2 = p2
  b1 = b1
  b2 = b2
  r1 = r1
  r2 = r2
  None = None
  Packages <- TwoPackages
  Lessons <- OneAndTwo
  Orders = {1, 2}
  Extras = {1}
  ExtraLessons = 1
  Bookings <- TwoBookings
  Requests <- TwoRequests
  Lengths = {2}
  Sales <- NoneOrAll
  Unordered <- OnePackage
  Typed <- TwoLessons
INVARIANT TypeOK
INVARIANT HeldUnitsAreBooked
INVARIANT ExtrasAccountedFor
PROPERTY BooksOnlyWhatIsLeft
PROPERTY ProfileStaysHeld
SYMMETRY Symmetry
