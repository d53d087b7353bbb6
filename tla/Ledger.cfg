SPECIFICATION Spec
CONSTANTS
  q1 = q1
  Price = 2
  MaxRows = 1
  MaxOut = 2
  Requests <- OneRequest
INVARIANT TypeOK
PROPERTY CancellationWithinIncome
PROPERTY RefundedOncePerRef
PROPERTY CancellationPaysBack
