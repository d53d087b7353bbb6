SPECIFICATION Spec
CONSTANTS
  q1 = q1
  Price = 2
  MaxRows = 2
  MaxOut = 0
  Requests <- OneRequest
PROPERTY CardIncomeKept
PROPERTY EditBalancesLedger
