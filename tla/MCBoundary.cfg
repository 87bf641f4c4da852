SPECIFICATION BoundarySpec
CONSTANTS
  c1 = c1
  c2 = c2
  Clients = {c1, c2}
  Messages <- MCMessages
  MinInt <- MCMin
  MaxInt = 1000
SYMMETRY Symmetry
INVARIANTS BoundaryTypeOK NeverBeyondBoth BoundaryInv
