SPECIFICATION Spec
CONSTANTS
  h1 = h1
  h2 = h2
  h3 = h3
  None = None
  Handlers = {h1, h2}
  Figures = {10}
  Currency = "MYR"
  MaxQuotes = 2
  MaxCap = 1
SYMMETRY MCSymmetry
INVARIANTS
  PaidTheRowAmount
CHECK_DEADLOCK FALSE
