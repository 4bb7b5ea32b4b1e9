SPECIFICATION Spec
CONSTANTS
  h1 = h1
  h2 = h2
  h3 = h3
  None = None
  Handlers = {h1, h2}
  Figures = {10, 20}
  Currency = "USDC"
  MaxQuotes = 0
  MaxCap = 1
SYMMETRY MCSymmetry
INVARIANTS
  ApprovedFiguresWereJudged
CHECK_DEADLOCK FALSE
