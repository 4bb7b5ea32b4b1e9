SPECIFICATION Spec
CONSTANTS
  h1 = h1
  h2 = h2
  h3 = h3
  None = None
  Handlers = {h1, h2, h3}
  Figures = {10, 20}
  Currency = "MYR"
  MaxQuotes = 2
  MaxCap = 2
SYMMETRY MCSymmetry
INVARIANTS
  TypeOK
  RinggitNeedsApproval
  ApprovedFiguresWereJudged
PROPERTIES
  RejectedIsFinal
CHECK_DEADLOCK FALSE
