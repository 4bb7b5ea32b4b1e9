SPECIFICATION FairSpec
CONSTANTS
  h1 = h1
  h2 = h2
  h3 = h3
  None = None
  Handlers = {h1, h2}
  Figures = {10}
  Currency = "USDC"
  MaxQuotes = 0
  MaxCap = 2
PROPERTIES
  ReconciledEventually
CHECK_DEADLOCK FALSE
