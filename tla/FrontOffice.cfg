SPECIFICATION FrontSpec
CONSTANTS
  None = None
  a = a
  b = b
  Wallets = {a, b}
  First = a
  Second = b
  Tabs = {1, 2}
  r1 = r1
  Receipts = {r1}
  e1 = e1
  Expenses = {e1}
  x = x
  y = y
  Notes <- MCNotes
  Requests = {1, 2}
  Drafts = {1, 2}
  Claims = {1, 2}
  MaxReturns = 1
  Snap = {1}
  ByHand = {2}
  Movers = {1}
  Employer = a
  Employee = b
  Treasurer = b
  Roster = {a}
  SignIns = {1, 2}
  Copies = {1, 2}
  Deletes = {1, 2}
  Resent = {1}
  MaxSwitches = 2
  Earlier = Earlier
  ShortLived = {Earlier}
INVARIANTS
  OneClaimPerReceipt
  SubmittedIsWhatWasSent
  ClaimHasItsImage
  BusyIsWaiting
  OneSessionPerChallenge
  ActsAsShown
  
  ScreenFollowsWallet
CHECK_DEADLOCK FALSE
