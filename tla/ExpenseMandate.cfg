SPECIFICATION Spec
CONSTANTS
  m1 = m1
  m2 = m2
  Ana = Ana
  Ben = Ben
  NoTerms = NoTerms
  MandateIds = {m1, m2}
  Addresses = {Ana, Ben}
  Offers <- MCOffers
  Amounts = {0, 1, 2, 3}
  Horizon = 3
  MAX_U64 = 4
INVARIANTS
  TypeOK
  FundsRecoverable
  FundsConserved
PROPERTIES
  ClosedStaysClosed
  EscrowSpec
CHECK_DEADLOCK FALSE
