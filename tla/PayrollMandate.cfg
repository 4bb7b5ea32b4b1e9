SPECIFICATION Spec
CONSTANTS
  m1 = m1
  m2 = m2
  Ana = Ana
  Ben = Ben
  NoTerms = NoTerms
  MandateIds = {m1, m2}
  Addresses = {Ana, Ben}
  Offers <- MCOffers
  Amounts = {1, 2}
  Splits <- MCSplits
  Horizon = 2
  MaxStreams = 2
  MAX_U64 = 4
  BPS_DENOMINATOR = 4
INVARIANTS
  TypeOK
  CommittedIsOwed
  WagesStayPayable
  NeverAheadOfAccrual
  FundsConserved
PROPERTIES
  FloorsBindTheWagePaid
  RevokedOnlySettles
  EscrowSpec
CHECK_DEADLOCK FALSE
