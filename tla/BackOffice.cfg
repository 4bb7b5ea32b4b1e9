SPECIFICATION BackSpec
CONSTANTS
  None = None
  Desks = {1}
  Openings = {1, 2}
  Totals = {5}
  Duration = 2
  MaxPerRun = 7
  Expiry = 3
  b1 = b1
  b2 = b2
  Balances = {b1, b2}
  Draws = 2
  Horizon = 2
  Readings = {0, 1, 2, 3}
  Ringgit = 200
  Wages = {4000, 13201, 1200100}
  Classes <- MCClasses
  DaysOff = {0, 4}
  Overtimes = {0, 1, 1217, 2857}
  Leaves = {0, 3200}
  Rates = {190, 221}
  RateScale = 100
  SetupRate = 221
  Budget = 24000
  Commits = {4000}
  Runs = 2
  MaxChanges = 2
  q1 = q1
  q2 = q2
  Queues = {q1, q2}
  f = f
  Forms = {f}
  day = day
  Asks <- MCAsks
  Items = {1, 2}
  MaxRestarts = 1
  MaxTurns <- MCTurns
  w = w
  Windows = {w}
  Fundings = {1, 2}
  Requests = {1, 2, 3}
  Scope <- MCScope
  People = {1, 2}
  x = x
  y = y
  Names = {x, y}
  MaxFaults = 2
INVARIANTS
  RefusedOpenedNothing
  RegistryNamesTheStream
  OfferIsWhatTheContractPays
  SignedRunsMeetTheFloors
  RecordedIsKept
  LiveIsWhole
SYMMETRY MCSymmetry
CHECK_DEADLOCK FALSE
