SPECIFICATION Spec
CONSTANTS
  None = None
  r1 = r1
  r2 = r2
  Ana = Ana
  Ben = Ben
  m1 = m1
  m2 = m2
  m3 = m3
  o1 = o1
  o2 = o2
  o3 = o3
  l1 = l1
  Runs = {r1, r2}
  Overtime = {o1, o2, o3}
  Leave = {l1}
  Mandates = {m1, m2, m3}
  Employees = {Ana, Ben}
  EmployeeOf <- MCEmployeeOf
  Worker <- MCWorker
  RaisedUnder <- MCRaisedUnder
INVARIANTS
  StampedByTheRunThatPaid
CHECK_DEADLOCK FALSE
