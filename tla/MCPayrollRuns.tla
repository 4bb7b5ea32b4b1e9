---------------------------- MODULE MCPayrollRuns ----------------------------
(***************************************************************************)
(* Instance values for PayrollRuns: an employee with two mandates, a       *)
(* colleague with one, and overtime raised under a mandate, under none,    *)
(* and by the colleague.                                                   *)
(***************************************************************************)
EXTENDS PayrollRuns

CONSTANTS r1, r2, Ana, Ben, m1, m2, m3, o1, o2, o3, l1

MCEmployeeOf == [m \in Mandates |-> IF m = m3 THEN Ben ELSE Ana]

MCWorker == [x \in Overtime \cup Leave |-> IF x = o3 THEN Ben ELSE Ana]

MCRaisedUnder == [c \in Overtime |-> IF c = o1 THEN m1 ELSE None]
=============================================================================
