---------------------------- MODULE MCBackOffice ----------------------------
(* BackOffice, for TLC. *)
EXTENDS BackOffice, TLC

CONSTANTS b1, b2, q1, q2, f, day, w, x, y

MCClasses == {[age |-> 30, citizenship |-> "local"], [age |-> 60, citizenship |-> "local"],
              [age |-> 30, citizenship |-> "foreign"]}

MCAsks == {[kind |-> "overtime", day |-> day]}

\* The employee's form sends twice and reads no list; a queue does both once.
MCTurns == [c \in (Forms \cup Queues) \X {"list", "act"} |->
             IF c[1] \in Forms THEN IF c[2] = "list" THEN 0 ELSE 2 ELSE 1]

\* A payroll page may name a transaction that is not the one registered: there
\* must be two.  A third registration of a treasury may find the events of two.
MCScope == [treasury |-> [fundings |-> {1}, requests |-> Requests],
            payroll |-> [fundings |-> Fundings, requests |-> {1, 2}]]

\* The balance screens are interchangeable, and so are the approval queues and the
\* names of an event.
MCSymmetry == Permutations(Balances) \cup Permutations(Queues) \cup Permutations(Names)
=============================================================================
