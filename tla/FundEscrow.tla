----------------------------- MODULE FundEscrow -----------------------------
(***************************************************************************)
(* What an on-chain mandate promises about money, whatever its rules for   *)
(* who may be paid: a coin is locked once, and from then on every unit of  *)
(* it is free, promised to a payee, paid out, or returned to the funder.   *)
(* No step creates or destroys a unit, and a promised unit can only leave  *)
(* by being paid.  The payroll and the expense mandate implement this.     *)
(***************************************************************************)
EXTENDS Integers

CONSTANTS
  Escrows,
  Amounts   \* what one step can move

VARIABLES
  free,       \* spendable at the owner's discretion
  promised,   \* set aside for a payee; the owner can no longer take it back
  paid,       \* gone to payees
  returned    \* gone back to the funder

vars == <<free, promised, paid, returned>>

Locked(e) == free[e] + promised[e]
Total(e) == Locked(e) + paid[e] + returned[e]

TypeOK ==
  /\ free \in [Escrows -> Nat]
  /\ promised \in [Escrows -> Nat]
  /\ paid \in [Escrows -> Nat]
  /\ returned \in [Escrows -> Nat]

Init ==
  /\ free = [e \in Escrows |-> 0]
  /\ promised = [e \in Escrows |-> 0]
  /\ paid = [e \in Escrows |-> 0]
  /\ returned = [e \in Escrows |-> 0]

\* Lock a coin of value a.  An escrow is never topped up.
Fund(e, a) ==
  /\ a > 0 /\ Total(e) = 0
  /\ free' = [free EXCEPT ![e] = a]
  /\ UNCHANGED <<promised, paid, returned>>

\* Pay out of the free money.
Pay(e, a) ==
  /\ 0 < a /\ a <= free[e]
  /\ free' = [free EXCEPT ![e] = @ - a]
  /\ paid' = [paid EXCEPT ![e] = @ + a]
  /\ UNCHANGED <<promised, returned>>

\* Set free money aside for a payee.
Promise(e, a) ==
  /\ 0 < a /\ a <= free[e]
  /\ free' = [free EXCEPT ![e] = @ - a]
  /\ promised' = [promised EXCEPT ![e] = @ + a]
  /\ UNCHANGED <<paid, returned>>

\* Pay out of what was set aside.
Redeem(e, a) ==
  /\ 0 < a /\ a <= promised[e]
  /\ promised' = [promised EXCEPT ![e] = @ - a]
  /\ paid' = [paid EXCEPT ![e] = @ + a]
  /\ UNCHANGED <<free, returned>>

\* Hand the funder all that is not promised.
Return(e) ==
  /\ free[e] > 0
  /\ free' = [free EXCEPT ![e] = 0]
  /\ returned' = [returned EXCEPT ![e] = @ + free[e]]
  /\ UNCHANGED <<promised, paid>>

Next ==
  \E e \in Escrows :
     \/ Return(e)
     \/ \E a \in Amounts : Fund(e, a) \/ Pay(e, a) \/ Promise(e, a) \/ Redeem(e, a)

Spec == Init /\ [][Next]_vars
=============================================================================
