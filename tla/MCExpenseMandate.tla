--------------------------- MODULE MCExpenseMandate ---------------------------
(***************************************************************************)
(* Instance values for ExpenseMandate: a mandate one claim may empty, one  *)
(* that takes several claims, and offers that each miss one of the terms.  *)
(***************************************************************************)
EXTENDS ExpenseMandate

CONSTANTS Ana, Ben, m1, m2

MCOffer(funded, max, expiry, recipients) ==
  [initial_budget |-> funded, max_per_claim |-> max, expiry_ms |-> expiry,
   approved_recipients |-> recipients]

MCOffers ==
  {MCOffer(4, 2, 2, {Ana}), MCOffer(3, 3, 1, {Ana, Ben}), MCOffer(2, 3, 2, {Ana}),
   MCOffer(0, 0, 2, {Ana}), MCOffer(4, 2, 2, {})}
=============================================================================
