--------------------------- MODULE MCPayrollMandate ---------------------------
(***************************************************************************)
(* Instance values for PayrollMandate: amounts of a few units, floors of   *)
(* one half (2 of 4), and offers that each miss one of the terms.          *)
(***************************************************************************)
EXTENDS PayrollMandate

CONSTANTS Ana, Ben, m1, m2

MCOffer(funded, min, cap, net, max, expiry) ==
  [funded |-> funded, approved_employees |-> {Ana}, statutory_recipients |-> 1,
   statutory_min_bps |-> <<min>>, statutory_wage_cap |-> <<cap>>,
   net_min_bps |-> net, max_per_run |-> max, expiry_ms |-> expiry]

MCOffers ==
  {MCOffer(4, 4, 0, 2, 3, 2), MCOffer(3, 2, 1, 2, 2, 1), MCOffer(4, 0, 0, 2, 3, 2)}

MCSplits == {<<1>>, <<1, 1>>}
=============================================================================
