---------------------------- MODULE MCClaimPayment ----------------------------
(***************************************************************************)
(* ClaimPayment for TLC: the request handlers are interchangeable.         *)
(***************************************************************************)
EXTENDS ClaimPayment, TLC

CONSTANTS h1, h2, h3

MCSymmetry == Permutations(Handlers)
=============================================================================
