---------------------------- MODULE MCFrontOffice ----------------------------
(* FrontOffice, for TLC. *)
EXTENDS FrontOffice

CONSTANTS a, b, r1, e1, x, y

\* What each tab's member types.
MCNotes == [t \in Tabs |-> IF t = 1 THEN {x} ELSE {y}]
=============================================================================
