----------------------------- MODULE MCThreeParty ----------------------------
(* Instances of ThreeParty for TLC: two receivers.                           *)
EXTENDS ThreeParty

CONSTANTS b1, b2

MCBobs == {b1, b2}
=============================================================================
