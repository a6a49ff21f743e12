------------------------------- MODULE MCOtPre -------------------------------
(* An instance of OtPre for TLC: the integers modulo a small prime.          *)
EXTENDS OtPre, Integers

CONSTANT Order

MCScalars == 0..(Order - 1)
MCPlus(x, y) == (x + y) % Order
MCTimes(x, y) == (x * y) % Order
MCMinus(x) == (-x) % Order
MCModInverse(x) == CHOOSE y \in MCScalars : (x * y) % Order = 1
MCFiles == {1, 2}

\* A hash into the non-zero scalars; 0 and 1 collide.
MCDerive(x) == IF x = 0 THEN 1 ELSE x
=============================================================================
