---------------------------- MODULE MCCloudStorage ---------------------------
(* An instance of CloudStorage for TLC: scalars modulo a small prime.        *)
EXTENDS CloudStorage

CONSTANT Order

MCScalars == 0..(Order - 1)
MCPlus(a, b) == (a + b) % Order
MCTimes(a, b) == (a * b) % Order
MCMinus(a) == (-a) % Order
MCModInverse(a) == CHOOSE b \in MCScalars : (a * b) % Order = 1

\* A digest of its own for every point.
MCSum256(p) == [point |-> p]

MCCells == {0, 1}
MCSizes == 1..5
MCBlockSizes == {1, 2}

\* Blocks of two cells collide.
MCDigest(data) == (data[1] + 2 * data[Len(data)]) % Order
=============================================================================
