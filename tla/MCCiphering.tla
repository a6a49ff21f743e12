----------------------------- MODULE MCCiphering -----------------------------
(* An instance of Ciphering for TLC: lengths around the bounds of a block.   *)
EXTENDS Ciphering

CONSTANTS k1, k2

MCKeys == {k1, k2}

\* The bytes end in what could be taken for a padding, and in what could not.
MCPlaintexts ==
  {[j \in 1..n |-> byte] : n \in {0, 1, 15, 16, 17, 32}, byte \in {1, 200}}
=============================================================================
