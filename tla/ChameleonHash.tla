---------------------------- MODULE ChameleonHash ----------------------------
(***************************************************************************)
(* Package chash over the scalars of Curve.  A hash of the message m under *)
(* the public key Y is the digest of the point m*GT + e(Y, R).  Whoever    *)
(* knows the key x of Y can find, for any other message, an R that gives   *)
(* the same hash.                                                          *)
(***************************************************************************)
EXTENDS Curve

CONSTANT Sum256(_)   \* SHA-256 of a point

\* No two points are found to have one digest.
ASSUME NoDigestCollision ==
  \A p1, p2 \in Scalars : Sum256(p1) = Sum256(p2) => p1 = p2

\* Faulty variant: the message is left out.
ComputeHashOfKey(Y, R, m) == Sum256(Pair(Y, R))

ComputeHash(Y, R, m) == Sum256(AddPoints(ScalarBaseMult(m), Pair(Y, R)))

Verify(target, Y, R, m) == ComputeHash(Y, R, m) = target

\* Faulty variant: the difference is not divided by the key.
CollisionScalarUndivided(x, r, m, mp) ==
  Plus(Plus(Times(x, r), m), Minus(mp))

\* The rp with m + x*r = mp + x*rp.  The program leaves it unreduced, which no
\* use of it can tell.
CollisionScalar(x, r, m, mp) ==
  Times(Plus(Plus(Times(x, r), m), Minus(mp)), ModInverse(x))

\* R of a scalar r.
RandomPoint(r) == ScalarBaseMult(r)

ComputeCollision(Y, x, r, m, mp) ==
  LET rp == CollisionScalar(x, r, m, mp)
  IN  [hash |-> ComputeHash(Y, RandomPoint(rp), mp), r |-> rp]
=============================================================================
