-------------------------------- MODULE Curve --------------------------------
(***************************************************************************)
(* The points of package curve by their discrete logarithms.  G1, G2 and   *)
(* GT are cyclic groups of the same prime order, so a point k*G is the     *)
(* scalar k of the field of that order, in each of the three; the pairing  *)
(* multiplies the scalars of its arguments.  The arithmetic of the bn256   *)
(* library under the package is its field, which is left open here: a set  *)
(* of scalars with operations that satisfy the laws of a field.            *)
(***************************************************************************)
CONSTANTS
  Scalars,      \* the integers modulo curve.Order
  Zero, One,
  Plus(_, _), Times(_, _),
  Minus(_),     \* the additive inverse
  ModInverse(_) \* the multiplicative inverse

\* RandomFieldElement returns a non-zero scalar.
FieldElements == Scalars \ {Zero}

ASSUME ScalarsClosed ==
  /\ Zero \in Scalars /\ One \in FieldElements
  /\ \A x, y \in Scalars : Plus(x, y) \in Scalars /\ Times(x, y) \in Scalars
  /\ \A x \in Scalars : Minus(x) \in Scalars
  /\ \A x \in FieldElements : ModInverse(x) \in FieldElements

ASSUME PlusLaws ==
  /\ \A x, y \in Scalars : Plus(x, y) = Plus(y, x)
  /\ \A x, y, z \in Scalars : Plus(Plus(x, y), z) = Plus(x, Plus(y, z))
  /\ \A x \in Scalars : Plus(x, Zero) = x /\ Plus(x, Minus(x)) = Zero

ASSUME TimesLaws ==
  /\ \A x, y \in Scalars : Times(x, y) = Times(y, x)
  /\ \A x, y, z \in Scalars : Times(Times(x, y), z) = Times(x, Times(y, z))
  /\ \A x \in Scalars : Times(x, One) = x
  /\ \A x \in FieldElements : Times(x, ModInverse(x)) = One

ASSUME Distributes ==
  \A x, y, z \in Scalars : Times(x, Plus(y, z)) = Plus(Times(x, y), Times(x, z))

\* The methods of G1, G2 and GT.
ScalarBaseMult(k) == k
ScalarMult(point, k) == Times(point, k)
AddPoints(p1, p2) == Plus(p1, p2)
NegPoint(point) == Minus(point)
Pair(g1, g2) == Times(g1, g2)
=============================================================================
