----------------------------- MODULE OtPre_proofs ----------------------------
(***************************************************************************)
(* Proofs about OtPre, for any field of scalars, any set of files and any  *)
(* hash of points: Bob opens the file he chose and no other, and Alice     *)
(* opens them all.  What the operators of ot and pre compute comes first,  *)
(* from the laws of scalars, then the induction over the exchange.         *)
(***************************************************************************)
EXTENDS OtPre, TLAPS

----------------------------------------------------------------------------
(* The laws of scalars                                                     *)

\* A non-zero factor cancels.
LEMMA CancelFactor ==
  ASSUME NEW x \in FieldElements, NEW y \in Scalars, NEW z \in Scalars,
         Times(x, y) = Times(x, z)
  PROVE  y = z
<1> DEFINE ix == ModInverse(x)
<1>1. x \in Scalars /\ ix \in Scalars
  BY ScalarsClosed DEF FieldElements
<1>2. ASSUME NEW w \in Scalars PROVE Times(ix, Times(x, w)) = w
  <2>1. Times(ix, Times(x, w)) = Times(Times(ix, x), w)
    BY <1>1, TimesLaws
  <2>2. Times(ix, x) = One
    BY <1>1, TimesLaws
  <2>3. Times(One, w) = w
    BY ScalarsClosed, TimesLaws DEF FieldElements
  <2>4. QED
    BY <2>1, <2>2, <2>3
<1>3. QED
  BY <1>2

\* Dividing by a factor undoes the multiplication by it.
LEMMA Divide ==
  ASSUME NEW x \in FieldElements, NEW y \in Scalars
  PROVE  Times(Times(x, y), ModInverse(x)) = y
<1>1. x \in Scalars /\ ModInverse(x) \in Scalars
  BY ScalarsClosed DEF FieldElements
<1>2. Times(Times(x, y), ModInverse(x)) = Times(Times(y, x), ModInverse(x))
  BY <1>1, TimesLaws
<1>3. Times(Times(y, x), ModInverse(x)) = Times(y, Times(x, ModInverse(x)))
  BY <1>1, TimesLaws
<1>4. QED
  BY <1>2, <1>3, TimesLaws

\* A difference is zero exactly when its terms are equal.
LEMMA ZeroDifference ==
  ASSUME NEW x \in Scalars, NEW y \in Scalars
  PROVE  Plus(x, Minus(y)) = Zero <=> x = y
<1>1. Minus(y) \in Scalars /\ Zero \in Scalars
  BY ScalarsClosed
<1>2. ASSUME Plus(x, Minus(y)) = Zero PROVE x = y
  <2>1. Plus(Plus(x, Minus(y)), y) = Plus(x, Plus(Minus(y), y))
    BY <1>1, PlusLaws
  <2>2. Plus(Minus(y), y) = Zero
    BY <1>1, PlusLaws
  <2>3. Plus(Zero, y) = y
    BY <1>1, PlusLaws
  <2>4. QED
    BY <1>2, <2>1, <2>2, <2>3, PlusLaws
<1>3. QED
  BY <1>2, PlusLaws

\* A term that occurs on both sides of an equation cancels.
LEMMA CancelTerm ==
  ASSUME NEW x \in Scalars, NEW y \in Scalars
  PROVE  Plus(x, y) = y <=> x = Zero
<1>1. Minus(y) \in Scalars /\ Zero \in Scalars
  BY ScalarsClosed
<1>2. ASSUME Plus(x, y) = y PROVE x = Zero
  <2>1. Plus(Plus(x, y), Minus(y)) = Plus(x, Plus(y, Minus(y)))
    BY <1>1, PlusLaws
  <2>2. Plus(y, Minus(y)) = Zero /\ Plus(x, Zero) = x
    BY <1>1, PlusLaws
  <2>3. QED
    BY <1>2, <2>1, <2>2
<1>3. ASSUME x = Zero PROVE Plus(x, y) = y
  BY <1>1, <1>3, PlusLaws
<1>4. QED
  BY <1>2, <1>3

----------------------------------------------------------------------------
(* Packages ot and pre                                                     *)

\* The key point of file i is the one Bob reveals, t*l*pkB, exactly when i is
\* the sealed choice: the rest of it is t*(choice - i)*pkA.
LEMMA KeyPointMatches ==
  ASSUME NEW a \in FieldElements, NEW b \in FieldElements,
         NEW choice \in Scalars, NEW i \in Scalars,
         NEW s \in FieldElements, NEW h \in Scalars,
         skA = a, skB = b
  PROVE  KeyPoint(s, SealedY(choice, h), i) =
           RevealKeyPoint(ScalarMult(SealedL(h), s), b) <=> i = choice
<1>1. /\ a \in Scalars /\ b \in Scalars /\ s \in Scalars /\ h \in Scalars
  BY DEF FieldElements
<1> DEFINE own == Times(Times(a, choice), s)   \* what pkA adds to Y*t
           hid == Times(Times(b, h), s)        \* what pkB adds to Y*t
           sub == Times(a, Times(i, s))        \* what is subtracted for i
<1>2. /\ Times(a, choice) \in Scalars /\ Times(b, h) \in Scalars
      /\ own \in Scalars /\ hid \in Scalars
      /\ Times(i, s) \in Scalars /\ sub \in Scalars /\ Minus(sub) \in Scalars
  BY <1>1, ScalarsClosed
<1>3. KeyPoint(s, SealedY(choice, h), i) = Plus(Plus(own, Minus(sub)), hid)
  <2>1. KeyPoint(s, SealedY(choice, h), i) =
          Plus(Times(Plus(Times(a, choice), Times(b, h)), s), Minus(sub))
    BY DEF KeyPoint, SealedY, AddPoints, NegPoint, ScalarMult, ScalarBaseMult,
           pkA, pkB
  <2>2. Times(Plus(Times(a, choice), Times(b, h)), s) = Plus(own, hid)
    <3>1. Times(Plus(Times(a, choice), Times(b, h)), s) =
            Times(s, Plus(Times(a, choice), Times(b, h)))
      BY <1>1, <1>2, ScalarsClosed, TimesLaws
    <3>2. @ = Plus(Times(s, Times(a, choice)), Times(s, Times(b, h)))
      BY <1>1, <1>2, Distributes
    <3>3. QED
      BY <1>1, <1>2, <3>1, <3>2, TimesLaws
  <2>3. Plus(Plus(own, hid), Minus(sub)) = Plus(own, Plus(hid, Minus(sub)))
    BY <1>2, PlusLaws
  <2>4. @ = Plus(own, Plus(Minus(sub), hid))
    BY <1>2, PlusLaws
  <2>5. @ = Plus(Plus(own, Minus(sub)), hid)
    BY <1>2, PlusLaws
  <2>6. QED
    BY <2>1, <2>2, <2>3, <2>4, <2>5
<1>4. RevealKeyPoint(ScalarMult(SealedL(h), s), b) = hid
  <2>1. RevealKeyPoint(ScalarMult(SealedL(h), s), b) = Times(Times(h, s), b)
    BY DEF RevealKeyPoint, ScalarMult, SealedL, ScalarBaseMult
  <2>2. @ = Times(b, Times(h, s))
    BY <1>1, ScalarsClosed, TimesLaws
  <2>3. @ = hid
    BY <1>1, TimesLaws
  <2>4. QED
    BY <2>1, <2>2, <2>3
<1>5. KeyPoint(s, SealedY(choice, h), i) =
        RevealKeyPoint(ScalarMult(SealedL(h), s), b) <=> own = sub
  <2>1. Plus(own, Minus(sub)) \in Scalars
    BY <1>2, ScalarsClosed
  <2>2. Plus(Plus(own, Minus(sub)), hid) = hid <=> Plus(own, Minus(sub)) = Zero
    BY <1>2, <2>1, CancelTerm
  <2>3. Plus(own, Minus(sub)) = Zero <=> own = sub
    BY <1>2, ZeroDifference
  <2>4. QED
    BY <1>3, <1>4, <2>2, <2>3
<1>6. own = Times(a, Times(s, choice)) /\ sub = Times(a, Times(s, i))
  BY <1>1, <1>2, TimesLaws
<1>7. own = sub <=> choice = i
  <2>1. Times(s, choice) \in Scalars /\ Times(s, i) \in Scalars
    BY <1>1, ScalarsClosed
  <2>2. ASSUME own = sub PROVE choice = i
    <3>1. Times(s, choice) = Times(s, i)
      BY <1>6, <2>1, <2>2, CancelFactor
    <3>2. QED
      BY <3>1, CancelFactor
  <2>3. QED
    BY <1>6, <2>2
<1>8. QED
  BY <1>5, <1>7

\* A re-encrypted key decrypts, under a scalar k, to the key of the file exactly
\* when k is the scalar its re-encryption key was made for.
LEMMA ReEncryptedOpens ==
  ASSUME NEW a \in FieldElements, NEW s \in FieldElements,
         NEW d \in FieldElements, NEW k \in FieldElements, skA = a
  PROVE  DecryptByReceiver(ReEncrypt(Encrypt(pkA, s), GenerateReKey(a, d)), k)
           = FileKey(s) <=> d = k
<1> DEFINE ia == ModInverse(a)
           ik == ModInverse(k)
<1>1. /\ a \in Scalars /\ s \in Scalars /\ d \in Scalars /\ k \in Scalars
      /\ ia \in Scalars /\ ik \in FieldElements /\ ik \in Scalars
  BY ScalarsClosed DEF FieldElements
<1>2. Times(Times(a, s), Times(d, ia)) = Times(s, d)
  <2>1. Times(a, s) \in Scalars /\ Times(s, d) \in Scalars
    BY <1>1, ScalarsClosed
  <2>2. Times(Times(a, s), Times(d, ia)) = Times(Times(Times(a, s), d), ia)
    BY <1>1, <2>1, TimesLaws
  <2>3. Times(Times(a, s), d) = Times(a, Times(s, d))
    BY <1>1, TimesLaws
  <2>4. QED
    BY <2>1, <2>2, <2>3, Divide
<1>3. DecryptByReceiver(ReEncrypt(Encrypt(pkA, s), GenerateReKey(a, d)), k)
        = Times(Times(s, d), ik)
  BY <1>2 DEF DecryptByReceiver, ReEncrypt, Encrypt, GenerateReKey, ScalarMult,
              ScalarBaseMult, Pair, pkA
<1>4. Times(Times(s, d), ik) = Times(s, Times(d, ik))
  BY <1>1, TimesLaws
<1>5. Times(s, Times(d, ik)) = s <=> Times(d, ik) = One
  <2>1. Times(s, One) = s /\ One \in Scalars /\ Times(d, ik) \in Scalars
    BY <1>1, ScalarsClosed, TimesLaws DEF FieldElements
  <2>2. QED
    BY <2>1, CancelFactor
<1>6. Times(d, ik) = One <=> d = k
  <2>1. Times(ik, k) = One /\ Times(ik, d) = Times(d, ik)
    BY <1>1, TimesLaws
  <2>2. QED
    BY <1>1, <2>1, CancelFactor
<1>7. QED
  BY <1>3, <1>4, <1>5, <1>6 DEF FileKey, ScalarBaseMult

\* The owner's decryption recovers the key of a file.
LEMMA OwnerDecrypts ==
  ASSUME NEW a \in FieldElements, NEW s \in FieldElements, skA = a
  PROVE  DecryptByOwner(Encrypt(pkA, s), a) = FileKey(s)
<1>1. s \in Scalars
  BY DEF FieldElements
<1>2. Times(Times(Times(a, s), ModInverse(a)), One) = s
  BY <1>1, Divide, TimesLaws
<1>3. QED
  BY <1>2 DEF DecryptByOwner, Encrypt, FileKey, Pair, ScalarMult,
              ScalarBaseMult, pkA
----------------------------------------------------------------------------
(* The exchange                                                            *)

\* What an operator of the exchange returns is a scalar.
LEMMA PointsAreScalars ==
  /\ \A x, y \in Scalars : ScalarMult(x, y) \in Scalars
  /\ \A x, y \in Scalars : ReEncrypt(x, y) \in Scalars
  /\ \A x \in Scalars, y \in FieldElements :
       GenerateReKey(y, x) \in Scalars /\ DecryptByReceiver(x, y) \in Scalars
  /\ skA \in Scalars /\ skB \in Scalars => \A x, y, z \in Scalars :
       SealedY(x, y) \in Scalars /\ KeyPoint(x, y, z) \in Scalars
BY ScalarsClosed
DEF ScalarMult, ScalarBaseMult, AddPoints, NegPoint, Pair, ReEncrypt,
    GenerateReKey, DecryptByReceiver, SealedY, KeyPoint, pkA, pkB, FieldElements

\* Before the exchange the invariant holds.
LEMMA InitExchange == Init => ExchangeInv
<1> SUFFICES ASSUME Init PROVE ExchangeInv
  OBVIOUS
<1> USE DEF Init
<1>1. Unset \in [Files -> Scalars]
  BY ScalarsClosed DEF Unset
<1>2. TypeOK
  BY <1>1, ScalarsClosed DEF TypeOK
<1>3. QED
  BY <1>2 DEF ExchangeInv, Encrypted, Sealed, PointsOut, Pointed, ReKeyed,
              ReEncrypted, Opened

\* Every step of the exchange preserves the invariant.
LEMMA NextExchange == ExchangeInv /\ [Next]_vars => ExchangeInv'
<1> SUFFICES ASSUME ExchangeInv, [Next]_vars PROVE ExchangeInv'
  OBVIOUS
<1> USE DEF aliceVars, choiceVars, pointVars
<1>1. /\ skA \in FieldElements /\ skB \in FieldElements
      /\ skA \in Scalars /\ skB \in Scalars /\ TypeOK
  BY DEF ExchangeInv, TypeOK, FieldElements
<1>2. CASE EncryptFiles
  <2> USE <1>2 DEF EncryptFiles
  <2>1. TypeOK'
    BY <1>1, PointsAreScalars
    DEF TypeOK, Encrypt, pkA, ScalarBaseMult, FieldElements
  <2>2. Encrypted'
    BY DEF Encrypted, pkA
  <2>3. QED
    BY <2>1, <2>2 DEF ExchangeInv, Sealed, PointsOut, Pointed, ReKeyed,
                      ReEncrypted, Opened
<1>3. CASE SealChoice
  <2> USE <1>3 DEF SealChoice
  <2>1. Unset \in [Files -> Scalars]
    BY ScalarsClosed DEF Unset
  <2>2. TypeOK'
    BY <1>1, <2>1, ScalarsClosed, PointsAreScalars
    DEF TypeOK, SealedL, ScalarBaseMult, FieldElements
  <2>3. Encrypted'
    BY DEF ExchangeInv, Encrypted, pkA
  <2>4. Sealed'
    BY DEF Sealed, SealedY, pkA, pkB
  <2>5. QED
    BY <2>2, <2>3, <2>4 DEF ExchangeInv, PointsOut, Pointed, ReKeyed,
                            ReEncrypted, Opened
<1>4. CASE CalculateKeyPoints
  <2> USE <1>4 DEF CalculateKeyPoints
  <2>1. TypeOK'
    BY <1>1, ExchangeAssumption, PointsAreScalars DEF TypeOK, FieldElements
  <2>2. Encrypted' /\ Sealed'
    BY DEF ExchangeInv, Encrypted, Sealed, SealedY, pkA, pkB
  <2>3. PointsOut'
    BY DEF PointsOut, KeyPoint, pkA
  <2>4. QED
    BY <2>1, <2>2, <2>3 DEF ExchangeInv, ReKeyed, ReEncrypted, Opened
<1>5. CASE GenerateReKeys
  <2> USE <1>5 DEF GenerateReKeys
  <2>1. TypeOK'
    BY <1>1, ExchangeAssumption, PointsAreScalars DEF TypeOK, FieldElements
  <2>2. Encrypted' /\ Sealed'
    BY DEF ExchangeInv, Encrypted, Sealed, SealedY, pkA, pkB
  <2>3. PointsOut'
    BY DEF ExchangeInv, PointsOut, Pointed, KeyPoint, pkA
  <2>4. ReKeyed'
    BY DEF ReKeyed
  <2>5. QED
    BY <2>1, <2>2, <2>3, <2>4 DEF ExchangeInv, ReEncrypted, Opened
<1>6. CASE ReEncryptFiles
  <2> USE <1>6 DEF ReEncryptFiles
  <2>1. TypeOK'
    BY <1>1, PointsAreScalars DEF TypeOK
  <2>2. Encrypted' /\ Sealed'
    BY DEF ExchangeInv, Encrypted, Sealed, SealedY, pkA, pkB
  <2>3. PointsOut'
    BY DEF ExchangeInv, PointsOut, Pointed, KeyPoint, pkA
  <2>4. ReKeyed' /\ ReEncrypted'
    BY DEF ExchangeInv, ReKeyed, ReEncrypted
  <2>5. QED
    BY <2>1, <2>2, <2>3, <2>4 DEF ExchangeInv, Opened
<1>7. CASE DecryptFiles
  <2> USE <1>7 DEF DecryptFiles
  <2>1. TypeOK'
    <3>1. RevealKeyPoint(LPrime, skB) \in Scalars
      BY <1>1, PointsAreScalars DEF TypeOK, RevealKeyPoint
    <3>2. \A i \in Files :
            DecryptByReceiver(APrimes[i], Derive(RevealKeyPoint(LPrime, skB)))
              \in Scalars
      BY <1>1, <3>1, ExchangeAssumption, PointsAreScalars DEF TypeOK
    <3>3. opened' \in [Files -> Scalars]
      BY <3>2
    <3>4. QED
      BY <1>1, <3>3 DEF TypeOK
  <2>2. Encrypted' /\ Sealed'
    BY DEF ExchangeInv, Encrypted, Sealed, SealedY, pkA, pkB
  <2>3. PointsOut'
    BY DEF ExchangeInv, PointsOut, Pointed, KeyPoint, pkA
  <2>4. ReKeyed' /\ ReEncrypted' /\ Opened'
    BY DEF ExchangeInv, ReKeyed, ReEncrypted, Opened
  <2>5. QED
    BY <2>1, <2>2, <2>3, <2>4 DEF ExchangeInv
<1>8. CASE UNCHANGED vars
  BY <1>8 DEF vars, ExchangeInv, TypeOK, Encrypted, Sealed, SealedY, PointsOut,
              Pointed, KeyPoint, ReKeyed, ReEncrypted, Opened, pkA, pkB
<1>9. QED
  BY <1>2, <1>3, <1>4, <1>5, <1>6, <1>7, <1>8 DEF Next

\* The values of the exchange are what ot.go and pre.go compute for its stage.
LEMMA ExchangeInvariance == Spec => []ExchangeInv
<1>1. QED
  BY InitExchange, NextExchange, PTL DEF Spec

\* The points of the exchange are well formed, one of each kind for every file
\* (ot.go:57-60, node_test.go:249-252).
THEOREM ExchangeTypes == Spec => []TypeOK
<1>1. ExchangeInv => TypeOK
  BY DEF ExchangeInv
<1>2. QED
  BY <1>1, ExchangeInvariance, PTL

\* The key points of the current exchange meet KeyPointMatches.
LEMMA OnePoint == ExchangeInv => OneKeyPoint
<1> SUFFICES ASSUME ExchangeInv, Pointed, NEW i \in Files
             PROVE  kps[i] = RevealKeyPoint(LPrime, skB) <=> i = beta
  BY DEF OneKeyPoint
<1>1. /\ skA \in FieldElements /\ skB \in FieldElements /\ t \in FieldElements
      /\ beta \in Scalars /\ l \in Scalars /\ i \in Scalars
  BY ExchangeAssumption DEF ExchangeInv, TypeOK, PointsOut
<1>2. /\ kps[i] = KeyPoint(t, SealedY(beta, l), i)
      /\ LPrime = ScalarMult(SealedL(l), t)
  BY DEF ExchangeInv, PointsOut, Pointed, Sealed
<1>3. QED
  BY <1>1, <1>2, KeyPointMatches

\* Whatever index Bob seals (ot.go:26-84), he can reveal the key point of that
\* file and of no other.
THEOREM ObliviousTransfer == Spec => []OneKeyPoint
<1>1. QED
  BY OnePoint, ExchangeInvariance, PTL

\* A file opens for Bob exactly when its key point hashes like his.
LEMMA OpensMatching ==
  ASSUME ExchangeInv, stage = "opened", NEW i \in Files
  PROVE  opened[i] = FileKey(r[i]) <=>
           Derive(kps[i]) = Derive(RevealKeyPoint(LPrime, skB))
<1> DEFINE d == Derive(kps[i])
           k == Derive(RevealKeyPoint(LPrime, skB))
<1>1. /\ skA \in FieldElements /\ r[i] \in FieldElements
      /\ d \in FieldElements /\ k \in FieldElements
  <2>1. kps[i] \in Scalars /\ RevealKeyPoint(LPrime, skB) \in Scalars
    BY PointsAreScalars DEF ExchangeInv, TypeOK, RevealKeyPoint, FieldElements
  <2>2. QED
    BY <2>1, ExchangeAssumption DEF ExchangeInv, TypeOK, Encrypted
<1>2. opened[i] =
        DecryptByReceiver(ReEncrypt(Encrypt(pkA, r[i]), GenerateReKey(skA, d)),
                          k)
  BY DEF ExchangeInv, Encrypted, ReKeyed, ReEncrypted, Opened
<1>3. QED
  BY <1>1, <1>2, ReEncryptedOpens

\* The composition of ot and pre (node_test.go:288-352): Bob opens the file he
\* chose, and another one only if two key points hash to the same scalar.
THEOREM ChosenOnly == Spec => []OpensChosenOnly
<1>1. ExchangeInv => OpensChosenOnly
  <2> SUFFICES ASSUME ExchangeInv, stage = "opened", NEW i \in Files
               PROVE  /\ i = beta => opened[i] = FileKey(r[i])
                      /\ opened[i] = FileKey(r[i]) =>
                           Derive(kps[i]) = Derive(RevealKeyPoint(LPrime, skB))
    BY DEF OpensChosenOnly
  <2>1. i = beta => kps[i] = RevealKeyPoint(LPrime, skB)
    BY OnePoint DEF OneKeyPoint, Pointed
  <2>2. QED
    BY <2>1, OpensMatching
<1>2. QED
  BY <1>1, ExchangeInvariance, PTL

\* Alice's own decryption (pre.go:42-48) opens every file she has encrypted.
THEOREM OwnerCanOpen == Spec => []OwnerOpens
<1>1. ExchangeInv => OwnerOpens
  BY OwnerDecrypts DEF ExchangeInv, TypeOK, Encrypted, OwnerOpens
<1>2. QED
  BY <1>1, ExchangeInvariance, PTL
=============================================================================
