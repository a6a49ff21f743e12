-------------------------------- MODULE OtPre --------------------------------
(***************************************************************************)
(* The exchange that packages ot and pre are for, as node/node_test.go and *)
(* bench/proxyot.go put them together.  Alice encrypts her files to        *)
(* herself.  Bob seals the index of the file he wants.  Alice turns it     *)
(* into a key point per file, of which Bob can reveal one, and derives a   *)
(* re-encryption key from each.  The proxy re-encrypts, and Bob decrypts.  *)
(* Bob may come back for another file.                                     *)
(***************************************************************************)
EXTENDS Curve

CONSTANTS
  Files,      \* the ordinals 1..count of the files, as scalars
  Derive(_)   \* DeriveFieldElementFromPoint: hashes a point to a scalar

ASSUME ExchangeAssumption ==
  /\ Files \subseteq Scalars
  /\ \A x \in Scalars : Derive(x) \in FieldElements

VARIABLES
  stage,      \* the step the exchange has reached
  skA, skB,   \* the private keys of Alice and Bob
  r,          \* the scalar under which each file is encrypted
  As,         \* the first half of each file's ciphertext
  beta, l,    \* Bob's choice, and the scalar that hides it
  Y, L,       \* the sealed choice
  t,          \* Alice's scalar in this exchange
  kps,        \* the key points
  LPrime,     \* from which Bob reveals his key point
  reKeys,     \* the re-encryption keys
  APrimes,    \* the re-encrypted first halves
  opened      \* the keys that Bob computes for the files

aliceVars == <<skA, r, As>>
choiceVars == <<beta, l, Y, L>>
pointVars == <<t, kps, LPrime>>
vars == <<stage, skB, aliceVars, choiceVars, pointVars, reKeys, APrimes, opened>>

pkA == ScalarBaseMult(skA)
pkB == ScalarBaseMult(skB)

----------------------------------------------------------------------------
(* Package pre.  A file's symmetric key is the point B = r*GT.             *)

FileKey(s) == ScalarBaseMult(s)
Encrypt(publicKey, s) == ScalarMult(publicKey, s)

\* Faulty variant: the owner's key is not inverted.
GenerateReKeyPlain(a, b) == ScalarMult(ScalarBaseMult(b), a)
GenerateReKey(a, b) == ScalarMult(ScalarBaseMult(b), ModInverse(a))

ReEncrypt(A, rkAB) == Pair(A, rkAB)
DecryptByReceiver(APrime, b) == ScalarMult(APrime, ModInverse(b))

\* Faulty variant: the key is divided out after the pairing and before it.
DecryptByOwnerTwice(A, a) ==
  ScalarMult(Pair(ScalarMult(A, ModInverse(a)), ScalarBaseMult(One)), ModInverse(a))
DecryptByOwner(A, a) == Pair(ScalarMult(A, ModInverse(a)), ScalarBaseMult(One))

----------------------------------------------------------------------------
(* Package ot                                                              *)

SealedY(choice, s) == AddPoints(ScalarMult(pkA, choice), ScalarMult(pkB, s))
SealedL(s) == ScalarBaseMult(s)

\* Faulty variant: the ordinal is not multiplied by t.
KeyPointUnblinded(s, yp, i) ==
  AddPoints(ScalarMult(yp, s), NegPoint(ScalarMult(pkA, i)))
KeyPoint(s, yp, i) ==
  AddPoints(ScalarMult(yp, s), NegPoint(ScalarMult(pkA, Times(i, s))))

RevealKeyPoint(LP, sk) == ScalarMult(LP, sk)

----------------------------------------------------------------------------
(* The exchange                                                            *)

Unset == [i \in Files |-> Zero]

Init ==
  /\ stage = "keys"
  /\ skA \in FieldElements
  /\ skB \in FieldElements
  /\ r = Unset /\ As = Unset
  /\ beta = Zero /\ l = Zero /\ Y = Zero /\ L = Zero
  /\ t = Zero /\ kps = Unset /\ LPrime = Zero
  /\ reKeys = Unset /\ APrimes = Unset /\ opened = Unset

EncryptFiles ==
  /\ stage = "keys"
  /\ \E s \in [Files -> FieldElements] :
       /\ r' = s
       /\ As' = [i \in Files |-> Encrypt(pkA, s[i])]
  /\ stage' = "encrypted"
  /\ UNCHANGED <<skA, skB, choiceVars, pointVars, reKeys, APrimes, opened>>

\* The index is not checked: Bob may ask for a file that does not exist.  The
\* values of an earlier exchange were local to its calls.
SealChoice ==
  /\ stage \in {"encrypted", "opened"}
  /\ \E choice \in Scalars, s \in FieldElements :
       /\ beta' = choice
       /\ l' = s
       /\ Y' = SealedY(choice, s)
       /\ L' = SealedL(s)
  /\ t' = Zero /\ kps' = Unset /\ LPrime' = Zero
  /\ reKeys' = Unset /\ APrimes' = Unset /\ opened' = Unset
  /\ stage' = "sealed"
  /\ UNCHANGED <<skB, aliceVars>>

\* Faulty variant: the loop stops short of the last file.
CalculateKeyPointsShort ==
  /\ stage = "sealed"
  /\ \E s \in FieldElements, last \in Files :
       /\ t' = s
       /\ kps' = [i \in Files \ {last} |-> KeyPoint(s, Y, i)]
       /\ LPrime' = ScalarMult(L, s)
  /\ stage' = "pointed"
  /\ UNCHANGED <<skB, aliceVars, choiceVars, reKeys, APrimes, opened>>

CalculateKeyPoints ==
  /\ stage = "sealed"
  /\ \E s \in FieldElements :
       /\ t' = s
       /\ kps' = [i \in Files |-> KeyPoint(s, Y, i)]
       /\ LPrime' = ScalarMult(L, s)
  /\ stage' = "pointed"
  /\ UNCHANGED <<skB, aliceVars, choiceVars, reKeys, APrimes, opened>>

GenerateReKeys ==
  /\ stage = "pointed"
  /\ reKeys' = [i \in Files |-> GenerateReKey(skA, Derive(kps[i]))]
  /\ stage' = "rekeyed"
  /\ UNCHANGED <<skB, aliceVars, choiceVars, pointVars, APrimes, opened>>

ReEncryptFiles ==
  /\ stage = "rekeyed"
  /\ APrimes' = [i \in Files |-> ReEncrypt(As[i], reKeys[i])]
  /\ stage' = "reencrypted"
  /\ UNCHANGED <<skB, aliceVars, choiceVars, pointVars, reKeys, opened>>

\* The program decrypts the chosen file.  The model tries Bob's key on all.
DecryptFiles ==
  /\ stage = "reencrypted"
  /\ opened' = [i \in Files |->
       DecryptByReceiver(APrimes[i], Derive(RevealKeyPoint(LPrime, skB)))]
  /\ stage' = "opened"
  /\ UNCHANGED <<skB, aliceVars, choiceVars, pointVars, reKeys, APrimes>>

Next ==
  \/ EncryptFiles \/ SealChoice \/ CalculateKeyPoints
  \/ GenerateReKeys \/ ReEncryptFiles \/ DecryptFiles

Spec == Init /\ [][Next]_vars

----------------------------------------------------------------------------
(* Properties                                                              *)

\* Points are scalars and there is one of each kind per file (ot.go:57-60,
\* node_test.go:249-252).
TypeOK ==
  /\ stage \in {"keys", "encrypted", "sealed", "pointed", "rekeyed",
                "reencrypted", "opened"}
  /\ {skA, skB} \subseteq FieldElements
  /\ {beta, l, Y, L, t, LPrime} \subseteq Scalars
  /\ {r, As, kps, reKeys, APrimes, opened} \subseteq [Files -> Scalars]

Pointed == stage \in {"pointed", "rekeyed", "reencrypted", "opened"}

\* Oblivious transfer opens exactly one key point, that of the chosen file, and
\* none when the choice is not the ordinal of a file (ot.go:26-84).
OneKeyPoint ==
  Pointed => \A i \in Files :
    kps[i] = RevealKeyPoint(LPrime, skB) <=> i = beta

\* Bob recovers the key of the file he chose, and no other unless two key
\* points hash to the same scalar (pre.go:22-40 after ot.go:26-84).
OpensChosenOnly ==
  stage = "opened" => \A i \in Files :
    /\ i = beta => opened[i] = FileKey(r[i])
    /\ opened[i] = FileKey(r[i]) =>
         Derive(kps[i]) = Derive(RevealKeyPoint(LPrime, skB))

\* Alice can always decrypt her own files (pre.go:42-48).
OwnerOpens ==
  stage # "keys" => \A i \in Files : DecryptByOwner(As[i], skA) = FileKey(r[i])

----------------------------------------------------------------------------
(* The inductive strengthening: what has been computed at each stage       *)

Encrypted ==
  stage # "keys" => \A i \in Files :
    r[i] \in FieldElements /\ As[i] = Encrypt(pkA, r[i])

Sealed ==
  stage \notin {"keys", "encrypted"} => Y = SealedY(beta, l) /\ L = SealedL(l)

PointsOut ==
  Pointed =>
    /\ t \in FieldElements
    /\ LPrime = ScalarMult(L, t)
    /\ \A i \in Files : kps[i] = KeyPoint(t, Y, i)

ReKeyed ==
  stage \in {"rekeyed", "reencrypted", "opened"} => \A i \in Files :
    reKeys[i] = GenerateReKey(skA, Derive(kps[i]))

ReEncrypted ==
  stage \in {"reencrypted", "opened"} => \A i \in Files :
    APrimes[i] = ReEncrypt(As[i], reKeys[i])

Opened ==
  stage = "opened" => \A i \in Files :
    opened[i] = DecryptByReceiver(APrimes[i], Derive(RevealKeyPoint(LPrime, skB)))

ExchangeInv ==
  TypeOK /\ Encrypted /\ Sealed /\ PointsOut /\ ReKeyed /\ ReEncrypted /\ Opened
=============================================================================
