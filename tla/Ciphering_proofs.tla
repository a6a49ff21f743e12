--------------------------- MODULE Ciphering_proofs ---------------------------
(***************************************************************************)
(* Proofs about Ciphering, for plaintexts of every length, any keys and    *)
(* any number of calls: what is encrypted decrypts to the whole plaintext, *)
(* and nothing else is ever written.                                       *)
(***************************************************************************)
EXTENDS Ciphering, TLAPS

----------------------------------------------------------------------------
(* Padding                                                                 *)

\* A padding is between a byte and a block long, and fills the last block.
LEMMA PaddingFills ==
  ASSUME NEW n \in Nat
  PROVE  /\ Padding(n) \in 1..16 /\ Padding(n) \in Bytes
         /\ n + Padding(n) >= 16
         /\ (n + Padding(n)) % 16 = 0
BY SMT DEF Padding, BlockSize, Bytes

\* A padded text: as long as counted, with the padding behind it.
LEMMA PaddedText ==
  ASSUME NEW src \in Seq(Bytes)
  PROVE  LET padded == AddPKCSPadding(src)
         IN  /\ padded \in Seq(Bytes)
             /\ Len(padded) = Len(src) + Padding(Len(src))
             /\ Len(padded) % 16 = 0 /\ Len(padded) >= 16
<1> DEFINE n == Len(src)
           p == Padding(n)
           pad == [j \in 1..p |-> p]
<1>1. n \in Nat
  OBVIOUS
<1>2. p \in 1..16 /\ p \in Bytes /\ n + p >= 16 /\ (n + p) % 16 = 0
  BY <1>1, PaddingFills
<1> HIDE DEF p
<1>3. pad \in Seq(Bytes) /\ Len(pad) = p
  BY <1>2
<1> HIDE DEF pad
<1>4. src \o pad \in Seq(Bytes) /\ Len(src \o pad) = n + p
  BY <1>3
<1>5. QED
  BY <1>2, <1>4 DEF AddPKCSPadding, pad, p

\* Removing the padding gives back the text.
LEMMA PaddingRemoved ==
  ASSUME NEW src \in Seq(Bytes)
  PROVE  RemovePKCSPadding(AddPKCSPadding(src)) = Done(src)
<1> DEFINE n == Len(src)
           p == Padding(n)
           pad == [j \in 1..p |-> p]
           padded == src \o pad
<1>1. n \in Nat
  OBVIOUS
<1>2. p \in 1..16 /\ p \in Bytes /\ n + p >= 16
  BY <1>1, PaddingFills
<1> HIDE DEF p
<1>3. pad \in Seq(Bytes) /\ Len(pad) = p /\ pad[p] = p
  BY <1>2
<1>4. padded = AddPKCSPadding(src)
  BY DEF AddPKCSPadding, p
<1> HIDE DEF pad
<1>5. Len(padded) = n + p /\ padded \in Seq(Bytes)
  BY <1>3
<1>6. padded[n + p] = p
  <2>1. n + p \in 1..(n + p) /\ n + p > n /\ (n + p) - n = p
    BY <1>1, <1>2
  <2>2. QED
    BY <1>1, <1>2, <1>3, <2>1
<1>7. SubSeq(padded, 1, n) = src
  BY <1>1, <1>2, <1>3, <1>5
<1> HIDE DEF padded
<1>8. padded[Len(padded)] = p /\ ~(p > 16) /\ ~(Len(padded) < 16)
      /\ Len(padded) - p = n
  BY <1>1, <1>2, <1>5, <1>6
<1>9. RemovePKCSPadding(padded) = Done(SubSeq(padded, 1, n))
  <2> HIDE DEF n
  <2>1. QED
    BY <1>8 DEF RemovePKCSPadding, BlockSize
<1>10. QED
  BY <1>4, <1>7, <1>9

----------------------------------------------------------------------------
(* Texts                                                                   *)

\* What a call writes.
LEMMA WrittenText ==
  ASSUME NEW c \in Nat, NEW padded \in Seq(Bytes)
  PROVE  /\ TextOf(c, padded) \in Seq(Nat \X Nat)
         /\ Len(TextOf(c, padded)) = Len(padded) + 48
         /\ TextOf(c, padded)[1] = <<c, 1>>
<1>1. /\ Len(padded) \in Nat
      /\ BlockSize + Len(padded) + MacSize = Len(padded) + 48
  BY DEF BlockSize, MacSize
<1>2. TextOf(c, padded) = [j \in 1..(Len(padded) + 48) |-> <<c, j>>]
  BY <1>1 DEF TextOf
<1>3. QED
  BY <1>1, <1>2

\* An empty text is too short.
LEMMA NothingToRead ==
  ASSUME NEW key PROVE Decrypt(<<>>, key) = Failed("errInputTooShort")
BY DEF Decrypt, BlockSize, MacSize

\* Calls are counted from 1.
LEMMA SealedCalls ==
  ASSUME TypeOK, sealed # <<>>
  PROVE  Len(sealed) \in Nat /\ Len(sealed) > 0 /\ 1 \in DOMAIN sealed
<1> DEFINE Seal == [key : Keys, padded : Seq(Bytes)]
<1>1. sealed \in Seq(Seal)
  BY DEF TypeOK
<1> HIDE DEF Seal
<1>2. QED
  BY <1>1

\* What one call of the encrypt closure sealed: whole blocks.
LEMMA SealedBlocks ==
  ASSUME TypeOK, SealedInv, NEW c \in DOMAIN sealed
  PROVE  /\ c \in Nat /\ sealed[c].padded \in Seq(Bytes)
         /\ Len(sealed[c].padded) \in Nat
         /\ Len(sealed[c].padded) % 16 = 0 /\ Len(sealed[c].padded) >= 16
         /\ RemovePKCSPadding(sealed[c].padded)
              = Done(IF c = 1 THEN plain ELSE <<>>)
<1>1. c \in Nat /\ sealed[c].padded \in Seq(Bytes)
  <2> DEFINE Seal == [key : Keys, padded : Seq(Bytes)]
  <2>1. sealed \in Seq(Seal)
    BY DEF TypeOK
  <2> HIDE DEF Seal
  <2>2. c \in Nat /\ sealed[c] \in Seal
    BY <2>1
  <2>3. QED
    BY <2>2 DEF Seal
<1>2. Len(sealed[c].padded) \in Nat
  BY <1>1
<1>3. Len(sealed[c].padded) % 16 = 0 /\ Len(sealed[c].padded) >= 16
  BY DEF TypeOK, BlockSize
<1>4. plain \in Seq(Bytes) /\ <<>> \in Seq(Bytes)
  BY CipheringAssumption DEF TypeOK
<1>5. RemovePKCSPadding(sealed[c].padded)
        = Done(IF c = 1 THEN plain ELSE <<>>)
  BY <1>4, PaddingRemoved DEF SealedInv
<1>6. QED
  BY <1>1, <1>2, <1>3, <1>5

\* A text that decrypts is what one call wrote, and gives what it was given.
LEMMA Unsealed ==
  ASSUME TypeOK, SealedInv, NEW t, NEW key
  PROVE  Decrypt(t, key).out \in {<<>>, plain}
<1> DEFINE Right(c) == Authentic(t, key, c)
           c == CHOOSE c \in DOMAIN sealed : Right(c)
<1>1. CASE \E e \in DOMAIN sealed : Right(e)
  <2>1. c \in DOMAIN sealed
    BY <1>1
  <2>2. RemovePKCSPadding(sealed[c].padded)
          = Done(IF c = 1 THEN plain ELSE <<>>)
    BY <2>1, SealedBlocks
  <2>3. QED
    BY <1>1, <2>2 DEF Decrypt, Failed, Done
<1>2. CASE ~ \E e \in DOMAIN sealed : Right(e)
  BY <1>2 DEF Decrypt, Failed
<1>3. QED
  BY <1>1, <1>2

\* Whole blocks, with a vector and a MAC more, are whole blocks.
LEMMA BlocksAdd ==
  ASSUME NEW k \in Nat, NEW n \in Nat, k % 16 = 0, n % 16 = 0
  PROVE  (k + n + 48) % 16 = 0
<1>1. (k + n) % 16 = 0
  OBVIOUS
<1>2. QED
  BY <1>1

\* One call, or more.
LEMMA OneOrMore ==
  ASSUME NEW n \in Nat, n > 0
  PROVE  n = 1 \/ n > 1
OBVIOUS

\* A text that another is written behind.
LEMMA WrittenBehind ==
  ASSUME NEW S, NEW a \in Seq(S), NEW b \in Seq(S)
  PROVE  /\ a \o b \in Seq(S) /\ Len(a \o b) = Len(a) + Len(b)
         /\ Len(a) \in Nat /\ Len(b) \in Nat
         /\ Len(a) > 0 => (a \o b)[1] = a[1]
OBVIOUS

\* A text of whole blocks, less its vector and its MAC.
LEMMA BlocksLeft ==
  ASSUME NEW n \in Nat, n % 16 = 0, n >= 64
  PROVE  (n - 48) % 16 = 0 /\ (n - 16 - 32) % 16 = 0 /\ ~(n < 64)
OBVIOUS

\* The parts of the text's invariant.
LEMMA TextFacts ==
  ASSUME TextInv
  PROVE  /\ text \in Seq(Nat \X Nat) /\ Len(text) \in Nat
         /\ Len(text) % 16 = 0
         /\ Len(sealed) = 1 => text = TextOf(1, sealed[1].padded)
         /\ Len(sealed) > 1 =>
              /\ text[1] = <<1, 1>>
              /\ Len(text) > 16 + Len(sealed[1].padded) + 32
<1> DEFINE S == Nat \X Nat
<1>1. text \in Seq(S)
  BY Zenon DEF TextInv
<1>2. Len(text) \in Nat
  <2> HIDE DEF S
  <2>1. QED
    BY <1>1
<1>3. QED
  BY <1>1, <1>2, Zenon DEF TextInv, BlockSize, MacSize

\* The length of the text: that of whole blocks, and of two at least.
LEMMA TextLength ==
  ASSUME TypeOK, SealedInv, TextInv, sealed # <<>>
  PROVE  /\ Len(text) >= 64 /\ text[1] = <<1, 1>>
         /\ Len(sealed) # 1 => Len(text) > Len(sealed[1].padded) + 48
<1> DEFINE padded == sealed[1].padded
<1>1. Len(sealed) \in Nat /\ Len(sealed) > 0 /\ 1 \in DOMAIN sealed
  BY SealedCalls
<1>2. /\ padded \in Seq(Bytes) /\ Len(padded) \in Nat
      /\ Len(padded) >= 16
  BY <1>1, SealedBlocks
<1> HIDE DEF padded
<1>3. CASE Len(sealed) = 1
  <2>1. text = TextOf(1, padded)
    BY <1>3, TextFacts, Zenon DEF padded
  <2>2. 1 \in Nat
    OBVIOUS
  <2>3. /\ Len(TextOf(1, padded)) = Len(padded) + 48
        /\ TextOf(1, padded)[1] = <<1, 1>>
    BY <1>2, <2>2, WrittenText, Zenon
  <2>4. Len(text) = Len(padded) + 48 /\ text[1] = <<1, 1>>
    BY <2>1, <2>3, Zenon
  <2>5. Len(text) >= 64
    BY <1>2, <2>4
  <2>6. QED
    BY <1>3, <2>4, <2>5
<1>4. CASE Len(sealed) > 1
  <2>1. text[1] = <<1, 1>> /\ Len(text) > 16 + Len(padded) + 32
    BY <1>4, TextFacts, Zenon DEF padded
  <2>2. Len(text) \in Nat
    BY TextFacts
  <2>3. Len(text) >= 64 /\ Len(text) > Len(padded) + 48
    BY <1>2, <2>1, <2>2
  <2>4. QED
    BY <2>1, <2>3 DEF padded
<1>5. Len(sealed) = 1 \/ Len(sealed) > 1
  BY <1>1, OneOrMore, Zenon
<1>6. QED
  BY <1>3, <1>4, <1>5, Zenon

\* The text as it was written decrypts with its key if one call wrote it, and is
\* refused otherwise.
LEMMA WholeText ==
  ASSUME TypeOK, SealedInv, TextInv, sealed # <<>>, NEW key
  PROVE  Decrypt(text, key) =
           IF Len(sealed) = 1 /\ key = sealed[1].key
           THEN Done(plain) ELSE Failed("errInvalidMAC")
<1>1. /\ 1 \in DOMAIN sealed /\ Len(sealed) \in Nat /\ Len(sealed) > 0
      /\ Len(text) \in Nat /\ Len(text) >= 64
      /\ Len(text) % 16 = 0
  BY SealedCalls, TextLength, TextFacts
<1>2. text[1] = <<1, 1>>
  BY TextLength, Zenon
<1>3. ASSUME NEW c \in DOMAIN sealed
      PROVE  Authentic(text, key, c) <=>
               c = 1 /\ Len(sealed) = 1 /\ key = sealed[1].key
  <2>1. ASSUME Authentic(text, key, c)
        PROVE  c = 1 /\ Len(sealed) = 1 /\ key = sealed[1].key
    <3>1. sealed[c].key = key /\ text = TextOf(c, sealed[c].padded)
      BY <2>1 DEF Authentic
    <3>2. text[1] = <<c, 1>> /\ Len(text) = Len(sealed[c].padded) + 48
      BY <3>1, SealedBlocks, WrittenText
    <3>3. c = 1
      BY <1>2, <3>2
    <3>4. Len(sealed[1].padded) \in Nat
      BY <1>1, SealedBlocks
    <3>5. Len(sealed) = 1
      <4>1. Len(text) = Len(sealed[1].padded) + 48
        BY <3>2, <3>3
      <4>2. ~(Len(text) > Len(sealed[1].padded) + 48)
        BY <3>4, <4>1
      <4>3. QED
        BY <4>2, TextLength, Zenon
    <3>6. QED
      BY <1>1, <3>1, <3>3, <3>5
  <2>2. ASSUME c = 1, Len(sealed) = 1, key = sealed[1].key
        PROVE  Authentic(text, key, c)
    BY <2>2, TextFacts, Zenon DEF Authentic
  <2>3. QED
    BY <2>1, <2>2
<1>4. ~(Len(text) < 64) /\ (Len(text) - 16 - 32) % 16 = 0
  BY <1>1, BlocksLeft
<1>5. CASE Len(sealed) = 1 /\ key = sealed[1].key
  <2> DEFINE c == CHOOSE c \in DOMAIN sealed : Authentic(text, key, c)
  <2>1. c = 1 /\ Authentic(text, key, 1)
    BY <1>1, <1>3, <1>5
  <2>2. RemovePKCSPadding(sealed[1].padded) = Done(plain)
    BY <1>1, SealedBlocks
  <2>3. QED
    BY <1>1, <1>4, <1>5, <2>1, <2>2 DEF Decrypt, BlockSize, MacSize
<1>6. CASE ~(Len(sealed) = 1 /\ key = sealed[1].key)
  BY <1>3, <1>4, <1>6 DEF Decrypt, BlockSize, MacSize
<1>7. QED
  BY <1>5, <1>6

----------------------------------------------------------------------------
(* The closures                                                            *)

\* The invariant holds before the first call.
LEMMA InitClosures == Init => ClosuresInv
<1> SUFFICES ASSUME Init PROVE ClosuresInv
  OBVIOUS
<1>1. TypeOK
  BY CipheringAssumption DEF Init, TypeOK
<1>2. SealedInv
  BY DEF Init, SealedInv
<1>3. TextInv
  BY DEF Init, TextInv, BlockSize
<1>4. ResultsInv
  BY DEF Init, ResultsInv
<1>5. QED
  BY <1>1, <1>2, <1>3, <1>4 DEF ClosuresInv

\* What a call appends comes after what the earlier ones did.
LEMMA Appended ==
  ASSUME NEW T, NEW q \in Seq(T), NEW e \in T
  PROVE  /\ Append(q, e) \in Seq(T) /\ Len(Append(q, e)) = Len(q) + 1
         /\ Append(q, e) # <<>>
         /\ DOMAIN Append(q, e) = DOMAIN q \cup {Len(q) + 1}
         /\ Append(q, e)[Len(q) + 1] = e
         /\ \A c \in DOMAIN q : Append(q, e)[c] = q[c] /\ c \in 1..Len(q)
<1>1. /\ Append(q, e) \in Seq(T) /\ Len(Append(q, e)) = Len(q) + 1
      /\ Append(q, e)[Len(q) + 1] = e
  OBVIOUS
<1>2. Append(q, e) # <<>>
  BY <1>1
<1>3. DOMAIN Append(q, e) = DOMAIN q \cup {Len(q) + 1}
  OBVIOUS
<1>4. \A c \in DOMAIN q : Append(q, e)[c] = q[c] /\ c \in 1..Len(q)
  OBVIOUS
<1>5. QED
  BY <1>1, <1>2, <1>3, <1>4

\* A call of the encrypt closure preserves it.
LEMMA EncryptClosures ==
  ASSUME ClosuresInv, NEW key \in Keys, EncryptCall(key)
  PROVE  ClosuresInv'
<1> DEFINE S == Nat \X Nat
           Seal == [key : Keys, padded : Seq(Bytes)]
           n == Len(sealed)
           padded == AddPKCSPadding(input)
           seal == [key |-> key, padded |-> padded]
           new == TextOf(n + 1, padded)
<1>1. TypeOK /\ SealedInv /\ TextInv /\ ResultsInv
  BY DEF ClosuresInv
<1>2. /\ stage = "encrypting" /\ n < MaxCalls
      /\ sealed' = Append(sealed, seal) /\ text' = text \o new
      /\ input' = <<>>
      /\ UNCHANGED <<stage, plain, reader, results, output>>
  BY DEF EncryptCall
<1>3. /\ sealed \in Seq(Seal) /\ plain \in Plaintexts
      /\ input \in {plain, <<>>} /\ Len(results) <= MaxCalls
  BY <1>1 DEF TypeOK
<1>4. input \in Seq(Bytes)
  <2>1. plain \in Seq(Bytes) /\ <<>> \in Seq(Bytes)
    BY <1>1, CipheringAssumption DEF TypeOK
  <2>2. input = plain \/ input = <<>>
    BY <1>1, Zenon DEF TypeOK
  <2>3. QED
    BY <2>1, <2>2, Zenon
<1>5. /\ padded \in Seq(Bytes) /\ Len(padded) \in Nat
      /\ Len(padded) % 16 = 0 /\ Len(padded) >= 16
  BY <1>4, PaddedText
<1>6. seal \in Seal /\ seal.key = key /\ seal.padded = padded
  BY <1>5
<1>7. input = IF sealed = <<>> THEN plain ELSE <<>>
  BY <1>1 DEF SealedInv
<1>8. n \in Nat /\ (sealed = <<>> <=> n = 0)
  <2> HIDE DEF Seal
  <2>1. QED
    BY <1>3
<1>9. /\ sealed' \in Seq(Seal) /\ Len(sealed') = n + 1 /\ sealed' # <<>>
      /\ DOMAIN sealed' = DOMAIN sealed \cup {n + 1}
      /\ sealed'[n + 1] = seal
      /\ \A c \in DOMAIN sealed : sealed'[c] = sealed[c] /\ c \in 1..n
  <2> HIDE DEF Seal, seal
  <2> DEFINE q == Append(sealed, seal)
  <2>1. /\ q \in Seq(Seal) /\ Len(q) = Len(sealed) + 1 /\ q # <<>>
        /\ DOMAIN q = DOMAIN sealed \cup {Len(sealed) + 1}
        /\ q[Len(sealed) + 1] = seal
        /\ \A c \in DOMAIN sealed : q[c] = sealed[c] /\ c \in 1..Len(sealed)
    <3>1. sealed \in Seq(Seal) /\ seal \in Seal
      BY <1>3, <1>6, Zenon
    <3> HIDE DEF q
    <3>2. q = Append(sealed, seal)
      BY DEF q
    <3>3. QED
      BY <3>1, <3>2, Appended
  <2>2. sealed' = q
    BY <1>2
  <2> HIDE DEF q
  <2>3. QED
    BY <2>1, <2>2, Zenon
<1>10. new \in Seq(S) /\ Len(new) = Len(padded) + 48 /\ new[1] = <<n + 1, 1>>
  <2>1. n + 1 \in Nat
    BY <1>8
  <2>2. QED
    BY <1>5, <2>1, WrittenText, Zenon
<1> HIDE DEF Seal, S, new, padded, seal
<1>11. TypeOK'
  <2>1. Len(sealed') <= MaxCalls
    BY <1>2, <1>8, <1>9, CipheringAssumption
  <2>2. ASSUME NEW c \in DOMAIN sealed'
        PROVE  /\ Len(sealed'[c].padded) % BlockSize = 0
               /\ Len(sealed'[c].padded) >= BlockSize
    <3>1. CASE c \in DOMAIN sealed
      BY <1>1, <1>9, <3>1 DEF TypeOK
    <3>2. CASE c = n + 1
      BY <1>5, <1>6, <1>9, <3>2 DEF BlockSize
    <3>3. QED
      BY <1>9, <3>1, <3>2
  <2>3. stage' \in {"encrypting", "decrypting"}
    BY <1>2
  <2>4. plain' \in Plaintexts /\ input' \in {plain', <<>>}
    BY <1>2, <1>3
  <2>5. Len(results') <= MaxCalls
    BY <1>2, <1>3
  <2>6. QED
    BY <1>9, <2>1, <2>2, <2>3, <2>4, <2>5, Zenon DEF TypeOK, Seal
<1>12. SealedInv'
  <2>1. ASSUME NEW c \in DOMAIN sealed'
        PROVE  sealed'[c].padded
                 = AddPKCSPadding(IF c = 1 THEN plain ELSE <<>>)
    <3>1. CASE c \in DOMAIN sealed
      BY <1>1, <1>9, <3>1 DEF SealedInv
    <3>2. CASE c = n + 1
      <4>1. input = IF c = 1 THEN plain ELSE <<>>
        BY <1>7, <1>8, <3>2
      <4>2. QED
        BY <1>6, <1>9, <3>2, <4>1 DEF padded
    <3>3. QED
      BY <1>9, <3>1, <3>2
  <2>2. QED
    BY <1>2, <1>9, <2>1 DEF SealedInv
<1>13. TextInv'
  <2>1. text \in Seq(S) /\ Len(text) \in Nat /\ Len(text) % 16 = 0
    BY <1>1, TextFacts, Zenon DEF S
  <2>2. /\ text' \in Seq(S) /\ Len(text') = Len(text) + Len(padded) + 48
        /\ Len(text) > 0 => text'[1] = text[1]
    <3>1. /\ text' \in Seq(S) /\ Len(text') = Len(text) + Len(new)
          /\ Len(text) > 0 => text'[1] = text[1]
      BY <1>2, <1>10, <2>1, WrittenBehind, Zenon
    <3>2. Len(text) + Len(new) = Len(text) + Len(padded) + 48
      BY <1>5, <1>10, <2>1
    <3>3. QED
      BY <3>1, <3>2, Zenon
  <2>3. Len(text') % 16 = 0
    <3>1. (Len(text) + Len(padded) + 48) % 16 = 0
      BY <1>5, <2>1, BlocksAdd, Zenon
    <3>2. QED
      BY <2>2, <3>1, Zenon
  <2>4. Len(sealed') = 1 => text' = TextOf(1, sealed'[1].padded)
    <3> SUFFICES ASSUME n = 0 PROVE text' = TextOf(1, sealed'[1].padded)
      BY <1>8, <1>9
    <3>1. text = <<>> /\ n + 1 = 1
      BY <1>1, <1>8 DEF TextInv
    <3>2. text' = new
      BY <1>2, <1>10, <3>1
    <3>3. QED
      BY <1>6, <1>9, <3>1, <3>2 DEF new
  <2>5. Len(sealed') > 1 =>
          /\ text'[1] = <<1, 1>>
          /\ Len(text') > BlockSize + Len(sealed'[1].padded) + MacSize
    <3> SUFFICES ASSUME n > 0
                 PROVE  /\ text'[1] = <<1, 1>>
                        /\ Len(text') > 16 + Len(sealed'[1].padded) + 32
      BY <1>8, <1>9 DEF BlockSize, MacSize
    <3>1. sealed # <<>> /\ 1 \in DOMAIN sealed
      BY <1>1, <1>8, SealedCalls
    <3>2. sealed'[1].padded = sealed[1].padded
      BY <1>9, <3>1
    <3>3. Len(sealed[1].padded) \in Nat
      BY <1>1, <3>1, SealedBlocks
    <3>4. /\ Len(text) >= 64 /\ text[1] = <<1, 1>>
          /\ Len(text) >= Len(sealed[1].padded) + 48
      <4>1. CASE n = 1
        <5>1. text = TextOf(1, sealed[1].padded)
          BY <1>1, <4>1, TextFacts, Zenon
        <5>2. Len(text) = Len(sealed[1].padded) + 48
          BY <1>1, <3>1, <5>1, SealedBlocks, WrittenText, Zenon
        <5>3. Len(text) >= Len(sealed[1].padded) + 48
          BY <3>3, <5>2
        <5>4. QED
          BY <1>1, <3>1, <5>3, TextLength, Zenon
      <4>2. CASE n # 1
        <5>1. Len(text) > Len(sealed[1].padded) + 48
          BY <1>1, <3>1, <4>2, TextLength, Zenon
        <5>2. Len(text) >= Len(sealed[1].padded) + 48
          BY <2>1, <3>3, <5>1
        <5>3. QED
          BY <1>1, <3>1, <5>2, TextLength, Zenon
      <4>3. QED
        BY <4>1, <4>2
    <3>5. text'[1] = text[1]
      BY <2>1, <2>2, <3>4
    <3>6. QED
      BY <1>5, <2>1, <2>2, <3>2, <3>3, <3>4, <3>5
  <2>6. QED
    BY <1>9, <2>2, <2>3, <2>4, <2>5, Zenon DEF TextInv, S, BlockSize
<1>14. ResultsInv'
  <2>1. /\ results = <<>> /\ output = <<>>
        /\ results \in Seq(Result) /\ reader \in Seq(Nat \X Nat)
    BY <1>1, <1>2 DEF ResultsInv
  <2>2. QED
    BY <1>2, <2>1 DEF ResultsInv
<1>15. QED
  BY <1>11, <1>12, <1>13, <1>14 DEF ClosuresInv

\* What can be written are bytes.
LEMMA OutputBytes ==
  ASSUME TypeOK, NEW out \in {<<>>, plain}
  PROVE  out \in Seq(Bytes) /\ <<>> \o out = out /\ out \o <<>> = out
<1>1. plain \in Seq(Bytes) /\ <<>> \in Seq(Bytes)
  BY CipheringAssumption DEF TypeOK
<1>2. out \in Seq(Bytes)
  BY <1>1, Zenon
<1>3. <<>> \o out = out /\ out \o <<>> = out
  BY <1>2
<1>4. QED
  BY <1>2, <1>3

\* What arrives is a text, of bytes that a call wrote or nobody did.
LEMMA ReceivedText ==
  ASSUME NEW S, text \in Seq(S), <<0, 0>> \in S, NEW t \in Received
  PROVE  t \in Seq(S)
<1>1. Len(text) \in Nat
  OBVIOUS
<1>2. ASSUME NEW n \in 0..Len(text) PROVE SubSeq(text, 1, n) \in Seq(S)
  BY <1>1
<1>3. ASSUME NEW n \in 1..Len(text)
      PROVE  SubSeq(text, n, Len(text)) \in Seq(S)
  BY <1>1
<1>4. ASSUME NEW n \in 1..Len(text)
      PROVE  [text EXCEPT ![n] = <<0, 0>>] \in Seq(S)
  <2>1. PICK broken \in S : broken = <<0, 0>>
    OBVIOUS
  <2>2. [text EXCEPT ![n] = broken] \in Seq(S)
    BY <1>1
  <2>3. QED
    BY <2>1, <2>2, Zenon
<1>5. QED
  BY <1>2, <1>3, <1>4 DEF Received

\* What a decryption says.
LEMMA DecryptError ==
  ASSUME NEW t, NEW key
  PROVE  Decrypt(t, key).err \in {"nil", "errInputTooShort",
                                  "errInvalidPadding", "errInvalidMAC"}
BY DEF Decrypt, RemovePKCSPadding, Done, Failed

\* The arrival of a text preserves it.
LEMMA ReceiveClosures ==
  ASSUME ClosuresInv, Receive
  PROVE  ClosuresInv'
<1>1. TypeOK /\ SealedInv /\ TextInv /\ ResultsInv
  BY DEF ClosuresInv
<1>2. /\ stage = "encrypting" /\ stage' = "decrypting" /\ sealed # <<>>
      /\ UNCHANGED <<plain, input, sealed, text, results, output>>
  BY DEF Receive
<1>3. TypeOK'
  BY <1>1, <1>2, Zenon DEF TypeOK
<1>4. SealedInv' /\ TextInv'
  BY <1>1, <1>2 DEF SealedInv, TextInv
<1>5. ResultsInv'
  <2>1. results = <<>> /\ output = <<>> /\ results \in Seq(Result)
    BY <1>1, <1>2 DEF ResultsInv
  <2>2. reader' \in Seq(Nat \X Nat)
    <3>1. text \in Seq(Nat \X Nat) /\ reader' \in Received
      BY <1>1, TextFacts DEF Receive
    <3>2. <<0, 0>> \in Nat \X Nat
      OBVIOUS
    <3>3. QED
      BY <3>1, <3>2, ReceivedText, Zenon
  <2>3. QED
    BY <1>2, <2>1, <2>2 DEF ResultsInv
<1>6. QED
  BY <1>3, <1>4, <1>5 DEF ClosuresInv

\* Decrypt, with what was sealed as a parameter.
DecryptOf(seals, t, key) ==
  LET right(c) == /\ seals[c].key = key
                  /\ t = TextOf(c, seals[c].padded)
  IN  IF Len(t) < BlockSize + BlockSize + MacSize
      THEN Failed("errInputTooShort")
      ELSE IF (Len(t) - BlockSize - MacSize) % BlockSize # 0
           THEN Failed("errInvalidPadding")
      ELSE IF \A c \in DOMAIN seals : ~right(c)
           THEN Failed("errInvalidMAC")
      ELSE LET c == CHOOSE c \in DOMAIN seals : right(c)
           IN  RemovePKCSPadding(seals[c].padded)

\* A call of the decrypt closure preserves it.
LEMMA DecryptClosures ==
  ASSUME ClosuresInv, NEW key \in Keys, DecryptCall(key)
  PROVE  ClosuresInv'
<1> DEFINE d == Decrypt(reader, key)
           result == [key |-> key, read |-> reader, err |-> d.err]
           n == Len(results)
<1>1. TypeOK /\ SealedInv /\ TextInv /\ ResultsInv
  BY DEF ClosuresInv
<1>2. /\ stage = "decrypting" /\ n < MaxCalls
      /\ results' = Append(results, result)
      /\ output' = output \o d.out /\ reader' = <<>>
      /\ UNCHANGED <<stage, plain, input, sealed, text>>
  BY DEF DecryptCall
<1>3. result.key = key /\ result.read = reader /\ result.err = d.err
  OBVIOUS
<1>4. /\ n \in Nat /\ Len(results') = n + 1 /\ results' # <<>>
      /\ results'[n + 1] = result
      /\ \A i \in 1..n : results'[i] = results[i]
      /\ n = 0 <=> results = <<>>
      /\ results' \in Seq(Result)
  <2>1. results \in Seq(Result)
    BY <1>1, Zenon DEF ResultsInv
  <2>2. result \in Result
    <3>1. reader \in Seq(Nat \X Nat)
      BY <1>1, Zenon DEF ResultsInv
    <3>2. d.err \in {"nil", "errInputTooShort", "errInvalidPadding",
                     "errInvalidMAC"}
      BY DecryptError
    <3> HIDE DEF d
    <3>3. QED
      BY <3>1, <3>2 DEF Result
  <2> HIDE DEF result
  <2>3. QED
    BY <1>2, <2>1, <2>2
<1> HIDE DEF result, d
<1>5. TypeOK'
  <2>1. Len(results') <= MaxCalls
    BY <1>2, <1>4, CipheringAssumption
  <2>2. QED
    BY <1>1, <1>2, <2>1, Zenon DEF TypeOK
<1>6. SealedInv' /\ TextInv'
  BY <1>1, <1>2 DEF SealedInv, TextInv
<1>7. ResultsInv'
  <2>1. CASE n = 0
    <3>1. results = <<>> /\ output = <<>>
      BY <1>1, <1>4, <2>1 DEF ResultsInv
    <3>2. output' = d.out
      <4>1. d.out \in {<<>>, plain}
        BY <1>1, Unsealed DEF d
      <4>2. QED
        BY <1>1, <1>2, <3>1, <4>1, OutputBytes, Zenon
    <3>3. results'[1] = result /\ Len(results') = 1
      <4>1. n + 1 = 1
        BY <2>1
      <4>2. QED
        BY <1>4, <4>1, Zenon
    <3> DEFINE first == results[1]
               e == Decrypt(first.read, first.key)
    <3>4. first' = result /\ e' = d
      <4>1. /\ results'[1].read = reader /\ results'[1].key = key
            /\ sealed' = sealed
        BY <1>2, <1>3, <3>3
      <4>2. e' = d
        <5>1. e' = DecryptOf(sealed', results'[1].read, results'[1].key)
          BY DEF Decrypt, Authentic, DecryptOf
        <5>2. d = DecryptOf(sealed, reader, key)
          BY DEF d, Decrypt, Authentic, DecryptOf
        <5>3. QED
          BY <4>1, <5>1, <5>2, Zenon
      <4>3. QED
        BY <3>3, <4>2
    <3>5. 2..Len(results') = {}
      BY <3>3
    <3>6. reader' \in Seq(Nat \X Nat)
      BY <1>2
    <3>7. stage' = "decrypting" /\ sealed' # <<>>
      BY <1>1, <1>2 DEF ResultsInv
    <3> HIDE DEF first, e
    <3>8. QED
      BY <1>2, <1>3, <1>4, <3>2, <3>4, <3>5, <3>6, <3>7
      DEF ResultsInv, first, e
  <2>2. CASE n # 0
    <3>1. results # <<>>
      BY <1>4, <2>2
    <3> DEFINE first == results[1]
               e == Decrypt(first.read, first.key)
    <3>2. /\ reader = <<>> /\ first.err = e.err /\ output = e.out
          /\ \A i \in 2..n : results[i].read = <<>>
      BY <1>1, <3>1 DEF ResultsInv
    <3>3. d.out = <<>>
      BY <3>2, NothingToRead DEF d, Failed
    <3>4. output' = output
      <4>1. e.out \in {<<>>, plain}
        BY <1>1, Unsealed
      <4>2. QED
        BY <1>1, <1>2, <3>2, <3>3, <4>1, OutputBytes, Zenon
    <3>5. results'[1] = first /\ e' = e
      <4>1. results'[1] = first
        BY <1>4, <2>2
      <4>2. QED
        BY <1>2, <4>1 DEF Decrypt, Authentic
    <3>6. ASSUME NEW i \in 2..Len(results')
          PROVE  results'[i].read = <<>>
      <4>1. i \in 2..n \/ i = n + 1
        BY <1>4
      <4>2. QED
        BY <1>3, <1>4, <3>2, <4>1
    <3> HIDE DEF first, e
    <3>7. QED
      BY <1>1, <1>2, <1>4, <3>2, <3>4, <3>5, <3>6 DEF ResultsInv, first, e
  <2>3. QED
    BY <2>1, <2>2
<1>8. QED
  BY <1>5, <1>6, <1>7 DEF ClosuresInv

\* Every step preserves it.
LEMMA NextClosures == ClosuresInv /\ [Next]_vars => ClosuresInv'
<1> SUFFICES ASSUME ClosuresInv, [Next]_vars PROVE ClosuresInv'
  OBVIOUS
<1>1. ASSUME NEW key \in Keys, EncryptCall(key) PROVE ClosuresInv'
  BY <1>1, EncryptClosures, Zenon
<1>2. ASSUME NEW key \in Keys, DecryptCall(key) PROVE ClosuresInv'
  BY <1>2, DecryptClosures, Zenon
<1>3. CASE Receive
  BY <1>3, ReceiveClosures, Zenon
<1>4. CASE UNCHANGED vars
  <2>1. UNCHANGED <<stage, plain, input, sealed, text, reader, results, output>>
    BY <1>4, Zenon DEF vars
  <2>2. TypeOK' /\ SealedInv' /\ TextInv'
    BY <2>1 DEF ClosuresInv, TypeOK, SealedInv, TextInv
  <2>3. ResultsInv'
    <3> DEFINE first == results[1]
               e == Decrypt(first.read, first.key)
    <3>1. first' = first /\ e' = e
      BY <2>1 DEF Decrypt, Authentic
    <3>2. ResultsInv
      BY DEF ClosuresInv
    <3> HIDE DEF first, e
    <3>3. QED
      BY <2>1, <3>1, <3>2 DEF ResultsInv, first, e
  <2>4. QED
    BY <2>2, <2>3 DEF ClosuresInv
<1>5. QED
  BY <1>1, <1>2, <1>3, <1>4, Zenon DEF Next

\* The invariant holds in every reachable state (ciphering.go:79-135).
THEOREM ClosuresInvariance == Spec => []ClosuresInv
<1>1. Init => ClosuresInv
  BY InitClosures
<1>2. ClosuresInv /\ [Next]_vars => ClosuresInv'
  BY NextClosures
<1>3. QED
  BY <1>1, <1>2, PTL DEF Spec

\* What is ciphered are whole blocks, and at least one (ciphering.go:46-64).
THEOREM ClosuresTypeOK == Spec => []TypeOK
<1>1. ClosuresInv => TypeOK
  BY DEF ClosuresInv
<1>2. QED
  BY <1>1, ClosuresInvariance, PTL

\* A plaintext of any length that one call encrypted decrypts to itself under
\* its key, however often the decrypt closure is called, and what more than one
\* call wrote decrypts under no key (ciphering.go:79-135).
THEOREM RoundTrips == Spec => []RoundTrip
<1>1. ClosuresInv => RoundTrip
  <2> SUFFICES ASSUME ClosuresInv, NEW i \in DOMAIN results,
                      results[i].read = text
               PROVE  IF Len(sealed) = 1 /\ results[i].key = sealed[1].key
                      THEN results[i].err = "nil" /\ output = plain
                      ELSE results[i].err = "errInvalidMAC"
    BY DEF RoundTrip
  <2>1. TypeOK /\ SealedInv /\ TextInv /\ ResultsInv
    BY DEF ClosuresInv
  <2>2. results \in Seq(Result) /\ i \in 1..Len(results) /\ results # <<>>
    <3>1. results \in Seq(Result)
      BY <2>1, Zenon DEF ResultsInv
    <3>2. QED
      BY <3>1
  <2>3. stage = "decrypting" /\ sealed # <<>>
    BY <2>1, <2>2 DEF ResultsInv, TypeOK
  <2>4. text # <<>>
    <3>1. Len(text) >= 64
      BY <2>1, <2>3, TextLength, Zenon
    <3>2. QED
      BY <3>1
  <2>5. i = 1
    <3>1. i # 1 => i \in 2..Len(results)
      BY <2>2
    <3>2. i \in 2..Len(results) => results[i].read = <<>>
      BY <2>1, <2>2, Zenon DEF ResultsInv
    <3>3. QED
      BY <2>4, <3>1, <3>2, Zenon
  <2> DEFINE d == Decrypt(text, results[1].key)
  <2>6. results[1].err = d.err /\ output = d.out
    BY <2>1, <2>2, <2>5, Zenon DEF ResultsInv
  <2>7. d = IF Len(sealed) = 1 /\ results[1].key = sealed[1].key
            THEN Done(plain) ELSE Failed("errInvalidMAC")
    BY <2>1, <2>3, WholeText, Zenon
  <2> HIDE DEF d
  <2>8. QED
    BY <2>5, <2>6, <2>7 DEF Done, Failed
<1>2. QED
  BY <1>1, ClosuresInvariance, PTL

\* Whatever arrives, under whatever key, nothing but the whole plaintext is ever
\* written, and never twice (ciphering.go:102-135).
THEOREM WritesAllOrNothing == Spec => []AllOrNothing
<1>1. ClosuresInv => AllOrNothing
  <2> SUFFICES ASSUME ClosuresInv PROVE output \in {<<>>, plain}
    BY DEF AllOrNothing
  <2>1. CASE results = <<>>
    BY <2>1 DEF ClosuresInv, ResultsInv
  <2>2. CASE results # <<>>
    <3>1. output = Decrypt(results[1].read, results[1].key).out
      BY <2>2, Zenon DEF ClosuresInv, ResultsInv
    <3>2. QED
      BY <3>1, Unsealed, Zenon DEF ClosuresInv
  <2>3. QED
    BY <2>1, <2>2
<1>2. QED
  BY <1>1, ClosuresInvariance, PTL
=============================================================================
