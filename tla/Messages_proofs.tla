---------------------------- MODULE Messages_proofs ---------------------------
(***************************************************************************)
(* Proofs about Varint, Fields and Messages.                               *)
(*                                                                         *)
(* An integer is read as it was written, wherever it lies and whatever     *)
(* follows it, in as many bytes as were counted for it, and not at all     *)
(* when its last byte is missing.  The integers are those of a uint64.     *)
(*                                                                         *)
(* For bytes of every length below 128^4, a field is as long as was        *)
(* counted for it, it is read as it was written wherever it lies, and not  *)
(* at all when its end is missing.                                         *)
(*                                                                         *)
(* A message with any number of such fields is as long as was counted for  *)
(* it.  It is read as it was written, in any order of its fields, and with *)
(* a field that the reader does not know; and of a message that ends early *)
(* what is read is its first fields, or nothing.  The proofs are about a   *)
(* reader of any table of columns first, and then about the eight types.   *)
(***************************************************************************)
EXTENDS Messages, TLAPS, SequenceTheorems, WellFoundedInduction

\* A uint64: of a tenth digit there is one bit.
Fits(d) ==
  /\ Canonical(d)
  /\ Len(d) <= 10
  /\ Len(d) = 10 => d[10] = 1

----------------------------------------------------------------------------
(* Digits                                                                  *)

\* Nothing is trimmed from digits whose last one is not zero.
LEMMA TrimCanonical ==
  ASSUME NEW d \in Seq(Digit), Canonical(d)
  PROVE  Trim(d) = d
<1> DEFINE Ends(n) == /\ n = 0 \/ d[n] # 0
                      /\ \A k \in (n + 1)..Len(d) : d[k] = 0
           last == CHOOSE n \in 0..Len(d) : Ends(n)
<1>1. Len(d) \in Nat
  OBVIOUS
<1>2. Ends(Len(d))
  BY <1>1 DEF Canonical
<1>3. last \in 0..Len(d) /\ Ends(last)
  <2>1. \E n \in 0..Len(d) : Ends(n)
    BY <1>1, <1>2
  <2>2. QED
    BY <2>1
<1>4. last = Len(d)
  <2>1. SUFFICES ASSUME last # Len(d)
                 PROVE  FALSE
    OBVIOUS
  <2>2. Len(d) \in (last + 1)..Len(d) /\ Len(d) # 0
    BY <1>1, <1>3, <2>1
  <2>3. d[Len(d)] = 0
    BY <1>3, <2>2
  <2>4. d = <<>>
    BY <2>3 DEF Canonical
  <2>5. QED
    BY <2>2, <2>4
<1>5. Trim(d) = SubSeq(d, 1, last)
  BY DEF Trim
<1>6. SubSeq(d, 1, Len(d)) = d
  OBVIOUS
<1>7. QED
  BY <1>4, <1>5, <1>6

\* Ten digits at most: behind the ninth, there is one.
LEMMA TenthOfTen ==
  ASSUME NEW n \in Nat, n <= 10
  PROVE  /\ n \in 0..10
         /\ \A k \in 1..n : k \in 1..9 \/ (k = 10 /\ n = 10)
OBVIOUS

\* Where the digits of an integer are.
LEMMA UpToTen ==
  ASSUME NEW d \in Seq(Digit), Fits(d)
  PROVE  /\ Len(d) \in 0..10
         /\ \A k \in DOMAIN d : k \in 1..9 \/ (k = 10 /\ d[k] = 1)
<1>1. Len(d) \in Nat /\ DOMAIN d = 1..Len(d)
  OBVIOUS
<1>2. Len(d) <= 10 /\ (Len(d) = 10 => d[10] = 1)
  BY Zenon DEF Fits
<1>3. /\ Len(d) \in 0..10
      /\ \A k \in 1..Len(d) : k \in 1..9 \/ (k = 10 /\ Len(d) = 10)
  BY <1>1, <1>2, TenthOfTen, Zenon
<1>4. QED
  BY <1>1, <1>2, <1>3, Zenon

\* The 64 bits of the program's variable hold an integer, its tenth digit too.
LEMMA LowKeeps ==
  ASSUME NEW d \in Seq(Digit), Fits(d)
  PROVE  Low(d, 64) = d
<1> DEFINE bits == 64
           digit(k) == IF 7 * k <= bits THEN d[k]
                       ELSE IF 7 * (k - 1) < bits
                            THEN d[k] % 2^(bits - 7 * (k - 1)) ELSE 0
<1>1. ASSUME NEW k \in DOMAIN d
      PROVE  digit(k) = d[k]
  <2>1. k \in 1..9 \/ (k = 10 /\ d[k] = 1)
    BY UpToTen, Zenon
  <2>2. CASE k \in 1..9
    BY <2>2
  <2>3. CASE k = 10 /\ d[k] = 1
    <3>1. 64 - 7 * (k - 1) = 1 /\ 2^1 = 2
      BY <2>3
    <3>2. QED
      BY <2>3, <3>1
  <2>4. QED
    BY <2>1, <2>2, <2>3
<1>2. [k \in DOMAIN d |-> digit(k)] = [k \in DOMAIN d |-> d[k]]
  BY <1>1, Zenon
<1>3. [k \in DOMAIN d |-> d[k]] = d
  OBVIOUS
<1>4. Low(d, 64) = Trim([k \in DOMAIN d |-> digit(k)])
  BY DEF Low
<1>5. Canonical(d)
  BY DEF Fits
<1>6. QED
  BY <1>2, <1>3, <1>4, <1>5, TrimCanonical

----------------------------------------------------------------------------
(* Writing                                                                 *)

\* sovMsg counts the bytes that encodeVarintMsg writes (msg.pb.go:1113-1122 and
\* 908-916): Size and MarshalTo agree on every varint.
THEOREM SizeOfVarint ==
  ASSUME NEW d \in Seq(Digit)
  PROVE  Len(EncodeVarint(d)) = Sov(d)
BY DEF EncodeVarint, Sov, Zero

\* A byte holds a digit, with the high bit or without.
LEMMA BytesOfDigit ==
  ASSUME NEW x \in 0..127
  PROVE  /\ x \in Byte /\ x < 128 /\ x % 128 = x
         /\ x + 128 \in Byte /\ ~(x + 128 < 128) /\ (x + 128) % 128 = x
BY DEF Byte

\* The bytes of an encoding, by their number.
LEMMA OneToTen ==
  ASSUME NEW n \in 1..10
  PROVE  /\ n \in 1..n
         /\ \A k \in 1..(n - 1) : k \in 1..n /\ k # n
OBVIOUS

\* The sizes of an integer and of its encoding.
LEMMA NumberFacts ==
  ASSUME NEW d \in Seq(Digit), Fits(d)
  PROVE  /\ Canonical(d)
         /\ Len(d) \in 0..10
         /\ d # Zero => Len(d) # 0
         /\ Sov(d) \in 1..10
<1>1. Canonical(d) /\ Len(d) <= 10
  BY DEF Fits
<1>2. Len(d) \in Nat
  OBVIOUS
<1>3. Len(d) \in 0..10
  BY UpToTen, Zenon
<1>4. d # Zero => Len(d) # 0
  BY <1>1 DEF Zero
<1>5. Sov(d) \in 1..10
  BY <1>3, <1>4 DEF Sov
<1>6. QED
  BY <1>1, <1>3, <1>4, <1>5

\* All bytes of an encoding but the last have the high bit, and their low bits
\* are the digits.
LEMMA EncodedBytes ==
  ASSUME NEW d \in Seq(Digit), Fits(d), d # Zero
  PROVE  /\ Len(EncodeVarint(d)) = Len(d)
         /\ \A k \in 1..Len(d) :
              /\ EncodeVarint(d)[k] \in Byte
              /\ EncodeVarint(d)[k] < 128 <=> k = Len(d)
              /\ EncodeVarint(d)[k] % 128 = d[k]
<1>1. /\ Len(d) \in Nat
      /\ \A k \in 1..Len(d) : d[k] \in 0..127
  <2>1. Len(d) \in Nat /\ \A k \in 1..Len(d) : d[k] \in Digit
    OBVIOUS
  <2>2. QED
    BY <2>1, Zenon DEF Digit
<1>2. EncodeVarint(d) =
        [k \in 1..Len(d) |-> IF k < Len(d) THEN d[k] + 128 ELSE d[k]]
  BY DEF EncodeVarint, Zero
<1>3. Len(EncodeVarint(d)) = Len(d)
  BY <1>1, <1>2
<1>4. ASSUME NEW k \in 1..Len(d)
      PROVE  /\ EncodeVarint(d)[k] \in Byte
             /\ EncodeVarint(d)[k] < 128 <=> k = Len(d)
             /\ EncodeVarint(d)[k] % 128 = d[k]
  <2>1. EncodeVarint(d)[k] = IF k < Len(d) THEN d[k] + 128 ELSE d[k]
    BY <1>2
  <2>2. d[k] \in 0..127
    BY <1>1
  <2>3. k < Len(d) <=> k # Len(d)
    BY <1>1
  <2>4. /\ d[k] \in Byte /\ d[k] < 128 /\ d[k] % 128 = d[k]
        /\ d[k] + 128 \in Byte /\ ~(d[k] + 128 < 128)
        /\ (d[k] + 128) % 128 = d[k]
    BY <2>2, BytesOfDigit
  <2>5. CASE k = Len(d)
    <3>1. EncodeVarint(d)[k] = d[k]
      BY <2>1, <2>3, <2>5, Zenon
    <3>2. QED
      BY <2>4, <2>5, <3>1, Zenon
  <2>6. CASE k # Len(d)
    <3>1. EncodeVarint(d)[k] = d[k] + 128
      BY <2>1, <2>3, <2>6, Zenon
    <3>2. QED
      BY <2>4, <2>6, <3>1, Zenon
  <2>7. QED
    BY <2>5, <2>6
<1>5. QED
  BY <1>3, <1>4

----------------------------------------------------------------------------
(* Reading                                                                 *)

\* The low bits of n bytes from i on.
LowBits(b, i, n) == [k \in 1..n |-> b[i + k - 1] % 128]

\* The first byte below 128 from i on is the n-th.
EndsWith(b, i, n) ==
  /\ i + n <= Len(b) + 1
  /\ b[i + n - 1] < 128
  /\ \A k \in 1..(n - 1) : ~(b[i + k - 1] < 128)

\* Reading stops at the first byte below 128.
LEMMA ReadUpTo ==
  ASSUME NEW b \in Seq(Byte), NEW i \in Nat \ {0}, NEW n \in 1..10,
         EndsWith(b, i, n)
  PROVE  ReadVarint(b, i) =
           [digits |-> Low(LowBits(b, i, n), 64),
            next |-> i + n]
<1> DEFINE ends == {j \in i..(i + 9) : j <= Len(b) /\ b[j] < 128}
           end == CHOOSE j \in ends : \A k \in ends : j <= k
<1> USE DEF EndsWith
<1>1. i + n - 1 \in ends
  OBVIOUS
<1>2. ASSUME NEW j \in ends, j < i + n - 1
      PROVE  FALSE
  <2>1. j \in i..(i + 9) /\ b[j] < 128
    OBVIOUS
  <2>2. j - i + 1 \in 1..(n - 1) /\ i + (j - i + 1) - 1 = j
    BY <1>2, <2>1
  <2>3. QED
    BY <2>1, <2>2
<1>3. \A j \in ends : j \in Nat /\ i + n - 1 <= j
  BY <1>2
<1>4. end \in ends /\ \A k \in ends : end <= k
  BY <1>1, <1>3
<1> HIDE DEF end
<1>5. end = i + n - 1
  BY <1>1, <1>3, <1>4
<1>6. end - i + 1 = n /\ end + 1 = i + n
  BY <1>5
<1>7. ReadVarint(b, i) =
        [digits |-> Low(LowBits(b, i, end - i + 1), 64),
         next |-> end + 1]
  BY <1>1, Zenon DEF ReadVarint, LowBits, end
<1>8. QED
  BY <1>6, <1>7, Zenon

\* Zero has no digits, but a byte.
LEMMA ReadZero ==
  ASSUME NEW b \in Seq(Byte), NEW i \in Nat \ {0},
         i <= Len(b), b[i] = 0
  PROVE  ReadVarint(b, i) = [digits |-> Zero, next |-> i + 1]
<1>1. i + 1 - 1 = i
  OBVIOUS
<1>2. 1 \in 1..10 /\ EndsWith(b, i, 1)
  BY <1>1 DEF EndsWith
<1>3. LowBits(b, i, 1) = <<0>>
  <2>1. \A k \in 1..1 : b[i + k - 1] % 128 = 0
    BY <1>1
  <2>2. QED
    BY <2>1 DEF LowBits
<1>4. Low(<<0>>, 64) = Zero
  <2>1. Low(<<0>>, 64) = Trim([k \in 1..1 |-> <<0>>[k]])
    BY DEF Low
  <2>2. [k \in 1..1 |-> <<0>>[k]] = <<0>>
    OBVIOUS
  <2>3. Trim(<<0>>) = SubSeq(<<0>>, 1, 0)
    <3> DEFINE last == CHOOSE n \in 0..1 :
                         /\ n = 0 \/ <<0>>[n] # 0
                         /\ \A k \in (n + 1)..1 : <<0>>[k] = 0
    <3>1. \A k \in 1..1 : <<0>>[k] = 0
      OBVIOUS
    <3>2. last = 0
      BY <3>1
    <3>3. Trim(<<0>>) = SubSeq(<<0>>, 1, last)
      BY DEF Trim
    <3>4. QED
      BY <3>2, <3>3, Zenon
  <2>4. SubSeq(<<0>>, 1, 0) = <<>>
    OBVIOUS
  <2>5. QED
    BY <2>1, <2>2, <2>3, <2>4, Zenon DEF Zero
<1>5. ReadVarint(b, i) =
        [digits |-> Low(LowBits(b, i, 1), 64),
         next |-> i + 1]
  BY <1>2, ReadUpTo
<1>6. QED
  BY <1>3, <1>4, <1>5, Zenon

\* An integer with digits.
LEMMA ReadDigits ==
  ASSUME NEW b \in Seq(Byte), NEW d \in Seq(Digit), Fits(d), d # Zero,
         NEW i \in Nat \ {0}, NEW n \in 1..10, n = Len(d),
         i + n <= Len(b) + 1,
         \A k \in 1..n : b[i + k - 1] = EncodeVarint(d)[k]
  PROVE  ReadVarint(b, i) = [digits |-> d, next |-> i + n]
<1>1. \A k \in 1..n : /\ b[i + k - 1] < 128 <=> k = n
                      /\ b[i + k - 1] % 128 = d[k]
  BY EncodedBytes
<1>2. \A k \in 1..(n - 1) : k \in 1..n /\ k # n
  BY OneToTen, Zenon
<1>3. /\ b[i + n - 1] < 128
      /\ \A k \in 1..(n - 1) : ~(b[i + k - 1] < 128)
  <2>1. n \in 1..n
    BY OneToTen, Zenon
  <2>2. QED
    BY <1>1, <1>2, <2>1, Zenon
<1>4. ReadVarint(b, i) =
        [digits |-> Low(LowBits(b, i, n), 64),
         next |-> i + n]
  <2>1. EndsWith(b, i, n)
    BY <1>3, Zenon DEF EndsWith
  <2>2. QED
    BY <2>1, ReadUpTo, Zenon
<1>5. LowBits(b, i, n) = [k \in 1..n |-> d[k]]
  BY <1>1, Zenon DEF LowBits
<1>6. [k \in 1..n |-> d[k]] = d
  BY NumberFacts
<1>7. Low(d, 64) = d
  BY LowKeeps
<1>8. QED
  BY <1>4, <1>5, <1>6, <1>7, Zenon

\* The loop of Unmarshal over the bytes of an integer (msg.pb.go:1131-1145): an
\* integer that lies at i of b, whatever lies around it, is read as it is, and
\* reading goes on behind it.
THEOREM VarintRoundTrip ==
  ASSUME NEW b \in Seq(Byte), NEW i \in Nat \ {0},
         NEW d \in Seq(Digit), Fits(d),
         i + Sov(d) <= Len(b) + 1,
         \A k \in 1..Sov(d) : b[i + k - 1] = EncodeVarint(d)[k]
  PROVE  ReadVarint(b, i) = [digits |-> d, next |-> i + Sov(d)]
<1>1. CASE d = Zero
  <2>1. Sov(d) = 1 /\ EncodeVarint(d)[1] = 0
    BY <1>1 DEF Sov, EncodeVarint
  <2>2. b[i + 1 - 1] = 0 /\ i + 1 - 1 = i
    BY <2>1
  <2>3. QED
    BY <1>1, <2>1, <2>2, ReadZero
<1>2. CASE d # Zero
  <2>1. Sov(d) = Len(d) /\ Sov(d) \in 1..10
    BY <1>2, NumberFacts DEF Sov
  <2>2. QED
    BY <1>2, <2>1, ReadDigits
<1>3. QED
  BY <1>1, <1>2

\* The j-th position is that of a byte, but not of the last one, when the last
\* one is past the end.
LEMMA BeforeLast ==
  ASSUME NEW i \in Nat, NEW size \in 1..10, NEW end \in Nat,
         i + size > end + 1, NEW j \in i..(i + 9), j <= end
  PROVE  /\ j - i + 1 \in 1..size /\ j - i + 1 # size
         /\ i + (j - i + 1) - 1 = j
OBVIOUS

\* An integer whose last bytes are missing is not read (msg.pb.go:1135).
THEOREM CutVarintUnread ==
  ASSUME NEW b \in Seq(Byte), NEW i \in Nat \ {0},
         NEW d \in Seq(Digit), Fits(d),
         i + Sov(d) > Len(b) + 1,
         \A k \in 1..Sov(d) :
           i + k - 1 <= Len(b) => b[i + k - 1] = EncodeVarint(d)[k]
  PROVE  ReadVarint(b, i) = Unreadable
<1> DEFINE ends == {j \in i..(i + 9) : j <= Len(b) /\ b[j] < 128}
<1>1. Sov(d) \in 1..10 /\ Len(b) \in Nat
  BY NumberFacts
<1>2. ASSUME NEW k \in 1..Sov(d), k # Sov(d)
      PROVE  ~(EncodeVarint(d)[k] < 128)
  <2>1. d # Zero
    BY <1>1, <1>2 DEF Sov
  <2>2. Sov(d) = Len(d)
    BY <2>1 DEF Sov
  <2>3. QED
    BY <1>2, <2>1, <2>2, EncodedBytes
<1>3. ASSUME NEW j \in ends
      PROVE  FALSE
  <2>1. j \in i..(i + 9) /\ j <= Len(b) /\ b[j] < 128
    BY <1>3
  <2>2. /\ j - i + 1 \in 1..Sov(d) /\ j - i + 1 # Sov(d)
        /\ i + (j - i + 1) - 1 = j
    <3>1. i \in Nat /\ i + Sov(d) > Len(b) + 1
      OBVIOUS
    <3>2. QED
      BY <1>1, <2>1, <3>1, BeforeLast, SMTT(30)
  <2>3. b[j] = EncodeVarint(d)[j - i + 1]
    BY <2>1, <2>2
  <2>4. QED
    BY <1>2, <2>1, <2>2, <2>3, Zenon
<1>4. ends = {}
  BY <1>3
<1>5. QED
  BY <1>4, Zenon DEF ReadVarint

----------------------------------------------------------------------------
(* Lengths                                                                 *)

\* Trimming leaves every digit as it is, those that are not written included.
LEMMA TrimDigits ==
  ASSUME NEW d \in Seq(Digit), Len(d) = 4
  PROVE  /\ Trim(d) \in Seq(Digit) /\ Canonical(Trim(d))
         /\ Len(Trim(d)) <= Len(d)
         /\ \A k \in Nat \ {0} : DigitAt(Trim(d), k) = DigitAt(d, k)
<1> DEFINE Ends(n) == /\ n = 0 \/ d[n] # 0
                      /\ \A k \in (n + 1)..Len(d) : d[k] = 0
           last == CHOOSE n \in 0..Len(d) : Ends(n)
<1>1. last \in 0..Len(d) /\ Ends(last)
  <2>1. \E n \in 0..Len(d) : Ends(n)
    <3>1. CASE d[4] # 0
      <4>1. 4 \in 0..Len(d) /\ Ends(4)
        BY <3>1
      <4>2. QED
        BY <4>1
    <3>2. CASE d[4] = 0 /\ d[3] # 0
      <4>1. 3 \in 0..Len(d) /\ Ends(3)
        BY <3>2
      <4>2. QED
        BY <4>1
    <3>3. CASE d[4] = 0 /\ d[3] = 0 /\ d[2] # 0
      <4>1. 2 \in 0..Len(d) /\ Ends(2)
        BY <3>3
      <4>2. QED
        BY <4>1
    <3>4. CASE d[4] = 0 /\ d[3] = 0 /\ d[2] = 0 /\ d[1] # 0
      <4>1. 1 \in 0..Len(d) /\ Ends(1)
        BY <3>4
      <4>2. QED
        BY <4>1
    <3>5. CASE d[4] = 0 /\ d[3] = 0 /\ d[2] = 0 /\ d[1] = 0
      <4>1. 0 \in 0..Len(d) /\ Ends(0)
        BY <3>5
      <4>2. QED
        BY <4>1
    <3>6. QED
      BY <3>1, <3>2, <3>3, <3>4, <3>5
  <2>2. QED
    BY <2>1
<1> HIDE DEF last
<1>2. Trim(d) = SubSeq(d, 1, last)
  BY DEF Trim, last
<1>3. /\ Trim(d) \in Seq(Digit) /\ Len(Trim(d)) = last
      /\ \A k \in 1..last : Trim(d)[k] = d[k]
  BY <1>1, <1>2
<1>4. Canonical(Trim(d))
  BY <1>1, <1>3 DEF Canonical
<1>5. ASSUME NEW k \in Nat \ {0}
      PROVE  DigitAt(Trim(d), k) = DigitAt(d, k)
  BY <1>1, <1>3 DEF DigitAt
<1>6. QED
  BY <1>1, <1>3, <1>4, <1>5

\* The lengths of streams, below 128^4.
Length == {n \in Nat : ((n \div 128) \div 128) \div 128 \in Digit}

\* A digit and what is left make up an integer.
LEMMA OneDigit ==
  ASSUME NEW n \in Nat
  PROVE  /\ n % 128 \in 0..127 /\ n \div 128 \in Nat
         /\ (n % 128) + 128 * (n \div 128) = n
OBVIOUS

\* A length, by its digits.
LEMMA IntOfDigits ==
  ASSUME NEW d, NEW d1, NEW d2, NEW d3, NEW d4,
         DigitAt(d, 1) = d1, DigitAt(d, 2) = d2,
         DigitAt(d, 3) = d3, DigitAt(d, 4) = d4
  PROVE  IntOf(d) = d1 + 128 * (d2 + 128 * (d3 + 128 * d4))
BY DEF IntOf

\* A length survives the way to its digits and back.
LEMMA LengthDigits ==
  ASSUME NEW n \in Length
  PROVE  /\ Digits(n) \in Seq(Digit) /\ Fits(Digits(n))
         /\ Len(Digits(n)) <= 4 /\ IntOf(Digits(n)) = n
<1> DEFINE n2 == n \div 128
           n3 == n2 \div 128
           n4 == n3 \div 128
           four == <<n % 128, n2 % 128, n3 % 128, n4>>
<1>1. n \in Nat /\ n4 \in Digit
  BY DEF Length
<1>2. n2 \in Nat /\ n % 128 \in 0..127 /\ (n % 128) + 128 * n2 = n
  BY <1>1, OneDigit, ZenonT(40)
<1> HIDE DEF n2
<1>3. n3 \in Nat /\ n2 % 128 \in 0..127 /\ (n2 % 128) + 128 * n3 = n2
  BY <1>2, OneDigit, ZenonT(40)
<1> HIDE DEF n3
<1>4. n3 % 128 \in 0..127 /\ (n3 % 128) + 128 * n4 = n3
  BY <1>3, OneDigit, ZenonT(40)
<1> HIDE DEF n4
<1>5. four \in Seq(Digit) /\ Len(four) = 4
  <2>1. n % 128 \in Digit /\ n2 % 128 \in Digit /\ n3 % 128 \in Digit
    BY <1>2, <1>3, <1>4, Zenon DEF Digit
  <2>2. QED
    BY <1>1, <2>1
<1>6. /\ DigitAt(four, 1) = n % 128 /\ DigitAt(four, 2) = n2 % 128
      /\ DigitAt(four, 3) = n3 % 128 /\ DigitAt(four, 4) = n4
  BY DEF DigitAt
<1>7. Digits(n) = Trim(four)
  BY DEF Digits, n2, n3, n4
<1> HIDE DEF four
<1>8. /\ Trim(four) \in Seq(Digit) /\ Canonical(Trim(four))
      /\ Len(Trim(four)) <= 4
  BY <1>5, TrimDigits
<1>9. /\ DigitAt(Trim(four), 1) = DigitAt(four, 1)
      /\ DigitAt(Trim(four), 2) = DigitAt(four, 2)
      /\ DigitAt(Trim(four), 3) = DigitAt(four, 3)
      /\ DigitAt(Trim(four), 4) = DigitAt(four, 4)
  BY <1>5, TrimDigits
<1>10. IntOf(Trim(four)) =
         (n % 128) + 128 * ((n2 % 128) + 128 * ((n3 % 128) + 128 * n4))
  <2>1. /\ DigitAt(Trim(four), 1) = n % 128
        /\ DigitAt(Trim(four), 2) = n2 % 128
        /\ DigitAt(Trim(four), 3) = n3 % 128
        /\ DigitAt(Trim(four), 4) = n4
    BY <1>6, <1>9
  <2>2. QED
    BY <2>1, IntOfDigits, SMTT(20)
<1>11. IntOf(Trim(four)) = n
  BY <1>2, <1>3, <1>4, <1>10, ZenonT(40)
<1>12. Fits(Trim(four))
  BY <1>8 DEF Fits
<1>13. QED
  BY <1>7, <1>8, <1>11, <1>12, Zenon

----------------------------------------------------------------------------
(* Fields                                                                  *)

\* x lies at i of b, whatever lies around it.
LiesAt(x, b, i) ==
  /\ i + Len(x) <= Len(b) + 1
  /\ \A k \in 1..Len(x) : b[i + k - 1] = x[k]

\* The digits of a length.
LEMMA LengthFacts ==
  ASSUME NEW n \in Length
  PROVE  /\ Digits(n) \in Seq(Digit) /\ Fits(Digits(n))
         /\ Len(Digits(n)) <= 4 /\ IntOf(Digits(n)) = n
         /\ Sov(Digits(n)) \in 1..10
<1>1. /\ Digits(n) \in Seq(Digit) /\ Fits(Digits(n))
      /\ Len(Digits(n)) <= 4 /\ IntOf(Digits(n)) = n
  BY LengthDigits, Zenon
<1>2. Sov(Digits(n)) \in 1..10
  BY <1>1, NumberFacts, Zenon
<1>3. QED
  BY <1>1, <1>2, Zenon

\* An encoding is a sequence of bytes.
LEMMA EncodedIsBytes ==
  ASSUME NEW d \in Seq(Digit)
  PROVE  EncodeVarint(d) \in Seq(Byte)
<1>1. CASE d = Zero
  BY <1>1 DEF EncodeVarint, Byte
<1>2. CASE d # Zero
  <2> DEFINE e == [k \in 1..Len(d) |->
                    IF k < Len(d) THEN d[k] + 128 ELSE d[k]]
  <2>1. ASSUME NEW k \in 1..Len(d)
        PROVE  e[k] \in Byte
    <3>1. d[k] \in 0..127
      <4>1. d[k] \in Digit
        OBVIOUS
      <4>2. QED
        BY <4>1, Zenon DEF Digit
    <3>2. d[k] \in Byte /\ d[k] + 128 \in Byte
      BY <3>1, BytesOfDigit, ZenonT(30)
    <3>3. QED
      BY <3>2
  <2>2. Len(d) \in Nat /\ DOMAIN d = 1..Len(d)
    OBVIOUS
  <2>3. e \in Seq(Byte)
    <3> HIDE DEF e
    <3>1. e \in [1..Len(d) -> Byte]
      BY <2>1 DEF e
    <3>2. QED
      BY <2>2, <3>1
  <2>4. QED
    BY <1>2, <2>2, <2>3 DEF EncodeVarint
<1>3. QED
  BY <1>1, <1>2

\* Size counts as many bytes for a string or bytes as MarshalTo writes
\* (msg.pb.go:923-926 and 603-608).
THEOREM SizeOfBytes ==
  ASSUME NEW s \in Seq(Byte), Len(s) \in Length, NEW tag \in Byte
  PROVE  Len(BytesPiece(tag, s)) = BytesPieceSize(s)
<1> DEFINE len == Digits(Len(s))
<1>1. len \in Seq(Digit)
  BY LengthFacts, Zenon
<1> HIDE DEF len
<1>2. Len(EncodeVarint(len)) = Sov(len)
  BY <1>1, SizeOfVarint
<1>3. EncodeVarint(len) \in Seq(Byte)
  BY <1>1, EncodedIsBytes
<1>4. <<tag>> \in Seq(Byte) /\ Len(<<tag>>) = 1
  OBVIOUS
<1>5. Len(<<tag>> \o EncodeVarint(len) \o s) =
        1 + Len(EncodeVarint(len)) + Len(s)
  BY <1>3, <1>4
<1>6. Sov(len) \in Nat
  BY <1>1 DEF Sov
<1>7. 1 + Len(EncodeVarint(len)) + Len(s) = 1 + Len(s) + Sov(len)
  BY <1>2, <1>6
<1>8. QED
  BY <1>5, <1>7 DEF BytesPiece, BytesPieceSize, len

\* The length before a string or bytes is read as it was written.
LEMMA LengthRead ==
  ASSUME NEW n \in Length, NEW b \in Seq(Byte), NEW i \in Nat \ {0},
         LiesAt(EncodeVarint(Digits(n)), b, i)
  PROVE  ReadVarint(b, i) = [digits |-> Digits(n), next |-> i + Sov(Digits(n))]
<1> DEFINE len == Digits(n)
<1>1. len \in Seq(Digit) /\ Fits(len)
  BY LengthFacts, Zenon
<1> HIDE DEF len
<1>2. Len(EncodeVarint(len)) = Sov(len)
  BY <1>1, SizeOfVarint
<1>3. /\ i + Sov(len) <= Len(b) + 1
      /\ \A k \in 1..Sov(len) : b[i + k - 1] = EncodeVarint(len)[k]
  BY <1>2 DEF LiesAt, len
<1>4. ReadVarint(b, i) = [digits |-> len, next |-> i + Sov(len)]
  BY <1>1, <1>3, VarintRoundTrip
<1>5. QED
  BY <1>4 DEF len

\* The part of b where s lies is s.
LEMMA WhatLies ==
  ASSUME NEW s \in Seq(Byte), NEW b \in Seq(Byte), NEW at \in Nat \ {0},
         LiesAt(s, b, at)
  PROVE  SubSeq(b, at, at + Len(s) - 1) = s
<1> DEFINE t == SubSeq(b, at, at + Len(s) - 1)
<1>1. t \in Seq(Byte) /\ Len(t) = Len(s)
  BY DEF LiesAt
<1>2. ASSUME NEW k \in 1..Len(s)
      PROVE  t[k] = s[k]
  BY <1>1, <1>2 DEF LiesAt
<1> HIDE DEF t
<1>3. t = s
  BY <1>1, <1>2
<1>4. QED
  BY <1>3 DEF t

\* A value starts behind its length.
LEMMA Beyond ==
  ASSUME NEW i \in Nat \ {0}, NEW v \in 1..10
  PROVE  i + v \in Nat \ {0} /\ i + v # 0
OBVIOUS

\* The two ways to count what a string or bytes takes.
LEMMA Behind ==
  ASSUME NEW i \in Nat \ {0}, NEW n \in Nat, NEW v \in 1..10
  PROVE  i + v + n = i + (1 + n + v) - 1
OBVIOUS

\* A string or bytes: what MarshalTo writes behind the tag, wherever it lies,
\* Unmarshal reads as it is, and goes on behind it (msg.pb.go:1515-1545).
THEOREM BytesRoundTrip ==
  ASSUME NEW s \in Seq(Byte), Len(s) \in Length,
         NEW b \in Seq(Byte), NEW i \in Nat \ {0},
         LiesAt(EncodeVarint(Digits(Len(s))), b, i),
         LiesAt(s, b, i + Sov(Digits(Len(s)))),
         NEW m, NEW name, NEW repeated \in BOOLEAN
  PROVE  ReadBytes(b, i, m, name, repeated) =
           {[m |-> [m EXCEPT ![name] = IF repeated THEN Append(@, s) ELSE s],
             next |-> i + BytesPieceSize(s) - 1]}
<1> DEFINE len == Digits(Len(s))
           at == i + Sov(len)
<1>1. /\ len \in Seq(Digit) /\ Fits(len) /\ Len(len) <= 4
      /\ IntOf(len) = Len(s) /\ Sov(len) \in 1..10
  BY LengthFacts, Zenon
<1>2. at \in Nat \ {0} /\ at # 0
  BY <1>1, Beyond, Zenon
<1> HIDE DEF len
<1>3. ReadVarint(b, i) = [digits |-> len, next |-> at]
  BY LengthRead DEF len
<1>4. LiesAt(s, b, at)
  BY DEF len
<1> HIDE DEF at
<1>5. After(b, at, len) = at + Len(s)
  BY <1>1, <1>4 DEF After, LiesAt
<1>6. SubSeq(b, at, at + Len(s) - 1) = s
  BY <1>2, <1>4, WhatLies
<1>7. at + Len(s) # 0
  BY <1>2
<1>8. ReadBytes(b, i, m, name, repeated) =
        {[m |-> [m EXCEPT ![name] = IF repeated THEN Append(@, s) ELSE s],
          next |-> at + Len(s)]}
  <2> DEFINE next == at + Len(s)
  <2> HIDE DEF next
  <2>1. /\ ReadVarint(b, i).next = at /\ at # 0
        /\ ReadVarint(b, i).digits = len
        /\ After(b, at, len) = next /\ next # 0
        /\ SubSeq(b, at, next - 1) = s
    BY <1>2, <1>3, <1>5, <1>6, <1>7 DEF next
  <2>2. ReadBytes(b, i, m, name, repeated) =
          {[m |-> [m EXCEPT ![name] = IF repeated THEN Append(@, s) ELSE s],
            next |-> next]}
    BY <2>1, Zenon DEF ReadBytes
  <2>3. QED
    BY <2>2, Zenon DEF next
<1>9. at + Len(s) = i + BytesPieceSize(s) - 1
  <2>1. BytesPieceSize(s) = 1 + Len(s) + Sov(len)
    BY DEF BytesPieceSize, len
  <2>2. Len(s) \in Nat
    OBVIOUS
  <2>3. i + Sov(len) + Len(s) = i + (1 + Len(s) + Sov(len)) - 1
    BY <1>1, <2>2, Behind, Zenon
  <2>4. QED
    BY <2>1, <2>3, Zenon DEF at
<1>10. QED
  BY <1>8, <1>9, Zenon

\* A string or bytes that goes past the end of the stream: Unmarshal reports it
\* (msg.pb.go:1540).  CutVarintUnread is the same of the length before it.
THEOREM CutBytesUnread ==
  ASSUME NEW s \in Seq(Byte), Len(s) \in Length,
         NEW b \in Seq(Byte), NEW i \in Nat \ {0},
         LiesAt(EncodeVarint(Digits(Len(s))), b, i),
         i + Sov(Digits(Len(s))) + Len(s) > Len(b) + 1,
         NEW m, NEW name, NEW repeated \in BOOLEAN
  PROVE  ReadBytes(b, i, m, name, repeated) = {}
<1> DEFINE len == Digits(Len(s))
           at == i + Sov(len)
<1>1. /\ len \in Seq(Digit) /\ Fits(len) /\ Len(len) <= 4
      /\ IntOf(len) = Len(s) /\ Sov(len) \in 1..10
  BY LengthFacts, Zenon
<1>2. ReadVarint(b, i) = [digits |-> len, next |-> at]
  BY LengthRead
<1>3. ~(at + Len(s) <= Len(b) + 1)
  <2>1. at + Len(s) > Len(b) + 1
    OBVIOUS
  <2>2. at \in Nat /\ Len(s) \in Nat /\ Len(b) \in Nat
    BY <1>1
  <2> HIDE DEF at
  <2>3. QED
    BY <2>1, <2>2
<1> HIDE DEF len, at
<1>4. After(b, at, len) = 0
  BY <1>1, <1>3 DEF After
<1>5. QED
  BY <1>2, <1>4 DEF ReadBytes

----------------------------------------------------------------------------
(* Induction                                                               *)

\* Sets of natural numbers have a least element.
LEMMA LeastNumber ==
  ASSUME NEW T, T \subseteq Nat, T # {}
  PROVE  \E m \in T : \A k \in T : m <= k
<1> DEFINE R == OpToRel(<, Nat)
<1>1. IsWellFoundedOn(R, Nat)
  BY NatLessThanWellFounded
<1>2. \A m, k \in Nat : <<k, m>> \in R <=> k < m
  BY DEF OpToRel
<1> HIDE DEF R
<1>3. PICK m \in T : \A k \in T : ~ (<<k, m>> \in R)
  BY <1>1, WFMin
<1>4. ASSUME NEW k \in T PROVE m <= k
  <2>1. k \in Nat /\ m \in Nat
    OBVIOUS
  <2>2. ~(k < m)
    BY <1>2, <1>3, <2>1
  <2>3. QED
    BY <2>1, <2>2
<1>5. QED
  BY <1>4

\* Induction, for a set of natural numbers.
LEMMA NumberInduction ==
  ASSUME NEW T, 0 \in T, \A n \in Nat : n \in T => n + 1 \in T
  PROVE  Nat \subseteq T
<1> DEFINE U == {n \in Nat : n \notin T}
<1> SUFFICES ASSUME U # {} PROVE FALSE
  OBVIOUS
<1>1. PICK m \in U : \A k \in U : m <= k
  BY LeastNumber
<1>2. m # 0 /\ m - 1 \in Nat
  BY <1>1
<1>3. m - 1 \in T
  BY <1>1, <1>2
<1>4. QED
  BY <1>1, <1>2, <1>3

----------------------------------------------------------------------------
(* Streams                                                                 *)

\* Joining streams is associative.
LEMMA Associate ==
  ASSUME NEW s \in Seq(Byte), NEW t \in Seq(Byte), NEW u \in Seq(Byte)
  PROVE  (s \o t) \o u = s \o (t \o u)
OBVIOUS

\* Joins(ps, n, g): g is what the first n pieces join to, from one on.
Joins(ps, n, g) ==
  /\ g \in [1..n -> Seq(Byte)]
  /\ \A i \in 1..n : g[i] = IF i = 1 THEN ps[i] ELSE g[i - 1] \o ps[i]

\* Pieces can be joined.
LEMMA JoinsExist ==
  ASSUME NEW ps \in Seq(Seq(Byte)), NEW n \in Nat, n <= Len(ps)
  PROVE  \E g : Joins(ps, n, g)
<1> DEFINE T == {k \in Nat : k <= Len(ps) => \E g : Joins(ps, k, g)}
<1>1. 0 \in T
  <2>1. Joins(ps, 0, [i \in 1..0 |-> <<>>])
    BY DEF Joins
  <2>2. QED
    BY <2>1
<1>2. ASSUME NEW k \in Nat, k \in T PROVE k + 1 \in T
  <2>1. SUFFICES ASSUME k + 1 <= Len(ps)
                 PROVE  \E g : Joins(ps, k + 1, g)
    OBVIOUS
  <2>2. PICK g : Joins(ps, k, g)
    BY <1>2, <2>1
  <2> DEFINE x == IF k + 1 = 1 THEN ps[k + 1] ELSE g[k] \o ps[k + 1]
             h == [i \in 1..(k + 1) |-> IF i = k + 1 THEN x ELSE g[i]]
  <2>3. ps[k + 1] \in Seq(Byte)
    BY <2>1
  <2>4. x \in Seq(Byte)
    <3>1. CASE k = 0
      BY <2>3, <3>1
    <3>2. CASE k # 0
      <4>1. g[k] \in Seq(Byte)
        BY <2>2, <3>2 DEF Joins
      <4>2. QED
        BY <2>3, <3>2, <4>1
    <3>3. QED
      BY <3>1, <3>2
  <2>5. h \in [1..(k + 1) -> Seq(Byte)]
    <3> HIDE DEF x
    <3>1. \A i \in 1..(k + 1) : i # k + 1 => g[i] \in Seq(Byte)
      BY <2>2 DEF Joins
    <3>2. QED
      BY <2>4, <3>1
  <2>6. ASSUME NEW i \in 1..(k + 1)
        PROVE  h[i] = IF i = 1 THEN ps[i] ELSE h[i - 1] \o ps[i]
    <3>1. CASE i = k + 1
      <4>1. k # 0 => h[k] = g[k]
        OBVIOUS
      <4>2. h[i] = x
        BY <3>1
      <4>3. QED
        BY <3>1, <4>1, <4>2
    <3>2. CASE i # k + 1
      <4>1. i \in 1..k
        BY <3>2
      <4>2. h[i] = g[i] /\ (i # 1 => h[i - 1] = g[i - 1])
        BY <3>2, <4>1
      <4>3. QED
        BY <2>2, <4>1, <4>2 DEF Joins
    <3>3. QED
      BY <3>1, <3>2
  <2> HIDE DEF h
  <2>7. Joins(ps, k + 1, h)
    BY <2>5, <2>6 DEF Joins
  <2>8. QED
    BY <2>7
<1> HIDE DEF T
<1>3. n \in T
  BY <1>1, <1>2, NumberInduction
<1>4. QED
  BY <1>3 DEF T

\* The first n elements are the same.
Agree(s, t, n) == \A i \in 1..n : s[i] = t[i]

\* What the first of the pieces join to does not depend on those behind them.
LEMMA JoinsAgree ==
  ASSUME NEW ps, NEW qs, NEW n \in Nat, NEW m \in Nat, n <= m,
         Agree(ps, qs, n),
         NEW g, NEW h, Joins(ps, n, g), Joins(qs, m, h)
  PROVE  Agree(g, h, n)
<1> USE DEF Agree
<1> DEFINE T == {k \in Nat : k + 1 <= n => g[k + 1] = h[k + 1]}
<1>1. 0 \in T
  <2>1. SUFFICES ASSUME 1 <= n PROVE g[1] = h[1]
    OBVIOUS
  <2>2. 1 \in 1..n /\ 1 \in 1..m
    BY <2>1
  <2>3. QED
    BY <2>2 DEF Joins
<1>2. ASSUME NEW k \in Nat, k \in T PROVE k + 1 \in T
  <2>1. SUFFICES ASSUME k + 2 <= n PROVE g[k + 2] = h[k + 2]
    OBVIOUS
  <2>2. k + 1 <= n /\ k + 2 \in 1..n /\ k + 2 \in 1..m /\ k + 2 # 1
        /\ (k + 2) - 1 = k + 1
    BY <2>1
  <2>3. g[k + 1] = h[k + 1] /\ ps[k + 2] = qs[k + 2]
    BY <1>2, <2>2
  <2>4. g[k + 2] = g[k + 1] \o ps[k + 2] /\ h[k + 2] = h[k + 1] \o qs[k + 2]
    BY <2>2 DEF Joins
  <2>5. QED
    BY <2>3, <2>4
<1> HIDE DEF T
<1>3. Nat \subseteq T
  BY <1>1, <1>2, NumberInduction
<1>4. ASSUME NEW i \in 1..n PROVE g[i] = h[i]
  <2>1. i - 1 \in Nat /\ (i - 1) + 1 = i
    OBVIOUS
  <2>2. i - 1 \in T
    BY <1>3, <2>1
  <2>3. QED
    BY <2>1, <2>2 DEF T
<1>5. QED
  BY <1>4

\* FlattenSeq joins them all.
LEMMA FlattenJoins ==
  ASSUME NEW ps \in Seq(Seq(Byte)), Len(ps) # 0
  PROVE  \E g : Joins(ps, Len(ps), g) /\ FlattenSeq(ps) = g[Len(ps)]
<1> DEFINE n == Len(ps)
           Def(f) == [i \in 1..n |-> IF i = 1 THEN ps[i] ELSE f[i - 1] \o ps[i]]
           f == CHOOSE f : f = Def(f)
<1>0. n \in Nat
  OBVIOUS
<1>1. PICK g : Joins(ps, n, g)
  BY <1>0, JoinsExist
<1>2. g = Def(g)
  BY <1>1 DEF Joins
<1>3. f = Def(f)
  BY <1>2
<1>4. FlattenSeq(ps) = f[n]
  BY DEF FlattenSeq
<1> HIDE DEF f
<1> DEFINE T == {k \in Nat : k + 1 <= n => f[k + 1] = g[k + 1]}
<1>5. 0 \in T
  <2>1. SUFFICES ASSUME 1 <= n PROVE f[1] = g[1]
    OBVIOUS
  <2>2. 1 \in 1..n
    BY <1>0, <2>1
  <2>3. QED
    BY <1>1, <1>3, <2>2 DEF Joins
<1>6. ASSUME NEW k \in Nat, k \in T PROVE k + 1 \in T
  <2>1. SUFFICES ASSUME k + 2 <= n PROVE f[k + 2] = g[k + 2]
    OBVIOUS
  <2>2. k + 1 <= n /\ k + 2 \in 1..n /\ k + 2 # 1 /\ (k + 2) - 1 = k + 1
    BY <2>1
  <2>3. f[k + 1] = g[k + 1]
    BY <1>6, <2>2
  <2>4. f[k + 2] = f[k + 1] \o ps[k + 2]
    BY <1>3, <2>2
  <2>5. g[k + 2] = g[k + 1] \o ps[k + 2]
    BY <1>1, <2>2 DEF Joins
  <2>6. QED
    BY <2>3, <2>4, <2>5
<1> HIDE DEF T
<1>7. n - 1 \in T
  <2>1. Nat \subseteq T
    BY <1>5, <1>6, NumberInduction
  <2>2. QED
    BY <1>0, <2>1
<1>8. f[n] = g[n]
  BY <1>0, <1>7 DEF T
<1>9. QED
  BY <1>1, <1>4, <1>8

\* No pieces join to no bytes.
LEMMA FlattenNone ==
  FlattenSeq(<<>>) = <<>>
BY DEF FlattenSeq

\* A stream is a sequence of bytes.
LEMMA FlattenIsBytes ==
  ASSUME NEW ps \in Seq(Seq(Byte))
  PROVE  FlattenSeq(ps) \in Seq(Byte)
<1>1. CASE ps = <<>>
  <2>1. <<>> \in Seq(Byte)
    OBVIOUS
  <2>2. QED
    BY <1>1, <2>1, FlattenNone, Zenon
<1>2. CASE ps # <<>>
  <2>1. Len(ps) \in Nat /\ Len(ps) # 0 /\ Len(ps) \in 1..Len(ps)
    BY <1>2
  <2>2. PICK g : Joins(ps, Len(ps), g) /\ FlattenSeq(ps) = g[Len(ps)]
    BY <2>1, FlattenJoins
  <2>3. QED
    BY <2>1, <2>2, Zenon DEF Joins
<1>3. QED
  BY <1>1, <1>2

\* One piece more.
LEMMA FlattenAppend ==
  ASSUME NEW ps \in Seq(Seq(Byte)), NEW p \in Seq(Byte)
  PROVE  FlattenSeq(Append(ps, p)) = FlattenSeq(ps) \o p
<1> DEFINE qs == Append(ps, p)
           n == Len(ps)
<1>1. /\ qs \in Seq(Seq(Byte)) /\ n \in Nat /\ Len(qs) = n + 1
      /\ \A i \in 1..n : ps[i] = qs[i]
      /\ qs[n + 1] = p
  OBVIOUS
<1> HIDE DEF qs
<1>2. PICK h : Joins(qs, n + 1, h) /\ FlattenSeq(qs) = h[n + 1]
  <2>1. Len(qs) # 0
    BY <1>1
  <2>2. QED
    BY <1>1, <2>1, FlattenJoins
<1>3. CASE n = 0
  <2>1. h[1] = qs[1]
    BY <1>2, <1>3 DEF Joins
  <2>2. ps = <<>>
    BY <1>3
  <2>3. <<>> \o p = p
    OBVIOUS
  <2>4. QED
    BY <1>1, <1>2, <1>3, <2>1, <2>2, <2>3, FlattenNone DEF qs
<1>4. CASE n # 0
  <2>1. PICK g : Joins(ps, n, g) /\ FlattenSeq(ps) = g[n]
    BY <1>4, FlattenJoins
  <2>2. n \in 1..n /\ n <= n + 1 /\ n + 1 \in Nat
    BY <1>1, <1>4
  <2>3. g[n] = h[n]
    <3>0. Joins(ps, n, g) /\ Joins(qs, n + 1, h)
      BY <1>2, <2>1
    <3>1. Agree(ps, qs, n)
      BY <1>1 DEF Agree
    <3>2. Agree(g, h, n)
      BY <1>1, <2>2, <3>0, <3>1, JoinsAgree, Zenon
    <3>3. QED
      BY <2>2, <3>2 DEF Agree
  <2>4. h[n + 1] = h[n] \o qs[n + 1]
    <3>1. n + 1 \in 1..(n + 1) /\ n + 1 # 1 /\ (n + 1) - 1 = n
      BY <1>1, <1>4
    <3>2. QED
      BY <1>2, <3>1 DEF Joins
  <2>5. QED
    BY <1>1, <1>2, <2>1, <2>3, <2>4 DEF qs
<1>5. QED
  BY <1>3, <1>4

\* The first k pieces, by the last one of them.
LEMMA FlattenFirst ==
  ASSUME NEW ps \in Seq(Seq(Byte)), NEW k \in 1..Len(ps)
  PROVE  FlattenSeq(SubSeq(ps, 1, k)) =
           FlattenSeq(SubSeq(ps, 1, k - 1)) \o ps[k]
<1> DEFINE front == SubSeq(ps, 1, k - 1)
<1>1. front \in Seq(Seq(Byte)) /\ ps[k] \in Seq(Byte)
  OBVIOUS
<1>2. SubSeq(ps, 1, k) = Append(front, ps[k])
  OBVIOUS
<1> HIDE DEF front
<1>3. QED
  BY <1>1, <1>2, FlattenAppend DEF front

\* The pieces of one stream behind those of another.
LEMMA FlattenConcat ==
  ASSUME NEW ps \in Seq(Seq(Byte)), NEW qs \in Seq(Seq(Byte))
  PROVE  FlattenSeq(ps \o qs) = FlattenSeq(ps) \o FlattenSeq(qs)
<1> DEFINE front(k) == SubSeq(qs, 1, k)
           T == {k \in Nat : k <= Len(qs) =>
                   FlattenSeq(ps \o front(k)) =
                     FlattenSeq(ps) \o FlattenSeq(front(k))}
<1>1. 0 \in T
  <2>1. front(0) = <<>> /\ ps \o <<>> = ps
    OBVIOUS
  <2>2. FlattenSeq(ps) \o <<>> = FlattenSeq(ps)
    <3>1. FlattenSeq(ps) \in Seq(Byte)
      BY FlattenIsBytes
    <3>2. QED
      BY <3>1
  <2>3. QED
    BY <2>1, <2>2, FlattenNone
<1>2. ASSUME NEW k \in Nat, k \in T PROVE k + 1 \in T
  <2>1. SUFFICES ASSUME k + 1 <= Len(qs)
                 PROVE  FlattenSeq(ps \o front(k + 1)) =
                          FlattenSeq(ps) \o FlattenSeq(front(k + 1))
    OBVIOUS
  <2> DEFINE q == qs[k + 1]
  <2>2. /\ front(k) \in Seq(Seq(Byte)) /\ q \in Seq(Byte)
        /\ front(k + 1) = Append(front(k), q)
    BY <2>1
  <2>3. FlattenSeq(ps \o front(k)) = FlattenSeq(ps) \o FlattenSeq(front(k))
    BY <1>2, <2>1
  <2> HIDE DEF front, q
  <2>4. ps \o Append(front(k), q) = Append(ps \o front(k), q)
        /\ ps \o front(k) \in Seq(Seq(Byte))
    BY <2>2, SMTT(30)
  <2>5. FlattenSeq(Append(ps \o front(k), q)) =
          FlattenSeq(ps \o front(k)) \o q
    BY <2>2, <2>4, FlattenAppend
  <2>6. FlattenSeq(Append(front(k), q)) = FlattenSeq(front(k)) \o q
    BY <2>2, FlattenAppend
  <2>7. FlattenSeq(ps) \in Seq(Byte) /\ FlattenSeq(front(k)) \in Seq(Byte)
    BY <2>2, FlattenIsBytes
  <2>8. (FlattenSeq(ps) \o FlattenSeq(front(k))) \o q =
          FlattenSeq(ps) \o (FlattenSeq(front(k)) \o q)
    BY <2>2, <2>7, Associate
  <2>9. QED
    BY <2>2, <2>3, <2>4, <2>5, <2>6, <2>8
<1> HIDE DEF T
<1>3. Len(qs) \in T
  <2>1. Nat \subseteq T
    BY <1>1, <1>2, NumberInduction
  <2>2. QED
    BY <2>1
<1>4. FlattenSeq(ps \o front(Len(qs))) =
        FlattenSeq(ps) \o FlattenSeq(front(Len(qs)))
  <2>1. Len(qs) <= Len(qs)
    OBVIOUS
  <2> HIDE DEF front
  <2>2. QED
    BY <1>3, <2>1 DEF T
<1>5. front(Len(qs)) = qs
  OBVIOUS
<1> HIDE DEF front
<1>6. QED
  BY <1>4, <1>5

----------------------------------------------------------------------------
(* Varints, wherever they lie                                              *)

\* Trimming stops at the last digit that is not zero.
LEMMA TrimStops ==
  ASSUME NEW S, NEW d \in Seq(S)
  PROVE  \E n \in 0..Len(d) : /\ Trim(d) = SubSeq(d, 1, n)
                              /\ n = 0 \/ d[n] # 0
<1> DEFINE Ends(n) == /\ n = 0 \/ d[n] # 0
                      /\ \A k \in (n + 1)..Len(d) : d[k] = 0
           Rest == {n \in Nat : /\ n <= Len(d)
                                /\ \A k \in (n + 1)..Len(d) : d[k] = 0}
           last == CHOOSE n \in 0..Len(d) : Ends(n)
<1>1. Len(d) \in Nat /\ Len(d) \in Rest
  OBVIOUS
<1>2. PICK n \in Rest : \A k \in Rest : n <= k
  BY <1>1, LeastNumber
<1>3. Ends(n)
  <2>1. SUFFICES ASSUME n # 0, d[n] = 0 PROVE FALSE
    BY <1>2
  <2>2. n - 1 \in Nat /\ n - 1 <= Len(d)
    BY <1>1, <1>2, <2>1
  <2>3. ASSUME NEW k \in ((n - 1) + 1)..Len(d) PROVE d[k] = 0
    <3>1. k = n \/ k \in (n + 1)..Len(d)
      BY <1>1, <1>2
    <3>2. QED
      BY <1>2, <2>1, <3>1
  <2>4. n - 1 \in Rest
    BY <2>2, <2>3
  <2>5. n <= n - 1
    BY <1>2, <2>4
  <2>6. QED
    BY <1>2, <2>5
<1>4. n \in 0..Len(d)
  BY <1>1, <1>2
<1>5. last \in 0..Len(d) /\ Ends(last)
  BY <1>3, <1>4
<1>6. Trim(d) = SubSeq(d, 1, last)
  BY DEF Trim
<1>7. QED
  BY <1>5, <1>6

\* A digit, as far as it belongs to a type of 64 bits.
DigitOf64(d, k) ==
  IF 7 * k <= 64 THEN d[k]
  ELSE IF 7 * (k - 1) < 64 THEN d[k] % 2^(64 - 7 * (k - 1)) ELSE 0

\* There is a bit of the tenth digit, and nothing of those behind it.
LEMMA DigitsOf64 ==
  ASSUME NEW d, NEW k \in Nat \ {0}, d[k] \in Digit
  PROVE  /\ DigitOf64(d, k) \in Digit
         /\ k > 10 => DigitOf64(d, k) = 0
         /\ k = 10 => DigitOf64(d, k) \in {0, 1}
<1>1. CASE k <= 9
  BY <1>1 DEF DigitOf64
<1>2. CASE k = 10
  <2>1. 64 - 7 * (10 - 1) = 1 /\ 2^1 = 2
    OBVIOUS
  <2>2. DigitOf64(d, k) = d[k] % 2
    BY <1>2, <2>1 DEF DigitOf64
  <2>3. d[k] \in 0..127
    BY DEF Digit
  <2>4. d[k] % 2 \in {0, 1}
    BY <2>3
  <2>5. {0, 1} \subseteq Digit
    BY DEF Digit
  <2>6. QED
    BY <1>2, <2>2, <2>4, <2>5
<1>3. CASE k > 10
  <2>1. DigitOf64(d, k) = 0
    BY <1>3 DEF DigitOf64
  <2>2. 0 \in Digit
    BY DEF Digit
  <2>3. QED
    BY <1>3, <2>1, <2>2
<1>4. QED
  BY <1>1, <1>2, <1>3

\* The low bits of digits are digits.
LEMMA LowIsDigits ==
  ASSUME NEW d \in Seq(Digit)
  PROVE  Low(d, 64) \in Seq(Digit)
<1> DEFINE x == [k \in DOMAIN d |-> DigitOf64(d, k)]
<1>1. x \in Seq(Digit)
  <2>1. ASSUME NEW k \in 1..Len(d) PROVE DigitOf64(d, k) \in Digit
    <3>1. d[k] \in Digit /\ k \in Nat \ {0}
      OBVIOUS
    <3>2. QED
      BY <3>1, DigitsOf64
  <2>2. DOMAIN d = 1..Len(d) /\ Len(d) \in Nat
    OBVIOUS
  <2>3. QED
    BY <2>1, <2>2
<1>2. Low(d, 64) = Trim(x)
  BY DEF Low, DigitOf64
<1> HIDE DEF x
<1>3. PICK n \in 0..Len(x) : Trim(x) = SubSeq(x, 1, n)
  BY <1>1, TrimStops
<1>4. SubSeq(x, 1, n) \in Seq(Digit)
  BY <1>1
<1>5. QED
  BY <1>2, <1>3, <1>4

\* The integers of a type of 64 bits are those that fit it.
LEMMA Uint64Fits ==
  ASSUME NEW d \in Uints(64)
  PROVE  d \in Seq(Digit) /\ Fits(d)
<1> DEFINE x == [k \in DOMAIN d |-> DigitOf64(d, k)]
<1>1. d \in Seq(Digit) /\ Low(d, 64) = d
  BY DEF Uints
<1>2. /\ DOMAIN d = 1..Len(d) /\ Len(d) \in Nat
      /\ \A k \in 1..Len(d) : d[k] \in Digit
  BY <1>1
<1>3. \A k \in 1..Len(d) : x[k] = DigitOf64(d, k)
  BY <1>2
<1>4. x \in Seq(Digit) /\ Len(x) = Len(d)
  <2>1. ASSUME NEW k \in 1..Len(d) PROVE DigitOf64(d, k) \in Digit
    BY <1>2, DigitsOf64
  <2>2. QED
    BY <1>2, <2>1
<1>5. Low(d, 64) = Trim(x)
  BY DEF Low, DigitOf64
<1> HIDE DEF x
<1>6. PICK n \in 0..Len(x) : /\ Trim(x) = SubSeq(x, 1, n)
                             /\ n = 0 \/ x[n] # 0
  BY <1>4, TrimStops
<1>7. d = SubSeq(x, 1, n)
  BY <1>1, <1>5, <1>6
<1>8. n = Len(d)
  BY <1>4, <1>6, <1>7
<1>9. d = x
  BY <1>4, <1>7, <1>8
<1>10. n = 0 \/ (n \in 1..Len(d) /\ d[n] # 0 /\ d[n] = DigitOf64(d, n))
  BY <1>2, <1>3, <1>6, <1>8, <1>9
<1>11. ASSUME n # 0
       PROVE  ~(n > 10) /\ (n = 10 => d[n] = 1)
  <2>1. n \in Nat \ {0} /\ d[n] \in Digit
    BY <1>2, <1>10, <1>11
  <2>2. /\ n > 10 => DigitOf64(d, n) = 0
        /\ n = 10 => DigitOf64(d, n) \in {0, 1}
    BY <2>1, DigitsOf64
  <2>3. QED
    BY <1>10, <1>11, <2>2
<1>12. Canonical(d)
  <2>1. CASE n = 0
    <3>1. Len(d) = 0
      BY <1>8, <2>1
    <3>2. d = <<>>
      BY <1>1, <3>1, EmptySeq
    <3>3. QED
      BY <3>2 DEF Canonical
  <2>2. CASE n # 0
    BY <1>8, <1>10, <2>2 DEF Canonical
  <2>3. QED
    BY <2>1, <2>2
<1>13. Len(d) <= 10 /\ (Len(d) = 10 => d[10] = 1)
  <2>1. n \in Nat
    BY <1>2, <1>8
  <2>2. CASE n = 0
    BY <1>8, <2>2
  <2>3. CASE n # 0
    <3>1. ~(n > 10) /\ (n = 10 => d[n] = 1)
      BY <1>11, <2>3, Zenon
    <3>2. n <= 10
      BY <2>1, <3>1
    <3>3. QED
      BY <1>8, <3>1, <3>2, Zenon
  <2>4. QED
    BY <2>2, <2>3
<1>14. QED
  BY <1>1, <1>12, <1>13 DEF Fits

\* The same of a type of 32 bits, which has five digits at most.
LEMMA Uint32Fits ==
  ASSUME NEW d \in Uints(32)
  PROVE  d \in Seq(Digit) /\ Fits(d)
<1> DEFINE digit(k) == IF 7 * k <= 32 THEN d[k]
                       ELSE IF 7 * (k - 1) < 32
                            THEN d[k] % 2^(32 - 7 * (k - 1)) ELSE 0
           x == [k \in DOMAIN d |-> digit(k)]
<1>1. d \in Seq(Digit) /\ Low(d, 32) = d
  BY DEF Uints
<1>2. /\ DOMAIN d = 1..Len(d) /\ Len(d) \in Nat
      /\ \A k \in 1..Len(d) : d[k] \in Digit
  BY <1>1
<1>3. x \in Seq({digit(k) : k \in 1..Len(d)}) /\ Len(x) = Len(d)
  <2> HIDE DEF digit
  <2>1. QED
    BY <1>2
<1>4. \A k \in 1..Len(d) : k > 5 => x[k] = 0
  <2>1. ASSUME NEW k \in 1..Len(d), k > 5 PROVE digit(k) = 0
    <3>1. k \in Nat
      OBVIOUS
    <3>2. ~(7 * k <= 32) /\ ~(7 * (k - 1) < 32)
      BY <2>1, <3>1
    <3>3. QED
      BY <3>2, Zenon
  <2>2. QED
    BY <1>2, <2>1
<1>5. Low(d, 32) = Trim(x)
  BY DEF Low
<1> HIDE DEF x, digit
<1>6. PICK n \in 0..Len(x) : /\ Trim(x) = SubSeq(x, 1, n)
                             /\ n = 0 \/ x[n] # 0
  BY <1>3, TrimStops
<1>7. d = SubSeq(x, 1, n)
  BY <1>1, <1>5, <1>6
<1>8. n = Len(d)
  BY <1>3, <1>6, <1>7
<1>9. d = x
  BY <1>3, <1>7, <1>8
<1>10. n \in Nat /\ ~(n > 5)
  <2>1. n \in Nat
    BY <1>2, <1>8
  <2>2. n > 5 => n \in 1..Len(d) /\ n # 0
    BY <1>8, <2>1
  <2>3. QED
    BY <1>4, <1>6, <2>1, <2>2
<1>11. Canonical(d)
  <2>1. CASE n = 0
    <3>1. Len(d) = 0
      BY <1>8, <2>1
    <3>2. d = <<>>
      BY <1>1, <3>1, EmptySeq
    <3>3. QED
      BY <3>2 DEF Canonical
  <2>2. CASE n # 0
    BY <1>6, <1>8, <1>9, <2>2 DEF Canonical
  <2>3. QED
    BY <2>1, <2>2
<1>12. Len(d) <= 10 /\ Len(d) # 10
  <2>1. n <= 10 /\ n # 10
    BY <1>10
  <2>2. QED
    BY <1>8, <2>1, Zenon
<1>13. QED
  BY <1>1, <1>11, <1>12 DEF Fits

\* Reading a varint ends behind its first byte below 128, if there is one.
LEMMA VarintEnds ==
  ASSUME NEW b \in Seq(Byte), NEW i \in Nat \ {0}
  PROVE  \/ ReadVarint(b, i) = Unreadable
         \/ \E n \in 1..10 :
              /\ EndsWith(b, i, n)
              /\ ReadVarint(b, i) =
                   [digits |-> Low(LowBits(b, i, n), 64), next |-> i + n]
<1> DEFINE ends == {j \in i..(i + 9) : j <= Len(b) /\ b[j] < 128}
<1>1. CASE ends = {}
  BY <1>1, Zenon DEF ReadVarint
<1>2. CASE ends # {}
  <2>1. ends \subseteq Nat
    OBVIOUS
  <2>2. PICK j \in ends : \A k \in ends : j <= k
    BY <1>2, <2>1, LeastNumber
  <2> DEFINE n == j - i + 1
  <2>3. /\ j \in i..(i + 9) /\ j <= Len(b) /\ b[j] < 128 /\ Len(b) \in Nat
        /\ i \in Nat
    BY <2>2
  <2>4. n \in 1..10 /\ i + n - 1 = j /\ i + n <= Len(b) + 1
    BY <2>3
  <2>5. ASSUME NEW k \in 1..(n - 1), b[i + k - 1] < 128 PROVE FALSE
    <3>1. i + k - 1 \in ends /\ i + k - 1 < j /\ i + k - 1 \in Nat
      BY <2>3, <2>4, <2>5
    <3>2. QED
      BY <2>2, <2>3, <3>1
  <2> HIDE DEF n
  <2>6. EndsWith(b, i, n)
    BY <2>3, <2>4, <2>5 DEF EndsWith
  <2>7. QED
    BY <2>4, <2>6, ReadUpTo
<1>3. QED
  BY <1>1, <1>2

\* The low bits of a byte are a digit.
LEMMA LowSevenBits ==
  ASSUME NEW x \in Byte
  PROVE  x % 128 \in Digit
BY DEF Byte, Digit

\* Where reading a varint goes on, and what it has read.
LEMMA VarintType ==
  ASSUME NEW b \in Seq(Byte), NEW i \in Nat \ {0}
  PROVE  /\ ReadVarint(b, i).digits \in Seq(Digit)
         /\ ReadVarint(b, i).next \in {0} \cup ((i + 1)..(Len(b) + 1))
<1>1. CASE ReadVarint(b, i) = Unreadable
  BY <1>1 DEF Unreadable, Zero
<1>2. CASE \E n \in 1..10 :
             /\ EndsWith(b, i, n)
             /\ ReadVarint(b, i) =
                  [digits |-> Low(LowBits(b, i, n), 64), next |-> i + n]
  <2>1. PICK n \in 1..10 :
             /\ EndsWith(b, i, n)
             /\ ReadVarint(b, i) =
                  [digits |-> Low(LowBits(b, i, n), 64), next |-> i + n]
    BY <1>2
  <2>2. LowBits(b, i, n) \in Seq(Digit)
    <3>1. ASSUME NEW k \in 1..n PROVE b[i + k - 1] % 128 \in Digit
      <4>1. i + k - 1 \in 1..Len(b)
        BY <2>1 DEF EndsWith
      <4>2. b[i + k - 1] \in Byte
        BY <4>1
      <4>3. QED
        BY <4>2, LowSevenBits, Zenon
    <3>2. n \in Nat
      OBVIOUS
    <3>3. QED
      BY <3>1, <3>2 DEF LowBits
  <2>3. Low(LowBits(b, i, n), 64) \in Seq(Digit)
    BY <2>2, LowIsDigits
  <2>4. i + n \in (i + 1)..(Len(b) + 1)
    BY <2>1 DEF EndsWith
  <2>5. QED
    BY <2>1, <2>3, <2>4
<1>3. QED
  BY <1>1, <1>2, VarintEnds

\* A varint is read the same wherever the bytes around it lie.
LEMMA VarintLies ==
  ASSUME NEW x \in Seq(Byte), NEW b \in Seq(Byte), NEW d \in Nat,
         LiesAt(x, b, d + 1), NEW i \in Nat \ {0},
         ReadVarint(x, i).next # 0
  PROVE  ReadVarint(b, i + d) =
           [digits |-> ReadVarint(x, i).digits,
            next |-> ReadVarint(x, i).next + d]
<1>1. PICK n \in 1..10 :
        /\ EndsWith(x, i, n)
        /\ ReadVarint(x, i) =
             [digits |-> Low(LowBits(x, i, n), 64), next |-> i + n]
  <2>1. ReadVarint(x, i) # Unreadable
    BY DEF Unreadable
  <2>2. QED
    BY <2>1, VarintEnds
<1>2. ASSUME NEW k \in 1..n
      PROVE  b[(i + d) + k - 1] = x[i + k - 1]
  <2>1. i + k - 1 \in 1..Len(x) /\ (d + 1) + (i + k - 1) - 1 = (i + d) + k - 1
    BY <1>1 DEF EndsWith
  <2>2. QED
    BY <2>1 DEF LiesAt
<1>3. EndsWith(b, i + d, n)
  <2>1. (i + d) + n <= Len(b) + 1
    BY <1>1 DEF EndsWith, LiesAt
  <2>2. n \in 1..n /\ 1..(n - 1) \subseteq 1..n
    OBVIOUS
  <2>3. QED
    BY <1>1, <1>2, <2>1, <2>2 DEF EndsWith
<1>4. LowBits(b, i + d, n) = LowBits(x, i, n)
  BY <1>2 DEF LowBits
<1>5. ReadVarint(b, i + d) =
        [digits |-> Low(LowBits(b, i + d, n), 64), next |-> (i + d) + n]
  <2>1. i + d \in Nat \ {0}
    OBVIOUS
  <2>2. QED
    BY <1>3, <2>1, ReadUpTo
<1>6. (i + d) + n = (i + n) + d
  OBVIOUS
<1>7. QED
  BY <1>1, <1>4, <1>5, <1>6

\* A digit is a number.
LEMMA DigitIsNat ==
  ASSUME NEW x \in Digit
  PROVE  x \in Nat
BY DEF Digit

\* Digits stand for a natural number.
LEMMA IntOfNat ==
  ASSUME NEW d \in Seq(Digit)
  PROVE  IntOf(d) \in Nat
<1>1. ASSUME NEW k \in Nat \ {0}
      PROVE  DigitAt(d, k) \in Nat
  <2>1. CASE k <= Len(d)
    <3>1. k \in 1..Len(d)
      BY <2>1
    <3>2. d[k] \in Digit
      BY <3>1
    <3>3. d[k] \in Nat
      BY <3>2, DigitIsNat, Zenon
    <3>4. QED
      BY <2>1, <3>3, Zenon DEF DigitAt
  <2>2. CASE ~(k <= Len(d))
    BY <2>2 DEF DigitAt
  <2>3. QED
    BY <2>1, <2>2
<1>2. /\ DigitAt(d, 1) \in Nat /\ DigitAt(d, 2) \in Nat
      /\ DigitAt(d, 3) \in Nat /\ DigitAt(d, 4) \in Nat
  BY <1>1
<1>3. QED
  BY <1>2 DEF IntOf

\* What is skipped ends in the stream, and elsewhere too.
LEMMA AfterType ==
  ASSUME NEW b \in Seq(Byte), NEW i \in Nat \ {0}, NEW len \in Seq(Digit)
  PROVE  After(b, i, len) \in {0} \cup (i..(Len(b) + 1))
<1>1. IntOf(len) \in Nat
  BY IntOfNat
<1>2. QED
  BY <1>1 DEF After

\* Where a string ends does not depend on where it lies.
LEMMA AfterLies ==
  ASSUME NEW x \in Seq(Byte), NEW b \in Seq(Byte), NEW d \in Nat,
         LiesAt(x, b, d + 1), NEW i \in Nat \ {0}, NEW len \in Seq(Digit),
         After(x, i, len) # 0
  PROVE  After(b, i + d, len) = After(x, i, len) + d
<1>1. IntOf(len) \in Nat
  BY IntOfNat
<1>2. Len(len) <= 4 /\ i + IntOf(len) <= Len(x) + 1
      /\ After(x, i, len) = i + IntOf(len)
  BY DEF After
<1>3. (i + d) + IntOf(len) <= Len(b) + 1
  BY <1>1, <1>2 DEF LiesAt
<1>4. QED
  BY <1>1, <1>2, <1>3 DEF After

----------------------------------------------------------------------------
(* Skipping                                                                *)

\* Where the field that starts at i ends, and the group that goes on with it, as
\* far as its tag and its value say, and skip says where groups end.
FieldEnd(b, skip, i) ==
  LET tag == ReadVarint(b, i)
  IN ValueEnd(b, skip, tag, ReadVarint(b, tag.next))

GroupEnd(b, skip, i) ==
  RestEnd(skip, ReadVarint(b, i), FieldEnd(b, skip, i))

SkipAt(b, skip, i) ==
  IF ReadVarint(b, i).next = 0 THEN [field |-> 0, group |-> 0]
  ELSE [field |-> FieldEnd(b, skip, i), group |-> GroupEnd(b, skip, i)]

\* What ends behind i, if at all.
Later(b, i) == {0} \cup ((i + 1)..(Len(b) + 1))

\* skip says so from i on.
SkipsFrom(b, skip, i) ==
  \A j \in i..(Len(b) + 1) :
    /\ skip[j].field \in Later(b, j) /\ skip[j].group \in Later(b, j)
    /\ skip[j] = SkipAt(b, skip, j)

\* A field ends behind its tag, and depends on what comes behind it.
LEMMA FieldEndLater ==
  ASSUME NEW b \in Seq(Byte), NEW i \in 1..(Len(b) + 1), NEW skip,
         SkipsFrom(b, skip, i + 1), ReadVarint(b, i).next # 0
  PROVE  /\ ReadVarint(b, i).next \in (i + 1)..(Len(b) + 1)
         /\ FieldEnd(b, skip, i) \in Later(b, i)
<1> DEFINE tag == ReadVarint(b, i)
           len == ReadVarint(b, tag.next)
           wire == WireType(tag.digits)
<1>1. tag.next \in (i + 1)..(Len(b) + 1) /\ tag.next \in Nat \ {0}
  <2>1. i \in Nat \ {0}
    OBVIOUS
  <2>2. tag.next \in {0} \cup ((i + 1)..(Len(b) + 1))
    BY <2>1, VarintType
  <2>3. QED
    BY <2>1, <2>2
<1>2. len.digits \in Seq(Digit)
      /\ len.next \in {0} \cup ((tag.next + 1)..(Len(b) + 1))
  BY <1>1, VarintType
<1>3. <<8>> \in Seq(Digit) /\ <<4>> \in Seq(Digit)
  BY DEF Digit
<1>4. /\ After(b, tag.next, <<8>>) \in {0} \cup (tag.next..(Len(b) + 1))
      /\ After(b, tag.next, <<4>>) \in {0} \cup (tag.next..(Len(b) + 1))
  BY <1>1, <1>3, AfterType
<1>5. len.next # 0 =>
        After(b, len.next, len.digits) \in {0} \cup (len.next..(Len(b) + 1))
  <2>1. len.next # 0 => len.next \in Nat \ {0}
    BY <1>1, <1>2
  <2>2. QED
    BY <1>2, <2>1, AfterType
<1>6. skip[tag.next].group \in Later(b, tag.next)
  BY <1>1 DEF SkipsFrom
<1> HIDE DEF tag, len, wire
<1>7. FieldEnd(b, skip, i) \in
        {0, len.next, After(b, tag.next, <<8>>), After(b, tag.next, <<4>>),
         skip[tag.next].group, tag.next}
        \cup (IF len.next = 0 THEN {} ELSE {After(b, len.next, len.digits)})
  BY DEF FieldEnd, ValueEnd, tag, len, wire
<1>8. i \in Nat /\ Len(b) \in Nat
  OBVIOUS
<1>9. QED
  BY <1>1, <1>2, <1>4, <1>5, <1>6, <1>7, <1>8, SMTT(30) DEF Later, tag

\* From i on, it is the same.
SameFrom(b, g, h, i) == \A j \in i..(Len(b) + 1) : g[j] = h[j]

\* A skip ends later than it starts, or fails.
LEMMA SkipAtType ==
  ASSUME NEW b \in Seq(Byte), NEW i \in 1..(Len(b) + 1), NEW skip,
         SkipsFrom(b, skip, i + 1)
  PROVE  /\ SkipAt(b, skip, i).field \in Later(b, i)
         /\ SkipAt(b, skip, i).group \in Later(b, i)
<1> DEFINE next == ReadVarint(b, i).next
           field == FieldEnd(b, skip, i)
<1>1. CASE next = 0
  BY <1>1 DEF SkipAt, Later
<1>2. CASE next # 0
  <2>1. next \in (i + 1)..(Len(b) + 1) /\ field \in Later(b, i)
    BY <1>2, FieldEndLater
  <2>2. field # 0 => skip[field].group \in Later(b, i)
    <3>1. SUFFICES ASSUME field # 0 PROVE skip[field].group \in Later(b, i)
      OBVIOUS
    <3>2. field \in (i + 1)..(Len(b) + 1)
      BY <2>1, <3>1 DEF Later
    <3>3. skip[field].group \in Later(b, field)
      BY <3>2 DEF SkipsFrom
    <3> HIDE DEF field
    <3>4. QED
      BY <3>2, <3>3 DEF Later
  <2>3. GroupEnd(b, skip, i) \in {next, 0} \cup
                                 (IF field = 0 THEN {} ELSE {skip[field].group})
    BY DEF GroupEnd, RestEnd
  <2>4. next \in Later(b, i) /\ 0 \in Later(b, i)
    BY <2>1 DEF Later
  <2>5. GroupEnd(b, skip, i) \in Later(b, i)
    BY <2>2, <2>3, <2>4
  <2>6. QED
    BY <1>2, <2>1, <2>5 DEF SkipAt
<1>3. QED
  BY <1>1, <1>2

\* A skip depends only on those that start later.
LEMMA SkipAtSame ==
  ASSUME NEW b \in Seq(Byte), NEW i \in 1..(Len(b) + 1), NEW g, NEW h,
         SkipsFrom(b, g, i + 1), SameFrom(b, g, h, i + 1)
  PROVE  SkipAt(b, g, i) = SkipAt(b, h, i)
<1> DEFINE next == ReadVarint(b, i).next
           field == FieldEnd(b, g, i)
<1>1. CASE next = 0
  BY <1>1 DEF SkipAt
<1>2. CASE next # 0
  <2>1. next \in (i + 1)..(Len(b) + 1) /\ field \in Later(b, i)
    BY <1>2, FieldEndLater
  <2>2. g[next] = h[next]
    BY <2>1 DEF SameFrom
  <2>3. FieldEnd(b, h, i) = field
    BY <2>2, Zenon DEF FieldEnd, ValueEnd
  <2>4. field # 0 => g[field] = h[field]
    BY <2>1 DEF SameFrom, Later
  <2> HIDE DEF field
  <2>5. GroupEnd(b, g, i) = GroupEnd(b, h, i)
    BY <2>3, <2>4, Zenon DEF GroupEnd, RestEnd, field
  <2>6. QED
    BY <2>3, <2>5, Zenon DEF SkipAt, field
<1>3. QED
  BY <1>1, <1>2

\* There is an answer for the last k positions, and so for all.
LEMMA SkipsExist ==
  ASSUME NEW b \in Seq(Byte), NEW k \in Nat, k <= Len(b) + 1
  PROVE  \E g : /\ g = [i \in 1..(Len(b) + 1) |-> g[i]]
                /\ SkipsFrom(b, g, (Len(b) + 2) - k)
<1> DEFINE L == Len(b) + 1
           Answer(g, i) == g = [j \in 1..L |-> g[j]] /\ SkipsFrom(b, g, i)
           T == {n \in Nat : n <= L => \E g : Answer(g, (L + 1) - n)}
<1>0. L \in Nat
  OBVIOUS
<1>1. 0 \in T
  <2> DEFINE g == [j \in 1..L |-> 0]
  <2>1. g = [j \in 1..L |-> g[j]] /\ SkipsFrom(b, g, (L + 1) - 0)
    BY DEF SkipsFrom
  <2>2. QED
    BY <2>1
<1>2. ASSUME NEW n \in Nat, n \in T PROVE n + 1 \in T
  <2>1. SUFFICES ASSUME n + 1 <= L
                 PROVE  \E g : Answer(g, (L + 1) - (n + 1))
    OBVIOUS
  <2> DEFINE i == L - n
  <2>2. /\ i \in 1..L /\ (L + 1) - n = i + 1 /\ (L + 1) - (n + 1) = i
        /\ n <= L
    BY <1>0, <2>1
  <2>3. PICK g : Answer(g, i + 1)
    BY <1>2, <2>2
  <2> HIDE DEF i
  <2> DEFINE h == [j \in 1..L |-> IF j = i THEN SkipAt(b, g, i) ELSE g[j]]
  <2>4. h = [j \in 1..L |-> h[j]]
    OBVIOUS
  <2>5. SkipsFrom(b, g, i + 1)
    BY <2>3
  <2>6. /\ h[i] = SkipAt(b, g, i)
        /\ \A j \in (i + 1)..L : h[j] = g[j]
    BY <1>0, <2>2
  <2> HIDE DEF h
  <2>7. SameFrom(b, g, h, i + 1)
    BY <2>6 DEF SameFrom
  <2>8. h[i] = SkipAt(b, h, i)
    BY <2>2, <2>5, <2>6, <2>7, SkipAtSame
  <2>9. h[i].field \in Later(b, i) /\ h[i].group \in Later(b, i)
    BY <2>2, <2>5, <2>6, SkipAtType
  <2>10. ASSUME NEW j \in (i + 1)..L
         PROVE  /\ h[j].field \in Later(b, j) /\ h[j].group \in Later(b, j)
                /\ h[j] = SkipAt(b, h, j)
    <3>1. /\ g[j].field \in Later(b, j) /\ g[j].group \in Later(b, j)
          /\ g[j] = SkipAt(b, g, j)
      BY <2>5 DEF SkipsFrom
    <3>2. j \in 1..L /\ (j + 1)..L \subseteq (i + 1)..L
      BY <1>0, <2>2
    <3>3. SkipsFrom(b, g, j + 1) /\ SameFrom(b, g, h, j + 1)
      BY <2>5, <2>7, <3>2 DEF SkipsFrom, SameFrom
    <3>4. SkipAt(b, g, j) = SkipAt(b, h, j)
      BY <3>2, <3>3, SkipAtSame
    <3>5. QED
      BY <2>6, <3>1, <3>4
  <2>11. \A j \in i..L : j = i \/ j \in (i + 1)..L
    BY <1>0, <2>2
  <2>12. SkipsFrom(b, h, i)
    BY <2>8, <2>9, <2>10, <2>11 DEF SkipsFrom
  <2>13. QED
    BY <2>2, <2>4, <2>12
<1> HIDE DEF T
<1>3. k \in T
  <2>1. Nat \subseteq T
    BY <1>1, <1>2, NumberInduction
  <2>2. QED
    BY <2>1
<1>4. (L + 1) - k = (Len(b) + 2) - k
  OBVIOUS
<1>5. QED
  BY <1>3, <1>4 DEF T

\* So Skips has the answers.
LEMMA SkipsAre ==
  ASSUME NEW b \in Seq(Byte)
  PROVE  SkipsFrom(b, Skips(b), 1)
<1> DEFINE L == Len(b) + 1
           Def(f) == [i \in 1..L |-> SkipAt(b, f, i)]
<1>0. L \in Nat /\ (Len(b) + 2) - L = 1
  OBVIOUS
<1>1. PICK g : g = [i \in 1..L |-> g[i]] /\ SkipsFrom(b, g, 1)
  BY <1>0, SkipsExist
<1>2. g = Def(g)
  <2>1. \A i \in 1..L : g[i] = SkipAt(b, g, i)
    BY <1>1 DEF SkipsFrom
  <2>2. [i \in 1..L |-> g[i]] = Def(g)
    BY <2>1, Zenon
  <2>3. QED
    BY <1>1, <2>2, Zenon
<1>3. Skips(b) = CHOOSE f : f = Def(f)
  BY Zenon DEF Skips, SkipAt, FieldEnd, GroupEnd
<1>4. Skips(b) = Def(Skips(b))
  <2> HIDE DEF Def
  <2>1. QED
    BY <1>2, <1>3, Zenon
<1> DEFINE s == Skips(b)
<1> HIDE DEF s
<1>5. \A i \in 1..L : s[i] = SkipAt(b, s, i)
  BY <1>4, Zenon DEF s
<1> DEFINE T == {n \in Nat : n <= L => SkipsFrom(b, s, (L + 1) - n)}
<1>6. 0 \in T
  BY DEF SkipsFrom
<1>7. ASSUME NEW n \in Nat, n \in T PROVE n + 1 \in T
  <2>1. SUFFICES ASSUME n + 1 <= L PROVE SkipsFrom(b, s, (L + 1) - (n + 1))
    OBVIOUS
  <2> DEFINE i == L - n
  <2>2. /\ i \in 1..L /\ (L + 1) - n = i + 1 /\ (L + 1) - (n + 1) = i
        /\ n <= L
    BY <1>0, <2>1
  <2>3. SkipsFrom(b, s, i + 1)
    BY <1>7, <2>2
  <2> HIDE DEF i
  <2>4. s[i].field \in Later(b, i) /\ s[i].group \in Later(b, i)
    BY <1>5, <2>2, <2>3, SkipAtType
  <2>5. \A j \in i..L : j = i \/ j \in (i + 1)..L
    BY <1>0, <2>2
  <2>6. SkipsFrom(b, s, i)
    BY <1>5, <2>2, <2>3, <2>4, <2>5 DEF SkipsFrom
  <2>7. QED
    BY <2>2, <2>6
<1> HIDE DEF T
<1>8. L \in T
  <2>1. Nat \subseteq T
    BY <1>6, <1>7, NumberInduction
  <2>2. QED
    BY <1>0, <2>1
<1>9. (L + 1) - L = 1 /\ L <= L
  BY <1>0
<1>10. SkipsFrom(b, s, 1)
  BY <1>8, <1>9 DEF T
<1>11. QED
  BY <1>10 DEF s

\* Where a field or a group ends that lies in a longer stream.
Shifted(b, x, d, i) ==
  /\ Skips(x)[i].field # 0 => Skips(b)[i + d].field = Skips(x)[i].field + d
  /\ Skips(x)[i].group # 0 => Skips(b)[i + d].group = Skips(x)[i].group + d

\* Nor does the end of a field, whatever its kind.
LEMMA FieldEndLies ==
  ASSUME NEW x \in Seq(Byte), NEW b \in Seq(Byte), NEW d \in Nat,
         LiesAt(x, b, d + 1), NEW i \in 1..(Len(x) + 1),
         \A j \in (i + 1)..(Len(x) + 1) : Shifted(b, x, d, j),
         ReadVarint(x, i).next # 0, FieldEnd(x, Skips(x), i) # 0
  PROVE  FieldEnd(b, Skips(b), i + d) = FieldEnd(x, Skips(x), i) + d
<1> DEFINE tag == ReadVarint(x, i)
           len == ReadVarint(x, tag.next)
           wire == WireType(tag.digits)
           btag == ReadVarint(b, i + d)
           blen == ReadVarint(b, tag.next + d)
           f == FieldEnd(x, Skips(x), i)
           bf == FieldEnd(b, Skips(b), i + d)
<1>1. i \in Nat \ {0} /\ Len(x) \in Nat
  OBVIOUS
<1>2. tag.next \in (i + 1)..(Len(x) + 1) /\ tag.next \in Nat \ {0}
  <2>1. tag.next \in {0} \cup ((i + 1)..(Len(x) + 1))
    BY <1>1, VarintType
  <2>2. QED
    BY <1>1, <2>1
<1>3. btag.digits = tag.digits /\ btag.next = tag.next + d
  <2>1. btag = [digits |-> tag.digits, next |-> tag.next + d]
    BY <1>1, VarintLies
  <2> HIDE DEF tag, btag
  <2>2. QED
    BY <2>1
<1>4. len.digits \in Seq(Digit)
      /\ len.next \in {0} \cup ((tag.next + 1)..(Len(x) + 1))
  BY <1>2, VarintType
<1>5. len.next # 0 => blen.digits = len.digits /\ blen.next = len.next + d
  <2>1. SUFFICES ASSUME len.next # 0
                 PROVE  blen.digits = len.digits /\ blen.next = len.next + d
    OBVIOUS
  <2>2. blen = [digits |-> len.digits, next |-> len.next + d]
    BY <1>2, <2>1, VarintLies
  <2> HIDE DEF len, blen
  <2>3. QED
    BY <2>2
<1>6. Shifted(b, x, d, tag.next)
  BY <1>2
<1> HIDE DEF tag, len, btag, blen, wire
<1>7. CASE wire = 0
  <2>1. f = len.next
    BY <1>7 DEF FieldEnd, ValueEnd, tag, len, wire
  <2>2. ReadVarint(b, btag.next) = blen
    BY <1>3, Zenon DEF blen
  <2>3. bf = blen.next
    BY <1>3, <1>7, <2>2 DEF FieldEnd, ValueEnd, btag, wire
  <2>4. QED
    BY <1>5, <2>1, <2>3
<1>8. CASE wire = 1
  <2>1. f = After(x, tag.next, <<8>>) /\ bf = After(b, tag.next + d, <<8>>)
    BY <1>3, <1>8 DEF FieldEnd, ValueEnd, tag, btag, len, blen, wire
  <2> DEFINE eight == <<8>>
  <2>2. eight \in Seq(Digit)
    BY DEF Digit
  <2> HIDE DEF eight
  <2>3. After(x, tag.next, eight) # 0
    BY <2>1 DEF eight
  <2>4. After(b, tag.next + d, eight) = After(x, tag.next, eight) + d
    BY <1>2, <2>2, <2>3, AfterLies
  <2>5. QED
    BY <2>1, <2>4 DEF eight
<1>9. CASE wire = 2
  <2>1. f = IF len.next = 0 THEN 0 ELSE After(x, len.next, len.digits)
    BY <1>9 DEF FieldEnd, ValueEnd, tag, len, wire
  <2>2. bf = IF blen.next = 0 THEN 0 ELSE After(b, blen.next, blen.digits)
    BY <1>3, <1>9 DEF FieldEnd, ValueEnd, tag, btag, blen, wire
  <2>3. len.next # 0 /\ len.next \in Nat \ {0}
    BY <1>2, <1>4, <2>1
  <2>4. blen.next # 0 /\ blen.digits = len.digits /\ blen.next = len.next + d
    BY <1>5, <2>3
  <2>5. After(b, len.next + d, len.digits) = After(x, len.next, len.digits) + d
    BY <1>4, <2>1, <2>3, AfterLies
  <2>6. QED
    BY <2>1, <2>2, <2>3, <2>4, <2>5
<1>10. CASE wire = 3
  <2>1. f = Skips(x)[tag.next].group /\ bf = Skips(b)[tag.next + d].group
    BY <1>3, <1>10 DEF FieldEnd, ValueEnd, tag, btag, wire
  <2>2. QED
    BY <1>6, <2>1 DEF Shifted
<1>11. CASE wire = 4
  <2>1. f = tag.next /\ bf = btag.next
    BY <1>3, <1>11 DEF FieldEnd, ValueEnd, tag, btag, wire
  <2>2. QED
    BY <1>3, <2>1
<1>12. CASE wire = 5
  <2>1. f = After(x, tag.next, <<4>>) /\ bf = After(b, tag.next + d, <<4>>)
    BY <1>3, <1>12 DEF FieldEnd, ValueEnd, tag, btag, len, blen, wire
  <2> DEFINE four == <<4>>
  <2>2. four \in Seq(Digit)
    BY DEF Digit
  <2> HIDE DEF four
  <2>3. After(x, tag.next, four) # 0
    BY <2>1 DEF four
  <2>4. After(b, tag.next + d, four) = After(x, tag.next, four) + d
    BY <1>2, <2>2, <2>3, AfterLies
  <2>5. QED
    BY <2>1, <2>4 DEF four
<1>13. CASE wire \notin {0, 1, 2, 3, 4, 5}
  BY <1>13 DEF FieldEnd, ValueEnd, tag, wire
<1>14. QED
  BY <1>7, <1>8, <1>9, <1>10, <1>11, <1>12, <1>13

\* A field is skipped wherever it lies.
LEMMA SkipLies ==
  ASSUME NEW x \in Seq(Byte), NEW b \in Seq(Byte), NEW d \in Nat,
         LiesAt(x, b, d + 1), NEW i \in 1..(Len(x) + 1)
  PROVE  Shifted(b, x, d, i)
<1> DEFINE L == Len(x) + 1
           T == {n \in Nat : \A j \in 1..L : j >= (L + 1) - n
                                              => Shifted(b, x, d, j)}
<1>0. L \in Nat
  OBVIOUS
<1>1. 0 \in T
  BY <1>0
<1>2. ASSUME NEW n \in Nat, n \in T PROVE n + 1 \in T
  <2>1. SUFFICES ASSUME NEW j \in 1..L, j >= (L + 1) - (n + 1)
                 PROVE  Shifted(b, x, d, j)
    OBVIOUS
  <2>2. \A k \in (j + 1)..L : Shifted(b, x, d, k)
    <3>1. \A k \in (j + 1)..L : k \in 1..L /\ k >= (L + 1) - n
      BY <1>0, <2>1
    <3> HIDE DEF L
    <3>2. QED
      BY <1>2, <3>1
  <2> DEFINE tag == ReadVarint(x, j)
             btag == ReadVarint(b, j + d)
             f == FieldEnd(x, Skips(x), j)
             bf == FieldEnd(b, Skips(b), j + d)
  <2>3. Skips(x)[j] = SkipAt(x, Skips(x), j)
    BY SkipsAre DEF SkipsFrom
  <2>4. Skips(b)[j + d] = SkipAt(b, Skips(b), j + d)
    <3>1. j + d \in 1..(Len(b) + 1)
      BY DEF LiesAt
    <3>2. QED
      BY <3>1, SkipsAre DEF SkipsFrom
  <2>5. CASE tag.next = 0
    BY <2>3, <2>5 DEF SkipAt, Shifted
  <2>6. CASE tag.next # 0
    <3>1. btag.digits = tag.digits /\ btag.next = tag.next + d
          /\ btag.next # 0
      <4>1. j \in Nat \ {0}
        OBVIOUS
      <4>2. tag.next \in Nat \ {0}
        <5>1. tag.next \in {0} \cup ((j + 1)..(Len(x) + 1))
          BY <4>1, VarintType
        <5>2. QED
          BY <2>6, <5>1
      <4>3. btag = [digits |-> tag.digits, next |-> tag.next + d]
        BY <2>6, <4>1, VarintLies
      <4>4. QED
        BY <4>2, <4>3
    <3>2. /\ Skips(x)[j].field = f /\ Skips(b)[j + d].field = bf
          /\ Skips(x)[j].group = GroupEnd(x, Skips(x), j)
          /\ Skips(b)[j + d].group = GroupEnd(b, Skips(b), j + d)
      BY <2>3, <2>4, <2>6, <3>1 DEF SkipAt
    <3>3. f # 0 => bf = f + d
      BY <2>2, <2>6, FieldEndLies
    <3>4. f \in Later(x, j)
      <4>1. SkipsFrom(x, Skips(x), j + 1)
        BY SkipsAre DEF SkipsFrom
      <4>2. QED
        BY <2>6, <4>1, FieldEndLater
    <3>5. f # 0 => Shifted(b, x, d, f)
      BY <2>2, <3>4 DEF Later
    <3> HIDE DEF tag, btag, f, bf
    <3>6. GroupEnd(x, Skips(x), j) # 0 =>
            GroupEnd(b, Skips(b), j + d) = GroupEnd(x, Skips(x), j) + d
      <4>1. CASE WireType(tag.digits) = 4
        BY <3>1, <4>1 DEF GroupEnd, RestEnd, tag, btag
      <4>2. CASE WireType(tag.digits) # 4 /\ f = 0
        BY <4>2 DEF GroupEnd, RestEnd, tag, f
      <4>3. CASE WireType(tag.digits) # 4 /\ f # 0
        <5>1. GroupEnd(x, Skips(x), j) = Skips(x)[f].group
          BY <4>3 DEF GroupEnd, RestEnd, tag, f
        <5>2. bf = f + d /\ bf # 0
          BY <3>3, <3>4, <4>3 DEF Later
        <5>3. GroupEnd(b, Skips(b), j + d) = Skips(b)[f + d].group
          BY <3>1, <4>3, <5>2 DEF GroupEnd, RestEnd, btag, bf
        <5>4. QED
          BY <3>5, <4>3, <5>1, <5>3 DEF Shifted
      <4>4. QED
        BY <4>1, <4>2, <4>3
    <3>7. QED
      BY <3>2, <3>3, <3>6 DEF Shifted
  <2>7. QED
    BY <2>5, <2>6
<1> HIDE DEF T
<1>3. L \in T
  <2>1. Nat \subseteq T
    BY <1>1, <1>2, NumberInduction
  <2>2. QED
    BY <1>0, <2>1
<1>4. i >= (L + 1) - L
  OBVIOUS
<1>5. QED
  BY <1>3, <1>4 DEF T

----------------------------------------------------------------------------
(* The loop                                                                *)

Blank(cases) ==
  [name \in {cases[k][1] : k \in DOMAIN cases} \cup {"unknown"} |-> <<>>]

Begin(cases) == {[m |-> Blank(cases), next |-> 1]}

\* One turn, from all that may have been read.
Turn(cases, b, fs) ==
  UNION {IF f.next > Len(b) THEN {f}
         ELSE ReadField(cases, b, f.next, f.m) : f \in fs}

\* g is the first n turns.
TurnsUpTo(cases, b, n, g) ==
  /\ g[0] = Begin(cases)
  /\ \A k \in 1..n : g[k] = Turn(cases, b, g[k - 1])

\* There are such turns, and they are the same wherever they end.
LEMMA TurnsExist ==
  ASSUME NEW cases, NEW b, NEW n \in Nat
  PROVE  \E g : TurnsUpTo(cases, b, n, g)
<1> DEFINE T == {k \in Nat : \E g : TurnsUpTo(cases, b, k, g)}
<1>1. 0 \in T
  <2>1. TurnsUpTo(cases, b, 0, [k \in 0..0 |-> Begin(cases)])
    BY DEF TurnsUpTo
  <2>2. QED
    BY <2>1
<1>2. ASSUME NEW k \in Nat, k \in T PROVE k + 1 \in T
  <2>1. PICK g : TurnsUpTo(cases, b, k, g)
    BY <1>2
  <2> DEFINE h == [j \in 0..(k + 1) |-> IF j = k + 1 THEN Turn(cases, b, g[k])
                                                   ELSE g[j]]
  <2>2. TurnsUpTo(cases, b, k + 1, h)
    BY <2>1 DEF TurnsUpTo
  <2>3. QED
    BY <2>2
<1> HIDE DEF T
<1>3. Nat \subseteq T
  BY <1>1, <1>2, NumberInduction
<1>4. QED
  BY <1>3 DEF T

\* The turns of a reader are determined one after the other.
LEMMA TurnsUnique ==
  ASSUME NEW cases, NEW b, NEW n \in Nat, NEW m \in Nat, n <= m,
         NEW g, NEW h, TurnsUpTo(cases, b, n, g), TurnsUpTo(cases, b, m, h)
  PROVE  \A k \in 0..n : g[k] = h[k]
<1> DEFINE T == {k \in Nat : k <= n => g[k] = h[k]}
<1>1. 0 \in T
  BY DEF TurnsUpTo
<1>2. ASSUME NEW k \in Nat, k \in T PROVE k + 1 \in T
  BY <1>2 DEF TurnsUpTo
<1> HIDE DEF T
<1>3. Nat \subseteq T
  BY <1>1, <1>2, NumberInduction
<1>4. QED
  BY <1>3 DEF T

\* The turns, one by one.
LEMMA TurnsAre ==
  ASSUME NEW cases, NEW b
  PROVE  /\ Turns(cases, b)[0] = Begin(cases)
         /\ \A n \in Nat :
              Turns(cases, b)[n + 1] = Turn(cases, b, Turns(cases, b)[n])
<1> DEFINE Def(f) == [n \in Nat |-> IF n = 0 THEN Begin(cases)
                                   ELSE Turn(cases, b, f[n - 1])]
           g(n) == CHOOSE g : TurnsUpTo(cases, b, n, g)
           f == [n \in Nat |-> g(n)[n]]
<1>1. \A n \in Nat : TurnsUpTo(cases, b, n, g(n))
  BY TurnsExist
<1> HIDE DEF g
<1>2. ASSUME NEW n \in Nat
      PROVE  f[n] = IF n = 0 THEN Begin(cases) ELSE Turn(cases, b, f[n - 1])
  <2>1. CASE n = 0
    BY <1>1, <2>1 DEF TurnsUpTo
  <2>2. CASE n # 0
    <3>1. n - 1 \in Nat /\ n - 1 <= n /\ n \in 1..n
      BY <2>2
    <3>2. g(n)[n] = Turn(cases, b, g(n)[n - 1])
      BY <1>1, <3>1 DEF TurnsUpTo
    <3>3. g(n - 1)[n - 1] = g(n)[n - 1]
      BY <1>1, <3>1, TurnsUnique
    <3>4. QED
      BY <2>2, <3>1, <3>2, <3>3
  <2>3. QED
    BY <2>1, <2>2
<1> HIDE DEF f
<1>3. f = Def(f)
  BY <1>2 DEF f
<1>4. Turns(cases, b) = CHOOSE h : h = Def(h)
  BY Zenon DEF Turns, Begin, Blank, Turn
<1>5. Turns(cases, b) = Def(Turns(cases, b))
  <2> HIDE DEF Def
  <2>1. QED
    BY <1>3, <1>4, Zenon
<1>6. QED
  BY <1>5

\* The reading ends here.
Over(b, fs) == \A f \in fs : f.next > Len(b)

\* Once it has ended, there is nothing more to it.
LEMMA OverStays ==
  ASSUME NEW cases, NEW b, NEW n \in Nat, Over(b, Turns(cases, b)[n]),
         NEW k \in Nat
  PROVE  Turns(cases, b)[n + k] = Turns(cases, b)[n]
<1> DEFINE t == Turns(cases, b)
           T == {j \in Nat : t[n + j] = t[n]}
<1>1. 0 \in T
  OBVIOUS
<1>2. ASSUME NEW j \in Nat, j \in T PROVE j + 1 \in T
  <2>1. n + j \in Nat /\ (n + j) + 1 = n + (j + 1)
    OBVIOUS
  <2>2. t[n + (j + 1)] = Turn(cases, b, t[n + j])
    BY <2>1, TurnsAre
  <2>3. t[n + j] = t[n]
    BY <1>2
  <2> HIDE DEF t
  <2>4. Turn(cases, b, t[n]) = t[n]
    <3>1. \A f \in t[n] : f.next > Len(b)
      BY DEF Over, t
    <3>2. Turn(cases, b, t[n]) = UNION {{f} : f \in t[n]}
      BY <3>1, Zenon DEF Turn
    <3>3. QED
      BY <3>2
  <2>5. QED
    BY <2>2, <2>3, <2>4
<1> HIDE DEF T
<1>3. Nat \subseteq T
  BY <1>1, <1>2, NumberInduction
<1>4. QED
  BY <1>3 DEF T

\* So Decode takes what has been read then.
LEMMA DecodeAt ==
  ASSUME NEW cases, NEW b \in Seq(Byte), NEW n \in 0..Len(b),
         Over(b, Turns(cases, b)[n])
  PROVE  Decode(cases, b) = {f.m : f \in Turns(cases, b)[n]}
<1> DEFINE t == Turns(cases, b)
           last == CHOOSE k \in 0..Len(b) : \A f \in t[k] : f.next > Len(b)
<1>1. last \in 0..Len(b) /\ Over(b, t[last])
  BY DEF Over
<1>2. Decode(cases, b) = {f.m : f \in t[last]}
  BY DEF Decode, AtEnd, LastTurn
<1> HIDE DEF last
<1>3. t[last] = t[n]
  <2>1. last \in Nat /\ n \in Nat
    BY <1>1
  <2>2. CASE last <= n
    <3>1. n - last \in Nat /\ last + (n - last) = n
      BY <2>1, <2>2
    <3>2. QED
      BY <1>1, <2>1, <3>1, OverStays
  <2>3. CASE n <= last
    <3>1. last - n \in Nat /\ n + (last - n) = last
      BY <2>1, <2>3
    <3>2. QED
      BY <1>1, <2>1, <3>1, OverStays
  <2>4. QED
    BY <2>1, <2>2, <2>3
<1>4. QED
  BY <1>2, <1>3

----------------------------------------------------------------------------
(* Columns                                                                 *)

\* The columns of a message: the fields it knows, and behind them those it does
\* not know.
Columns(cases) == 1..(Len(cases) + 1)
NameOf(cases, k) == IF k = Len(cases) + 1 THEN "unknown" ELSE cases[k][1]
KindOf(cases, k) == IF k = Len(cases) + 1 THEN "unknown" ELSE cases[k][2]
Names(cases) == {cases[k][1] : k \in DOMAIN cases} \cup {"unknown"}

\* What the tables of the messages have in common.
IsTable(cases) ==
  /\ Len(cases) \in 1..5
  /\ DOMAIN cases = 1..Len(cases)
  /\ \A k \in 1..Len(cases) :
       cases[k][2] \in {"uint32", "uint64", "bytes", "repeated"}
  /\ \A j, k \in Columns(cases) : NameOf(cases, j) = NameOf(cases, k) => j = k

\* A field of a number that no message has.
IsNewField(x) ==
  /\ ReadVarint(x, 1).next # 0
  /\ WireType(ReadVarint(x, 1).digits) # 4
  /\ FieldNum(ReadVarint(x, 1).digits) > 5
  /\ SkipMsg(x, 1) = Len(x) + 1

\* What is written, field by field.
Strings == {s \in Seq(Byte) : Len(s) \in Length}
Values(kind) ==
  CASE kind = "uint32" -> Uints(32) \ {Zero}
    [] kind = "uint64" -> Uints(64) \ {Zero}
    [] kind = "bytes" -> Strings \ {<<>>}
    [] kind = "repeated" -> Strings
    [] kind = "unknown" -> {x \in Seq(Byte) : IsNewField(x)}

PieceOf(kind, k, v) ==
  CASE kind \in {"uint32", "uint64"} -> <<8 * k>> \o EncodeVarint(v)
    [] kind \in {"bytes", "repeated"} -> BytesPiece(8 * k + 2, v)
    [] kind = "unknown" -> v

\* What becomes of a message when a field is read.
Put(cases, k, m, v) ==
  [m EXCEPT ![NameOf(cases, k)] =
     CASE KindOf(cases, k) = "repeated" -> Append(@, v)
       [] KindOf(cases, k) = "unknown" -> @ \o v
       [] OTHER -> v]

----------------------------------------------------------------------------
(* A field, wherever it lies                                               *)

\* The parts of what lies somewhere.
LEMMA LiesConcat ==
  ASSUME NEW x \in Seq(Byte), NEW y \in Seq(Byte), NEW b \in Seq(Byte),
         NEW i \in Nat \ {0}, LiesAt(x \o y, b, i)
  PROVE  LiesAt(x, b, i) /\ LiesAt(y, b, i + Len(x))
<1> DEFINE xy == x \o y
<1>1. /\ Len(x) \in Nat /\ Len(y) \in Nat /\ Len(b) \in Nat
      /\ Len(xy) = Len(x) + Len(y)
      /\ \A k \in 1..Len(x) : xy[k] = x[k]
      /\ \A k \in 1..Len(y) : xy[Len(x) + k] = y[k]
  BY ConcatProperties
<1> HIDE DEF xy
<1>2. /\ i + Len(xy) <= Len(b) + 1
      /\ \A k \in 1..Len(xy) : b[i + k - 1] = xy[k]
  BY DEF LiesAt, xy
<1>3. LiesAt(x, b, i)
  BY <1>1, <1>2 DEF LiesAt
<1>4. ASSUME NEW k \in 1..Len(y)
      PROVE  b[i + Len(x) + k - 1] = y[k]
  <2>1. Len(x) + k \in 1..Len(xy) /\ i + (Len(x) + k) - 1 = i + Len(x) + k - 1
    BY <1>1
  <2>2. QED
    BY <1>1, <1>2, <2>1
<1>5. LiesAt(y, b, i + Len(x))
  <2>1. i + Len(x) + Len(y) <= Len(b) + 1
    BY <1>1, <1>2
  <2>2. QED
    BY <1>4, <2>1 DEF LiesAt
<1>6. QED
  BY <1>3, <1>5

\* A tag is a single byte.
LEMMA TagRead ==
  ASSUME NEW b \in Seq(Byte), NEW i \in Nat \ {0}, i <= Len(b),
         NEW t \in 1..127, b[i] = t
  PROVE  ReadVarint(b, i) = [digits |-> <<t>>, next |-> i + 1]
<1> DEFINE d == <<t>>
<1>1. d \in Seq(Digit) /\ Len(d) = 1 /\ d[1] = t /\ d # <<>>
  BY DEF Digit
<1> HIDE DEF d
<1>2. Fits(d)
  BY <1>1 DEF Fits, Canonical
<1>3. Sov(d) = 1 /\ EncodeVarint(d)[1] = t
  BY <1>1 DEF Sov, EncodeVarint, Zero
<1>4. ReadVarint(b, i) = [digits |-> d, next |-> i + Sov(d)]
  <2>1. \A k \in 1..Sov(d) : b[i + k - 1] = EncodeVarint(d)[k]
    BY <1>3
  <2>2. i + Sov(d) <= Len(b) + 1
    BY <1>3
  <2>3. QED
    BY <1>1, <1>2, <2>1, <2>2, VarintRoundTrip
<1>5. QED
  BY <1>3, <1>4 DEF d

\* The two halves of a tag.
LEMMA TagHalves ==
  ASSUME NEW k \in 1..5, NEW w \in {0, 2}
  PROVE  /\ 8 * k + w \in 1..127 /\ 8 * k + w \in Byte
         /\ FieldNum(<<8 * k + w>>) = k
         /\ WireType(<<8 * k + w>>) = w
<1> DEFINE t == 8 * k + w
           d == <<t>>
<1>1. t \in 1..127 /\ t \in Byte /\ t \div 8 = k /\ t % 8 = w
  BY DEF Byte
<1> HIDE DEF t
<1>2. Len(d) = 1 /\ d[1] = t
  OBVIOUS
<1> HIDE DEF d
<1>3. /\ DigitAt(d, 1) = t /\ DigitAt(d, 2) = 0 /\ DigitAt(d, 3) = 0
      /\ DigitAt(d, 4) = 0 /\ DigitAt(d, 5) = 0
  BY <1>2 DEF DigitAt
<1>4. FieldNum(d) = k /\ WireType(d) = w
  BY <1>1, <1>3 DEF FieldNum, WireType
<1>5. QED
  BY <1>1, <1>4 DEF t, d

\* A column that is not the last one.
LEMMA KnownColumn ==
  ASSUME NEW cases, IsTable(cases), NEW k \in 1..Len(cases)
  PROVE  /\ k \in 1..5 /\ k \in DOMAIN cases /\ k \in Columns(cases)
         /\ NameOf(cases, k) = cases[k][1] /\ KindOf(cases, k) = cases[k][2]
         /\ KindOf(cases, k) \in {"uint32", "uint64", "bytes", "repeated"}
BY DEF IsTable, Columns, NameOf, KindOf

\* A case of the switch, when a tag has been read.
LEMMA CaseRead ==
  ASSUME NEW cases, IsTable(cases), NEW k \in 1..Len(cases),
         NEW b \in Seq(Byte), NEW i \in Nat \ {0}, i <= Len(b), NEW m,
         NEW w \in {0, 2}, b[i] = 8 * k + w,
         w = IF KindOf(cases, k) \in {"uint32", "uint64"} THEN 0 ELSE 2
  PROVE  ReadField(cases, b, i, m) =
           CASE KindOf(cases, k) = "uint32" ->
                  ReadNumber(b, i + 1, m, NameOf(cases, k), 32)
             [] KindOf(cases, k) = "uint64" ->
                  ReadNumber(b, i + 1, m, NameOf(cases, k), 64)
             [] KindOf(cases, k) = "bytes" ->
                  ReadBytes(b, i + 1, m, NameOf(cases, k), FALSE)
             [] KindOf(cases, k) = "repeated" ->
                  ReadBytes(b, i + 1, m, NameOf(cases, k), TRUE)
<1> DEFINE t == 8 * k + w
           d == <<t>>
           name == NameOf(cases, k)
           kind == KindOf(cases, k)
<1>1. /\ k \in 1..5 /\ k \in DOMAIN cases
      /\ name = cases[k][1] /\ kind = cases[k][2]
      /\ kind \in {"uint32", "uint64", "bytes", "repeated"}
  BY KnownColumn
<1>2. t \in 1..127 /\ FieldNum(d) = k /\ WireType(d) = w
  BY <1>1, TagHalves
<1>3. b[i] = t
  OBVIOUS
<1> HIDE DEF t
<1>4. ReadVarint(b, i) = [digits |-> d, next |-> i + 1]
  BY <1>2, <1>3, TagRead
<1> HIDE DEF d, name, kind
<1>5. ReadVarint(b, i).digits = d /\ ReadVarint(b, i).next = i + 1
  BY <1>4
<1>6. w = IF kind \in {"uint32", "uint64"} THEN 0 ELSE 2
  BY DEF kind
<1>7. i + 1 # 0 /\ w # 4 /\ ~(k <= 0)
  BY <1>1
<1>8. ReadField(cases, b, i, m) =
        CASE kind = "uint32" -> ReadNumber(b, i + 1, m, name, 32)
          [] kind = "uint64" -> ReadNumber(b, i + 1, m, name, 64)
          [] kind = "bytes" -> ReadBytes(b, i + 1, m, name, FALSE)
          [] kind = "repeated" -> ReadBytes(b, i + 1, m, name, TRUE)
  BY <1>1, <1>2, <1>5, <1>6, <1>7 DEF ReadField
<1>9. QED
  BY <1>8 DEF name, kind

\* A number.
LEMMA NumberPieceRead ==
  ASSUME NEW cases, IsTable(cases), NEW k \in 1..Len(cases),
         KindOf(cases, k) \in {"uint32", "uint64"},
         NEW v \in Values(KindOf(cases, k)),
         NEW b \in Seq(Byte), NEW i \in Nat \ {0}, NEW m,
         LiesAt(PieceOf(KindOf(cases, k), k, v), b, i)
  PROVE  ReadField(cases, b, i, m) =
           {[m |-> Put(cases, k, m, v),
             next |-> i + Len(PieceOf(KindOf(cases, k), k, v))]}
<1> DEFINE kind == KindOf(cases, k)
           name == NameOf(cases, k)
           t == 8 * k + 0
           bits == IF kind = "uint32" THEN 32 ELSE 64
           next == i + 1 + Sov(v)
<1>1. k \in 1..5 /\ k \in DOMAIN cases
  BY KnownColumn
<1>2. t \in Byte /\ 8 * k = t
  BY <1>1, TagHalves, SMTT(30)
<1>3. v \in Uints(bits)
  BY DEF Values
<1>4. v \in Seq(Digit) /\ Fits(v) /\ Low(v, bits) = v
  <2>1. Low(v, bits) = v
    BY <1>3 DEF Uints
  <2>2. QED
    BY <1>3, <2>1, Uint32Fits, Uint64Fits
<1>5. EncodeVarint(v) \in Seq(Byte) /\ Len(EncodeVarint(v)) = Sov(v)
      /\ Sov(v) \in 1..10
  BY <1>4, EncodedIsBytes, SizeOfVarint, NumberFacts
<1>6. PieceOf(kind, k, v) = <<t>> \o EncodeVarint(v)
  BY <1>2 DEF PieceOf
<1> HIDE DEF t
<1>7. /\ <<t>> \in Seq(Byte) /\ Len(<<t>>) = 1 /\ <<t>>[1] = t
  BY <1>2
<1>8. LiesAt(<<t>>, b, i) /\ LiesAt(EncodeVarint(v), b, i + 1)
  BY <1>5, <1>6, <1>7, LiesConcat
<1>9. i <= Len(b) /\ b[i] = t
  BY <1>7, <1>8 DEF LiesAt
<1>10. Len(PieceOf(kind, k, v)) = 1 + Sov(v)
  BY <1>5, <1>6, <1>7
<1>11. i + Len(PieceOf(kind, k, v)) = next
  BY <1>5, <1>10
<1>12. ReadVarint(b, i + 1) = [digits |-> v, next |-> next]
  <2>1. i + 1 + Sov(v) <= Len(b) + 1
    BY <1>5, <1>8 DEF LiesAt
  <2>2. \A j \in 1..Sov(v) : b[i + 1 + j - 1] = EncodeVarint(v)[j]
    BY <1>5, <1>8 DEF LiesAt
  <2>3. i + 1 \in Nat \ {0}
    OBVIOUS
  <2>4. QED
    BY <1>4, <2>1, <2>2, <2>3, VarintRoundTrip
<1>13. next # 0
  BY <1>5
<1> HIDE DEF next
<1>14. ReadNumber(b, i + 1, m, name, bits) =
         {[m |-> [m EXCEPT ![name] = v], next |-> next]}
  <2>1. ReadVarint(b, i + 1).digits = v /\ ReadVarint(b, i + 1).next = next
    BY <1>12
  <2>2. QED
    BY <1>4, <1>13, <2>1, Zenon DEF ReadNumber
<1>15. ReadField(cases, b, i, m) = ReadNumber(b, i + 1, m, name, bits)
  <2> DEFINE w == 0
  <2>1. w \in {0, 2} /\ b[i] = 8 * k + w
    BY <1>9 DEF t
  <2>2. w = IF kind \in {"uint32", "uint64"} THEN 0 ELSE 2
    OBVIOUS
  <2> HIDE DEF w
  <2>3. ReadField(cases, b, i, m) =
          CASE kind = "uint32" -> ReadNumber(b, i + 1, m, name, 32)
            [] kind = "uint64" -> ReadNumber(b, i + 1, m, name, 64)
            [] kind = "bytes" -> ReadBytes(b, i + 1, m, name, FALSE)
            [] kind = "repeated" -> ReadBytes(b, i + 1, m, name, TRUE)
    BY <1>9, <2>1, <2>2, CaseRead, ZenonT(30)
  <2>4. QED
    BY <2>3
<1>16. Put(cases, k, m, v) = [m EXCEPT ![name] = v]
  BY DEF Put
<1>17. QED
  BY <1>11, <1>14, <1>15, <1>16

\* A string or bytes, by itself or one of several.
LEMMA BytesPieceRead ==
  ASSUME NEW cases, IsTable(cases), NEW k \in 1..Len(cases),
         KindOf(cases, k) \in {"bytes", "repeated"},
         NEW v \in Values(KindOf(cases, k)),
         NEW b \in Seq(Byte), NEW i \in Nat \ {0}, NEW m,
         LiesAt(PieceOf(KindOf(cases, k), k, v), b, i)
  PROVE  ReadField(cases, b, i, m) =
           {[m |-> Put(cases, k, m, v),
             next |-> i + Len(PieceOf(KindOf(cases, k), k, v))]}
<1> DEFINE kind == KindOf(cases, k)
           name == NameOf(cases, k)
           t == 8 * k + 2
           len == EncodeVarint(Digits(Len(v)))
           repeated == (kind = "repeated")
<1>1. k \in 1..5 /\ k \in DOMAIN cases
  BY KnownColumn
<1>2. t \in Byte
  BY <1>1, TagHalves
<1>3. v \in Seq(Byte) /\ Len(v) \in Length
  BY DEF Values, Strings
<1>4. PieceOf(kind, k, v) = BytesPiece(t, v)
  BY DEF PieceOf
<1>5. len \in Seq(Byte) /\ Len(len) = Sov(Digits(Len(v)))
      /\ Sov(Digits(Len(v))) \in 1..10
  BY <1>3, LengthFacts, EncodedIsBytes, SizeOfVarint
<1> HIDE DEF t, len
<1>6. BytesPiece(t, v) = <<t>> \o (len \o v)
  <2>1. <<t>> \in Seq(Byte)
    BY <1>2
  <2>2. BytesPiece(t, v) = (<<t>> \o len) \o v
    BY DEF BytesPiece, len
  <2>3. QED
    BY <1>3, <1>5, <2>1, <2>2, Associate
<1>7. /\ <<t>> \in Seq(Byte) /\ Len(<<t>>) = 1 /\ <<t>>[1] = t
      /\ len \o v \in Seq(Byte)
  BY <1>2, <1>3, <1>5
<1>8. LiesAt(<<t>>, b, i) /\ LiesAt(len \o v, b, i + 1)
  BY <1>4, <1>6, <1>7, LiesConcat
<1>9. LiesAt(len, b, i + 1) /\ LiesAt(v, b, i + 1 + Sov(Digits(Len(v))))
  <2>1. i + 1 \in Nat \ {0}
    OBVIOUS
  <2>2. QED
    BY <1>3, <1>5, <1>8, <2>1, LiesConcat
<1>10. i <= Len(b) /\ b[i] = t
  BY <1>7, <1>8 DEF LiesAt
<1>11. i + 1 + BytesPieceSize(v) - 1 = i + Len(PieceOf(kind, k, v))
  <2>1. Len(BytesPiece(t, v)) = BytesPieceSize(v)
    BY <1>2, <1>3, SizeOfBytes
  <2>2. BytesPieceSize(v) \in Nat
    BY <1>5, <1>3 DEF BytesPieceSize
  <2>3. QED
    BY <1>4, <2>1, <2>2
<1>12. ReadBytes(b, i + 1, m, name, repeated) =
         {[m |-> [m EXCEPT ![name] = IF repeated THEN Append(@, v) ELSE v],
           next |-> i + Len(PieceOf(kind, k, v))]}
  <2>1. i + 1 \in Nat \ {0} /\ repeated \in BOOLEAN
    OBVIOUS
  <2>2. ReadBytes(b, i + 1, m, name, repeated) =
         {[m |-> [m EXCEPT ![name] = IF repeated THEN Append(@, v) ELSE v],
           next |-> i + 1 + BytesPieceSize(v) - 1]}
    <3> HIDE DEF repeated
    <3>1. LiesAt(EncodeVarint(Digits(Len(v))), b, i + 1)
      BY <1>9 DEF len
    <3>2. QED
      BY <1>3, <1>9, <2>1, <3>1, BytesRoundTrip
  <2>3. QED
    BY <1>11, <2>2, Zenon
<1>13. ReadField(cases, b, i, m) = ReadBytes(b, i + 1, m, name, repeated)
  <2> DEFINE w == 2
  <2>1. w \in {0, 2} /\ b[i] = 8 * k + w
    BY <1>10 DEF t
  <2>2. w = IF kind \in {"uint32", "uint64"} THEN 0 ELSE 2
    OBVIOUS
  <2> HIDE DEF w
  <2>3. ReadField(cases, b, i, m) =
          CASE kind = "uint32" -> ReadNumber(b, i + 1, m, name, 32)
            [] kind = "uint64" -> ReadNumber(b, i + 1, m, name, 64)
            [] kind = "bytes" -> ReadBytes(b, i + 1, m, name, FALSE)
            [] kind = "repeated" -> ReadBytes(b, i + 1, m, name, TRUE)
    BY <1>10, <2>1, <2>2, CaseRead, ZenonT(30)
  <2>4. QED
    BY <2>3
<1>14. Put(cases, k, m, v) =
         [m EXCEPT ![name] = IF repeated THEN Append(@, v) ELSE v]
  BY DEF Put
<1>15. QED
  BY <1>12, <1>13, <1>14

\* A field number is an integer.
LEMMA FieldNumIsInt ==
  ASSUME NEW d \in Seq(Digit)
  PROVE  FieldNum(d) \in Int
<1>1. ASSUME NEW k \in {1, 2, 3, 4, 5}
      PROVE  DigitAt(d, k) \in Nat
  <2>1. CASE k <= Len(d)
    <3>1. d[k] \in Digit
      BY <2>1
    <3>2. QED
      BY <2>1, <3>1, DigitIsNat DEF DigitAt
  <2>2. CASE ~(k <= Len(d))
    BY <2>2 DEF DigitAt
  <2>3. QED
    BY <2>1, <2>2
<1> DEFINE d1 == DigitAt(d, 1)
           d2 == DigitAt(d, 2)
           d3 == DigitAt(d, 3)
           d4 == DigitAt(d, 4)
           d5 == DigitAt(d, 5)
           n == d1 \div 8 + 16 * d2 + 2048 * d3 + 262144 * d4 + 33554432 * d5
<1>2. /\ d1 \in Nat /\ d2 \in Nat /\ d3 \in Nat /\ d4 \in Nat /\ d5 \in Nat
  BY <1>1
<1>3. FieldNum(d) = IF d5 >= 64 THEN -1 ELSE n
  BY SMT DEF FieldNum
<1> HIDE DEF d1, d2, d3, d4, d5
<1>4. n \in Nat
  BY <1>2, SMT
<1> HIDE DEF n
<1>5. QED
  BY <1>3, <1>4, SMT

\* A field that the reader does not know: it is skipped and kept.
LEMMA NewFieldRead ==
  ASSUME NEW cases, IsTable(cases),
         NEW v \in Seq(Byte), IsNewField(v),
         NEW b \in Seq(Byte), NEW i \in Nat \ {0}, NEW m,
         LiesAt(v, b, i)
  PROVE  ReadField(cases, b, i, m) =
           {[m |-> Put(cases, Len(cases) + 1, m, v), next |-> i + Len(v)]}
<1> DEFINE d == i - 1
           tag == ReadVarint(v, 1)
           num == FieldNum(tag.digits)
           next == i + Len(v)
<1>1. d \in Nat /\ i = 1 + d /\ i = d + 1
  OBVIOUS
<1>2. LiesAt(v, b, d + 1)
  BY <1>1
<1> HIDE DEF d
<1>3. tag.next # 0 /\ WireType(tag.digits) # 4 /\ num > 5
      /\ SkipMsg(v, 1) = Len(v) + 1
  BY DEF IsNewField
<1>4. ReadVarint(b, i) = [digits |-> tag.digits, next |-> tag.next + d]
  <2>1. 1 \in Nat \ {0}
    OBVIOUS
  <2>2. ReadVarint(b, 1 + d) = [digits |-> tag.digits, next |-> tag.next + d]
    BY <1>1, <1>2, <1>3, <2>1, VarintLies
  <2>3. QED
    BY <1>1, <2>2
<1>5. tag.next + d # 0
  <2>1. tag.next \in {0} \cup (2..(Len(v) + 1))
    BY VarintType
  <2>2. QED
    BY <1>1, <1>3, <2>1
<1>6. SkipMsg(b, i) = next
  <2>1. 1 \in 1..(Len(v) + 1) /\ Len(v) + 1 # 0
    OBVIOUS
  <2>2. Shifted(b, v, d, 1)
    BY <1>1, <1>2, <2>1, SkipLies
  <2>3. Skips(b)[1 + d].field = Len(v) + 1 + d
    BY <1>3, <2>1, <2>2 DEF Shifted, SkipMsg
  <2>4. QED
    BY <1>1, <2>3 DEF SkipMsg
<1>7. next # 0 /\ SubSeq(b, i, next - 1) = v
  <2>1. SubSeq(b, i, i + Len(v) - 1) = v
    BY WhatLies
  <2>2. QED
    BY <2>1
<1>8. num \notin DOMAIN cases /\ ~(num <= 0)
  <2>1. num \in Int
    <3>1. tag.digits \in Seq(Digit)
      BY VarintType
    <3>2. QED
      BY <3>1, FieldNumIsInt
  <2>2. Len(cases) \in 1..5 /\ DOMAIN cases = 1..Len(cases)
    BY DEF IsTable
  <2> HIDE DEF num
  <2>3. QED
    BY <1>3, <2>1, <2>2, SMTT(30)
<1> HIDE DEF tag, next, num
<1>9. ReadField(cases, b, i, m) = ReadUnknown(b, i, SkipMsg(b, i), m)
  <2>1. ReadVarint(b, i).digits = tag.digits /\ ReadVarint(b, i).next # 0
        /\ FieldNum(ReadVarint(b, i).digits) = num
    BY <1>4, <1>5 DEF num
  <2>2. QED
    BY <1>3, <1>8, <2>1, Zenon DEF ReadField
<1> DEFINE kept == Put(cases, Len(cases) + 1, m, v)
<1>10. ReadUnknown(b, i, SkipMsg(b, i), m) =
         {[m |-> [m EXCEPT !.unknown = @ \o v], next |-> next]}
  BY <1>6, <1>7, Zenon DEF ReadUnknown
<1>11. [m EXCEPT !.unknown = @ \o v] = kept
  <2> DEFINE last == Len(cases) + 1
  <2>1. NameOf(cases, last) = "unknown" /\ KindOf(cases, last) = "unknown"
    BY DEF NameOf, KindOf
  <2> HIDE DEF last
  <2>2. Put(cases, last, m, v) = [m EXCEPT !["unknown"] = @ \o v]
    BY <2>1, Zenon DEF Put
  <2>3. QED
    BY <2>2, Zenon DEF last
<1> HIDE DEF kept
<1>12. ReadField(cases, b, i, m) = {[m |-> kept, next |-> next]}
  BY <1>9, <1>10, <1>11, Zenon
<1>13. QED
  BY <1>12 DEF next, kept

\* A column is one of the table or the last one.
LEMMA ColumnCases ==
  ASSUME NEW cases, IsTable(cases), NEW k \in Columns(cases)
  PROVE  \/ k \in 1..Len(cases)
         \/ k = Len(cases) + 1 /\ KindOf(cases, k) = "unknown"
              /\ NameOf(cases, k) = "unknown"
BY DEF IsTable, Columns, KindOf, NameOf

\* One turn of Unmarshal's loop: what MarshalTo writes for a field is read as
\* it was, wherever it lies.
LEMMA PieceRead ==
  ASSUME NEW cases, IsTable(cases), NEW k \in Columns(cases),
         NEW v \in Values(KindOf(cases, k)),
         NEW b \in Seq(Byte), NEW i \in Nat \ {0}, NEW m,
         LiesAt(PieceOf(KindOf(cases, k), k, v), b, i)
  PROVE  ReadField(cases, b, i, m) =
           {[m |-> Put(cases, k, m, v),
             next |-> i + Len(PieceOf(KindOf(cases, k), k, v))]}
<1>1. CASE k \in 1..Len(cases)
  <2>1. KindOf(cases, k) \in {"uint32", "uint64", "bytes", "repeated"}
    BY <1>1, KnownColumn
  <2>2. CASE KindOf(cases, k) \in {"uint32", "uint64"}
    BY <1>1, <2>2, NumberPieceRead
  <2>3. CASE KindOf(cases, k) \in {"bytes", "repeated"}
    BY <1>1, <2>3, BytesPieceRead
  <2>4. QED
    BY <2>1, <2>2, <2>3
<1>2. CASE k = Len(cases) + 1 /\ KindOf(cases, k) = "unknown"
             /\ NameOf(cases, k) = "unknown"
  <2>1. v \in Seq(Byte) /\ IsNewField(v)
    BY <1>2 DEF Values
  <2>2. PieceOf(KindOf(cases, k), k, v) = v
    BY <1>2 DEF PieceOf
  <2>3. QED
    BY <1>2, <2>1, <2>2, NewFieldRead
<1>3. QED
  BY <1>1, <1>2, ColumnCases

----------------------------------------------------------------------------
(* A field whose end is missing                                            *)

\* x starts at i of b, which ends before it does.
StartsAt(x, b, i) ==
  /\ i + Len(x) > Len(b) + 1
  /\ \A k \in 1..Len(x) : i + k - 1 <= Len(b) => b[i + k - 1] = x[k]

\* Of two things that lie one behind the other, the end of one is missing.
LEMMA StartsConcat ==
  ASSUME NEW x \in Seq(Byte), NEW y \in Seq(Byte), NEW b \in Seq(Byte),
         NEW i \in Nat \ {0}, StartsAt(x \o y, b, i)
  PROVE  \/ StartsAt(x, b, i)
         \/ LiesAt(x, b, i) /\ StartsAt(y, b, i + Len(x))
<1> DEFINE xy == x \o y
<1>1. /\ Len(x) \in Nat /\ Len(y) \in Nat /\ Len(b) \in Nat
      /\ Len(xy) = Len(x) + Len(y)
      /\ \A k \in 1..Len(x) : xy[k] = x[k]
      /\ \A k \in 1..Len(y) : xy[Len(x) + k] = y[k]
  BY ConcatProperties
<1> HIDE DEF xy
<1>2. /\ i + Len(xy) > Len(b) + 1
      /\ \A k \in 1..Len(xy) : i + k - 1 <= Len(b) => b[i + k - 1] = xy[k]
  BY DEF StartsAt, xy
<1>3. \A k \in 1..Len(x) : i + k - 1 <= Len(b) => b[i + k - 1] = x[k]
  BY <1>1, <1>2
<1>4. CASE i + Len(x) > Len(b) + 1
  BY <1>3, <1>4 DEF StartsAt
<1>5. CASE i + Len(x) <= Len(b) + 1
  <2>1. LiesAt(x, b, i)
    BY <1>1, <1>3, <1>5 DEF LiesAt
  <2>2. ASSUME NEW k \in 1..Len(y), i + Len(x) + k - 1 <= Len(b)
        PROVE  b[i + Len(x) + k - 1] = y[k]
    <3>1. Len(x) + k \in 1..Len(xy) /\ i + (Len(x) + k) - 1 = i + Len(x) + k - 1
      BY <1>1
    <3>2. QED
      BY <1>1, <1>2, <2>2, <3>1
  <2>3. i + Len(x) + Len(y) > Len(b) + 1
    BY <1>1, <1>2
  <2>4. QED
    BY <2>1, <2>2, <2>3 DEF StartsAt
<1>6. QED
  BY <1>1, <1>4, <1>5

\* A varint whose end is missing.
LEMMA CutVarintRead ==
  ASSUME NEW v \in Seq(Digit), Fits(v), NEW b \in Seq(Byte),
         NEW i \in Nat \ {0}, StartsAt(EncodeVarint(v), b, i)
  PROVE  ReadVarint(b, i) = Unreadable
<1>1. Len(EncodeVarint(v)) = Sov(v)
  BY SizeOfVarint
<1>2. /\ i + Sov(v) > Len(b) + 1
      /\ \A k \in 1..Sov(v) :
           i + k - 1 <= Len(b) => b[i + k - 1] = EncodeVarint(v)[k]
  BY <1>1 DEF StartsAt
<1>3. QED
  BY <1>2, CutVarintUnread

\* A number whose end is missing is not read.
LEMMA NumberPieceCut ==
  ASSUME NEW cases, IsTable(cases), NEW k \in 1..Len(cases),
         KindOf(cases, k) \in {"uint32", "uint64"},
         NEW v \in Values(KindOf(cases, k)),
         NEW b \in Seq(Byte), NEW i \in Nat \ {0}, i <= Len(b), NEW m,
         StartsAt(PieceOf(KindOf(cases, k), k, v), b, i)
  PROVE  ReadField(cases, b, i, m) = {}
<1> DEFINE kind == KindOf(cases, k)
           name == NameOf(cases, k)
           t == 8 * k + 0
           bits == IF kind = "uint32" THEN 32 ELSE 64
<1>1. k \in 1..5 /\ k \in DOMAIN cases
  BY KnownColumn
<1>2. t \in Byte /\ 8 * k = t
  BY <1>1, TagHalves, SMTT(30)
<1>3. v \in Seq(Digit) /\ Fits(v)
  BY Uint32Fits, Uint64Fits DEF Values
<1>4. EncodeVarint(v) \in Seq(Byte)
  BY <1>3, EncodedIsBytes
<1>5. PieceOf(kind, k, v) = <<t>> \o EncodeVarint(v)
  BY <1>2 DEF PieceOf
<1> HIDE DEF t
<1>6. /\ <<t>> \in Seq(Byte) /\ Len(<<t>>) = 1 /\ <<t>>[1] = t
  BY <1>2
<1>7. ~StartsAt(<<t>>, b, i)
  BY <1>6 DEF StartsAt
<1>8. LiesAt(<<t>>, b, i) /\ StartsAt(EncodeVarint(v), b, i + 1)
  BY <1>4, <1>5, <1>6, <1>7, StartsConcat
<1>9. b[i] = t
  BY <1>6, <1>8 DEF LiesAt
<1>10. ReadVarint(b, i + 1) = Unreadable
  <2>1. i + 1 \in Nat \ {0}
    OBVIOUS
  <2>2. QED
    BY <1>3, <1>8, <2>1, CutVarintRead
<1>11. ReadNumber(b, i + 1, m, name, bits) = {}
  BY <1>10 DEF ReadNumber, Unreadable
<1>12. ReadField(cases, b, i, m) = ReadNumber(b, i + 1, m, name, bits)
  <2> DEFINE w == 0
  <2>1. w \in {0, 2} /\ b[i] = 8 * k + w
    BY <1>9 DEF t
  <2>2. w = IF kind \in {"uint32", "uint64"} THEN 0 ELSE 2
    OBVIOUS
  <2> HIDE DEF w
  <2>3. ReadField(cases, b, i, m) =
          CASE kind = "uint32" -> ReadNumber(b, i + 1, m, name, 32)
            [] kind = "uint64" -> ReadNumber(b, i + 1, m, name, 64)
            [] kind = "bytes" -> ReadBytes(b, i + 1, m, name, FALSE)
            [] kind = "repeated" -> ReadBytes(b, i + 1, m, name, TRUE)
    BY <2>1, <2>2, CaseRead, ZenonT(30)
  <2>4. QED
    BY <2>3
<1>13. QED
  BY <1>11, <1>12

\* A string or bytes whose end is missing is not read.
LEMMA BytesPieceCut ==
  ASSUME NEW cases, IsTable(cases), NEW k \in 1..Len(cases),
         KindOf(cases, k) \in {"bytes", "repeated"},
         NEW v \in Values(KindOf(cases, k)),
         NEW b \in Seq(Byte), NEW i \in Nat \ {0}, i <= Len(b), NEW m,
         StartsAt(PieceOf(KindOf(cases, k), k, v), b, i)
  PROVE  ReadField(cases, b, i, m) = {}
<1> DEFINE kind == KindOf(cases, k)
           name == NameOf(cases, k)
           t == 8 * k + 2
           len == EncodeVarint(Digits(Len(v)))
           repeated == (kind = "repeated")
<1>1. k \in 1..5 /\ k \in DOMAIN cases
  BY KnownColumn
<1>2. t \in Byte
  BY <1>1, TagHalves
<1>3. v \in Seq(Byte) /\ Len(v) \in Length
  BY DEF Values, Strings
<1>4. PieceOf(kind, k, v) = BytesPiece(t, v)
  BY DEF PieceOf
<1>5. len \in Seq(Byte) /\ Len(len) = Sov(Digits(Len(v)))
  BY <1>3, LengthFacts, EncodedIsBytes, SizeOfVarint
<1>6. StartsAt(len, b, i + 1) => ReadVarint(b, i + 1) = Unreadable
  <2>1. i + 1 \in Nat \ {0}
    OBVIOUS
  <2>2. QED
    BY <1>3, <2>1, LengthFacts, CutVarintRead
<1> HIDE DEF t, len
<1>7. BytesPiece(t, v) = <<t>> \o (len \o v)
  <2>1. <<t>> \in Seq(Byte)
    BY <1>2
  <2>2. BytesPiece(t, v) = (<<t>> \o len) \o v
    BY DEF BytesPiece, len
  <2>3. QED
    BY <1>3, <1>5, <2>1, <2>2, Associate
<1>8. /\ <<t>> \in Seq(Byte) /\ Len(<<t>>) = 1 /\ <<t>>[1] = t
      /\ len \o v \in Seq(Byte)
  BY <1>2, <1>3, <1>5
<1>9. ~StartsAt(<<t>>, b, i)
  BY <1>8 DEF StartsAt
<1>10. LiesAt(<<t>>, b, i) /\ StartsAt(len \o v, b, i + 1)
  BY <1>4, <1>7, <1>8, <1>9, StartsConcat
<1>11. b[i] = t
  BY <1>8, <1>10 DEF LiesAt
<1>12. \/ StartsAt(len, b, i + 1)
       \/ LiesAt(len, b, i + 1) /\ StartsAt(v, b, i + 1 + Len(len))
  <2>1. i + 1 \in Nat \ {0}
    OBVIOUS
  <2>2. QED
    BY <1>3, <1>5, <1>10, <2>1, StartsConcat
<1>13. ReadBytes(b, i + 1, m, name, repeated) = {}
  <2>1. i + 1 \in Nat \ {0} /\ repeated \in BOOLEAN
    OBVIOUS
  <2> HIDE DEF repeated
  <2>2. CASE StartsAt(len, b, i + 1)
    BY <1>6, <2>2 DEF ReadBytes, Unreadable
  <2>3. CASE LiesAt(len, b, i + 1) /\ StartsAt(v, b, i + 1 + Len(len))
    <3>1. LiesAt(EncodeVarint(Digits(Len(v))), b, i + 1)
      BY <2>3 DEF len
    <3>2. i + 1 + Sov(Digits(Len(v))) + Len(v) > Len(b) + 1
      BY <1>5, <2>3 DEF StartsAt
    <3>3. QED
      BY <1>3, <2>1, <3>1, <3>2, CutBytesUnread
  <2>4. QED
    BY <1>12, <2>2, <2>3
<1>14. ReadField(cases, b, i, m) = ReadBytes(b, i + 1, m, name, repeated)
  <2> DEFINE w == 2
  <2>1. w \in {0, 2} /\ b[i] = 8 * k + w
    BY <1>11 DEF t
  <2>2. w = IF kind \in {"uint32", "uint64"} THEN 0 ELSE 2
    OBVIOUS
  <2> HIDE DEF w
  <2>3. ReadField(cases, b, i, m) =
          CASE kind = "uint32" -> ReadNumber(b, i + 1, m, name, 32)
            [] kind = "uint64" -> ReadNumber(b, i + 1, m, name, 64)
            [] kind = "bytes" -> ReadBytes(b, i + 1, m, name, FALSE)
            [] kind = "repeated" -> ReadBytes(b, i + 1, m, name, TRUE)
    BY <2>1, <2>2, CaseRead, ZenonT(30)
  <2>4. QED
    BY <2>3
<1>15. QED
  BY <1>13, <1>14

\* A field of the table whose end is missing is not read.
LEMMA PieceCut ==
  ASSUME NEW cases, IsTable(cases), NEW k \in 1..Len(cases),
         NEW v \in Values(KindOf(cases, k)),
         NEW b \in Seq(Byte), NEW i \in Nat \ {0}, i <= Len(b), NEW m,
         StartsAt(PieceOf(KindOf(cases, k), k, v), b, i)
  PROVE  ReadField(cases, b, i, m) = {}
<1>1. KindOf(cases, k) \in {"uint32", "uint64", "bytes", "repeated"}
  BY KnownColumn
<1>2. CASE KindOf(cases, k) \in {"uint32", "uint64"}
  BY <1>2, NumberPieceCut
<1>3. CASE KindOf(cases, k) \in {"bytes", "repeated"}
  BY <1>3, BytesPieceCut
<1>4. QED
  BY <1>1, <1>2, <1>3

----------------------------------------------------------------------------
(* Fields, one behind the other                                            *)

\* What is written for a field is a sequence of bytes, and not empty.
LEMMA PieceIsBytes ==
  ASSUME NEW cases, IsTable(cases), NEW k \in Columns(cases),
         NEW v \in Values(KindOf(cases, k))
  PROVE  /\ PieceOf(KindOf(cases, k), k, v) \in Seq(Byte)
         /\ Len(PieceOf(KindOf(cases, k), k, v)) >= 1
<1> DEFINE kind == KindOf(cases, k)
           x == PieceOf(kind, k, v)
<1>1. CASE k \in 1..Len(cases)
  <2>1. /\ k \in 1..5
        /\ kind \in {"uint32", "uint64", "bytes", "repeated"}
    BY <1>1, KnownColumn
  <2>2. CASE kind \in {"uint32", "uint64"}
    <3>1. v \in Seq(Digit)
      BY <2>2, Uint32Fits, Uint64Fits DEF Values
    <3> DEFINE e == EncodeVarint(v)
               t == 8 * k + 0
    <3>2. e \in Seq(Byte)
      BY <3>1, EncodedIsBytes
    <3>3. t \in Byte /\ 8 * k = t
      BY <2>1, TagHalves
    <3>4. x = <<t>> \o e
      BY <2>2, <3>3 DEF PieceOf
    <3> HIDE DEF t, e
    <3>5. <<t>> \o e \in Seq(Byte) /\ Len(<<t>> \o e) >= 1
      BY <3>2, <3>3
    <3>6. QED
      BY <3>4, <3>5
  <2>3. CASE kind \in {"bytes", "repeated"}
    <3>1. v \in Seq(Byte) /\ Len(v) \in Length
      BY <2>3 DEF Values, Strings
    <3> DEFINE e == EncodeVarint(Digits(Len(v)))
               t == 8 * k + 2
    <3>2. e \in Seq(Byte)
      BY <3>1, LengthFacts, EncodedIsBytes
    <3>3. t \in Byte
      BY <2>1, TagHalves
    <3>4. x = <<t>> \o e \o v
      BY <2>3 DEF PieceOf, BytesPiece
    <3> HIDE DEF t, e
    <3>5. <<t>> \o e \o v \in Seq(Byte) /\ Len(<<t>> \o e \o v) >= 1
      BY <3>1, <3>2, <3>3
    <3>6. QED
      BY <3>4, <3>5
  <2>4. QED
    BY <2>1, <2>2, <2>3
<1>2. CASE kind = "unknown"
  <2>1. v \in Seq(Byte) /\ IsNewField(v) /\ x = v
    BY <1>2 DEF Values, PieceOf
  <2>2. ReadVarint(v, 1).next \in {0} \cup ((1 + 1)..(Len(v) + 1))
    BY <2>1, VarintType
  <2>3. ReadVarint(v, 1).next # 0
    BY <2>1 DEF IsNewField
  <2>4. QED
    BY <2>1, <2>2, <2>3
<1>3. QED
  BY <1>1, <1>2, ColumnCases

\* qs are pieces for the fields of these columns with these values.
ArePieces(cases, qs, col, val) ==
  \A j \in 1..Len(qs) :
    /\ col[j] \in Columns(cases)
    /\ val[j] \in Values(KindOf(cases, col[j]))
    /\ qs[j] = PieceOf(KindOf(cases, col[j]), col[j], val[j])

\* Where the fields lie, one behind the other.
LEMMA PieceLies ==
  ASSUME NEW qs \in Seq(Seq(Byte)), NEW b \in Seq(Byte),
         LiesAt(FlattenSeq(qs), b, 1), NEW j \in 1..Len(qs)
  PROVE  LiesAt(qs[j], b, Len(FlattenSeq(SubSeq(qs, 1, j - 1))) + 1)
<1> DEFINE first == SubSeq(qs, 1, j)
           rest == SubSeq(qs, j + 1, Len(qs))
           before == SubSeq(qs, 1, j - 1)
<1>1. first \in Seq(Seq(Byte)) /\ rest \in Seq(Seq(Byte))
      /\ before \in Seq(Seq(Byte)) /\ qs[j] \in Seq(Byte)
  OBVIOUS
<1>2. qs = first \o rest
  <2>1. SubSeq(qs, 1, Len(qs)) = qs
    OBVIOUS
  <2>2. SubSeq(qs, 1, j) \o SubSeq(qs, j + 1, Len(qs)) = SubSeq(qs, 1, Len(qs))
    BY ConcatAdjacentSubSeq
  <2>3. QED
    BY <2>1, <2>2
<1>3. FlattenSeq(first) = FlattenSeq(before) \o qs[j]
  BY FlattenFirst
<1> HIDE DEF first, rest, before
<1>4. FlattenSeq(qs) = FlattenSeq(first) \o FlattenSeq(rest)
  BY <1>1, <1>2, FlattenConcat
<1>5. FlattenSeq(first) \in Seq(Byte) /\ FlattenSeq(rest) \in Seq(Byte)
      /\ FlattenSeq(before) \in Seq(Byte)
  BY <1>1, FlattenIsBytes
<1>6. LiesAt(FlattenSeq(first), b, 1)
  BY <1>4, <1>5, LiesConcat
<1>7. LiesAt(qs[j], b, 1 + Len(FlattenSeq(before)))
  BY <1>1, <1>3, <1>5, <1>6, LiesConcat
<1>8. 1 + Len(FlattenSeq(before)) = Len(FlattenSeq(before)) + 1
  BY <1>5
<1>9. QED
  BY <1>7, <1>8 DEF before

\* Where a field ends, when those before it end there.
LEMMA NextEnd ==
  ASSUME NEW qs \in Seq(Seq(Byte)), NEW j \in 1..Len(qs)
  PROVE  /\ Len(FlattenSeq(SubSeq(qs, 1, j - 1))) \in Nat
         /\ Len(FlattenSeq(SubSeq(qs, 1, j))) =
              Len(FlattenSeq(SubSeq(qs, 1, j - 1))) + Len(qs[j])
<1> DEFINE f == FlattenSeq(SubSeq(qs, 1, j - 1))
<1>1. FlattenSeq(SubSeq(qs, 1, j)) = f \o qs[j]
  BY FlattenFirst
<1>2. f \in Seq(Byte)
  <2>1. SubSeq(qs, 1, j - 1) \in Seq(Seq(Byte))
    OBVIOUS
  <2>2. QED
    BY <2>1, FlattenIsBytes
<1>3. qs[j] \in Seq(Byte)
  OBVIOUS
<1> HIDE DEF f
<1>4. Len(f \o qs[j]) = Len(f) + Len(qs[j]) /\ Len(f) \in Nat
  BY <1>2, <1>3
<1>5. QED
  BY <1>1, <1>4 DEF f

\* After as many turns as there are fields, these have been read: s is what
\* becomes of the message.
LEMMA FieldsRead ==
  ASSUME NEW cases, IsTable(cases), NEW qs \in Seq(Seq(Byte)),
         NEW col, NEW val, ArePieces(cases, qs, col, val),
         NEW b \in Seq(Byte), LiesAt(FlattenSeq(qs), b, 1),
         NEW s, s[0] = Blank(cases),
         \A j \in 1..Len(qs) : s[j] = Put(cases, col[j], s[j - 1], val[j])
  PROVE  Turns(cases, b)[Len(qs)] =
           {[m |-> s[Len(qs)], next |-> Len(FlattenSeq(qs)) + 1]}
<1> DEFINE at(j) == Len(FlattenSeq(SubSeq(qs, 1, j))) + 1
           read(j) == {[m |-> s[j], next |-> at(j)]}
           T == {j \in Nat : j <= Len(qs) => Turns(cases, b)[j] = read(j)}
<1>1. Len(qs) \in Nat /\ SubSeq(qs, 1, 0) = <<>> /\ SubSeq(qs, 1, Len(qs)) = qs
  OBVIOUS
<1>2. 0 \in T
  <2>1. at(0) = 1
    <3>1. FlattenSeq(SubSeq(qs, 1, 0)) = <<>>
      BY <1>1, FlattenNone, Zenon
    <3>2. QED
      BY <3>1
  <2>2. Turns(cases, b)[0] = Begin(cases)
    BY TurnsAre
  <2>3. QED
    BY <2>1, <2>2 DEF Begin
<1>3. ASSUME NEW j \in Nat, j \in T
      PROVE  j + 1 \in T
  <2>1. SUFFICES ASSUME j + 1 <= Len(qs)
                 PROVE  Turns(cases, b)[j + 1] = read(j + 1)
    OBVIOUS
  <2>2. Turns(cases, b)[j] = read(j)
    BY <1>1, <1>3, <2>1
  <2>3. j + 1 \in 1..Len(qs) /\ (j + 1) - 1 = j
    BY <1>1, <2>1
  <2> DEFINE i == at(j)
             k == col[j + 1]
             v == val[j + 1]
             x == PieceOf(KindOf(cases, k), k, v)
             end == at(j + 1)
  <2>4. k \in Columns(cases) /\ v \in Values(KindOf(cases, k))
        /\ qs[j + 1] = x
    BY <2>3 DEF ArePieces
  <2>5. x \in Seq(Byte) /\ Len(x) >= 1
    BY <2>4, PieceIsBytes
  <2>6. i \in Nat \ {0} /\ end = i + Len(x)
    <3>1. /\ Len(FlattenSeq(SubSeq(qs, 1, j))) \in Nat
          /\ Len(FlattenSeq(SubSeq(qs, 1, j + 1))) =
               Len(FlattenSeq(SubSeq(qs, 1, j))) + Len(x)
      BY <2>3, <2>4, NextEnd
    <3> DEFINE f == Len(FlattenSeq(SubSeq(qs, 1, j)))
    <3> HIDE DEF x, f
    <3>2. f \in Nat /\ end = (f + Len(x)) + 1 /\ i = f + 1
      BY <3>1 DEF f
    <3> HIDE DEF end, i
    <3>3. QED
      BY <2>5, <3>2
  <2>7. LiesAt(x, b, i)
    BY <2>3, <2>4, PieceLies
  <2> HIDE DEF x, i, k, v, end
  <2>8. i <= Len(b)
    BY <2>5, <2>6, <2>7 DEF LiesAt
  <2>9. ReadField(cases, b, i, s[j]) =
          {[m |-> Put(cases, k, s[j], v), next |-> i + Len(x)]}
    BY <2>4, <2>6, <2>7, PieceRead DEF x
  <2>10. Put(cases, k, s[j], v) = s[j + 1]
    BY <2>3 DEF k, v
  <2>11. ReadField(cases, b, i, s[j]) = read(j + 1)
    <3>1. ReadField(cases, b, i, s[j]) = {[m |-> s[j + 1], next |-> end]}
      BY <2>6, <2>9, <2>10
    <3>2. QED
      BY <3>1 DEF end
  <2>12. Turns(cases, b)[j + 1] = Turn(cases, b, {[m |-> s[j], next |-> i]})
    <3>1. Turns(cases, b)[j + 1] = Turn(cases, b, Turns(cases, b)[j])
      BY TurnsAre
    <3>2. Turns(cases, b)[j] = {[m |-> s[j], next |-> i]}
      BY <2>2 DEF i
    <3>3. QED
      BY <3>1, <3>2
  <2>13. Turn(cases, b, {[m |-> s[j], next |-> i]}) =
           ReadField(cases, b, i, s[j])
    <3> DEFINE f == [m |-> s[j], next |-> i]
    <3>1. f.next = i /\ f.m = s[j]
      OBVIOUS
    <3>2. ~(f.next > Len(b))
      BY <2>6, <2>8
    <3> HIDE DEF f
    <3>3. Turn(cases, b, {f}) = ReadField(cases, b, f.next, f.m)
      <4>1. Turn(cases, b, {f}) =
              UNION {IF g.next > Len(b) THEN {g}
                     ELSE ReadField(cases, b, g.next, g.m) : g \in {f}}
        BY DEF Turn
      <4> DEFINE R(g) == IF g.next > Len(b) THEN {g}
                         ELSE ReadField(cases, b, g.next, g.m)
      <4>2. R(f) = ReadField(cases, b, f.next, f.m)
        BY <3>2
      <4> HIDE DEF R
      <4>3. UNION {R(g) : g \in {f}} = R(f)
        OBVIOUS
      <4>4. QED
        BY <4>1, <4>2, <4>3 DEF R
    <3>4. QED
      BY <3>1, <3>3 DEF f
  <2>14. QED
    BY <2>11, <2>12, <2>13
<1>4. Nat \subseteq T
  <2> HIDE DEF T
  <2>1. QED
    BY <1>2, <1>3, NumberInduction
<1>5. Turns(cases, b)[Len(qs)] = read(Len(qs))
  BY <1>1, <1>4
<1>6. QED
  BY <1>1, <1>5

\* There are no more fields than bytes.
LEMMA FieldsHaveBytes ==
  ASSUME NEW qs \in Seq(Seq(Byte)), \A j \in 1..Len(qs) : Len(qs[j]) >= 1
  PROVE  Len(qs) <= Len(FlattenSeq(qs))
<1> DEFINE n(j) == Len(FlattenSeq(SubSeq(qs, 1, j)))
           T == {j \in Nat : j <= Len(qs) => n(j) \in Nat /\ j <= n(j)}
<1>1. Len(qs) \in Nat /\ SubSeq(qs, 1, 0) = <<>> /\ SubSeq(qs, 1, Len(qs)) = qs
  OBVIOUS
<1>2. 0 \in T
  <2>1. FlattenSeq(SubSeq(qs, 1, 0)) = <<>>
    BY <1>1, FlattenNone, Zenon
  <2>2. QED
    BY <2>1
<1>3. ASSUME NEW j \in Nat, j \in T
      PROVE  j + 1 \in T
  <2>1. SUFFICES ASSUME j + 1 <= Len(qs)
                 PROVE  n(j + 1) \in Nat /\ j + 1 <= n(j + 1)
    OBVIOUS
  <2>2. j + 1 \in 1..Len(qs) /\ (j + 1) - 1 = j
    BY <1>1, <2>1
  <2>3. n(j) \in Nat /\ n(j + 1) = n(j) + Len(qs[j + 1])
    BY <2>2, NextEnd
  <2>4. Len(qs[j + 1]) >= 1 /\ Len(qs[j + 1]) \in Nat
    BY <2>2
  <2>5. j <= n(j)
    BY <1>1, <1>3, <2>1
  <2> HIDE DEF n
  <2>6. QED
    BY <2>3, <2>4, <2>5
<1>4. Nat \subseteq T
  <2> HIDE DEF T
  <2>1. QED
    BY <1>2, <1>3, NumberInduction
<1>5. Len(qs) <= n(Len(qs))
  BY <1>1, <1>4
<1>6. QED
  BY <1>1, <1>5

\* What a stream of fields decodes to.
LEMMA FieldsDecode ==
  ASSUME NEW cases, IsTable(cases), NEW qs \in Seq(Seq(Byte)),
         NEW col, NEW val, ArePieces(cases, qs, col, val),
         NEW s, s[0] = Blank(cases),
         \A j \in 1..Len(qs) : s[j] = Put(cases, col[j], s[j - 1], val[j])
  PROVE  Decode(cases, FlattenSeq(qs)) = {s[Len(qs)]}
<1> DEFINE b == FlattenSeq(qs)
           n == Len(qs)
<1>1. b \in Seq(Byte) /\ n \in Nat
  BY FlattenIsBytes
<1>2. \A j \in 1..n : Len(qs[j]) >= 1
  BY PieceIsBytes DEF ArePieces
<1>3. n <= Len(b)
  BY <1>2, FieldsHaveBytes
<1>4. LiesAt(b, b, 1)
  <2> HIDE DEF b
  <2>1. \A k \in 1..Len(b) : 1 + k - 1 = k
    OBVIOUS
  <2>2. 1 + Len(b) <= Len(b) + 1
    BY <1>1
  <2>3. QED
    BY <2>1, <2>2 DEF LiesAt
<1>5. Turns(cases, b)[n] = {[m |-> s[n], next |-> Len(b) + 1]}
  BY <1>1, <1>4, FieldsRead, SMTT(30)
<1> HIDE DEF b, n
<1> DEFINE f == [m |-> s[n], next |-> Len(b) + 1]
<1>6. f.m = s[n] /\ f.next > Len(b)
  BY <1>1
<1> HIDE DEF f
<1>7. Turns(cases, b)[n] = {f}
  BY <1>5 DEF f
<1>8. Over(b, Turns(cases, b)[n])
  BY <1>6, <1>7 DEF Over
<1>9. n \in 0..Len(b)
  BY <1>1, <1>3
<1>10. Decode(cases, b) = {g.m : g \in {f}}
  <2>1. Decode(cases, b) = {g.m : g \in Turns(cases, b)[n]}
    BY <1>1, <1>8, <1>9, DecodeAt
  <2>2. QED
    BY <1>7, <2>1, Zenon
<1>11. Decode(cases, b) = {s[n]}
  BY <1>6, <1>10
<1>12. QED
  BY <1>11 DEF b, n

\* s is what becomes of a message while these pieces are read.
Goes(cases, qs, col, val, s) ==
  /\ ArePieces(cases, qs, col, val)
  /\ s[0] = Blank(cases)
  /\ \A j \in 1..Len(qs) : s[j] = Put(cases, col[j], s[j - 1], val[j])

\* A stream that ends within a field does not decode.
LEMMA CutFieldsUnread ==
  ASSUME NEW cases, IsTable(cases), NEW qs \in Seq(Seq(Byte)),
         NEW col, NEW val, NEW s, Goes(cases, qs, col, val, s),
         NEW b \in Seq(Byte), LiesAt(FlattenSeq(qs), b, 1),
         Len(FlattenSeq(qs)) < Len(b),
         NEW k \in 1..Len(cases), NEW v \in Values(KindOf(cases, k)),
         StartsAt(PieceOf(KindOf(cases, k), k, v), b,
                  Len(FlattenSeq(qs)) + 1)
  PROVE  Decode(cases, b) = {}
<1>0. /\ ArePieces(cases, qs, col, val) /\ s[0] = Blank(cases)
      /\ \A j \in 1..Len(qs) : s[j] = Put(cases, col[j], s[j - 1], val[j])
  BY DEF Goes
<1> DEFINE n == Len(qs)
           i == Len(FlattenSeq(qs)) + 1
<1>1. n \in Nat /\ FlattenSeq(qs) \in Seq(Byte) /\ Len(b) \in Nat
  BY FlattenIsBytes
<1>2. i \in Nat \ {0} /\ i <= Len(b)
  BY <1>1
<1>3. n + 1 \in 0..Len(b)
  <2>1. \A j \in 1..n : Len(qs[j]) >= 1
    BY <1>0, PieceIsBytes DEF ArePieces
  <2>2. n <= Len(FlattenSeq(qs))
    BY <2>1, FieldsHaveBytes
  <2>3. QED
    BY <1>1, <2>2
<1>4. Turns(cases, b)[n] = {[m |-> s[n], next |-> i]}
  BY <1>0, FieldsRead
<1>5. ReadField(cases, b, i, s[n]) = {}
  BY <1>2, PieceCut
<1> HIDE DEF n, i
<1> DEFINE f == [m |-> s[n], next |-> i]
<1>6. f.m = s[n] /\ f.next = i /\ ~(f.next > Len(b))
  BY <1>1, <1>2
<1> HIDE DEF f
<1>7. Turns(cases, b)[n + 1] = Turn(cases, b, {f})
  <2>1. Turns(cases, b)[n + 1] = Turn(cases, b, Turns(cases, b)[n])
    BY <1>1, TurnsAre
  <2>2. QED
    BY <1>4, <2>1 DEF f
<1>8. Turn(cases, b, {f}) = {}
  <2> DEFINE R(g) == IF g.next > Len(b) THEN {g}
                     ELSE ReadField(cases, b, g.next, g.m)
  <2>1. Turn(cases, b, {f}) = UNION {R(g) : g \in {f}}
    BY DEF Turn
  <2>2. R(f) = {}
    BY <1>5, <1>6
  <2> HIDE DEF R
  <2>3. QED
    BY <2>1, <2>2
<1>9. Over(b, Turns(cases, b)[n + 1])
  BY <1>7, <1>8 DEF Over
<1>10. Decode(cases, b) = {g.m : g \in Turns(cases, b)[n + 1]}
  BY <1>3, <1>9, DecodeAt
<1>11. QED
  BY <1>7, <1>8, <1>10

----------------------------------------------------------------------------
(* Messages                                                                *)

\* What is written for a column: nothing for what is empty or zero, a piece for
\* each element of what is repeated.
Elements(cases, m, k) ==
  LET v == m[NameOf(cases, k)]
  IN IF KindOf(cases, k) = "repeated" THEN v
     ELSE IF v = <<>> THEN <<>> ELSE <<v>>

\* The value of a column, from those of its elements that have been read.
Collapse(kind, l) == IF kind = "repeated" \/ l = <<>> THEN l ELSE l[1]

IsMessage(cases, m) ==
  /\ m = [x \in Names(cases) |-> m[x]]
  /\ \A k \in Columns(cases) :
       Elements(cases, m, k) \in Seq(Values(KindOf(cases, k)))

\* The message of which c[k] elements of each column k have been read.
ColumnOf(cases, x) == CHOOSE k \in Columns(cases) : NameOf(cases, k) = x
ReadOf(cases, m, c, k) ==
  Collapse(KindOf(cases, k), SubSeq(Elements(cases, m, k), 1, c[k]))
Part(cases, m, c) ==
  [x \in Names(cases) |-> ReadOf(cases, m, c, ColumnOf(cases, x))]

\* Columns and their names.
LEMMA ColumnNames ==
  ASSUME NEW cases, IsTable(cases)
  PROVE  /\ \A x \in Names(cases) : /\ ColumnOf(cases, x) \in Columns(cases)
                                    /\ NameOf(cases, ColumnOf(cases, x)) = x
         /\ \A k \in Columns(cases) : /\ NameOf(cases, k) \in Names(cases)
                                      /\ ColumnOf(cases, NameOf(cases, k)) = k
<1>1. ASSUME NEW x \in Names(cases)
      PROVE  \E k \in Columns(cases) : NameOf(cases, k) = x
  <2>1. CASE x = "unknown"
    BY <2>1 DEF IsTable, Columns, NameOf
  <2>2. CASE x # "unknown"
    <3>1. PICK k \in DOMAIN cases : x = cases[k][1]
      BY <2>2 DEF Names
    <3>2. QED
      BY <3>1 DEF IsTable, Columns, NameOf
  <2>3. QED
    BY <2>1, <2>2
<1>2. ASSUME NEW k \in Columns(cases)
      PROVE  NameOf(cases, k) \in Names(cases)
  BY DEF IsTable, Columns, NameOf, Names
<1>3. \A x \in Names(cases) : /\ ColumnOf(cases, x) \in Columns(cases)
                              /\ NameOf(cases, ColumnOf(cases, x)) = x
  BY <1>1 DEF ColumnOf
<1>4. \A k \in Columns(cases) : ColumnOf(cases, NameOf(cases, k)) = k
  BY <1>2, <1>3, Zenon DEF IsTable
<1>5. QED
  BY <1>2, <1>3, <1>4

\* The value of a column that has been read in part.
LEMMA PartAt ==
  ASSUME NEW cases, IsTable(cases), NEW m, NEW c, NEW k \in Columns(cases)
  PROVE  Part(cases, m, c)[NameOf(cases, k)] = ReadOf(cases, m, c, k)
BY ColumnNames DEF Part

\* f is a message of this table.
Shaped(cases, f) == f = [x \in Names(cases) |-> f[x]]
SameIn(cases, f, g) ==
  \A k \in Columns(cases) : f[NameOf(cases, k)] = g[NameOf(cases, k)]

\* A message is what its columns are.
LEMMA SameColumns ==
  ASSUME NEW cases, IsTable(cases), NEW f, NEW g,
         Shaped(cases, f), Shaped(cases, g), SameIn(cases, f, g)
  PROVE  f = g
<1> USE DEF Shaped, SameIn
<1>1. ASSUME NEW x \in Names(cases)
      PROVE  f[x] = g[x]
  <2>1. /\ ColumnOf(cases, x) \in Columns(cases)
        /\ NameOf(cases, ColumnOf(cases, x)) = x
    BY ColumnNames
  <2>2. QED
    BY <2>1
<1>2. [x \in Names(cases) |-> f[x]] = [x \in Names(cases) |-> g[x]]
  BY <1>1, Zenon
<1>3. QED
  BY <1>2

\* Where there is at most one element.
LEMMA OnlyOne ==
  ASSUME NEW S, NEW e \in Seq(S), Len(e) = 0 \/ Len(e) = 1, NEW t \in 1..Len(e)
  PROVE  /\ t = 1 /\ Len(e) = 1 /\ SubSeq(e, 1, 0) = <<>>
         /\ SubSeq(e, 1, 1) # <<>> /\ SubSeq(e, 1, 1)[1] = e[1]
<1>1. t = 1 /\ Len(e) = 1
  <2>1. CASE Len(e) = 0
    BY <2>1
  <2>2. CASE Len(e) = 1
    BY <2>2
  <2>3. QED
    BY <2>1, <2>2
<1>2. SubSeq(e, 1, 0) = <<>> /\ SubSeq(e, 1, 1)[1] = e[1]
  BY <1>1
<1>3. SubSeq(e, 1, 1) \in Seq(S) /\ Len(SubSeq(e, 1, 1)) = 1
  BY <1>1
<1> DEFINE one == SubSeq(e, 1, 1)
<1> HIDE DEF one
<1>4. one # <<>>
  BY <1>3 DEF one
<1>5. QED
  BY <1>1, <1>2, <1>4 DEF one

\* A column of which nothing has been read is empty.
LEMMA ReadNone ==
  ASSUME NEW cases, IsTable(cases), NEW m, IsMessage(cases, m),
         NEW k \in Columns(cases), NEW c, c[k] = 0
  PROVE  ReadOf(cases, m, c, k) = <<>>
<1> DEFINE S == Values(KindOf(cases, k))
           e == Elements(cases, m, k)
<1>1. e \in Seq(S)
  BY DEF IsMessage
<1> HIDE DEF S, e
<1>2. SubSeq(e, 1, 0) = <<>>
  BY <1>1
<1>3. QED
  BY <1>2 DEF ReadOf, Collapse, e

\* A column of which everything has been read is as it was written.
LEMMA ReadAll ==
  ASSUME NEW cases, IsTable(cases), NEW m, IsMessage(cases, m),
         NEW k \in Columns(cases), NEW c, c[k] = Len(Elements(cases, m, k))
  PROVE  ReadOf(cases, m, c, k) = m[NameOf(cases, k)]
<1> DEFINE S == Values(KindOf(cases, k))
           e == Elements(cases, m, k)
<1>1. e \in Seq(S)
  BY DEF IsMessage
<1>2. SubSeq(e, 1, Len(e)) = e
  <2> HIDE DEF S, e
  <2>1. QED
    BY <1>1
<1>3. ReadOf(cases, m, c, k) = Collapse(KindOf(cases, k), e)
  BY <1>2 DEF ReadOf
<1>4. CASE KindOf(cases, k) = "repeated"
  BY <1>3, <1>4 DEF Collapse, Elements
<1>5. CASE KindOf(cases, k) # "repeated"
  <2> DEFINE v == m[NameOf(cases, k)]
  <2>1. (v = <<>> /\ e = <<>>) \/ (e # <<>> /\ e[1] = v)
    BY <1>5 DEF Elements
  <2> HIDE DEF e, v
  <2>2. CASE v = <<>> /\ e = <<>>
    BY <1>3, <2>2 DEF Collapse, v
  <2>3. CASE e # <<>> /\ e[1] = v
    BY <1>3, <1>5, <2>3, Zenon DEF Collapse, v
  <2>4. QED
    BY <2>1, <2>2, <2>3
<1>6. QED
  BY <1>4, <1>5

\* Before anything has been read the message is blank.
LEMMA PartNone ==
  ASSUME NEW cases, IsTable(cases), NEW m, IsMessage(cases, m),
         NEW c, \A k \in Columns(cases) : c[k] = 0
  PROVE  Part(cases, m, c) = Blank(cases)
<1>1. \A k \in Columns(cases) : ReadOf(cases, m, c, k) = <<>>
  BY ReadNone
<1>2. \A x \in Names(cases) : ReadOf(cases, m, c, ColumnOf(cases, x)) = <<>>
  BY <1>1, ColumnNames
<1>3. Blank(cases) = [x \in Names(cases) |-> <<>>]
  BY DEF Blank, Names
<1>4. QED
  BY <1>2, <1>3, Zenon DEF Part

\* When everything has been read it is the one that was written.
LEMMA PartAll ==
  ASSUME NEW cases, IsTable(cases), NEW m, IsMessage(cases, m),
         NEW c, \A k \in Columns(cases) : c[k] = Len(Elements(cases, m, k))
  PROVE  Part(cases, m, c) = m
<1>1. \A k \in Columns(cases) :
        ReadOf(cases, m, c, k) = m[NameOf(cases, k)]
  BY ReadAll
<1> DEFINE p == Part(cases, m, c)
<1>2. \A k \in Columns(cases) : p[NameOf(cases, k)] = m[NameOf(cases, k)]
  BY <1>1, PartAt
<1>3. p = [x \in Names(cases) |-> p[x]]
  BY DEF Part
<1>4. m = [x \in Names(cases) |-> m[x]]
  BY DEF IsMessage
<1> HIDE DEF p
<1>5. p = m
  BY <1>2, <1>3, <1>4, SameColumns DEF Shaped, SameIn
<1>6. QED
  BY <1>5 DEF p

\* c and d are alike but for one element more of column k, the t-th.
OneMore(cases, c, d, k, t) ==
  /\ c[k] = t - 1 /\ d[k] = t
  /\ \A l \in Columns(cases) : l # k => d[l] = c[l]

\* One element more is read.
LEMMA PartPut ==
  ASSUME NEW cases, IsTable(cases), NEW m, IsMessage(cases, m),
         NEW k \in Columns(cases), NEW t \in 1..Len(Elements(cases, m, k)),
         NEW c, NEW d, OneMore(cases, c, d, k, t)
  PROVE  Put(cases, k, Part(cases, m, c), Elements(cases, m, k)[t])
           = Part(cases, m, d)
<1> DEFINE p == Part(cases, m, c)
           q == Part(cases, m, d)
           name == NameOf(cases, k)
           kind == KindOf(cases, k)
           S == Values(kind)
           e == Elements(cases, m, k)
           v == e[t]
           new == CASE kind = "repeated" -> Append(p[name], v)
                    [] kind = "unknown" -> p[name] \o v
                    [] OTHER -> v
           put == Put(cases, k, p, v)
<1>1. name \in Names(cases)
  BY ColumnNames
<1>2. p = [x \in Names(cases) |-> p[x]] /\ q = [x \in Names(cases) |-> q[x]]
  BY DEF Part
<1>3. put = [p EXCEPT ![name] = new]
  BY Zenon DEF Put
<1>4. p[name] = Collapse(kind, SubSeq(e, 1, t - 1))
  BY PartAt DEF ReadOf, OneMore
<1>5. q[name] = Collapse(kind, SubSeq(e, 1, t))
  BY PartAt DEF ReadOf, OneMore
<1>6. e \in Seq(S)
  BY DEF IsMessage
<1>7. kind # "repeated" => Len(e) = 0 \/ Len(e) = 1
  BY DEF Elements
<1>8. kind = "unknown" => v \in Seq(Byte)
  <2>1. v \in S
    <3> HIDE DEF S, e
    <3>1. QED
      BY <1>6 DEF e
  <2>2. QED
    BY <2>1 DEF Values
<1>9. t \in 1..Len(e)
  OBVIOUS
<1>10. \A l \in Columns(cases) \ {k} :
         /\ p[NameOf(cases, l)] = q[NameOf(cases, l)]
         /\ NameOf(cases, l) # name
  <2>1. SUFFICES ASSUME NEW l \in Columns(cases), l # k
                 PROVE  /\ p[NameOf(cases, l)] = q[NameOf(cases, l)]
                        /\ NameOf(cases, l) # name
    OBVIOUS
  <2>2. p[NameOf(cases, l)] = q[NameOf(cases, l)]
    BY <2>1, PartAt DEF ReadOf, OneMore
  <2>3. NameOf(cases, l) # name
    BY <2>1 DEF IsTable
  <2>4. QED
    BY <2>2, <2>3
<1> HIDE DEF S, e, p, q, kind, name, v
<1>11. new = q[name]
  <2>1. SubSeq(e, 1, t - 1) \in Seq(S) /\ SubSeq(e, 1, t) \in Seq(S)
        /\ Len(SubSeq(e, 1, t)) = t
    BY <1>6, <1>9
  <2>2. CASE kind = "repeated"
    <3>1. Append(SubSeq(e, 1, t - 1), e[t]) = SubSeq(e, 1, t)
      BY <1>6, <1>9
    <3>2. p[name] = SubSeq(e, 1, t - 1) /\ q[name] = SubSeq(e, 1, t)
      BY <1>4, <1>5, <2>2 DEF Collapse
    <3>3. QED
      BY <2>2, <3>1, <3>2 DEF v
  <2>3. CASE kind # "repeated"
    <3>1. /\ t = 1 /\ SubSeq(e, 1, 0) = <<>>
          /\ SubSeq(e, 1, 1) # <<>> /\ SubSeq(e, 1, 1)[1] = e[1]
      BY <1>6, <1>7, <1>9, <2>3, OnlyOne, Zenon
    <3>2. SubSeq(e, 1, t - 1) = <<>> /\ SubSeq(e, 1, t) # <<>>
          /\ SubSeq(e, 1, t)[1] = v
      <4>1. t - 1 = 0
        BY <3>1
      <4>2. QED
        BY <3>1, <4>1, Zenon DEF v
    <3>3. p[name] = <<>> /\ q[name] = v
      BY <1>4, <1>5, <2>3, <3>2 DEF Collapse
    <3>4. kind = "unknown" => <<>> \o v = v
      BY <1>8
    <3>5. QED
      BY <2>3, <3>3, <3>4
  <2>4. QED
    BY <2>2, <2>3
<1> HIDE DEF new, put
<1>12. put = [x \in Names(cases) |-> put[x]]
  BY <1>2, <1>3
<1>13. \A l \in Columns(cases) : put[NameOf(cases, l)] = q[NameOf(cases, l)]
  <2>1. put[name] = q[name]
    BY <1>1, <1>2, <1>3, <1>11
  <2>2. ASSUME NEW l \in Columns(cases), l # k
        PROVE  put[NameOf(cases, l)] = q[NameOf(cases, l)]
    <3>1. NameOf(cases, l) \in Names(cases)
      BY ColumnNames
    <3>2. QED
      BY <1>2, <1>3, <1>10, <2>2, <3>1
  <2>3. QED
    BY <2>1, <2>2 DEF name
<1>14. put = q
  <2>1. Shaped(cases, put) /\ Shaped(cases, q)
    BY <1>2, <1>12 DEF Shaped
  <2>2. SameIn(cases, put, q)
    BY <1>13 DEF SameIn
  <2>3. QED
    BY <2>1, <2>2, SameColumns
<1>15. QED
  BY <1>14 DEF put, q, p, v, e

----------------------------------------------------------------------------
(* The pieces of a message                                                 *)

Count(cases, m, k) == Len(Elements(cases, m, k))

\* The pieces of n columns, of len[k] pieces each, start behind off[k].
Offsets(n, len, off) ==
  /\ off[1] = 0
  /\ \A k \in 1..n : len[k] \in Nat /\ off[k + 1] = off[k] + len[k]

\* Offsets are natural numbers and grow.
LEMMA OffsetsGrow ==
  ASSUME NEW n \in Nat, NEW len, NEW off, Offsets(n, len, off)
  PROVE  \A k \in 1..(n + 1) :
           /\ off[k] \in Nat
           /\ \A j \in 1..n : j < k => off[j + 1] <= off[k]
<1> DEFINE Grown(k) == /\ off[k] \in Nat
                       /\ \A j \in 1..n :
                            j < k => off[j + 1] \in Nat /\ off[j + 1] <= off[k]
           T == {i \in Nat : i <= n => Grown(i + 1)}
<1>1. 0 \in T
  BY DEF Offsets
<1>2. ASSUME NEW i \in Nat, i \in T
      PROVE  i + 1 \in T
  <2>1. SUFFICES ASSUME i + 1 <= n
                 PROVE  Grown((i + 1) + 1)
    OBVIOUS
  <2> DEFINE k == i + 1
  <2>2. k \in 1..n /\ Grown(k)
    BY <1>2, <2>1
  <2> HIDE DEF k
  <2>3. len[k] \in Nat /\ off[k + 1] = off[k] + len[k]
    BY <2>2 DEF Offsets
  <2>4. off[k + 1] \in Nat /\ off[k] <= off[k + 1]
    BY <2>2, <2>3
  <2>5. ASSUME NEW j \in 1..n, j < k + 1
        PROVE  off[j + 1] \in Nat /\ off[j + 1] <= off[k + 1]
    <3>1. CASE j = k
      BY <2>4, <3>1
    <3>2. CASE j # k
      <4>1. j < k
        BY <2>2, <2>5, <3>2
      <4>2. off[j + 1] \in Nat /\ off[j + 1] <= off[k]
        BY <2>2, <4>1
      <4>3. QED
        BY <2>2, <2>4, <4>2
    <3>3. QED
      BY <3>1, <3>2
  <2>6. Grown(k + 1)
    BY <2>4, <2>5
  <2>7. QED
    BY <2>6 DEF k
<1>3. Nat \subseteq T
  <2> HIDE DEF T
  <2>1. QED
    BY <1>1, <1>2, NumberInduction
<1>4. ASSUME NEW k \in 1..(n + 1)
      PROVE  Grown(k)
  <2>1. k - 1 \in Nat /\ k - 1 <= n /\ (k - 1) + 1 = k
    OBVIOUS
  <2>2. k - 1 \in T
    BY <1>3, <2>1
  <2>3. QED
    BY <2>1, <2>2
<1>5. QED
  BY <1>4

\* The i-th piece belongs to a column.
Belongs(n, len, off, i) == \E k \in 1..n : \E t \in 1..len[k] : i = off[k] + t

\* Every piece does.
LEMMA OffsetsCover ==
  ASSUME NEW n \in Nat, NEW len, NEW off, Offsets(n, len, off),
         NEW i, i \in 1..off[n + 1]
  PROVE  Belongs(n, len, off, i)
<1> DEFINE In(k) == i \in Nat /\ i >= 1 /\ i <= off[k]
           T == {k \in Nat : k >= 1 /\ k <= n + 1 /\ In(k)}
<1>1. \A k \in 1..(n + 1) : off[k] \in Nat
  BY OffsetsGrow
<1>2. n + 1 \in T
  BY <1>1
<1>3. PICK k \in T : \A l \in T : k <= l
  <2>1. T \subseteq Nat /\ T # {}
    BY <1>2
  <2> HIDE DEF T
  <2>2. QED
    BY <2>1, LeastNumber
<1>4. k \in 2..(n + 1)
  <2>1. k # 1
    BY <1>3 DEF Offsets
  <2>2. QED
    BY <1>3, <2>1
<1> DEFINE j == k - 1
<1>5. j \in 1..n /\ j + 1 = k /\ j \in Nat /\ j >= 1 /\ j <= n + 1 /\ ~(k <= j)
  BY <1>4
<1> HIDE DEF j
<1>6. ~In(j)
  BY <1>3, <1>5
<1>7. len[j] \in Nat /\ off[k] = off[j] + len[j] /\ off[j] \in Nat
  BY <1>1, <1>5 DEF Offsets
<1>8. i - off[j] \in 1..len[j] /\ i = off[j] + (i - off[j])
  BY <1>3, <1>6, <1>7
<1>9. QED
  BY <1>5, <1>8 DEF Belongs

\* And to only one.
LEMMA OffsetsApart ==
  ASSUME NEW n \in Nat, NEW len, NEW off, Offsets(n, len, off),
         NEW k \in 1..n, NEW t \in 1..len[k]
  PROVE  /\ off[k] + t \in 1..off[n + 1]
         /\ \A l \in 1..n : \A u \in 1..len[l] :
              off[k] + t = off[l] + u => k = l /\ t = u
<1>1. ASSUME NEW j \in 1..n, NEW l \in 1..(n + 1), j < l
      PROVE  /\ off[j] \in Nat /\ off[l] \in Nat /\ len[j] \in Nat
             /\ off[j] + len[j] <= off[l]
  <2>1. off[j + 1] <= off[l] /\ off[l] \in Nat
    BY <1>1, OffsetsGrow
  <2>2. off[j] \in Nat
    <3>1. j \in 1..(n + 1)
      OBVIOUS
    <3>2. QED
      BY <3>1, OffsetsGrow
  <2>3. len[j] \in Nat /\ off[j + 1] = off[j] + len[j]
    BY DEF Offsets
  <2>4. QED
    BY <2>1, <2>2, <2>3
<1>2. off[k] + t \in 1..off[n + 1]
  <2>1. n + 1 \in 1..(n + 1) /\ k < n + 1
    OBVIOUS
  <2>2. /\ off[k] \in Nat /\ off[n + 1] \in Nat /\ len[k] \in Nat
        /\ off[k] + len[k] <= off[n + 1]
    BY <1>1, <2>1
  <2>3. QED
    BY <2>2
<1>3. ASSUME NEW l \in 1..n, NEW u \in 1..len[l], off[k] + t = off[l] + u
      PROVE  k = l /\ t = u
  <2>1. CASE k < l
    <3>1. l \in 1..(n + 1) /\ len[l] \in Nat
      BY DEF Offsets
    <3>2. /\ off[k] \in Nat /\ off[l] \in Nat /\ len[k] \in Nat
          /\ off[k] + len[k] <= off[l]
      BY <1>1, <2>1, <3>1
    <3>3. QED
      BY <1>3, <3>1, <3>2
  <2>2. CASE l < k
    <3>1. k \in 1..(n + 1) /\ len[k] \in Nat
      BY DEF Offsets
    <3>2. /\ off[k] \in Nat /\ off[l] \in Nat /\ len[l] \in Nat
          /\ off[l] + len[l] <= off[k]
      BY <1>1, <2>2, <3>1
    <3>3. QED
      BY <1>3, <3>1, <3>2
  <2>3. CASE k = l
    <3>1. off[k] \in Nat /\ len[k] \in Nat
      <4>1. k \in 1..(n + 1)
        OBVIOUS
      <4>2. QED
        BY <4>1, OffsetsGrow DEF Offsets
    <3>2. QED
      BY <1>3, <2>3, <3>1
  <2>4. QED
    BY <2>1, <2>2, <2>3
<1>4. QED
  BY <1>2, <1>3

\* The pieces of m, column by column.
Counts(cases, m) == [k \in Columns(cases) |-> Count(cases, m, k)]
Laid(cases, m, ps, off) ==
  /\ ps \in Seq(Seq(Byte))
  /\ Offsets(Len(cases) + 1, Counts(cases, m), off)
  /\ Len(ps) = off[Len(cases) + 2]
  /\ \A k \in Columns(cases) : \A t \in 1..Count(cases, m, k) :
       ps[off[k] + t] = PieceOf(KindOf(cases, k), k, Elements(cases, m, k)[t])

\* The i-th piece is the t-th element of column k.
ElementAt(cases, m, off, i, k, t) ==
  k \in Columns(cases) /\ t \in 1..Count(cases, m, k) /\ i = off[k] + t
IsElement(cases, m, off, i) == \E k : \E t : ElementAt(cases, m, off, i, k, t)

\* Where the pieces of a message are.
LEMMA LaidOut ==
  ASSUME NEW cases, IsTable(cases), NEW m, IsMessage(cases, m),
         NEW ps, NEW off, Laid(cases, m, ps, off)
  PROVE  /\ Len(ps) \in Nat
         /\ \A i \in 1..Len(ps) : IsElement(cases, m, off, i)
         /\ \A k \in Columns(cases) : \A t \in 1..Count(cases, m, k) :
              /\ off[k] + t \in 1..Len(ps)
              /\ \A l \in Columns(cases) : \A u \in 1..Count(cases, m, l) :
                   off[k] + t = off[l] + u => k = l /\ t = u
<1> DEFINE n == Len(cases) + 1
           len == Counts(cases, m)
<1>1. n \in Nat /\ Columns(cases) = 1..n /\ Len(cases) + 2 = n + 1
  BY DEF IsTable, Columns
<1>2. \A k \in 1..n : len[k] = Count(cases, m, k)
  BY <1>1 DEF Counts
<1>3. Offsets(n, len, off) /\ Len(ps) = off[n + 1] /\ ps \in Seq(Seq(Byte))
  BY <1>1 DEF Laid
<1> HIDE DEF n, len
<1>4. ASSUME NEW i \in 1..Len(ps)
      PROVE  IsElement(cases, m, off, i)
  <2>1. \E k \in 1..n : \E t \in 1..len[k] : i = off[k] + t
    <3>1. i \in 1..off[n + 1]
      BY <1>3
    <3>2. Belongs(n, len, off, i)
      BY <1>1, <1>3, <3>1, OffsetsCover
    <3>3. QED
      BY <3>2 DEF Belongs
  <2>2. QED
    BY <1>1, <1>2, <2>1 DEF IsElement, ElementAt
<1>5. ASSUME NEW k \in Columns(cases), NEW t \in 1..Count(cases, m, k)
      PROVE  /\ off[k] + t \in 1..Len(ps)
             /\ \A l \in Columns(cases) : \A u \in 1..Count(cases, m, l) :
                  off[k] + t = off[l] + u => k = l /\ t = u
  <2>1. k \in 1..n /\ t \in 1..len[k]
    BY <1>1, <1>2
  <2>2. /\ off[k] + t \in 1..off[n + 1]
        /\ \A l \in 1..n : \A u \in 1..len[l] :
             off[k] + t = off[l] + u => k = l /\ t = u
    BY <1>1, <1>3, <2>1, OffsetsApart
  <2>3. QED
    BY <1>1, <1>2, <1>3, <2>2
<1>6. QED
  BY <1>3, <1>4, <1>5

\* Which elements of column k are among the first j pieces, when ord[i] is the
\* i-th piece.
Placed(cases, m, off, ord, k, j) ==
  {t \in 1..Count(cases, m, k) : \E i \in 1..j : ord[i] = off[k] + t}

\* Among the first n, the elements of a column come in their order.
InOrder(cases, m, off, ord, n) ==
  \A j \in 1..n : \A k \in Columns(cases) : \A t \in 1..Count(cases, m, k) :
    ord[j] = off[k] + t
      => Placed(cases, m, off, ord, k, j - 1) = 1..(t - 1)

\* How many they are.
Upto(S) == CHOOSE c \in Nat : S = 1..c

\* The number of the elements of 1..c is c.
LEMMA UptoIs ==
  ASSUME NEW c \in Nat
  PROVE  Upto(1..c) = c
<1>1. \A e \in Nat : 1..c = 1..e => c = e
  <2>1. SUFFICES ASSUME NEW e \in Nat, 1..c = 1..e, c # e
                 PROVE  FALSE
    OBVIOUS
  <2>2. CASE c < e
    <3>1. e \in 1..e /\ ~(e \in 1..c)
      BY <2>2
    <3>2. QED
      BY <2>1, <3>1
  <2>3. CASE e < c
    <3>1. c \in 1..c /\ ~(c \in 1..e)
      BY <2>3
    <3>2. QED
      BY <2>1, <3>1
  <2>4. QED
    BY <2>1, <2>2, <2>3
<1>2. \E e \in Nat : 1..c = 1..e
  OBVIOUS
<1>3. QED
  BY <1>1, <1>2 DEF Upto

\* How many of each column are among the first j.
Read(cases, m, off, ord, j) ==
  [k \in Columns(cases) |-> Upto(Placed(cases, m, off, ord, k, j))]

\* Each piece adds one element to its column.
LEMMA ReadNext ==
  ASSUME NEW cases, IsTable(cases), NEW m, IsMessage(cases, m),
         NEW ps, NEW off, Laid(cases, m, ps, off), NEW ord, NEW n \in Nat,
         InOrder(cases, m, off, ord, n), NEW j \in 1..n,
         NEW k \in Columns(cases), NEW t \in 1..Count(cases, m, k),
         ord[j] = off[k] + t
  PROVE  OneMore(cases, Read(cases, m, off, ord, j - 1),
                 Read(cases, m, off, ord, j), k, t)
<1> DEFINE P(l, i) == Placed(cases, m, off, ord, l, i)
<1>1. P(k, j - 1) = 1..(t - 1)
  BY DEF InOrder
<1>2. \A i \in 1..j : i = j \/ i \in 1..(j - 1)
  OBVIOUS
<1>3. P(k, j) = 1..t
  <2>1. ASSUME NEW u \in P(k, j)
        PROVE  u \in 1..t
    <3>1. u \in 1..Count(cases, m, k) /\ \E i \in 1..j : ord[i] = off[k] + u
      BY DEF Placed
    <3>2. PICK i \in 1..j : ord[i] = off[k] + u
      BY <3>1
    <3>3. CASE i = j
      <4>1. u = t
        BY <3>1, <3>2, <3>3, LaidOut
      <4>2. QED
        BY <4>1
    <3>4. CASE i \in 1..(j - 1)
      <4>1. u \in P(k, j - 1)
        BY <3>1, <3>2, <3>4 DEF Placed
      <4>2. u \in 1..(t - 1)
        BY <1>1, <4>1
      <4>3. QED
        BY <4>2
    <3>5. QED
      BY <1>2, <3>3, <3>4
  <2>2. ASSUME NEW u \in 1..t
        PROVE  u \in P(k, j)
    <3>1. CASE u = t
      BY <3>1 DEF Placed
    <3>2. CASE u # t
      <4>1. u \in 1..(t - 1)
        BY <3>2
      <4>2. u \in P(k, j - 1)
        BY <1>1, <4>1
      <4>3. \A i \in 1..(j - 1) : i \in 1..j
        OBVIOUS
      <4>4. QED
        BY <4>2, <4>3, Zenon DEF Placed
    <3>3. QED
      BY <3>1, <3>2
  <2> HIDE DEF P
  <2>3. QED
    BY <2>1, <2>2
<1>4. ASSUME NEW l \in Columns(cases), l # k
      PROVE  P(l, j) = P(l, j - 1)
  <2>1. ASSUME NEW u \in 1..Count(cases, m, l), NEW i \in 1..j,
               ord[i] = off[l] + u
        PROVE  i \in 1..(j - 1)
    <3>1. i # j
      BY <1>4, <2>1, LaidOut
    <3>2. QED
      BY <1>2, <3>1
  <2>2. \A i \in 1..(j - 1) : i \in 1..j
    OBVIOUS
  <2>3. QED
    BY <2>1, <2>2, Zenon DEF Placed
<1>5. t - 1 \in Nat /\ t \in Nat
  OBVIOUS
<1>6. Upto(P(k, j - 1)) = t - 1 /\ Upto(P(k, j)) = t
  BY <1>1, <1>3, <1>5, UptoIs
<1>7. QED
  BY <1>4, <1>6 DEF Read, OneMore

\* qs are pieces of m, and s is what becomes of the message while they are read:
\* in the end it is what m has in them.
Course(cases, m, off, ord, qs, col, val, s) ==
  /\ Goes(cases, qs, col, val, s)
  /\ s[Len(qs)] = Part(cases, m, Read(cases, m, off, ord, Len(qs)))

\* There is such a course for every order.
LEMMA ReadInOrder ==
  ASSUME NEW cases, IsTable(cases), NEW m, IsMessage(cases, m),
         NEW ps, NEW off, Laid(cases, m, ps, off), NEW ord, NEW n \in Nat,
         \A j \in 1..n : ord[j] \in 1..Len(ps),
         InOrder(cases, m, off, ord, n),
         NEW qs \in Seq(Seq(Byte)), Len(qs) = n,
         \A j \in 1..n : qs[j] = ps[ord[j]]
  PROVE  \E col, val, s : Course(cases, m, off, ord, qs, col, val, s)
<1> DEFINE At(j, k, t) == ElementAt(cases, m, off, ord[j], k, t)
           col == [j \in 1..n |-> CHOOSE k : \E t : At(j, k, t)]
           num == [j \in 1..n |-> CHOOSE t : At(j, col[j], t)]
           val == [j \in 1..n |-> Elements(cases, m, col[j])[num[j]]]
           s == [j \in 0..n |-> Part(cases, m, Read(cases, m, off, ord, j))]
<1>1. ASSUME NEW j \in 1..n
      PROVE  At(j, col[j], num[j])
  <2>1. ord[j] \in 1..Len(ps)
    OBVIOUS
  <2>2. IsElement(cases, m, off, ord[j])
    BY <2>1, LaidOut
  <2>3. \E k : \E t : At(j, k, t)
    BY <2>2 DEF IsElement
  <2> HIDE DEF At
  <2>4. \E t : At(j, col[j], t)
    BY <2>3
  <2>5. QED
    BY <2>4
<1>2. ASSUME NEW j \in 1..n
      PROVE  /\ col[j] \in Columns(cases)
             /\ num[j] \in 1..Count(cases, m, col[j])
             /\ ord[j] = off[col[j]] + num[j]
  <2> HIDE DEF col, num
  <2>1. At(j, col[j], num[j])
    BY <1>1
  <2>2. QED
    BY <2>1 DEF ElementAt
<1>3. \A j \in 1..n : val[j] = Elements(cases, m, col[j])[num[j]]
  OBVIOUS
<1> HIDE DEF At, col, num, val
<1>4. ArePieces(cases, qs, col, val)
  <2>1. ASSUME NEW j \in 1..n
        PROVE  /\ col[j] \in Columns(cases)
               /\ val[j] \in Values(KindOf(cases, col[j]))
               /\ qs[j] = PieceOf(KindOf(cases, col[j]), col[j], val[j])
    <3> DEFINE k == col[j]
               t == num[j]
               S == Values(KindOf(cases, k))
               e == Elements(cases, m, k)
    <3>1. k \in Columns(cases) /\ t \in 1..Count(cases, m, k)
          /\ ord[j] = off[k] + t /\ val[j] = e[t]
      BY <1>2, <1>3
    <3> HIDE DEF k, t
    <3>2. qs[j] = PieceOf(KindOf(cases, k), k, e[t])
      BY <3>1 DEF Laid
    <3>3. e \in Seq(S) /\ t \in 1..Len(e)
      BY <3>1 DEF IsMessage, Count
    <3> HIDE DEF S, e
    <3>4. e[t] \in S
      BY <3>3
    <3>5. QED
      BY <3>1, <3>2, <3>4 DEF k, S
  <2>2. QED
    BY <2>1 DEF ArePieces
<1>5. s[0] = Blank(cases)
  <2> DEFINE c == Read(cases, m, off, ord, 0)
  <2>1. ASSUME NEW k \in Columns(cases)
        PROVE  c[k] = 0
    <3>1. Placed(cases, m, off, ord, k, 0) = {}
      BY DEF Placed
    <3>2. 1..0 = {} /\ 0 \in Nat
      OBVIOUS
    <3>3. Upto(Placed(cases, m, off, ord, k, 0)) = 0
      BY <3>1, <3>2, UptoIs
    <3>4. QED
      BY <3>3 DEF Read
  <2> HIDE DEF c
  <2>2. Part(cases, m, c) = Blank(cases)
    BY <2>1, PartNone
  <2>3. QED
    BY <2>2 DEF c
<1>6. ASSUME NEW j \in 1..n
      PROVE  s[j] = Put(cases, col[j], s[j - 1], val[j])
  <2> DEFINE k == col[j]
             t == num[j]
             c == Read(cases, m, off, ord, j - 1)
             d == Read(cases, m, off, ord, j)
  <2>1. k \in Columns(cases) /\ t \in 1..Count(cases, m, k)
        /\ ord[j] = off[k] + t /\ val[j] = Elements(cases, m, k)[t]
    BY <1>2, <1>3
  <2>2. s[j - 1] = Part(cases, m, c) /\ s[j] = Part(cases, m, d)
    OBVIOUS
  <2> HIDE DEF k, t
  <2>3. OneMore(cases, c, d, k, t)
    BY <2>1, ReadNext
  <2> HIDE DEF c, d
  <2>4. Put(cases, k, Part(cases, m, c), Elements(cases, m, k)[t])
          = Part(cases, m, d)
    <3>1. t \in 1..Len(Elements(cases, m, k))
      BY <2>1 DEF Count
    <3>2. QED
      BY <2>1, <2>3, <3>1, PartPut
  <2>5. QED
    BY <2>1, <2>2, <2>4 DEF k
<1>7. s[n] = Part(cases, m, Read(cases, m, off, ord, n))
  OBVIOUS
<1> HIDE DEF s
<1>8. Course(cases, m, off, ord, qs, col, val, s)
  BY <1>4, <1>5, <1>6, <1>7 DEF Goes, Course
<1>9. QED
  BY <1>8

\* The elements of a column stay in their order.
Keeps(cases, m, off, ord, n) ==
  \A i, j \in 1..n : \A k \in Columns(cases) :
   \A t, u \in 1..Count(cases, m, k) :
    i < j /\ ord[i] = off[k] + t /\ ord[j] = off[k] + u => t < u

\* All pieces are there.
Reaches(ord, n) ==
  /\ \A j \in 1..n : ord[j] \in 1..n
  /\ \A i \in 1..n : \E j \in 1..n : ord[j] = i

\* There are so and so many elements.
LEMMA CountIsNat ==
  ASSUME NEW cases, NEW m, IsMessage(cases, m), NEW k \in Columns(cases)
  PROVE  Count(cases, m, k) \in Nat
<1> DEFINE S == Values(KindOf(cases, k))
           e == Elements(cases, m, k)
<1>1. e \in Seq(S)
  BY DEF IsMessage
<1> HIDE DEF S, e
<1>2. Len(e) \in Nat
  BY <1>1
<1>3. QED
  BY <1>2 DEF Count, e

\* Then the elements that come before one of a column are those before it.
LEMMA KeepsInOrder ==
  ASSUME NEW cases, IsTable(cases), NEW m, IsMessage(cases, m),
         NEW ps, NEW off, Laid(cases, m, ps, off), NEW n \in Nat, n = Len(ps),
         NEW ord, Reaches(ord, n), Keeps(cases, m, off, ord, n)
  PROVE  /\ InOrder(cases, m, off, ord, n)
         /\ \A k \in Columns(cases) :
              Placed(cases, m, off, ord, k, n) = 1..Count(cases, m, k)
<1>1. ASSUME NEW k \in Columns(cases), NEW t \in 1..Count(cases, m, k)
      PROVE  \E i \in 1..n : ord[i] = off[k] + t
  <2>1. off[k] + t \in 1..n
    BY LaidOut
  <2>2. QED
    BY <2>1 DEF Reaches
<1>2. ASSUME NEW j \in 1..n, NEW k \in Columns(cases),
             NEW t \in 1..Count(cases, m, k), ord[j] = off[k] + t
      PROVE  Placed(cases, m, off, ord, k, j - 1) = 1..(t - 1)
  <2> DEFINE P == Placed(cases, m, off, ord, k, j - 1)
  <2>1. ASSUME NEW u \in P
        PROVE  u \in 1..(t - 1)
    <3>1. u \in 1..Count(cases, m, k)
          /\ \E i \in 1..(j - 1) : ord[i] = off[k] + u
      BY DEF Placed
    <3>2. PICK i \in 1..(j - 1) : ord[i] = off[k] + u
      BY <3>1
    <3>3. i \in 1..n /\ i < j
      OBVIOUS
    <3>4. u < t
      BY <1>2, <3>1, <3>2, <3>3, Zenon DEF Keeps
    <3>5. u \in Nat /\ u >= 1
      BY <3>1
    <3>6. QED
      BY <3>4, <3>5
  <2>2. ASSUME NEW u \in 1..(t - 1)
        PROVE  u \in P
    <3>1. u \in 1..Count(cases, m, k) /\ u < t
      <4>1. Count(cases, m, k) \in Nat
        BY CountIsNat
      <4>2. QED
        BY <4>1
    <3>2. PICK i \in 1..n : ord[i] = off[k] + u
      BY <1>1, <3>1
    <3>3. i # j
      <4>1. i = j => off[k] + t = off[k] + u
        BY <1>2, <3>2
      <4>2. i = j => t = u
        BY <3>1, <4>1, LaidOut
      <4>3. QED
        BY <3>1, <4>2
    <3>4. ~(j < i)
      <4>1. j < i => t < u
        BY <1>2, <3>1, <3>2, Zenon DEF Keeps
      <4>2. QED
        BY <3>1, <4>1
    <3>5. i \in 1..(j - 1)
      BY <3>3, <3>4
    <3>6. QED
      BY <3>1, <3>2, <3>5, Zenon DEF Placed
  <2> HIDE DEF P
  <2>3. P = 1..(t - 1)
    BY <2>1, <2>2
  <2>4. QED
    BY <2>3 DEF P
<1>3. ASSUME NEW k \in Columns(cases)
      PROVE  Placed(cases, m, off, ord, k, n) = 1..Count(cases, m, k)
  BY <1>1, Zenon DEF Placed
<1>4. QED
  BY <1>2, <1>3 DEF InOrder

\* A message decodes to what was written, in whatever order the fields come.
LEMMA AnyOrderDecodes ==
  ASSUME NEW cases, IsTable(cases), NEW m, IsMessage(cases, m),
         NEW ps, NEW off, Laid(cases, m, ps, off), NEW n \in Nat, n = Len(ps),
         NEW ord, Reaches(ord, n), Keeps(cases, m, off, ord, n)
  PROVE  Decode(cases, FlattenSeq([j \in 1..n |-> ps[ord[j]]])) = {m}
<1> DEFINE qs == [j \in 1..n |-> ps[ord[j]]]
           c == Read(cases, m, off, ord, n)
<1>1. /\ InOrder(cases, m, off, ord, n)
      /\ \A k \in Columns(cases) :
           Placed(cases, m, off, ord, k, n) = 1..Count(cases, m, k)
  BY KeepsInOrder
<1>2. ps \in Seq(Seq(Byte)) /\ \A j \in 1..n : ord[j] \in 1..Len(ps)
  BY DEF Laid, Reaches
<1>3. /\ qs \in Seq(Seq(Byte)) /\ Len(qs) = n
      /\ \A j \in 1..n : qs[j] = ps[ord[j]]
  <2>1. \A j \in 1..n : ps[ord[j]] \in Seq(Byte)
    BY <1>2
  <2>2. qs \in [1..n -> Seq(Byte)]
    BY <2>1
  <2>3. QED
    BY <2>2
<1> HIDE DEF qs
<1>4. PICK col, val, s : Course(cases, m, off, ord, qs, col, val, s)
  BY <1>1, <1>2, <1>3, ReadInOrder
<1>5. Decode(cases, FlattenSeq(qs)) = {s[Len(qs)]}
  BY <1>3, <1>4, FieldsDecode DEF Goes, Course
<1>6. s[Len(qs)] = Part(cases, m, c)
  BY <1>3, <1>4 DEF Course
<1>7. ASSUME NEW k \in Columns(cases)
      PROVE  c[k] = Len(Elements(cases, m, k))
  <2>1. Count(cases, m, k) \in Nat
    BY CountIsNat
  <2>2. c[k] = Upto(1..Count(cases, m, k))
    BY <1>1 DEF Read
  <2>3. Upto(1..Count(cases, m, k)) = Count(cases, m, k)
    BY <2>1, UptoIs
  <2>4. QED
    BY <2>2, <2>3 DEF Count
<1> HIDE DEF c
<1>8. Part(cases, m, c) = m
  BY <1>7, PartAll
<1>9. QED
  BY <1>5, <1>6, <1>8 DEF qs

----------------------------------------------------------------------------
(* A stream that ends early                                                *)

\* Where the n-th piece ends.
Joined(ps, n) == FlattenSeq(SubSeq(ps, 1, n))
End(ps, n) == Len(Joined(ps, n))

\* No piece ends before those in front of it.
LEMMA EndsGrow ==
  ASSUME NEW ps \in Seq(Seq(Byte)), NEW j \in 0..Len(ps)
  PROVE  /\ Joined(ps, j) \in Seq(Byte) /\ End(ps, j) \in Nat
         /\ \A i \in 0..j : End(ps, i) <= End(ps, j)
<1> DEFINE T == {k \in Nat : k <= Len(ps) =>
                   \A i \in 0..k : End(ps, i) <= End(ps, k)}
<1>1. \A k \in 0..Len(ps) : Joined(ps, k) \in Seq(Byte) /\ End(ps, k) \in Nat
  <2>1. SUFFICES ASSUME NEW k \in 0..Len(ps)
                 PROVE  Joined(ps, k) \in Seq(Byte) /\ End(ps, k) \in Nat
    OBVIOUS
  <2>2. SubSeq(ps, 1, k) \in Seq(Seq(Byte))
    OBVIOUS
  <2>3. Joined(ps, k) \in Seq(Byte)
    BY <2>2, FlattenIsBytes DEF Joined
  <2>4. QED
    BY <2>3 DEF End
<1>2. 0 \in T
  <2>1. SUFFICES ASSUME NEW i \in 0..0
                 PROVE  End(ps, i) <= End(ps, 0)
    OBVIOUS
  <2>2. i = 0 /\ 0 \in 0..Len(ps)
    OBVIOUS
  <2>3. End(ps, 0) \in Nat
    BY <1>1, <2>2
  <2>4. QED
    BY <2>2, <2>3
<1>3. ASSUME NEW k \in Nat, k \in T
      PROVE  k + 1 \in T
  <2>1. SUFFICES ASSUME k + 1 <= Len(ps), NEW i \in 0..(k + 1)
                 PROVE  End(ps, i) <= End(ps, k + 1)
    OBVIOUS
  <2>2. k + 1 \in 1..Len(ps) /\ k \in 0..Len(ps) /\ k + 1 \in 0..Len(ps)
        /\ i \in 0..Len(ps) /\ (k + 1) - 1 = k
    <3>1. Len(ps) \in Nat
      OBVIOUS
    <3>2. QED
      BY <2>1, <3>1
  <2>3. End(ps, k + 1) = End(ps, k) + Len(ps[k + 1])
    BY <2>2, NextEnd DEF End, Joined
  <2>4. Len(ps[k + 1]) \in Nat
    BY <2>2
  <2>5. End(ps, k) \in Nat /\ End(ps, k + 1) \in Nat /\ End(ps, i) \in Nat
    BY <1>1, <2>2
  <2>6. CASE i = k + 1
    BY <2>5, <2>6
  <2>7. CASE i # k + 1
    <3>1. i \in 0..k /\ k <= Len(ps)
      BY <2>2, <2>7
    <3>2. End(ps, i) <= End(ps, k)
      BY <1>3, <3>1
    <3>3. QED
      BY <2>3, <2>4, <2>5, <3>2
  <2>8. QED
    BY <2>6, <2>7
<1>4. Nat \subseteq T
  <2> HIDE DEF T
  <2>1. QED
    BY <1>2, <1>3, NumberInduction
<1>5. j \in T /\ j <= Len(ps)
  BY <1>4
<1>6. QED
  BY <1>1, <1>5

\* The first bytes of a stream.
Cut(b, n) == SubSeq(b, 1, n)

\* What is left of pieces that end early enough, and of the one that does not.
LEMMA CutLies ==
  ASSUME NEW ps \in Seq(Seq(Byte)), NEW n \in 0..Len(ps),
         NEW l \in Nat, l <= Len(FlattenSeq(ps)), End(ps, n) <= l
  PROVE  /\ Cut(FlattenSeq(ps), l) \in Seq(Byte)
         /\ Len(Cut(FlattenSeq(ps), l)) = l
         /\ LiesAt(Joined(ps, n), Cut(FlattenSeq(ps), l), 1)
         /\ n < Len(ps) /\ l < End(ps, n + 1) =>
              StartsAt(ps[n + 1], Cut(FlattenSeq(ps), l), End(ps, n) + 1)
<1> DEFINE f == FlattenSeq(ps)
           b == Cut(f, l)
           rest == SubSeq(ps, n + 1, Len(ps))
           x == Joined(ps, n)
           y == FlattenSeq(rest)
<1>1. f \in Seq(Byte)
  BY FlattenIsBytes
<1>2. x \in Seq(Byte) /\ End(ps, n) \in Nat
  BY EndsGrow
<1>3. f = x \o y /\ y \in Seq(Byte)
  <2>1. SubSeq(ps, 1, n) \in Seq(Seq(Byte)) /\ rest \in Seq(Seq(Byte))
    OBVIOUS
  <2>2. SubSeq(ps, 1, Len(ps)) = ps
    OBVIOUS
  <2>3. SubSeq(ps, 1, n) \o rest = SubSeq(ps, 1, Len(ps))
    <3>1. /\ 1 \in 1..(Len(ps) + 1) /\ n \in (1 - 1)..Len(ps)
          /\ Len(ps) \in n..Len(ps)
      OBVIOUS
    <3>2. QED
      BY <3>1, ConcatAdjacentSubSeq
  <2>4. ps = SubSeq(ps, 1, n) \o rest
    BY <2>2, <2>3
  <2> DEFINE first == SubSeq(ps, 1, n)
  <2> HIDE DEF first, rest
  <2>5. FlattenSeq(first \o rest) = FlattenSeq(first) \o FlattenSeq(rest)
    BY <2>1, FlattenConcat DEF first
  <2>6. QED
    BY <2>1, <2>4, <2>5, FlattenIsBytes DEF Joined, first
<1>4. End(ps, n) = Len(x)
  BY DEF End
<1> HIDE DEF f, x, y
<1>5. b \in Seq(Byte) /\ Len(b) = l /\ \A k \in 1..l : b[k] = f[k]
  BY <1>1 DEF f, Cut
<1>6. \A k \in 1..Len(x) : f[k] = x[k]
  BY <1>2, <1>3, ConcatProperties
<1> HIDE DEF b
<1>7. LiesAt(x, b, 1)
  <2>1. 1 + Len(x) <= Len(b) + 1
    BY <1>2, <1>4, <1>5
  <2>2. \A k \in 1..Len(x) : k \in 1..l /\ 1 + k - 1 = k
    BY <1>2, <1>4
  <2>3. QED
    BY <1>5, <1>6, <2>1, <2>2 DEF LiesAt
<1>8. ASSUME n < Len(ps), l < End(ps, n + 1)
      PROVE  StartsAt(ps[n + 1], b, End(ps, n) + 1)
  <2> DEFINE i == End(ps, n) + 1
             p == ps[n + 1]
  <2>1. n + 1 \in 1..Len(ps) /\ (n + 1) - 1 = n /\ p \in Seq(Byte)
    BY <1>8
  <2>2. End(ps, n + 1) = End(ps, n) + Len(p)
    BY <2>1, NextEnd DEF End, Joined
  <2>3. LiesAt(p, f, i)
    <3>1. LiesAt(f, f, 1)
      <4>1. \A k \in 1..Len(f) : 1 + k - 1 = k
        OBVIOUS
      <4>2. 1 + Len(f) <= Len(f) + 1
        BY <1>1
      <4>3. QED
        BY <4>1, <4>2 DEF LiesAt
    <3>2. QED
      BY <1>1, <2>1, <3>1, PieceLies DEF f, End, Joined
  <2>4. Len(p) \in Nat
    BY <2>1
  <2> HIDE DEF p
  <2>5. i + Len(p) > Len(b) + 1
    BY <1>2, <1>5, <1>8, <2>2, <2>4
  <2>6. \A k \in 1..Len(p) : i + k - 1 \in 1..(i + k - 1)
    BY <1>2
  <2>7. \A k \in 1..Len(p) : i + k - 1 <= Len(b) => i + k - 1 \in 1..l
    BY <1>2, <1>5
  <2>8. \A k \in 1..Len(p) : f[i + k - 1] = p[k]
    BY <2>3 DEF LiesAt
  <2> HIDE DEF i
  <2>9. \A k \in 1..Len(p) : i + k - 1 <= Len(b) => b[i + k - 1] = p[k]
    BY <1>5, <2>7, <2>8
  <2>10. StartsAt(p, b, i)
    BY <2>5, <2>9 DEF StartsAt
  <2>11. QED
    BY <2>10 DEF i, p
<1>9. QED
  BY <1>5, <1>7, <1>8 DEF b, f, x

\* A part as long as the whole is the whole.
LEMMA LiesWhole ==
  ASSUME NEW x \in Seq(Byte), NEW b \in Seq(Byte), LiesAt(x, b, 1),
         Len(x) = Len(b)
  PROVE  x = b
<1>1. \A k \in 1..Len(x) : 1 + k - 1 = k
  OBVIOUS
<1>2. \A k \in 1..Len(x) : x[k] = b[k]
  BY <1>1 DEF LiesAt
<1>3. QED
  BY <1>2, SeqEqual

\* How many elements of column k the first n pieces are.
Lesser(a, b) == IF a <= b THEN a ELSE b
FirstOf(off, n, k) == Lesser(off[k + 1], n) - Lesser(off[k], n)
Taken(cases, off, n) == [k \in Columns(cases) |-> FirstOf(off, n, k)]

\* The columns lie one behind the other.
LEMMA ColumnLies ==
  ASSUME NEW cases, IsTable(cases), NEW m, IsMessage(cases, m),
         NEW ps, NEW off, Laid(cases, m, ps, off), NEW k \in Columns(cases)
  PROVE  /\ off[k] \in Nat /\ Count(cases, m, k) \in Nat
         /\ off[k + 1] = off[k] + Count(cases, m, k)
<1> DEFINE n == Len(cases) + 1
<1>1. n \in Nat /\ Columns(cases) = 1..n
  BY DEF IsTable, Columns
<1>2. Offsets(n, Counts(cases, m), off)
  BY DEF Laid
<1>3. Counts(cases, m)[k] = Count(cases, m, k)
  BY DEF Counts
<1> HIDE DEF n
<1>4. k \in 1..n /\ k \in 1..(n + 1)
  BY <1>1
<1>5. off[k] \in Nat
  BY <1>1, <1>2, <1>4, OffsetsGrow
<1>6. QED
  BY <1>2, <1>3, <1>4, <1>5 DEF Offsets

\* It is those in front that are among the first.
LEMMA FirstAre ==
  ASSUME NEW cases, IsTable(cases), NEW m, IsMessage(cases, m),
         NEW ps, NEW off, Laid(cases, m, ps, off), NEW k \in Columns(cases),
         NEW n \in Nat
  PROVE  /\ FirstOf(off, n, k) \in 0..Count(cases, m, k)
         /\ \A t \in 1..Count(cases, m, k) :
              off[k] + t <= n <=> t \in 1..FirstOf(off, n, k)
<1> DEFINE a == off[k]
           c == Count(cases, m, k)
           d == off[k + 1]
<1>1. a \in Nat /\ c \in Nat /\ d = a + c
  BY ColumnLies
<1>2. FirstOf(off, n, k) = Lesser(d, n) - Lesser(a, n)
  BY DEF FirstOf
<1> HIDE DEF a, c, d
<1>3. Lesser(d, n) - Lesser(a, n) \in 0..c
  BY <1>1 DEF Lesser
<1>4. ASSUME NEW t \in 1..c
      PROVE  a + t <= n <=> t \in 1..(Lesser(d, n) - Lesser(a, n))
  BY <1>1 DEF Lesser
<1>5. QED
  BY <1>2, <1>3, <1>4 DEF a, c

\* The order in which the pieces are written.
AsWritten(ps) == [i \in 1..Len(ps) |-> i]

\* What is in front when they are read in this order.
LEMMA PlacedFirst ==
  ASSUME NEW cases, IsTable(cases), NEW m, IsMessage(cases, m),
         NEW ps, NEW off, Laid(cases, m, ps, off), NEW k \in Columns(cases),
         NEW j \in 0..Len(ps)
  PROVE  Placed(cases, m, off, AsWritten(ps), k, j) = 1..FirstOf(off, j, k)
<1> DEFINE P == Placed(cases, m, off, AsWritten(ps), k, j)
           c == Count(cases, m, k)
           e == FirstOf(off, j, k)
<1>1. e \in 0..c /\ \A t \in 1..c : off[k] + t <= j <=> t \in 1..e
  <2>1. j \in Nat
    OBVIOUS
  <2>2. QED
    BY <2>1, FirstAre
<1>2. c \in Nat /\ off[k] \in Nat /\ Len(ps) \in Nat
  BY ColumnLies, LaidOut
<1>3. \A i \in 1..j : AsWritten(ps)[i] = i
  BY <1>2 DEF AsWritten
<1> HIDE DEF c, e
<1>4. ASSUME NEW t \in P
      PROVE  t \in 1..e
  <2>1. t \in 1..c /\ \E i \in 1..j : i = off[k] + t
    BY <1>3 DEF Placed, c
  <2>2. off[k] + t <= j
    BY <2>1
  <2>3. QED
    BY <1>1, <2>1, <2>2
<1>5. ASSUME NEW t \in 1..e
      PROVE  t \in P
  <2>1. t \in 1..c
    BY <1>1, <1>2
  <2>2. off[k] + t <= j
    BY <1>1, <2>1
  <2>3. off[k] + t \in 1..j
    BY <1>2, <2>1, <2>2
  <2>4. AsWritten(ps)[off[k] + t] = off[k] + t
    BY <1>3, <2>3
  <2>5. QED
    BY <2>1, <2>3, <2>4 DEF Placed, c
<1> HIDE DEF P
<1>6. P = 1..e
  BY <1>4, <1>5
<1>7. QED
  BY <1>6 DEF P, e

\* In this order the elements of a column come in theirs.
LEMMA WrittenInOrder ==
  ASSUME NEW cases, IsTable(cases), NEW m, IsMessage(cases, m),
         NEW ps, NEW off, Laid(cases, m, ps, off), NEW n \in 0..Len(ps)
  PROVE  /\ InOrder(cases, m, off, AsWritten(ps), n)
         /\ Read(cases, m, off, AsWritten(ps), n) = Taken(cases, off, n)
<1>1. ASSUME NEW j \in 1..n, NEW k \in Columns(cases),
             NEW t \in 1..Count(cases, m, k), AsWritten(ps)[j] = off[k] + t
      PROVE  Placed(cases, m, off, AsWritten(ps), k, j - 1) = 1..(t - 1)
  <2>0. Len(ps) \in Nat
    BY LaidOut
  <2>1. j = off[k] + t
    BY <1>1, <2>0 DEF AsWritten
  <2>2. j - 1 \in 0..Len(ps)
    BY <2>0
  <2>3. Placed(cases, m, off, AsWritten(ps), k, j - 1)
          = 1..FirstOf(off, j - 1, k)
    BY <2>2, PlacedFirst
  <2>4. FirstOf(off, j - 1, k) = t - 1
    <3> DEFINE a == off[k]
               c == Count(cases, m, k)
               d == off[k + 1]
    <3>1. a \in Nat /\ c \in Nat /\ d = a + c /\ t \in 1..c /\ j = a + t
      BY <2>1, ColumnLies
    <3>2. FirstOf(off, j - 1, k) = Lesser(d, j - 1) - Lesser(a, j - 1)
      BY DEF FirstOf
    <3> HIDE DEF a, c, d
    <3>3. QED
      BY <3>1, <3>2 DEF Lesser
  <2>5. QED
    BY <2>3, <2>4
<1>2. ASSUME NEW k \in Columns(cases)
      PROVE  Upto(Placed(cases, m, off, AsWritten(ps), k, n))
               = FirstOf(off, n, k)
  <2>1. FirstOf(off, n, k) \in Nat
    <3>1. n \in Nat
      OBVIOUS
    <3>2. FirstOf(off, n, k) \in 0..Count(cases, m, k)
      BY <3>1, FirstAre
    <3>3. QED
      BY <3>2
  <2>2. QED
    BY <2>1, PlacedFirst, UptoIs
<1>3. QED
  BY <1>1, <1>2 DEF InOrder, Read, Taken

\* The first pieces, and what becomes of the message while they are read.
LEMMA FirstCourse ==
  ASSUME NEW cases, IsTable(cases), NEW m, IsMessage(cases, m),
         NEW ps, NEW off, Laid(cases, m, ps, off), NEW n \in 0..Len(ps)
  PROVE  /\ SubSeq(ps, 1, n) \in Seq(Seq(Byte)) /\ Len(SubSeq(ps, 1, n)) = n
         /\ \E col, val, s :
              Course(cases, m, off, AsWritten(ps), SubSeq(ps, 1, n),
                     col, val, s)
<1> DEFINE qs == SubSeq(ps, 1, n)
           ord == AsWritten(ps)
<1>1. ps \in Seq(Seq(Byte)) /\ Len(ps) \in Nat
  BY LaidOut DEF Laid
<1>2. qs \in Seq(Seq(Byte)) /\ Len(qs) = n /\ \A j \in 1..n : qs[j] = ps[j]
  BY <1>1
<1>3. \A j \in 1..n : ord[j] = j /\ ord[j] \in 1..Len(ps)
  BY <1>1 DEF AsWritten
<1>4. InOrder(cases, m, off, ord, n)
  BY WrittenInOrder
<1> HIDE DEF qs, ord
<1>5. n \in Nat /\ \A j \in 1..n : qs[j] = ps[ord[j]]
  BY <1>2, <1>3
<1>6. \A j \in 1..n : ord[j] \in 1..Len(ps)
  BY <1>3
<1>7. \E col, val, s : Course(cases, m, off, ord, qs, col, val, s)
  BY <1>2, <1>4, <1>5, <1>6, ReadInOrder
<1>8. QED
  BY <1>2, <1>7 DEF qs, ord

\* How a stream was cut: between two fields, after n of them, or within one.
CutBetween(cases, m, ps, off, b, n) ==
  /\ n \in 0..Len(ps) /\ Joined(ps, n) = b
  /\ Decode(cases, b) = {Part(cases, m, Taken(cases, off, n))}
CutWithin(cases, ps, b) ==
  Decode(cases, b) = {} /\ \A n \in 0..Len(ps) : Joined(ps, n) # b

\* A stream that was cut decodes only if it was cut between two fields, to the
\* message that has been read by then.
LEMMA CutDecodes ==
  ASSUME NEW cases, IsTable(cases), NEW m, IsMessage(cases, m),
         Count(cases, m, Len(cases) + 1) = 0,
         NEW ps, NEW off, Laid(cases, m, ps, off),
         NEW l \in Nat, l < Len(FlattenSeq(ps))
  PROVE  \/ CutWithin(cases, ps, Cut(FlattenSeq(ps), l))
         \/ \E n : CutBetween(cases, m, ps, off, Cut(FlattenSeq(ps), l), n)
<1> DEFINE f == FlattenSeq(ps)
           b == Cut(f, l)
           T == {j \in Nat : j <= Len(ps) /\ l < End(ps, j)}
<1>1. ps \in Seq(Seq(Byte)) /\ Len(ps) \in Nat /\ f \in Seq(Byte)
  BY LaidOut, FlattenIsBytes DEF Laid
<1>2. Joined(ps, Len(ps)) = f /\ Joined(ps, 0) = <<>>
  <2>1. SubSeq(ps, 1, Len(ps)) = ps /\ SubSeq(ps, 1, 0) = <<>>
    BY <1>1
  <2>2. QED
    BY <2>1, FlattenNone, Zenon DEF Joined
<1>3. Len(ps) \in T /\ ~(0 \in T)
  BY <1>1, <1>2 DEF End
<1>4. PICK j \in T : \A i \in T : j <= i
  <2>1. T \subseteq Nat /\ T # {}
    BY <1>3
  <2> HIDE DEF T
  <2>2. QED
    BY <2>1, LeastNumber
<1> DEFINE n == j - 1
<1>5. j # 0 /\ j \in Nat /\ j <= Len(ps) /\ l < End(ps, j)
  BY <1>3, <1>4
<1>6. n \in 0..Len(ps) /\ n < Len(ps) /\ n + 1 = j /\ n \in Nat /\ ~(j <= n)
  BY <1>1, <1>5
<1>7. ~(n \in T)
  BY <1>4, <1>6
<1> HIDE DEF T
<1>8. End(ps, n) \in Nat /\ End(ps, n) <= l
  <2>1. End(ps, n) \in Nat
    BY <1>1, <1>6, EndsGrow
  <2>2. QED
    BY <1>6, <1>7, <2>1 DEF T
<1> HIDE DEF n
<1>9. /\ b \in Seq(Byte) /\ Len(b) = l /\ LiesAt(Joined(ps, n), b, 1)
      /\ StartsAt(ps[n + 1], b, End(ps, n) + 1)
  <2>1. l <= Len(f)
    BY <1>1
  <2>2. QED
    BY <1>1, <1>5, <1>6, <1>8, <2>1, CutLies
<1> DEFINE qs == SubSeq(ps, 1, n)
           ord == AsWritten(ps)
<1>10. qs \in Seq(Seq(Byte)) /\ Len(qs) = n
  BY <1>6, FirstCourse
<1>11. PICK col, val, s : Course(cases, m, off, ord, qs, col, val, s)
  BY <1>6, FirstCourse
<1>12. FlattenSeq(qs) = Joined(ps, n)
  BY DEF Joined
<1>13. s[n] = Part(cases, m, Taken(cases, off, n))
  <2>1. Read(cases, m, off, ord, n) = Taken(cases, off, n)
    BY <1>6, WrittenInOrder
  <2>2. QED
    BY <1>10, <1>11, <2>1 DEF Course
<1> HIDE DEF b, qs, ord
<1>14. CASE End(ps, n) = l
  <2>1. Joined(ps, n) = b
    <3>1. Joined(ps, n) \in Seq(Byte) /\ Len(Joined(ps, n)) = Len(b)
      BY <1>1, <1>6, <1>9, <1>14, EndsGrow DEF End
    <3>2. QED
      BY <1>9, <3>1, LiesWhole
  <2>2. Decode(cases, FlattenSeq(qs)) = {s[Len(qs)]}
    BY <1>10, <1>11, FieldsDecode DEF Goes, Course
  <2>3. Decode(cases, b) = {Part(cases, m, Taken(cases, off, n))}
    BY <1>10, <1>12, <1>13, <2>1, <2>2
  <2>4. CutBetween(cases, m, ps, off, b, n)
    BY <1>6, <2>1, <2>3 DEF CutBetween
  <2>5. QED
    BY <2>4 DEF b
<1>15. CASE End(ps, n) # l
  <2>1. End(ps, n) < l
    BY <1>8, <1>15
  <2>2. ASSUME NEW i \in 0..Len(ps)
        PROVE  Joined(ps, i) # b
    <3>1. End(ps, i) \in Nat
      BY <1>1, EndsGrow
    <3>2. CASE i <= n
      <4>1. i \in 0..n
        BY <1>6, <3>2
      <4>2. End(ps, i) <= End(ps, n)
        BY <1>1, <1>6, <4>1, EndsGrow
      <4>3. End(ps, i) # Len(b)
        BY <1>8, <1>9, <2>1, <3>1, <4>2
      <4>4. QED
        BY <4>3 DEF End
    <3>3. CASE j <= i
      <4>1. j \in 0..i
        BY <1>5, <3>3
      <4>2. End(ps, j) <= End(ps, i) /\ End(ps, j) \in Nat
        <5>1. j \in 0..Len(ps)
          BY <1>1, <1>5
        <5>2. QED
          BY <1>1, <4>1, <5>1, EndsGrow
      <4>3. End(ps, i) # Len(b)
        BY <1>5, <1>9, <3>1, <4>2
      <4>4. QED
        BY <4>3 DEF End
    <3>4. QED
      BY <1>6, <3>2, <3>3
  <2>3. PICK k, t : ElementAt(cases, m, off, n + 1, k, t)
    <3>1. n + 1 \in 1..Len(ps)
      BY <1>5, <1>6
    <3>2. IsElement(cases, m, off, n + 1)
      BY <3>1, LaidOut
    <3>3. QED
      BY <3>2 DEF IsElement
  <2>4. k \in Columns(cases) /\ t \in 1..Count(cases, m, k)
        /\ n + 1 = off[k] + t
    BY <2>3 DEF ElementAt
  <2>5. k \in 1..Len(cases)
    <3>1. k # Len(cases) + 1
      BY <2>4
    <3>2. Columns(cases) = 1..(Len(cases) + 1) /\ Len(cases) \in Nat
      BY DEF Columns, IsTable
    <3>3. QED
      BY <2>4, <3>1, <3>2
  <2> DEFINE e == Elements(cases, m, k)
             v == e[t]
  <2>6. v \in Values(KindOf(cases, k))
    <3> DEFINE S == Values(KindOf(cases, k))
    <3>1. e \in Seq(S) /\ t \in 1..Len(e)
      BY <2>4 DEF IsMessage, Count
    <3> HIDE DEF e, S
    <3>2. e[t] \in S
      BY <3>1
    <3>3. QED
      BY <3>2 DEF S
  <2>7. ps[n + 1] = PieceOf(KindOf(cases, k), k, v)
    BY <2>4 DEF Laid
  <2> HIDE DEF e, v
  <2>8. Decode(cases, b) = {}
    <3>1. LiesAt(FlattenSeq(qs), b, 1) /\ Len(FlattenSeq(qs)) < Len(b)
      BY <1>9, <1>12, <2>1 DEF End
    <3>2. StartsAt(PieceOf(KindOf(cases, k), k, v), b,
                   Len(FlattenSeq(qs)) + 1)
      BY <1>9, <1>12, <2>7 DEF End
    <3>3. Goes(cases, qs, col, val, s)
      BY <1>11 DEF Course
    <3>4. QED
      BY <1>9, <1>10, <2>5, <2>6, <3>1, <3>2, <3>3, CutFieldsUnread
  <2>9. CutWithin(cases, ps, b)
    BY <2>2, <2>8 DEF CutWithin
  <2>10. QED
    BY <2>9 DEF b
<1>16. QED
  BY <1>14, <1>15

----------------------------------------------------------------------------
(* What has been read of a message, written again                          *)

\* The elements of a column that has been read in part.
LEMMA PartElements ==
  ASSUME NEW cases, IsTable(cases), NEW m, IsMessage(cases, m), NEW c,
         NEW k \in Columns(cases), c[k] \in 0..Count(cases, m, k)
  PROVE  Elements(cases, Part(cases, m, c), k)
           = SubSeq(Elements(cases, m, k), 1, c[k])
<1> DEFINE p == Part(cases, m, c)
           S == Values(KindOf(cases, k))
           kind == KindOf(cases, k)
           e == Elements(cases, m, k)
           d == c[k]
           v == m[NameOf(cases, k)]
<1>1. e \in Seq(S) /\ d \in 0..Len(e)
  BY DEF IsMessage, Count
<1>2. p[NameOf(cases, k)] = Collapse(kind, SubSeq(e, 1, d))
  BY PartAt DEF ReadOf
<1>3. Elements(cases, p, k) =
        IF kind = "repeated" THEN p[NameOf(cases, k)]
        ELSE IF p[NameOf(cases, k)] = <<>> THEN <<>>
        ELSE <<p[NameOf(cases, k)]>>
  BY DEF Elements
<1>4. kind # "repeated" => \/ e = <<>>
                           \/ v # <<>> /\ e = <<v>>
  BY DEF Elements
<1> HIDE DEF p, S, kind, e, d, v
<1>5. CASE kind = "repeated"
  BY <1>2, <1>3, <1>5 DEF Collapse, p, e, d
<1>6. CASE kind # "repeated" /\ d = 0
  <2>1. SubSeq(e, 1, d) = <<>>
    BY <1>1, <1>6
  <2>2. p[NameOf(cases, k)] = <<>>
    BY <1>2, <2>1, Zenon DEF Collapse
  <2>3. Elements(cases, p, k) = <<>>
    BY <1>3, <1>6, <2>2, Zenon
  <2>4. QED
    BY <2>1, <2>3 DEF p, e, d
<1>7. CASE kind # "repeated" /\ d # 0
  <2>1. v # <<>> /\ e = <<v>> /\ Len(e) = 1 /\ d = 1
    <3>1. e # <<>>
      BY <1>1, <1>7
    <3>2. v # <<>> /\ e = <<v>>
      BY <1>4, <1>7, <3>1
    <3>3. QED
      BY <1>1, <1>7, <3>2
  <2>2. SubSeq(e, 1, d) = e /\ e # <<>> /\ e[1] = v
    <3>1. e # <<>> /\ e[1] = v
      BY <2>1
    <3>2. SubSeq(e, 1, Len(e)) = e
      BY <1>1
    <3>3. QED
      BY <2>1, <3>1, <3>2
  <2>3. p[NameOf(cases, k)] = v
    BY <1>2, <1>7, <2>2, Zenon DEF Collapse
  <2>4. Elements(cases, p, k) = <<v>>
    BY <1>3, <1>7, <2>1, <2>3, Zenon
  <2>5. QED
    BY <2>1, <2>2, <2>4 DEF p, e, d
<1>8. QED
  BY <1>5, <1>6, <1>7

\* The message of the first pieces is written as these pieces.
LEMMA PartLaid ==
  ASSUME NEW cases, IsTable(cases), NEW m, IsMessage(cases, m),
         NEW ps, NEW off, Laid(cases, m, ps, off), NEW n \in 0..Len(ps)
  PROVE  /\ IsMessage(cases, Part(cases, m, Taken(cases, off, n)))
         /\ \E o : Laid(cases, Part(cases, m, Taken(cases, off, n)),
                        SubSeq(ps, 1, n), o)
<1> DEFINE c == Taken(cases, off, n)
           p == Part(cases, m, c)
           o == [k \in 1..(Len(cases) + 2) |-> Lesser(off[k], n)]
           qs == SubSeq(ps, 1, n)
           N == Len(cases) + 1
<1>1. /\ ps \in Seq(Seq(Byte)) /\ Len(ps) \in Nat /\ Len(ps) = off[N + 1]
      /\ off[1] = 0 /\ n \in Nat /\ n <= Len(ps)
  <2>1. N + 1 = Len(cases) + 2
    BY DEF IsTable
  <2>2. QED
    BY <2>1, LaidOut DEF Laid, Offsets
<1>2. N \in Nat /\ Len(cases) + 2 = N + 1 /\ Columns(cases) = 1..N
  BY DEF IsTable, Columns
<1>3. ASSUME NEW k \in Columns(cases)
      PROVE  /\ off[k] \in Nat /\ off[k + 1] \in Nat
             /\ Count(cases, m, k) \in Nat
             /\ c[k] \in 0..Count(cases, m, k)
             /\ c[k] = Lesser(off[k + 1], n) - Lesser(off[k], n)
             /\ off[k + 1] = off[k] + Count(cases, m, k)
  <2>1. off[k] \in Nat /\ Count(cases, m, k) \in Nat
        /\ off[k + 1] = off[k] + Count(cases, m, k)
    BY ColumnLies
  <2>2. c[k] = FirstOf(off, n, k)
    BY DEF Taken
  <2>3. FirstOf(off, n, k) \in 0..Count(cases, m, k)
    BY <1>1, FirstAre
  <2>4. off[k + 1] \in Nat
    BY <2>1
  <2>5. QED
    BY <2>1, <2>2, <2>3, <2>4 DEF FirstOf
<1> HIDE DEF c, N
<1>4. ASSUME NEW k \in Columns(cases)
      PROVE  /\ Elements(cases, p, k) = SubSeq(Elements(cases, m, k), 1, c[k])
             /\ Elements(cases, p, k) \in Seq(Values(KindOf(cases, k)))
             /\ Count(cases, p, k) = c[k]
             /\ \A t \in 1..c[k] :
                  Elements(cases, p, k)[t] = Elements(cases, m, k)[t]
  <2> DEFINE S == Values(KindOf(cases, k))
             e == Elements(cases, m, k)
             d == c[k]
  <2>1. Elements(cases, p, k) = SubSeq(e, 1, d)
    BY <1>3, PartElements
  <2>2. e \in Seq(S) /\ d \in 0..Len(e)
    BY <1>3 DEF IsMessage, Count
  <2> HIDE DEF S, e, d
  <2>3. SubSeq(e, 1, d) \in Seq(S) /\ Len(SubSeq(e, 1, d)) = d
        /\ \A t \in 1..d : SubSeq(e, 1, d)[t] = e[t]
    BY <2>2
  <2>4. QED
    BY <2>1, <2>3 DEF Count, S, e, d
<1>5. IsMessage(cases, p)
  <2>1. p = [x \in Names(cases) |-> p[x]]
    BY DEF Part
  <2> HIDE DEF p
  <2>2. QED
    BY <1>4, <2>1 DEF IsMessage
<1> HIDE DEF p
<1>6. qs \in Seq(Seq(Byte)) /\ Len(qs) = n /\ \A i \in 1..n : qs[i] = ps[i]
  BY <1>1
<1> HIDE DEF qs
<1>7. \A k \in 1..(N + 1) : o[k] = Lesser(off[k], n)
  BY <1>2
<1> HIDE DEF o
<1>8. ASSUME NEW k \in Columns(cases)
      PROVE  Counts(cases, p)[k] \in Nat
             /\ o[k + 1] = o[k] + Counts(cases, p)[k]
  <2>1. k \in 1..(N + 1) /\ k + 1 \in 1..(N + 1)
    BY <1>2
  <2>2. o[k] = Lesser(off[k], n) /\ o[k + 1] = Lesser(off[k + 1], n)
    BY <1>7, <2>1
  <2>3. Counts(cases, p)[k] = c[k]
    BY <1>4 DEF Counts
  <2> DEFINE a == off[k]
             b == off[k + 1]
             d == c[k]
             q == Count(cases, m, k)
  <2>4. a \in Nat /\ b \in Nat /\ d = Lesser(b, n) - Lesser(a, n)
        /\ d \in 0..q /\ q \in Nat
    BY <1>3
  <2> HIDE DEF a, b, d, q
  <2>5. d \in Nat /\ Lesser(b, n) = Lesser(a, n) + d
    BY <1>1, <2>4 DEF Lesser
  <2>6. QED
    BY <2>2, <2>3, <2>5 DEF a, b, d
<1>9. o[1] = 0 /\ o[N + 1] = n
  <2>1. 1 \in 1..(N + 1) /\ N + 1 \in 1..(N + 1)
    BY <1>2
  <2>2. Lesser(0, n) = 0 /\ Lesser(Len(ps), n) = n
    BY <1>1 DEF Lesser
  <2>3. QED
    BY <1>1, <1>7, <2>1, <2>2
<1>10. Offsets(N, Counts(cases, p), o)
  BY <1>2, <1>8, <1>9 DEF Offsets
<1>11. ASSUME NEW k \in Columns(cases), NEW t \in 1..Count(cases, p, k)
       PROVE  qs[o[k] + t] =
                PieceOf(KindOf(cases, k), k, Elements(cases, p, k)[t])
  <2>1. t \in 1..c[k] /\ t \in 1..Count(cases, m, k)
    <3> DEFINE d == c[k]
               q == Count(cases, m, k)
    <3>1. t \in 1..d /\ d \in 0..q /\ q \in Nat
      BY <1>3, <1>4
    <3> HIDE DEF d, q
    <3>2. t \in 1..d /\ t \in 1..q
      BY <3>1
    <3>3. QED
      BY <3>2 DEF d, q
  <2>2. ps[off[k] + t] =
          PieceOf(KindOf(cases, k), k, Elements(cases, m, k)[t])
    BY <2>1 DEF Laid
  <2>3. o[k] = off[k] /\ off[k] + t \in 1..n
    <3>1. k \in 1..(N + 1)
      BY <1>2
    <3> DEFINE a == off[k]
               b == off[k + 1]
               d == c[k]
               q == Count(cases, m, k)
    <3>2. o[k] = Lesser(a, n)
      BY <1>7, <3>1
    <3>3. a \in Nat /\ b \in Nat /\ d = Lesser(b, n) - Lesser(a, n)
          /\ b = a + q /\ q \in Nat /\ t \in 1..d
      BY <1>3, <2>1
    <3> HIDE DEF a, b, d, q
    <3>4. Lesser(a, n) = a /\ a + t \in 1..n
      BY <1>1, <3>3 DEF Lesser
    <3>5. QED
      BY <3>2, <3>4 DEF a
  <2>4. qs[o[k] + t] = ps[off[k] + t]
    BY <1>6, <2>3
  <2>5. QED
    BY <1>4, <2>1, <2>2, <2>4
<1>12. Laid(cases, p, qs, o)
  BY <1>2, <1>6, <1>9, <1>10, <1>11 DEF Laid, N
<1>13. QED
  BY <1>5, <1>12 DEF p, c, qs

\* A message is written in one way.
LEMMA LaidSame ==
  ASSUME NEW cases, IsTable(cases), NEW m, IsMessage(cases, m),
         NEW ps, NEW off, Laid(cases, m, ps, off),
         NEW qs, NEW o, Laid(cases, m, qs, o)
  PROVE  ps = qs
<1> DEFINE N == Len(cases) + 1
           T == {i \in Nat : i <= N => off[i + 1] = o[i + 1]}
<1>1. N \in Nat /\ Columns(cases) = 1..N /\ Len(cases) + 2 = N + 1
  BY DEF IsTable, Columns
<1>2. /\ off[1] = 0 /\ o[1] = 0
      /\ Len(ps) = off[N + 1] /\ Len(qs) = o[N + 1]
      /\ ps \in Seq(Seq(Byte)) /\ qs \in Seq(Seq(Byte))
  BY <1>1 DEF Laid, Offsets
<1>3. 0 \in T
  BY <1>2
<1>4. ASSUME NEW i \in Nat, i \in T
      PROVE  i + 1 \in T
  <2>1. SUFFICES ASSUME i + 1 <= N
                 PROVE  off[(i + 1) + 1] = o[(i + 1) + 1]
    OBVIOUS
  <2> DEFINE k == i + 1
  <2>2. k \in Columns(cases) /\ off[k] = o[k]
    BY <1>1, <1>4, <2>1
  <2> HIDE DEF k
  <2>3. /\ off[k + 1] = off[k] + Count(cases, m, k)
        /\ o[k + 1] = o[k] + Count(cases, m, k)
    BY <2>2, ColumnLies
  <2>4. QED
    BY <2>2, <2>3 DEF k
<1>5. Nat \subseteq T
  <2> HIDE DEF T
  <2>1. QED
    BY <1>3, <1>4, NumberInduction
<1>6. \A k \in 1..(N + 1) : off[k] = o[k]
  <2>1. SUFFICES ASSUME NEW k \in 1..(N + 1)
                 PROVE  off[k] = o[k]
    OBVIOUS
  <2>2. k - 1 \in Nat /\ k - 1 <= N /\ (k - 1) + 1 = k
    BY <1>1
  <2>3. k - 1 \in T
    BY <1>5, <2>2
  <2>4. QED
    BY <2>2, <2>3
<1> HIDE DEF T, N
<1>7. Len(ps) = Len(qs)
  <2>1. N + 1 \in 1..(N + 1)
    BY <1>1
  <2>2. QED
    BY <1>2, <1>6, <2>1
<1>8. ASSUME NEW i \in 1..Len(ps)
      PROVE  ps[i] = qs[i]
  <2>1. IsElement(cases, m, off, i)
    BY LaidOut
  <2>2. PICK k, t : ElementAt(cases, m, off, i, k, t)
    BY <2>1 DEF IsElement
  <2>3. k \in Columns(cases) /\ t \in 1..Count(cases, m, k)
        /\ i = off[k] + t
    BY <2>2 DEF ElementAt
  <2>4. off[k] = o[k]
    BY <1>1, <1>6, <2>3
  <2>5. ps[off[k] + t] = qs[o[k] + t]
    BY <2>3 DEF Laid
  <2>6. QED
    BY <2>3, <2>4, <2>5
<1>9. QED
  BY <1>2, <1>7, <1>8, SeqEqual

----------------------------------------------------------------------------
(* Fields in another order, and a field more                               *)

\* Only a repeated field has more than one element.
LEMMA OneElement ==
  ASSUME NEW cases, NEW m, NEW k, KindOf(cases, k) # "repeated"
  PROVE  Count(cases, m, k) = 0 \/ Count(cases, m, k) = 1
BY DEF Count, Elements

\* The first byte of a field tells its column.
LEMMA FirstByte ==
  ASSUME NEW cases, IsTable(cases), NEW k \in 1..Len(cases),
         NEW v \in Values(KindOf(cases, k))
  PROVE  PieceOf(KindOf(cases, k), k, v)[1] =
           8 * k + (IF KindOf(cases, k) \in {"uint32", "uint64"} THEN 0 ELSE 2)
<1> DEFINE kind == KindOf(cases, k)
<1>1. k \in 1..5 /\ kind \in {"uint32", "uint64", "bytes", "repeated"}
  BY KnownColumn
<1>2. CASE kind \in {"uint32", "uint64"}
  <2> DEFINE e == EncodeVarint(v)
             t == 8 * k
  <2>1. v \in Seq(Digit)
    BY <1>2, Uint32Fits, Uint64Fits DEF Values
  <2>2. e \in Seq(Byte)
    BY <2>1, EncodedIsBytes
  <2>3. PieceOf(kind, k, v) = <<t>> \o e
    BY <1>2 DEF PieceOf
  <2>4. t \in Byte /\ t + 0 = t
    <3>1. 8 * k + 0 \in Byte /\ 8 * k + 0 = 8 * k
      BY <1>1, TagHalves
    <3>2. QED
      BY <3>1
  <2> HIDE DEF e, t
  <2>5. (<<t>> \o e)[1] = t
    BY <2>2, <2>4
  <2>6. QED
    BY <1>2, <2>3, <2>4, <2>5 DEF t
<1>3. CASE kind \in {"bytes", "repeated"}
  <2> DEFINE e == EncodeVarint(Digits(Len(v)))
             t == 8 * k + 2
  <2>1. v \in Seq(Byte) /\ Len(v) \in Length
    BY <1>3 DEF Values, Strings
  <2>2. e \in Seq(Byte)
    BY <2>1, LengthFacts, EncodedIsBytes
  <2>3. PieceOf(kind, k, v) = <<t>> \o e \o v
    BY <1>3 DEF PieceOf, BytesPiece
  <2>4. t \in Byte
    BY <1>1, TagHalves
  <2> HIDE DEF e, t
  <2>5. (<<t>> \o e \o v)[1] = t
    BY <2>1, <2>2, <2>4
  <2>6. QED
    BY <1>3, <2>3, <2>5 DEF t
<1>4. QED
  BY <1>1, <1>2, <1>3

\* Fields of the same first byte stay in their order.
KeepsTags(ps, ord, n) ==
  \A i, j \in 1..n :
    i < j => /\ ord[i] # ord[j]
             /\ ps[ord[i]][1] = ps[ord[j]][1] => ord[i] < ord[j]

\* So do the elements of a column.
LEMMA TagsKeep ==
  ASSUME NEW cases, IsTable(cases), NEW m, IsMessage(cases, m),
         NEW ps, NEW off, Laid(cases, m, ps, off),
         NEW ord, NEW n, KeepsTags(ps, ord, n)
  PROVE  Keeps(cases, m, off, ord, n)
<1> SUFFICES ASSUME NEW i \in 1..n, NEW j \in 1..n, NEW k \in Columns(cases),
                    NEW t \in 1..Count(cases, m, k),
                    NEW u \in 1..Count(cases, m, k),
                    i < j, ord[i] = off[k] + t, ord[j] = off[k] + u
             PROVE  t < u
  BY DEF Keeps
<1>1. ord[i] # ord[j]
  BY DEF KeepsTags
<1>2. off[k] \in Nat /\ Count(cases, m, k) \in Nat
  BY ColumnLies
<1>3. CASE k \in 1..Len(cases)
  <2> DEFINE S == Values(KindOf(cases, k))
             e == Elements(cases, m, k)
             first == 8 * k + (IF KindOf(cases, k) \in {"uint32", "uint64"}
                               THEN 0 ELSE 2)
  <2>1. ASSUME NEW x \in 1..Count(cases, m, k)
        PROVE  ps[off[k] + x][1] = first
    <3>1. ps[off[k] + x] = PieceOf(KindOf(cases, k), k, e[x])
      BY DEF Laid
    <3>2. e \in Seq(S) /\ x \in 1..Len(e)
      BY DEF IsMessage, Count
    <3> HIDE DEF e, S
    <3>3. e[x] \in S
      BY <3>2
    <3>4. QED
      BY <1>3, <3>1, <3>3, FirstByte DEF S
  <2> HIDE DEF first
  <2>2. ps[ord[i]][1] = ps[ord[j]][1]
    BY <2>1
  <2>3. off[k] + t < off[k] + u
    BY <2>2 DEF KeepsTags
  <2>4. QED
    BY <1>2, <2>3
<1>4. CASE k \notin 1..Len(cases)
  <2>1. k = Len(cases) + 1
    BY <1>4 DEF Columns, IsTable
  <2>2. KindOf(cases, k) # "repeated"
    BY <2>1 DEF KindOf
  <2>3. Count(cases, m, k) = 0 \/ Count(cases, m, k) = 1
    BY <2>2, OneElement
  <2>4. t = 1 /\ u = 1
    BY <2>3
  <2>5. QED
    BY <1>1, <2>4
<1>5. QED
  BY <1>3, <1>4

\* The field of a later version, added to a message that has none.
WithNew(cases, m, x) ==
  [name \in Names(cases) |-> IF name = "unknown" THEN x ELSE m[name]]

\* With an unknown field more, one piece more is laid behind the others.
LEMMA NewLaid ==
  ASSUME NEW cases, IsTable(cases), NEW m, IsMessage(cases, m),
         Count(cases, m, Len(cases) + 1) = 0,
         NEW ps, NEW off, Laid(cases, m, ps, off),
         NEW x \in Seq(Byte), IsNewField(x)
  PROVE  /\ IsMessage(cases, WithNew(cases, m, x))
         /\ \E o : /\ Laid(cases, WithNew(cases, m, x), Append(ps, x), o)
                   /\ \A k \in Columns(cases) : o[k] = off[k]
                   /\ o[Len(cases) + 1] = Len(ps)
         /\ Count(cases, WithNew(cases, m, x), Len(cases) + 1) = 1
<1> DEFINE p == WithNew(cases, m, x)
           N == Len(cases) + 1
           o == [k \in 1..(N + 1) |-> IF k = N + 1 THEN Len(ps) + 1 ELSE off[k]]
           qs == Append(ps, x)
<1>1. /\ N \in Nat /\ N >= 1 /\ Columns(cases) = 1..N /\ Len(cases) + 2 = N + 1
      /\ N \in Columns(cases)
  BY DEF IsTable, Columns
<1>2. /\ ps \in Seq(Seq(Byte)) /\ Len(ps) \in Nat /\ Len(ps) = off[N + 1]
      /\ off[1] = 0
  BY <1>1, LaidOut DEF Laid, Offsets
<1>3. Count(cases, m, N) = 0 /\ NameOf(cases, N) = "unknown"
      /\ KindOf(cases, N) = "unknown"
  BY DEF NameOf, KindOf
<1>4. ASSUME NEW k \in Columns(cases)
      PROVE  /\ off[k] \in Nat /\ Count(cases, m, k) \in Nat
             /\ off[k + 1] = off[k] + Count(cases, m, k)
  BY ColumnLies
<1>5. x # <<>>
  <2>1. ReadVarint(x, 1).next \in {0} \cup ((1 + 1)..(Len(x) + 1))
    BY VarintType
  <2>2. ReadVarint(x, 1).next # 0
    BY DEF IsNewField
  <2>3. QED
    BY <2>1, <2>2
<1> HIDE DEF N
<1>6. ASSUME NEW k \in Columns(cases)
      PROVE  p[NameOf(cases, k)] = IF k = N THEN x ELSE m[NameOf(cases, k)]
  <2>1. NameOf(cases, k) \in Names(cases)
    BY ColumnNames
  <2>2. NameOf(cases, k) = "unknown" <=> k = N
    BY <1>1, <1>3 DEF IsTable
  <2>3. QED
    BY <2>1, <2>2 DEF WithNew
<1>7. p = [name \in Names(cases) |-> p[name]]
  BY DEF WithNew
<1> HIDE DEF p
<1>8. Elements(cases, p, N) = <<x>>
  <2>1. p[NameOf(cases, N)] = x
    BY <1>1, <1>6
  <2>2. QED
    BY <1>3, <1>5, <2>1, Zenon DEF Elements
<1>9. ASSUME NEW k \in Columns(cases), k # N
      PROVE  Elements(cases, p, k) = Elements(cases, m, k)
  BY <1>6, <1>9 DEF Elements
<1>10. Count(cases, p, N) = 1 /\ Elements(cases, p, N)[1] = x
  BY <1>8 DEF Count
<1>11. \A k \in Columns(cases) :
         k # N => Count(cases, p, k) = Count(cases, m, k)
  BY <1>9 DEF Count
<1>12. IsMessage(cases, p)
  <2>1. ASSUME NEW k \in Columns(cases)
        PROVE  Elements(cases, p, k) \in Seq(Values(KindOf(cases, k)))
    <3>1. CASE k = N
      <4>1. x \in Values("unknown")
        BY DEF Values
      <4> DEFINE S == Values("unknown")
      <4> HIDE DEF S
      <4>2. <<x>> \in Seq(S)
        BY <4>1 DEF S
      <4>3. QED
        BY <1>3, <1>8, <3>1, <4>2 DEF S
    <3>2. CASE k # N
      BY <1>9, <3>2 DEF IsMessage
    <3>3. QED
      BY <3>1, <3>2
  <2>2. QED
    BY <1>7, <2>1 DEF IsMessage
<1>13. qs \in Seq(Seq(Byte)) /\ Len(qs) = Len(ps) + 1 /\ qs[Len(ps) + 1] = x
       /\ \A i \in 1..Len(ps) : qs[i] = ps[i]
  BY <1>2
<1> HIDE DEF qs
<1>14. o[N + 1] = Len(ps) + 1 /\ \A k \in Columns(cases) : o[k] = off[k]
  BY <1>1
<1> HIDE DEF o
<1>15. off[N] = Len(ps)
  <2>1. off[N + 1] = off[N] + Count(cases, m, N) /\ off[N] \in Nat
    BY <1>1, <1>4
  <2>2. QED
    BY <1>2, <1>3, <2>1
<1>16. ASSUME NEW k \in Columns(cases)
       PROVE  /\ Counts(cases, p)[k] \in Nat
              /\ o[k + 1] = o[k] + Counts(cases, p)[k]
  <2>1. Counts(cases, p)[k] = Count(cases, p, k)
    BY DEF Counts
  <2>2. CASE k = N
    BY <1>1, <1>2, <1>10, <1>14, <1>15, <2>1, <2>2
  <2>3. CASE k # N
    <3>1. k + 1 \in Columns(cases)
      BY <1>1, <2>3
    <3>2. QED
      BY <1>4, <1>11, <1>14, <2>1, <2>3, <3>1
  <2>4. QED
    BY <2>2, <2>3
<1>17. Offsets(N, Counts(cases, p), o)
  <2>1. o[1] = 0
    BY <1>1, <1>2, <1>14
  <2>2. QED
    BY <1>1, <1>16, <2>1 DEF Offsets
<1>18. ASSUME NEW k \in Columns(cases), NEW t \in 1..Count(cases, p, k)
       PROVE  qs[o[k] + t] =
                PieceOf(KindOf(cases, k), k, Elements(cases, p, k)[t])
  <2>1. CASE k = N
    <3>1. t = 1
      BY <1>10, <2>1
    <3>2. o[k] + t = Len(ps) + 1
      BY <1>1, <1>14, <1>15, <2>1, <3>1
    <3>3. PieceOf("unknown", k, x) = x
      BY DEF PieceOf
    <3>4. QED
      BY <1>3, <1>10, <1>13, <2>1, <3>1, <3>2, <3>3
  <2>2. CASE k # N
    <3>1. t \in 1..Count(cases, m, k)
      BY <1>11, <2>2
    <3>2. off[k] + t \in 1..Len(ps)
      BY <3>1, LaidOut
    <3>3. ps[off[k] + t] =
            PieceOf(KindOf(cases, k), k, Elements(cases, m, k)[t])
      BY <3>1 DEF Laid
    <3>4. QED
      BY <1>9, <1>13, <1>14, <2>2, <3>2, <3>3
  <2>3. QED
    BY <2>1, <2>2
<1>19. Len(qs) = o[Len(cases) + 2]
  BY <1>1, <1>13, <1>14
<1>20. Laid(cases, p, qs, o)
  BY <1>13, <1>17, <1>18, <1>19 DEF Laid, N
<1>21. o[N] = Len(ps)
  BY <1>1, <1>14, <1>15
<1>22. QED
  BY <1>10, <1>12, <1>14, <1>20, <1>21, Zenon DEF p, qs, N

\* A field in front of the n-th of the others, seen as one behind them that is
\* read earlier.
Earlier(n, len) ==
  [j \in 1..(len + 1) |-> IF j <= n THEN j
                          ELSE IF j = n + 1 THEN len + 1 ELSE j - 1]

\* What lies between two sequences.
LEMMA Between ==
  ASSUME NEW s \in Seq(Seq(Byte)), NEW x \in Seq(Byte),
         NEW u \in Seq(Seq(Byte))
  PROVE  /\ s \o <<x>> \o u \in Seq(Seq(Byte))
         /\ Len(s \o <<x>> \o u) = Len(s) + 1 + Len(u)
         /\ \A j \in 1..Len(s) : (s \o <<x>> \o u)[j] = s[j]
         /\ (s \o <<x>> \o u)[Len(s) + 1] = x
         /\ \A j \in (Len(s) + 2)..(Len(s) + 1 + Len(u)) :
              (s \o <<x>> \o u)[j] = u[j - (Len(s) + 1)]
<1> DEFINE S == Seq(Byte)
<1>1. s \in Seq(S) /\ u \in Seq(S) /\ x \in S
  OBVIOUS
<1> HIDE DEF S
<1>2. <<x>> \in Seq(S) /\ Len(<<x>>) = 1 /\ <<x>>[1] = x
  BY <1>1
<1> DEFINE t == s \o <<x>>
<1>3. /\ t \in Seq(S) /\ Len(t) = Len(s) + 1 /\ t[Len(s) + 1] = x
      /\ \A j \in 1..Len(s) : t[j] = s[j]
  BY <1>1, <1>2
<1> HIDE DEF t
<1>4. /\ t \o u \in Seq(S) /\ Len(t \o u) = Len(t) + Len(u)
      /\ \A j \in 1..Len(t) : (t \o u)[j] = t[j]
      /\ \A j \in (Len(t) + 1)..(Len(t) + Len(u)) :
           (t \o u)[j] = u[j - Len(t)]
  <2>1. Len(t) \in Nat /\ Len(u) \in Nat
    BY <1>1, <1>3
  <2>2. /\ t \o u \in Seq(S) /\ Len(t \o u) = Len(t) + Len(u)
        /\ \A j \in 1..(Len(t) + Len(u)) :
             (t \o u)[j] = IF j <= Len(t) THEN t[j] ELSE u[j - Len(t)]
    BY <1>1, <1>3, ConcatProperties
  <2> DEFINE a == Len(t)
             c == Len(u)
             tu == t \o u
  <2> HIDE DEF a, c, tu
  <2>3. \A j \in 1..a : tu[j] = t[j]
    BY <2>1, <2>2 DEF a, c, tu
  <2>4. \A j \in (a + 1)..(a + c) : tu[j] = u[j - a]
    BY <2>1, <2>2 DEF a, c, tu
  <2>5. QED
    BY <2>2, <2>3, <2>4 DEF a, c, tu
<1>5. Len(s) \in Nat /\ Len(u) \in Nat
  BY <1>1
<1>6. QED
  BY <1>3, <1>4, <1>5 DEF t, S

\* What is inserted comes in between.
LEMMA InsertedIs ==
  ASSUME NEW ps \in Seq(Seq(Byte)), NEW x \in Seq(Byte), NEW n \in 0..Len(ps)
  PROVE  InsertAt(ps, n + 1, x) =
           [j \in 1..(Len(ps) + 1) |-> Append(ps, x)[Earlier(n, Len(ps))[j]]]
<1> DEFINE len == Len(ps)
           qs == Append(ps, x)
           s == SubSeq(ps, 1, n)
           u == SubSeq(ps, n + 1, len)
           new == [j \in 1..(len + 1) |-> qs[Earlier(n, len)[j]]]
<1>1. len \in Nat /\ n \in 0..len
  OBVIOUS
<1>2. /\ s \in Seq(Seq(Byte)) /\ Len(s) = n /\ \A j \in 1..n : s[j] = ps[j]
      /\ u \in Seq(Seq(Byte)) /\ Len(u) = len - n
      /\ \A j \in 1..(len - n) : u[j] = ps[n + j]
  <2>1. SubSeq(ps, n + 1, len) \in Seq(Seq(Byte))
    OBVIOUS
  <2>2. Len(SubSeq(ps, n + 1, len)) = len - n
    OBVIOUS
  <2>3. \A j \in 1..(len - n) : SubSeq(ps, n + 1, len)[j] = ps[n + j]
    OBVIOUS
  <2>4. QED
    BY <2>1, <2>2, <2>3
<1>3. /\ qs \in Seq(Seq(Byte)) /\ qs[len + 1] = x
      /\ \A j \in 1..len : qs[j] = ps[j]
  BY AppendProperties
<1>4. InsertAt(ps, n + 1, x) = s \o <<x>> \o u
  <2>1. InsertAt(ps, n + 1, x) =
          SubSeq(ps, 1, (n + 1) - 1) \o <<x>> \o SubSeq(ps, n + 1, Len(ps))
    BY DEF InsertAt
  <2>2. (n + 1) - 1 = n
    BY <1>1
  <2>3. QED
    BY <2>1, <2>2, Zenon
<1>5. \A j \in 1..(len + 1) :
        new[j] = qs[IF j <= n THEN j ELSE IF j = n + 1 THEN len + 1 ELSE j - 1]
  BY DEF Earlier
<1> HIDE DEF len, qs, s, u
<1> DEFINE ins == s \o <<x>> \o u
<1>6. /\ ins \in Seq(Seq(Byte)) /\ Len(ins) = len + 1
      /\ \A j \in 1..n : ins[j] = s[j]
      /\ ins[n + 1] = x
      /\ \A j \in (n + 2)..(len + 1) : ins[j] = u[j - (n + 1)]
  <2>1. Len(s) + 1 + Len(u) = len + 1 /\ Len(s) = n
    BY <1>1, <1>2
  <2>2. s \in Seq(Seq(Byte)) /\ u \in Seq(Seq(Byte))
    BY <1>2
  <2> HIDE DEF ins
  <2>3. /\ ins \in Seq(Seq(Byte))
        /\ Len(ins) = Len(s) + 1 + Len(u)
        /\ \A j \in 1..Len(s) : ins[j] = s[j]
        /\ ins[Len(s) + 1] = x
        /\ \A j \in (Len(s) + 2)..(Len(s) + 1 + Len(u)) :
             ins[j] = u[j - (Len(s) + 1)]
    BY <2>2, Between DEF ins
  <2>4. Len(s) + 1 = n + 1 /\ Len(s) + 2 = n + 2
    BY <2>1
  <2>5. QED
    BY <2>1, <2>3, <2>4
<1> HIDE DEF ins
<1>7. ASSUME NEW j \in 1..(len + 1)
      PROVE  ins[j] = new[j]
  <2>1. CASE j <= n
    <3>1. j \in 1..n /\ j \in 1..len
      BY <1>1, <2>1
    <3>2. new[j] = qs[j]
      BY <1>5, <2>1
    <3>3. QED
      BY <1>2, <1>3, <1>6, <3>1, <3>2
  <2>2. CASE j = n + 1
    <3>1. new[j] = qs[len + 1]
      BY <1>1, <1>5, <2>2
    <3>2. QED
      BY <1>3, <1>6, <2>2, <3>1
  <2>3. CASE j > n + 1
    <3>1. j \in (n + 2)..(len + 1) /\ j - (n + 1) \in 1..(len - n)
          /\ n + (j - (n + 1)) = j - 1 /\ j - 1 \in 1..len
      BY <1>1, <2>3
    <3>2. new[j] = qs[j - 1]
      BY <1>1, <1>5, <2>3
    <3>3. ins[j] = u[j - (n + 1)]
      BY <1>6, <3>1
    <3>4. u[j - (n + 1)] = ps[j - 1]
      BY <1>2, <3>1
    <3>5. QED
      BY <1>3, <3>1, <3>2, <3>3, <3>4
  <2>4. QED
    BY <1>1, <2>1, <2>2, <2>3
<1>8. \A j \in 1..(len + 1) : new[j] \in Seq(Byte)
  <2>1. ASSUME NEW j \in 1..(len + 1)
        PROVE  ins[j] \in Seq(Byte)
    BY <1>6
  <2>2. QED
    BY <1>7, <2>1
<1>9. new \in Seq(Seq(Byte)) /\ Len(new) = len + 1
  <2> DEFINE S == Seq(Byte)
  <2> HIDE DEF S
  <2>1. new \in [1..(len + 1) -> S]
    BY <1>8 DEF S
  <2>2. len + 1 \in Nat
    BY <1>1
  <2>3. ASSUME NEW i \in Nat, NEW f \in [1..i -> S]
        PROVE  f \in Seq(S) /\ Len(f) = i
    OBVIOUS
  <2> HIDE DEF new
  <2>4. QED
    BY <2>1, <2>2, <2>3 DEF S
<1> HIDE DEF new
<1>10. ins = new
  BY <1>6, <1>7, <1>9, SeqEqual
<1>11. QED
  BY <1>4, <1>10 DEF new, ins, qs, len

\* The fields of a message, and one of a later version anywhere among them,
\* decode to the message with that one kept.
LEMMA NewFieldKept ==
  ASSUME NEW cases, IsTable(cases), NEW m, IsMessage(cases, m),
         Count(cases, m, Len(cases) + 1) = 0,
         NEW ps, NEW off, Laid(cases, m, ps, off),
         NEW x \in Seq(Byte), IsNewField(x), NEW n \in 0..Len(ps)
  PROVE  Decode(cases, FlattenSeq(InsertAt(ps, n + 1, x)))
           = {WithNew(cases, m, x)}
<1> DEFINE p == WithNew(cases, m, x)
           qs == Append(ps, x)
           len == Len(ps)
           ord == Earlier(n, len)
           N == Len(cases) + 1
<1>1. ps \in Seq(Seq(Byte)) /\ len \in Nat
  BY LaidOut DEF Laid
<1>2. PICK o : /\ Laid(cases, p, qs, o)
               /\ \A k \in Columns(cases) : o[k] = off[k]
               /\ o[N] = len
  BY NewLaid
<1>3. IsMessage(cases, p) /\ Count(cases, p, N) = 1
  BY NewLaid
<1>4. N \in Columns(cases)
  BY DEF IsTable, Columns
<1>5. len + 1 \in Nat /\ len + 1 = Len(qs)
  BY <1>1
<1> HIDE DEF p, qs, len, N
<1>6. \A j \in 1..(len + 1) :
        ord[j] = IF j <= n THEN j ELSE IF j = n + 1 THEN len + 1 ELSE j - 1
  BY DEF Earlier
<1> HIDE DEF ord
<1>7. n \in 0..len
  BY DEF len
<1>8. Reaches(ord, len + 1)
  <2>1. \A j \in 1..(len + 1) : ord[j] \in 1..(len + 1)
    BY <1>1, <1>6, <1>7
  <2>2. ASSUME NEW i \in 1..(len + 1)
        PROVE  \E j \in 1..(len + 1) : ord[j] = i
    <3>1. CASE i <= n
      <4>1. ord[i] = i
        BY <1>6, <3>1
      <4>2. QED
        BY <4>1
    <3>2. CASE i = len + 1
      <4>1. n + 1 \in 1..(len + 1) /\ ~(n + 1 <= n)
        BY <1>1, <1>7
      <4>2. ord[n + 1] = i
        BY <1>6, <3>2, <4>1
      <4>3. QED
        BY <4>1, <4>2
    <3>3. CASE i > n /\ i # len + 1
      <4>1. i + 1 \in 1..(len + 1) /\ ~(i + 1 <= n) /\ i + 1 # n + 1
            /\ (i + 1) - 1 = i
        BY <1>1, <1>7, <3>3
      <4>2. ord[i + 1] = i
        BY <1>6, <4>1
      <4>3. QED
        BY <4>1, <4>2
    <3>4. QED
      BY <1>1, <1>7, <3>1, <3>2, <3>3
  <2>3. QED
    BY <2>1, <2>2 DEF Reaches
<1>9. Keeps(cases, p, o, ord, len + 1)
  <2>1. SUFFICES ASSUME NEW i \in 1..(len + 1), NEW j \in 1..(len + 1),
                        NEW k \in Columns(cases),
                        NEW t \in 1..Count(cases, p, k),
                        NEW u \in 1..Count(cases, p, k),
                        i < j, ord[i] = o[k] + t, ord[j] = o[k] + u
                 PROVE  t < u
    BY DEF Keeps
  <2>2. o[k] \in Nat
    BY <1>2, <1>3, ColumnLies
  <2>3. CASE i = n + 1
    <3>1. ord[i] = o[N] + 1
      BY <1>2, <1>6, <1>7, <2>3
    <3>2. 1 \in 1..Count(cases, p, N)
      BY <1>3
    <3>3. k = N
      BY <1>2, <1>3, <1>4, <2>1, <3>1, <3>2, LaidOut
    <3>4. t = 1 /\ u = 1
      BY <1>3, <3>3
    <3>5. ord[j] = ord[i]
      BY <2>1, <3>4
    <3>6. ord[i] = len + 1 /\ ord[j] = j - 1
      BY <1>1, <1>6, <1>7, <2>1, <2>3
    <3>7. QED
      BY <1>1, <3>5, <3>6
  <2>4. CASE j = n + 1
    <3>1. ord[j] = o[N] + 1
      BY <1>2, <1>6, <1>7, <2>4
    <3>2. 1 \in 1..Count(cases, p, N)
      BY <1>3
    <3>3. k = N
      BY <1>2, <1>3, <1>4, <2>1, <3>1, <3>2, LaidOut
    <3>4. t = 1 /\ u = 1
      BY <1>3, <3>3
    <3>5. ord[j] = ord[i]
      BY <2>1, <3>4
    <3>6. ord[j] = len + 1 /\ ord[i] = i
      BY <1>1, <1>6, <1>7, <2>1, <2>4
    <3>7. QED
      BY <1>1, <1>7, <2>1, <2>4, <3>5, <3>6
  <2>5. CASE i # n + 1 /\ j # n + 1
    <3>1. ord[i] < ord[j]
      BY <1>1, <1>6, <1>7, <2>1, <2>5
    <3>2. QED
      BY <2>1, <2>2, <3>1
  <2>6. QED
    BY <2>3, <2>4, <2>5
<1>10. Decode(cases, FlattenSeq([j \in 1..(len + 1) |-> qs[ord[j]]])) = {p}
  BY <1>2, <1>3, <1>5, <1>8, <1>9, AnyOrderDecodes
<1>11. InsertAt(ps, n + 1, x) = [j \in 1..(len + 1) |-> qs[ord[j]]]
  BY <1>1, InsertedIs DEF qs, ord, len
<1>12. QED
  BY <1>10, <1>11 DEF p

\* A message as it is written.
LEMMA WrittenDecodes ==
  ASSUME NEW cases, IsTable(cases), NEW m, IsMessage(cases, m),
         NEW ps, NEW off, Laid(cases, m, ps, off)
  PROVE  Decode(cases, FlattenSeq(ps)) = {m}
<1> DEFINE n == Len(ps)
           ord == AsWritten(ps)
<1>1. ps \in Seq(Seq(Byte)) /\ n \in Nat
  BY LaidOut DEF Laid
<1>2. \A j \in 1..n : ord[j] = j
  BY DEF AsWritten
<1> HIDE DEF ord
<1>3. Reaches(ord, n)
  BY <1>2 DEF Reaches
<1>4. KeepsTags(ps, ord, n)
  BY <1>1, <1>2 DEF KeepsTags
<1>5. Keeps(cases, m, off, ord, n)
  BY <1>4, TagsKeep
<1>6. Decode(cases, FlattenSeq([j \in 1..n |-> ps[ord[j]]])) = {m}
  BY <1>1, <1>3, <1>5, AnyOrderDecodes
<1>7. [j \in 1..n |-> ps[ord[j]]] = ps
  <2>1. [j \in 1..n |-> ps[ord[j]]] = [j \in 1..n |-> ps[j]]
    BY <1>2
  <2>2. [j \in 1..n |-> ps[j]] = ps
    BY <1>1
  <2>3. QED
    BY <2>1, <2>2
<1>8. QED
  BY <1>6, <1>7

----------------------------------------------------------------------------
(* The pieces of a column, and of the columns up to one                    *)

Block(cases, m, k) ==
  [t \in 1..Count(cases, m, k) |->
     PieceOf(KindOf(cases, k), k, Elements(cases, m, k)[t])]

LaidTo(cases, m, ps, K, off) ==
  /\ ps \in Seq(Seq(Byte))
  /\ Offsets(K, Counts(cases, m), off)
  /\ Len(ps) = off[K + 1]
  /\ \A k \in 1..K : \A t \in 1..Count(cases, m, k) :
       ps[off[k] + t] = PieceOf(KindOf(cases, k), k, Elements(cases, m, k)[t])
UpTo(cases, m, ps, K) == \E off : LaidTo(cases, m, ps, K, off)
IsLaid(cases, m, ps) == \E off : Laid(cases, m, ps, off)

\* The pieces of a column are sequences of bytes.
LEMMA BlockIs ==
  ASSUME NEW cases, IsTable(cases), NEW m, IsMessage(cases, m),
         NEW k \in Columns(cases)
  PROVE  /\ Block(cases, m, k) \in Seq(Seq(Byte))
         /\ Len(Block(cases, m, k)) = Count(cases, m, k)
         /\ Count(cases, m, k) \in Nat
         /\ \A t \in 1..Count(cases, m, k) : Block(cases, m, k)[t] =
              PieceOf(KindOf(cases, k), k, Elements(cases, m, k)[t])
<1> DEFINE c == Count(cases, m, k)
           b == Block(cases, m, k)
           S == Values(KindOf(cases, k))
           e == Elements(cases, m, k)
<1>1. c \in Nat
  BY CountIsNat
<1>2. e \in Seq(S) /\ c = Len(e)
  BY DEF IsMessage, Count
<1>3. ASSUME NEW t \in 1..c
      PROVE  PieceOf(KindOf(cases, k), k, e[t]) \in Seq(Byte)
  <2> HIDE DEF S, e, c
  <2>1. e[t] \in S
    BY <1>2
  <2>2. QED
    BY <2>1, PieceIsBytes DEF S
<1>4. b = [t \in 1..c |-> PieceOf(KindOf(cases, k), k, e[t])]
  BY DEF Block
<1> HIDE DEF c, e, b, S
<1>5. \A t \in 1..c : b[t] = PieceOf(KindOf(cases, k), k, e[t])
  BY <1>4
<1>6. b \in [1..c -> Seq(Byte)]
  BY <1>3, <1>4
<1>7. b \in Seq(Seq(Byte)) /\ Len(b) = c
  BY <1>1, <1>6
<1>8. QED
  BY <1>1, <1>5, <1>7 DEF b, c, e

\* The elements of two sequences, one behind the other.
LEMMA ConcatParts ==
  ASSUME NEW S, NEW s \in Seq(S), NEW t \in Seq(S)
  PROVE  /\ s \o t \in Seq(S) /\ Len(s \o t) = Len(s) + Len(t)
         /\ \A i \in 1..Len(s) : (s \o t)[i] = s[i]
         /\ \A i \in 1..Len(t) : (s \o t)[Len(s) + i] = t[i]
OBVIOUS

\* At first there is nothing.
LEMMA NothingLaid ==
  ASSUME NEW cases, NEW m
  PROVE  UpTo(cases, m, <<>>, 0)
<1>1. LaidTo(cases, m, <<>>, 0, [k \in 1..1 |-> 0])
  BY DEF LaidTo, Offsets
<1>2. QED
  BY <1>1 DEF UpTo

\* Then column comes after column.
LEMMA BlockLaid ==
  ASSUME NEW cases, IsTable(cases), NEW m, IsMessage(cases, m),
         NEW K \in Nat, K + 1 \in Columns(cases),
         NEW ps, UpTo(cases, m, ps, K)
  PROVE  UpTo(cases, m, ps \o Block(cases, m, K + 1), K + 1)
<1> DEFINE b == Block(cases, m, K + 1)
           c == Count(cases, m, K + 1)
           qs == ps \o b
<1>1. PICK off : LaidTo(cases, m, ps, K, off)
  BY DEF UpTo
<1> DEFINE o == [k \in 1..(K + 2) |->
                   IF k = K + 2 THEN off[K + 1] + c ELSE off[k]]
<1>2. /\ ps \in Seq(Seq(Byte)) /\ Len(ps) = off[K + 1] /\ Len(ps) \in Nat
      /\ off[1] = 0
      /\ \A k \in 1..K : /\ Counts(cases, m)[k] \in Nat
                         /\ off[k + 1] = off[k] + Counts(cases, m)[k]
  BY <1>1 DEF LaidTo, Offsets
<1>3. /\ b \in Seq(Seq(Byte)) /\ Len(b) = c /\ c \in Nat
      /\ \A t \in 1..c : b[t] = PieceOf(KindOf(cases, K + 1), K + 1,
                                        Elements(cases, m, K + 1)[t])
  BY BlockIs
<1>4. Counts(cases, m)[K + 1] = c
  BY DEF Counts
<1> HIDE DEF b, c
<1>5. o[K + 2] = off[K + 1] + c /\ \A k \in 1..(K + 1) : o[k] = off[k]
  OBVIOUS
<1> HIDE DEF o
<1>6. /\ qs \in Seq(Seq(Byte)) /\ Len(qs) = Len(ps) + c
      /\ \A i \in 1..Len(ps) : qs[i] = ps[i]
      /\ \A i \in 1..c : qs[Len(ps) + i] = b[i]
  <2> DEFINE S == Seq(Byte)
  <2>1. ps \in Seq(S) /\ b \in Seq(S)
    BY <1>2, <1>3
  <2> HIDE DEF S
  <2>2. /\ qs \in Seq(S) /\ Len(qs) = Len(ps) + Len(b)
        /\ \A i \in 1..Len(ps) : qs[i] = ps[i]
        /\ \A i \in 1..Len(b) : qs[Len(ps) + i] = b[i]
    BY <2>1, ConcatParts
  <2> HIDE DEF qs
  <2>3. QED
    BY <1>3, <2>2 DEF S
<1> HIDE DEF qs
<1>7. Offsets(K + 1, Counts(cases, m), o)
  <2>1. ASSUME NEW k \in 1..(K + 1)
        PROVE  /\ Counts(cases, m)[k] \in Nat
               /\ o[k + 1] = o[k] + Counts(cases, m)[k]
    <3>1. CASE k = K + 1
      BY <1>3, <1>4, <1>5, <3>1
    <3>2. CASE k # K + 1
      <4>1. k \in 1..K /\ k + 1 \in 1..(K + 1)
        BY <3>2
      <4>2. QED
        BY <1>2, <1>5, <4>1
    <3>3. QED
      BY <3>1, <3>2
  <2>2. o[1] = 0
    BY <1>2, <1>5
  <2>3. QED
    BY <2>1, <2>2 DEF Offsets
<1>8. ASSUME NEW k \in 1..(K + 1), NEW t \in 1..Count(cases, m, k)
      PROVE  qs[o[k] + t] =
               PieceOf(KindOf(cases, k), k, Elements(cases, m, k)[t])
  <2>1. CASE k = K + 1
    <3>1. t \in 1..c /\ o[k] + t = Len(ps) + t
      BY <1>2, <1>5, <2>1 DEF c
    <3>2. QED
      BY <1>3, <1>6, <2>1, <3>1
  <2>2. CASE k # K + 1
    <3>1. k \in 1..K /\ o[k] = off[k]
      BY <1>5, <2>2
    <3>2. ps[off[k] + t] =
            PieceOf(KindOf(cases, k), k, Elements(cases, m, k)[t])
      BY <1>1, <3>1 DEF LaidTo
    <3>3. off[k] + t \in 1..Len(ps)
      <4>1. Offsets(K, Counts(cases, m), off)
        BY <1>1 DEF LaidTo
      <4>2. k \in Columns(cases) /\ Counts(cases, m)[k] = Count(cases, m, k)
        <5>1. k \in Columns(cases)
          BY <3>1 DEF Columns, IsTable
        <5>2. QED
          BY <5>1 DEF Counts
      <4>3. t \in 1..Counts(cases, m)[k]
        BY <4>2
      <4>4. off[k] + t \in 1..off[K + 1]
        BY <3>1, <4>1, <4>3, OffsetsApart
      <4>5. QED
        BY <1>2, <4>4
    <3>4. QED
      BY <1>6, <3>1, <3>2, <3>3
  <2>3. QED
    BY <2>1, <2>2
<1>9. Len(qs) = o[(K + 1) + 1]
  BY <1>2, <1>5, <1>6
<1>10. LaidTo(cases, m, qs, K + 1, o)
  BY <1>6, <1>7, <1>8, <1>9 DEF LaidTo
<1>11. QED
  BY <1>10 DEF UpTo, qs, b

\* At last there is everything.
LEMMA AllLaid ==
  ASSUME NEW cases, IsTable(cases), NEW m, NEW ps,
         UpTo(cases, m, ps, Len(cases) + 1)
  PROVE  IsLaid(cases, m, ps)
<1>1. PICK off : LaidTo(cases, m, ps, Len(cases) + 1, off)
  BY DEF UpTo
<1>2. (Len(cases) + 1) + 1 = Len(cases) + 2
  BY DEF IsTable
<1>3. Laid(cases, m, ps, off)
  BY <1>1, <1>2 DEF LaidTo, Laid, Columns
<1>4. QED
  BY <1>3 DEF IsLaid

\* The columns of the messages, one behind the other.
LEMMA FirstColumn ==
  ASSUME NEW cases, IsTable(cases), NEW m, IsMessage(cases, m)
  PROVE  UpTo(cases, m, Block(cases, m, 1), 1)
<1>1. 0 + 1 \in Columns(cases) /\ 0 + 1 = 1
  BY DEF Columns, IsTable
<1>2. UpTo(cases, m, <<>> \o Block(cases, m, 0 + 1), 0 + 1)
  BY <1>1, NothingLaid, BlockLaid
<1>3. Block(cases, m, 1) \in Seq(Seq(Byte))
  BY <1>1, BlockIs
<1>4. <<>> \o Block(cases, m, 1) = Block(cases, m, 1)
  <2> DEFINE b == Block(cases, m, 1)
  <2> HIDE DEF b
  <2>1. b \in Seq(Seq(Byte)) => <<>> \o b = b
    OBVIOUS
  <2>2. QED
    BY <1>3, <2>1 DEF b
<1>5. QED
  BY <1>1, <1>2, <1>4

\* The pieces of the first columns are the blocks of the columns, joined.
\* First of two columns.
LEMMA TwoColumns ==
  ASSUME NEW cases, IsTable(cases), NEW m, IsMessage(cases, m)
  PROVE  UpTo(cases, m, Block(cases, m, 1) \o Block(cases, m, 2), 2)
<1>1. 1 + 1 \in Columns(cases) /\ 1 + 1 = 2
  BY DEF Columns, IsTable
<1>2. QED
  BY <1>1, FirstColumn, BlockLaid

\* Of three columns.
LEMMA ThreeColumns ==
  ASSUME NEW cases, IsTable(cases), NEW m, IsMessage(cases, m),
         Len(cases) >= 2
  PROVE  UpTo(cases, m, Block(cases, m, 1) \o Block(cases, m, 2)
                          \o Block(cases, m, 3), 3)
<1>1. 2 + 1 \in Columns(cases) /\ 2 + 1 = 3
  BY DEF Columns, IsTable
<1>2. QED
  BY <1>1, TwoColumns, BlockLaid

\* Of four columns.
LEMMA FourColumns ==
  ASSUME NEW cases, IsTable(cases), NEW m, IsMessage(cases, m),
         Len(cases) >= 3
  PROVE  UpTo(cases, m, Block(cases, m, 1) \o Block(cases, m, 2)
                          \o Block(cases, m, 3) \o Block(cases, m, 4), 4)
<1>1. 3 + 1 \in Columns(cases) /\ 3 + 1 = 4 /\ Len(cases) >= 2
  BY DEF Columns, IsTable
<1>2. QED
  BY <1>1, ThreeColumns, BlockLaid

\* Of five columns.
LEMMA FiveColumns ==
  ASSUME NEW cases, IsTable(cases), NEW m, IsMessage(cases, m),
         Len(cases) >= 4
  PROVE  UpTo(cases, m, Block(cases, m, 1) \o Block(cases, m, 2)
                          \o Block(cases, m, 3) \o Block(cases, m, 4)
                          \o Block(cases, m, 5), 5)
<1>1. 4 + 1 \in Columns(cases) /\ 4 + 1 = 5 /\ Len(cases) >= 3
  BY DEF Columns, IsTable
<1>2. QED
  BY <1>1, FourColumns, BlockLaid

\* Of six columns.
LEMMA SixColumns ==
  ASSUME NEW cases, IsTable(cases), NEW m, IsMessage(cases, m),
         Len(cases) = 5
  PROVE  UpTo(cases, m, Block(cases, m, 1) \o Block(cases, m, 2)
                          \o Block(cases, m, 3) \o Block(cases, m, 4)
                          \o Block(cases, m, 5) \o Block(cases, m, 6), 6)
<1>1. 5 + 1 \in Columns(cases) /\ 5 + 1 = 6 /\ Len(cases) >= 4
  BY DEF Columns, IsTable
<1>2. QED
  BY <1>1, FiveColumns, BlockLaid

\* What MarshalTo writes for a column is its pieces.
LEMMA BytesBlock ==
  ASSUME NEW cases, NEW m, NEW k, KindOf(cases, k) = "bytes"
  PROVE  BytesField(8 * k + 2, m[NameOf(cases, k)]) = Block(cases, m, k)
<1> DEFINE v == m[NameOf(cases, k)]
<1>1. Elements(cases, m, k) = IF v = <<>> THEN <<>> ELSE <<v>>
  BY DEF Elements
<1>2. CASE v = <<>>
  <2>1. Count(cases, m, k) = 0
    BY <1>1, <1>2 DEF Count
  <2>2. Block(cases, m, k) = <<>>
    BY <2>1 DEF Block
  <2>3. QED
    BY <1>2, <2>2 DEF BytesField
<1>3. CASE v # <<>>
  <2> DEFINE p == BytesPiece(8 * k + 2, v)
  <2>1. Count(cases, m, k) = 1 /\ Elements(cases, m, k)[1] = v
    BY <1>1, <1>3 DEF Count
  <2>2. PieceOf(KindOf(cases, k), k, v) = p
    BY DEF PieceOf
  <2> HIDE DEF p
  <2>3. Block(cases, m, k) = [t \in 1..1 |-> p]
    BY <2>1, <2>2 DEF Block
  <2>4. [t \in 1..1 |-> p] = <<p>>
    OBVIOUS
  <2>5. BytesField(8 * k + 2, v) = <<p>>
    BY <1>3 DEF BytesField, p
  <2>6. QED
    BY <2>3, <2>4, <2>5
<1>4. QED
  BY <1>2, <1>3

\* The block of a number is what NumberField writes.
LEMMA NumberBlock ==
  ASSUME NEW cases, NEW m, NEW k, KindOf(cases, k) \in {"uint32", "uint64"}
  PROVE  NumberField(8 * k, m[NameOf(cases, k)]) = Block(cases, m, k)
<1> DEFINE v == m[NameOf(cases, k)]
<1>1. Elements(cases, m, k) = IF v = <<>> THEN <<>> ELSE <<v>>
  BY DEF Elements
<1>2. CASE v = <<>>
  <2>1. Count(cases, m, k) = 0
    BY <1>1, <1>2 DEF Count
  <2>2. Block(cases, m, k) = <<>>
    BY <2>1 DEF Block
  <2>3. QED
    BY <1>2, <2>2 DEF NumberField, Zero
<1>3. CASE v # <<>>
  <2> DEFINE p == <<8 * k>> \o EncodeVarint(v)
  <2>1. Count(cases, m, k) = 1 /\ Elements(cases, m, k)[1] = v
    BY <1>1, <1>3 DEF Count
  <2>2. PieceOf(KindOf(cases, k), k, v) = p
    BY DEF PieceOf
  <2> HIDE DEF p
  <2>3. Block(cases, m, k) = [t \in 1..1 |-> p]
    BY <2>1, <2>2 DEF Block
  <2>4. [t \in 1..1 |-> p] = <<p>>
    OBVIOUS
  <2>5. NumberField(8 * k, v) = <<p>>
    BY <1>3 DEF NumberField, Zero, p
  <2>6. QED
    BY <2>3, <2>4, <2>5
<1>4. QED
  BY <1>2, <1>3

\* That of a repeated field is what RepeatedField writes.
LEMMA RepeatedBlock ==
  ASSUME NEW cases, NEW m, IsMessage(cases, m), NEW k \in Columns(cases),
         KindOf(cases, k) = "repeated"
  PROVE  RepeatedField(8 * k + 2, m[NameOf(cases, k)]) = Block(cases, m, k)
<1> DEFINE v == m[NameOf(cases, k)]
           S == Values(KindOf(cases, k))
<1>1. Elements(cases, m, k) = v
  BY DEF Elements
<1>2. v \in Seq(S) /\ Count(cases, m, k) = Len(v)
  BY <1>1 DEF IsMessage, Count
<1> HIDE DEF v, S
<1>3. DOMAIN v = 1..Len(v)
  BY <1>2
<1>4. \A x : PieceOf(KindOf(cases, k), k, x) = BytesPiece(8 * k + 2, x)
  BY DEF PieceOf
<1>5. Block(cases, m, k) = [t \in 1..Len(v) |-> BytesPiece(8 * k + 2, v[t])]
  BY <1>1, <1>2, <1>4, Zenon DEF Block
<1>6. RepeatedField(8 * k + 2, v)
        = [t \in 1..Len(v) |-> BytesPiece(8 * k + 2, v[t])]
  BY <1>3, Zenon DEF RepeatedField
<1>7. QED
  BY <1>5, <1>6 DEF v

\* That of the unknown fields is what UnknownFields writes.
LEMMA UnknownBlock ==
  ASSUME NEW cases, NEW m, NEW k, k = Len(cases) + 1
  PROVE  UnknownFields(m) = Block(cases, m, k)
<1> DEFINE v == m["unknown"]
<1>1. NameOf(cases, k) = "unknown" /\ KindOf(cases, k) = "unknown"
  BY DEF NameOf, KindOf
<1>2. Elements(cases, m, k) = IF v = <<>> THEN <<>> ELSE <<v>>
  BY <1>1 DEF Elements
<1>3. CASE v = <<>>
  <2>1. Count(cases, m, k) = 0
    BY <1>2, <1>3 DEF Count
  <2>2. Block(cases, m, k) = <<>>
    BY <2>1 DEF Block
  <2>3. QED
    BY <1>3, <2>2 DEF UnknownFields
<1>4. CASE v # <<>>
  <2>1. Count(cases, m, k) = 1 /\ Elements(cases, m, k)[1] = v
    BY <1>2, <1>4 DEF Count
  <2>2. PieceOf(KindOf(cases, k), k, v) = v
    BY <1>1 DEF PieceOf
  <2>3. Block(cases, m, k) = [t \in 1..1 |-> v]
    BY <2>1, <2>2 DEF Block
  <2> HIDE DEF v
  <2>4. [t \in 1..1 |-> v] = <<v>>
    OBVIOUS
  <2>5. UnknownFields(m) = <<v>>
    BY <1>4 DEF UnknownFields, v
  <2>6. QED
    BY <2>3, <2>4, <2>5
<1>5. QED
  BY <1>3, <1>4

----------------------------------------------------------------------------
(* The eight messages                                                      *)

\* The cases of their Unmarshal methods.
ErrorCases == << <<"error_code", "uint32">>, <<"error_msg", "bytes">> >>
ChoiceCases ==
  << <<"cid", "bytes">>, <<"owner", "bytes">>, <<"yp", "bytes">>,
     <<"lp", "bytes">> >>
ReEncryptCases ==
  << <<"cid", "bytes">>, <<"lpp", "bytes">>, <<"re_keys", "repeated">>,
     <<"txid", "bytes">> >>
UploadCases ==
  << <<"owner", "bytes">>, <<"sig", "bytes">>, <<"set", "uint32">>,
     <<"cid", "bytes">>, <<"file_size", "uint64">> >>
UploadedCases ==
  << <<"error_code", "uint32">>, <<"error_msg", "bytes">>,
     <<"uploader", "bytes">> >>
DownloadCases ==
  << <<"owner", "bytes">>, <<"cid", "bytes">>, <<"txid", "bytes">> >>
DownloadedCases ==
  << <<"error_code", "uint32">>, <<"error_msg", "bytes">>,
     <<"downloader", "bytes">> >>

\* What their columns are.
LEMMA ChoiceColumns ==
  /\ IsTable(ChoiceCases) /\ Len(ChoiceCases) = 4
  /\ NameOf(ChoiceCases, 1) = "cid" /\ KindOf(ChoiceCases, 1) = "bytes"
  /\ NameOf(ChoiceCases, 2) = "owner" /\ KindOf(ChoiceCases, 2) = "bytes"
  /\ NameOf(ChoiceCases, 3) = "yp" /\ KindOf(ChoiceCases, 3) = "bytes"
  /\ NameOf(ChoiceCases, 4) = "lp" /\ KindOf(ChoiceCases, 4) = "bytes"
  /\ Names(ChoiceCases) = {"cid", "owner", "yp", "lp", "unknown"}
BY DEF ChoiceCases, IsTable, Columns, NameOf, KindOf, Names

\* The table of the two responses that are only an error.
LEMMA ErrorColumns ==
  /\ IsTable(ErrorCases) /\ Len(ErrorCases) = 2
  /\ NameOf(ErrorCases, 1) = "error_code" /\ KindOf(ErrorCases, 1) = "uint32"
  /\ NameOf(ErrorCases, 2) = "error_msg" /\ KindOf(ErrorCases, 2) = "bytes"
  /\ Names(ErrorCases) = {"error_code", "error_msg", "unknown"}
BY DEF ErrorCases, IsTable, Columns, NameOf, KindOf, Names

\* The table of PreReEncryptRequest.
LEMMA ReEncryptColumns ==
  /\ IsTable(ReEncryptCases) /\ Len(ReEncryptCases) = 4
  /\ NameOf(ReEncryptCases, 1) = "cid" /\ KindOf(ReEncryptCases, 1) = "bytes"
  /\ NameOf(ReEncryptCases, 2) = "lpp" /\ KindOf(ReEncryptCases, 2) = "bytes"
  /\ NameOf(ReEncryptCases, 3) = "re_keys"
  /\ KindOf(ReEncryptCases, 3) = "repeated"
  /\ NameOf(ReEncryptCases, 4) = "txid" /\ KindOf(ReEncryptCases, 4) = "bytes"
  /\ Names(ReEncryptCases) = {"cid", "lpp", "re_keys", "txid", "unknown"}
BY DEF ReEncryptCases, IsTable, Columns, NameOf, KindOf, Names

\* The table of StorUploadRequest.
LEMMA UploadColumns ==
  /\ IsTable(UploadCases) /\ Len(UploadCases) = 5
  /\ NameOf(UploadCases, 1) = "owner" /\ KindOf(UploadCases, 1) = "bytes"
  /\ NameOf(UploadCases, 2) = "sig" /\ KindOf(UploadCases, 2) = "bytes"
  /\ NameOf(UploadCases, 3) = "set" /\ KindOf(UploadCases, 3) = "uint32"
  /\ NameOf(UploadCases, 4) = "cid" /\ KindOf(UploadCases, 4) = "bytes"
  /\ NameOf(UploadCases, 5) = "file_size" /\ KindOf(UploadCases, 5) = "uint64"
  /\ Names(UploadCases) = {"owner", "sig", "set", "cid", "file_size", "unknown"}
BY DEF UploadCases, IsTable, Columns, NameOf, KindOf, Names

\* The table of StorUploadResponse.
LEMMA UploadedColumns ==
  /\ IsTable(UploadedCases) /\ Len(UploadedCases) = 3
  /\ NameOf(UploadedCases, 1) = "error_code"
  /\ KindOf(UploadedCases, 1) = "uint32"
  /\ NameOf(UploadedCases, 2) = "error_msg"
  /\ KindOf(UploadedCases, 2) = "bytes"
  /\ NameOf(UploadedCases, 3) = "uploader"
  /\ KindOf(UploadedCases, 3) = "bytes"
  /\ Names(UploadedCases) = {"error_code", "error_msg", "uploader", "unknown"}
BY DEF UploadedCases, IsTable, Columns, NameOf, KindOf, Names

\* The table of StorDownloadRequest.
LEMMA DownloadColumns ==
  /\ IsTable(DownloadCases) /\ Len(DownloadCases) = 3
  /\ NameOf(DownloadCases, 1) = "owner" /\ KindOf(DownloadCases, 1) = "bytes"
  /\ NameOf(DownloadCases, 2) = "cid" /\ KindOf(DownloadCases, 2) = "bytes"
  /\ NameOf(DownloadCases, 3) = "txid" /\ KindOf(DownloadCases, 3) = "bytes"
  /\ Names(DownloadCases) = {"owner", "cid", "txid", "unknown"}
BY DEF DownloadCases, IsTable, Columns, NameOf, KindOf, Names

\* The table of StorDownloadResponse.
LEMMA DownloadedColumns ==
  /\ IsTable(DownloadedCases) /\ Len(DownloadedCases) = 3
  /\ NameOf(DownloadedCases, 1) = "error_code"
  /\ KindOf(DownloadedCases, 1) = "uint32"
  /\ NameOf(DownloadedCases, 2) = "error_msg"
  /\ KindOf(DownloadedCases, 2) = "bytes"
  /\ NameOf(DownloadedCases, 3) = "downloader"
  /\ KindOf(DownloadedCases, 3) = "bytes"
  /\ Names(DownloadedCases) =
       {"error_code", "error_msg", "downloader", "unknown"}
BY DEF DownloadedCases, IsTable, Columns, NameOf, KindOf, Names

\* The pieces of OtChoiceRequest are laid by its table.
LEMMA OtChoiceRequestLaid ==
  ASSUME NEW m, IsMessage(ChoiceCases, m)
  PROVE  IsLaid(ChoiceCases, m, OtChoiceRequest_MarshalTo(m))
<1> DEFINE C == ChoiceCases
<1>1. /\ IsTable(C) /\ Len(C) = 4 /\ Columns(C) = 1..5
      /\ NameOf(C, 1) = "cid" /\ KindOf(C, 1) = "bytes"
      /\ NameOf(C, 2) = "owner" /\ KindOf(C, 2) = "bytes"
      /\ NameOf(C, 3) = "yp" /\ KindOf(C, 3) = "bytes"
      /\ NameOf(C, 4) = "lp" /\ KindOf(C, 4) = "bytes"
  BY ChoiceColumns DEF Columns
<1> HIDE DEF C
<1>2. BytesField(10, m.cid) = Block(C, m, 1)
  <2>1. 8 * 1 + 2 = 10
    OBVIOUS
  <2>2. QED
    BY <1>1, <2>1, BytesBlock
<1>3. BytesField(18, m.owner) = Block(C, m, 2)
  <2>1. 8 * 2 + 2 = 18
    OBVIOUS
  <2>2. QED
    BY <1>1, <2>1, BytesBlock
<1>4. BytesField(26, m.yp) = Block(C, m, 3)
  <2>1. 8 * 3 + 2 = 26
    OBVIOUS
  <2>2. QED
    BY <1>1, <2>1, BytesBlock
<1>5. BytesField(34, m.lp) = Block(C, m, 4)
  <2>1. 8 * 4 + 2 = 34
    OBVIOUS
  <2>2. QED
    BY <1>1, <2>1, BytesBlock
<1>6. UnknownFields(m) = Block(C, m, 5)
  <2>1. 5 = Len(C) + 1
    BY <1>1
  <2>2. QED
    BY <2>1, UnknownBlock
<1> DEFINE ps == Block(C, m, 1) \o Block(C, m, 2) \o Block(C, m, 3)
                      \o Block(C, m, 4)
                      \o Block(C, m, 5)
<1>7. OtChoiceRequest_MarshalTo(m) = ps
  BY <1>2, <1>3, <1>4, <1>5, <1>6, Zenon DEF OtChoiceRequest_MarshalTo
<1>8. UpTo(C, m, ps, Len(C) + 1)
  <2>1. IsMessage(C, m)
    BY DEF C
  <2>2. UpTo(C, m, ps, 5) /\ Len(C) + 1 = 5
    BY <1>1, <2>1, FiveColumns
  <2>3. QED
    BY <2>2
<1>9. IsLaid(C, m, ps)
  BY <1>1, <1>8, AllLaid
<1>10. QED
  BY <1>7, <1>9 DEF C

\* The pieces of OtChoiceResponse are laid by its table.
LEMMA OtChoiceResponseLaid ==
  ASSUME NEW m, IsMessage(ErrorCases, m)
  PROVE  IsLaid(ErrorCases, m, OtChoiceResponse_MarshalTo(m))
<1> DEFINE C == ErrorCases
<1>1. /\ IsTable(C) /\ Len(C) = 2 /\ Columns(C) = 1..3
      /\ NameOf(C, 1) = "error_code" /\ KindOf(C, 1) = "uint32"
      /\ NameOf(C, 2) = "error_msg" /\ KindOf(C, 2) = "bytes"
  BY ErrorColumns DEF Columns
<1> HIDE DEF C
<1>2. NumberField(8, m.error_code) = Block(C, m, 1)
  <2>1. 8 * 1 = 8
    OBVIOUS
  <2>2. QED
    BY <1>1, <2>1, NumberBlock
<1>3. BytesField(18, m.error_msg) = Block(C, m, 2)
  <2>1. 8 * 2 + 2 = 18
    OBVIOUS
  <2>2. QED
    BY <1>1, <2>1, BytesBlock
<1>4. UnknownFields(m) = Block(C, m, 3)
  <2>1. 3 = Len(C) + 1
    BY <1>1
  <2>2. QED
    BY <2>1, UnknownBlock
<1> DEFINE ps == Block(C, m, 1) \o Block(C, m, 2) \o Block(C, m, 3)
<1>5. OtChoiceResponse_MarshalTo(m) = ps
  BY <1>2, <1>3, <1>4, Zenon DEF OtChoiceResponse_MarshalTo
<1>6. UpTo(C, m, ps, Len(C) + 1)
  <2>1. IsMessage(C, m)
    BY DEF C
  <2>2. UpTo(C, m, ps, 3) /\ Len(C) + 1 = 3
    BY <1>1, <2>1, ThreeColumns
  <2>3. QED
    BY <2>2
<1>7. IsLaid(C, m, ps)
  BY <1>1, <1>6, AllLaid
<1>8. QED
  BY <1>5, <1>7 DEF C

\* The pieces of PreReEncryptResponse are laid by its table.
LEMMA PreReEncryptResponseLaid ==
  ASSUME NEW m, IsMessage(ErrorCases, m)
  PROVE  IsLaid(ErrorCases, m, PreReEncryptResponse_MarshalTo(m))
<1> DEFINE C == ErrorCases
<1>1. /\ IsTable(C) /\ Len(C) = 2 /\ Columns(C) = 1..3
      /\ NameOf(C, 1) = "error_code" /\ KindOf(C, 1) = "uint32"
      /\ NameOf(C, 2) = "error_msg" /\ KindOf(C, 2) = "bytes"
  BY ErrorColumns DEF Columns
<1> HIDE DEF C
<1>2. NumberField(8, m.error_code) = Block(C, m, 1)
  <2>1. 8 * 1 = 8
    OBVIOUS
  <2>2. QED
    BY <1>1, <2>1, NumberBlock
<1>3. BytesField(18, m.error_msg) = Block(C, m, 2)
  <2>1. 8 * 2 + 2 = 18
    OBVIOUS
  <2>2. QED
    BY <1>1, <2>1, BytesBlock
<1>4. UnknownFields(m) = Block(C, m, 3)
  <2>1. 3 = Len(C) + 1
    BY <1>1
  <2>2. QED
    BY <2>1, UnknownBlock
<1> DEFINE ps == Block(C, m, 1) \o Block(C, m, 2) \o Block(C, m, 3)
<1>5. PreReEncryptResponse_MarshalTo(m) = ps
  BY <1>2, <1>3, <1>4, Zenon DEF PreReEncryptResponse_MarshalTo
<1>6. UpTo(C, m, ps, Len(C) + 1)
  <2>1. IsMessage(C, m)
    BY DEF C
  <2>2. UpTo(C, m, ps, 3) /\ Len(C) + 1 = 3
    BY <1>1, <2>1, ThreeColumns
  <2>3. QED
    BY <2>2
<1>7. IsLaid(C, m, ps)
  BY <1>1, <1>6, AllLaid
<1>8. QED
  BY <1>5, <1>7 DEF C

\* The pieces of PreReEncryptRequest are laid by its table.
LEMMA PreReEncryptRequestLaid ==
  ASSUME NEW m, IsMessage(ReEncryptCases, m)
  PROVE  IsLaid(ReEncryptCases, m, PreReEncryptRequest_MarshalTo(m))
<1> DEFINE C == ReEncryptCases
<1>1. /\ IsTable(C) /\ Len(C) = 4 /\ Columns(C) = 1..5
      /\ NameOf(C, 1) = "cid" /\ KindOf(C, 1) = "bytes"
      /\ NameOf(C, 2) = "lpp" /\ KindOf(C, 2) = "bytes"
      /\ NameOf(C, 3) = "re_keys" /\ KindOf(C, 3) = "repeated"
      /\ NameOf(C, 4) = "txid" /\ KindOf(C, 4) = "bytes"
  BY ReEncryptColumns DEF Columns
<1> HIDE DEF C
<1>2. BytesField(10, m.cid) = Block(C, m, 1)
  <2>1. 8 * 1 + 2 = 10
    OBVIOUS
  <2>2. QED
    BY <1>1, <2>1, BytesBlock
<1>3. BytesField(18, m.lpp) = Block(C, m, 2)
  <2>1. 8 * 2 + 2 = 18
    OBVIOUS
  <2>2. QED
    BY <1>1, <2>1, BytesBlock
<1>4. RepeatedField(26, m.re_keys) = Block(C, m, 3)
  <2>1. 8 * 3 + 2 = 26
    OBVIOUS
  <2>2. IsMessage(C, m) /\ 3 \in Columns(C)
    BY <1>1 DEF C
  <2>3. QED
    BY <1>1, <2>1, <2>2, RepeatedBlock
<1>5. BytesField(34, m.txid) = Block(C, m, 4)
  <2>1. 8 * 4 + 2 = 34
    OBVIOUS
  <2>2. QED
    BY <1>1, <2>1, BytesBlock
<1>6. UnknownFields(m) = Block(C, m, 5)
  <2>1. 5 = Len(C) + 1
    BY <1>1
  <2>2. QED
    BY <2>1, UnknownBlock
<1> DEFINE ps == Block(C, m, 1) \o Block(C, m, 2) \o Block(C, m, 3)
                      \o Block(C, m, 4)
                      \o Block(C, m, 5)
<1>7. PreReEncryptRequest_MarshalTo(m) = ps
  BY <1>2, <1>3, <1>4, <1>5, <1>6, Zenon DEF PreReEncryptRequest_MarshalTo
<1>8. UpTo(C, m, ps, Len(C) + 1)
  <2>1. IsMessage(C, m)
    BY DEF C
  <2>2. UpTo(C, m, ps, 5) /\ Len(C) + 1 = 5
    BY <1>1, <2>1, FiveColumns
  <2>3. QED
    BY <2>2
<1>9. IsLaid(C, m, ps)
  BY <1>1, <1>8, AllLaid
<1>10. QED
  BY <1>7, <1>9 DEF C

\* The pieces of StorUploadRequest are laid by its table.
LEMMA StorUploadRequestLaid ==
  ASSUME NEW m, IsMessage(UploadCases, m)
  PROVE  IsLaid(UploadCases, m, StorUploadRequest_MarshalTo(m))
<1> DEFINE C == UploadCases
<1>1. /\ IsTable(C) /\ Len(C) = 5 /\ Columns(C) = 1..6
      /\ NameOf(C, 1) = "owner" /\ KindOf(C, 1) = "bytes"
      /\ NameOf(C, 2) = "sig" /\ KindOf(C, 2) = "bytes"
      /\ NameOf(C, 3) = "set" /\ KindOf(C, 3) = "uint32"
      /\ NameOf(C, 4) = "cid" /\ KindOf(C, 4) = "bytes"
      /\ NameOf(C, 5) = "file_size" /\ KindOf(C, 5) = "uint64"
  BY UploadColumns DEF Columns
<1> HIDE DEF C
<1>2. BytesField(10, m.owner) = Block(C, m, 1)
  <2>1. 8 * 1 + 2 = 10
    OBVIOUS
  <2>2. QED
    BY <1>1, <2>1, BytesBlock
<1>3. BytesField(18, m.sig) = Block(C, m, 2)
  <2>1. 8 * 2 + 2 = 18
    OBVIOUS
  <2>2. QED
    BY <1>1, <2>1, BytesBlock
<1>4. NumberField(24, m.set) = Block(C, m, 3)
  <2>1. 8 * 3 = 24
    OBVIOUS
  <2>2. QED
    BY <1>1, <2>1, NumberBlock
<1>5. BytesField(34, m.cid) = Block(C, m, 4)
  <2>1. 8 * 4 + 2 = 34
    OBVIOUS
  <2>2. QED
    BY <1>1, <2>1, BytesBlock
<1>6. NumberField(40, m.file_size) = Block(C, m, 5)
  <2>1. 8 * 5 = 40
    OBVIOUS
  <2>2. QED
    BY <1>1, <2>1, NumberBlock
<1>7. UnknownFields(m) = Block(C, m, 6)
  <2>1. 6 = Len(C) + 1
    BY <1>1
  <2>2. QED
    BY <2>1, UnknownBlock
<1> DEFINE ps == Block(C, m, 1) \o Block(C, m, 2) \o Block(C, m, 3)
                      \o Block(C, m, 4)
                      \o Block(C, m, 5)
                      \o Block(C, m, 6)
<1>8. StorUploadRequest_MarshalTo(m) = ps
  BY <1>2, <1>3, <1>4, <1>5, <1>6, <1>7, Zenon DEF StorUploadRequest_MarshalTo
<1>9. UpTo(C, m, ps, Len(C) + 1)
  <2>1. IsMessage(C, m)
    BY DEF C
  <2>2. UpTo(C, m, ps, 6) /\ Len(C) + 1 = 6
    BY <1>1, <2>1, SixColumns
  <2>3. QED
    BY <2>2
<1>10. IsLaid(C, m, ps)
  BY <1>1, <1>9, AllLaid
<1>11. QED
  BY <1>8, <1>10 DEF C

\* The pieces of StorUploadResponse are laid by its table.
LEMMA StorUploadResponseLaid ==
  ASSUME NEW m, IsMessage(UploadedCases, m)
  PROVE  IsLaid(UploadedCases, m, StorUploadResponse_MarshalTo(m))
<1> DEFINE C == UploadedCases
<1>1. /\ IsTable(C) /\ Len(C) = 3 /\ Columns(C) = 1..4
      /\ NameOf(C, 1) = "error_code" /\ KindOf(C, 1) = "uint32"
      /\ NameOf(C, 2) = "error_msg" /\ KindOf(C, 2) = "bytes"
      /\ NameOf(C, 3) = "uploader" /\ KindOf(C, 3) = "bytes"
  BY UploadedColumns DEF Columns
<1> HIDE DEF C
<1>2. NumberField(8, m.error_code) = Block(C, m, 1)
  <2>1. 8 * 1 = 8
    OBVIOUS
  <2>2. QED
    BY <1>1, <2>1, NumberBlock
<1>3. BytesField(18, m.error_msg) = Block(C, m, 2)
  <2>1. 8 * 2 + 2 = 18
    OBVIOUS
  <2>2. QED
    BY <1>1, <2>1, BytesBlock
<1>4. BytesField(26, m.uploader) = Block(C, m, 3)
  <2>1. 8 * 3 + 2 = 26
    OBVIOUS
  <2>2. QED
    BY <1>1, <2>1, BytesBlock
<1>5. UnknownFields(m) = Block(C, m, 4)
  <2>1. 4 = Len(C) + 1
    BY <1>1
  <2>2. QED
    BY <2>1, UnknownBlock
<1> DEFINE ps == Block(C, m, 1) \o Block(C, m, 2) \o Block(C, m, 3)
                      \o Block(C, m, 4)
<1>6. StorUploadResponse_MarshalTo(m) = ps
  BY <1>2, <1>3, <1>4, <1>5, Zenon DEF StorUploadResponse_MarshalTo
<1>7. UpTo(C, m, ps, Len(C) + 1)
  <2>1. IsMessage(C, m)
    BY DEF C
  <2>2. UpTo(C, m, ps, 4) /\ Len(C) + 1 = 4
    BY <1>1, <2>1, FourColumns
  <2>3. QED
    BY <2>2
<1>8. IsLaid(C, m, ps)
  BY <1>1, <1>7, AllLaid
<1>9. QED
  BY <1>6, <1>8 DEF C

\* The pieces of StorDownloadRequest are laid by its table.
LEMMA StorDownloadRequestLaid ==
  ASSUME NEW m, IsMessage(DownloadCases, m)
  PROVE  IsLaid(DownloadCases, m, StorDownloadRequest_MarshalTo(m))
<1> DEFINE C == DownloadCases
<1>1. /\ IsTable(C) /\ Len(C) = 3 /\ Columns(C) = 1..4
      /\ NameOf(C, 1) = "owner" /\ KindOf(C, 1) = "bytes"
      /\ NameOf(C, 2) = "cid" /\ KindOf(C, 2) = "bytes"
      /\ NameOf(C, 3) = "txid" /\ KindOf(C, 3) = "bytes"
  BY DownloadColumns DEF Columns
<1> HIDE DEF C
<1>2. BytesField(10, m.owner) = Block(C, m, 1)
  <2>1. 8 * 1 + 2 = 10
    OBVIOUS
  <2>2. QED
    BY <1>1, <2>1, BytesBlock
<1>3. BytesField(18, m.cid) = Block(C, m, 2)
  <2>1. 8 * 2 + 2 = 18
    OBVIOUS
  <2>2. QED
    BY <1>1, <2>1, BytesBlock
<1>4. BytesField(26, m.txid) = Block(C, m, 3)
  <2>1. 8 * 3 + 2 = 26
    OBVIOUS
  <2>2. QED
    BY <1>1, <2>1, BytesBlock
<1>5. UnknownFields(m) = Block(C, m, 4)
  <2>1. 4 = Len(C) + 1
    BY <1>1
  <2>2. QED
    BY <2>1, UnknownBlock
<1> DEFINE ps == Block(C, m, 1) \o Block(C, m, 2) \o Block(C, m, 3)
                      \o Block(C, m, 4)
<1>6. StorDownloadRequest_MarshalTo(m) = ps
  BY <1>2, <1>3, <1>4, <1>5, Zenon DEF StorDownloadRequest_MarshalTo
<1>7. UpTo(C, m, ps, Len(C) + 1)
  <2>1. IsMessage(C, m)
    BY DEF C
  <2>2. UpTo(C, m, ps, 4) /\ Len(C) + 1 = 4
    BY <1>1, <2>1, FourColumns
  <2>3. QED
    BY <2>2
<1>8. IsLaid(C, m, ps)
  BY <1>1, <1>7, AllLaid
<1>9. QED
  BY <1>6, <1>8 DEF C

\* The pieces of StorDownloadResponse are laid by its table.
LEMMA StorDownloadResponseLaid ==
  ASSUME NEW m, IsMessage(DownloadedCases, m)
  PROVE  IsLaid(DownloadedCases, m, StorDownloadResponse_MarshalTo(m))
<1> DEFINE C == DownloadedCases
<1>1. /\ IsTable(C) /\ Len(C) = 3 /\ Columns(C) = 1..4
      /\ NameOf(C, 1) = "error_code" /\ KindOf(C, 1) = "uint32"
      /\ NameOf(C, 2) = "error_msg" /\ KindOf(C, 2) = "bytes"
      /\ NameOf(C, 3) = "downloader" /\ KindOf(C, 3) = "bytes"
  BY DownloadedColumns DEF Columns
<1> HIDE DEF C
<1>2. NumberField(8, m.error_code) = Block(C, m, 1)
  <2>1. 8 * 1 = 8
    OBVIOUS
  <2>2. QED
    BY <1>1, <2>1, NumberBlock
<1>3. BytesField(18, m.error_msg) = Block(C, m, 2)
  <2>1. 8 * 2 + 2 = 18
    OBVIOUS
  <2>2. QED
    BY <1>1, <2>1, BytesBlock
<1>4. BytesField(26, m.downloader) = Block(C, m, 3)
  <2>1. 8 * 3 + 2 = 26
    OBVIOUS
  <2>2. QED
    BY <1>1, <2>1, BytesBlock
<1>5. UnknownFields(m) = Block(C, m, 4)
  <2>1. 4 = Len(C) + 1
    BY <1>1
  <2>2. QED
    BY <2>1, UnknownBlock
<1> DEFINE ps == Block(C, m, 1) \o Block(C, m, 2) \o Block(C, m, 3)
                      \o Block(C, m, 4)
<1>6. StorDownloadResponse_MarshalTo(m) = ps
  BY <1>2, <1>3, <1>4, <1>5, Zenon DEF StorDownloadResponse_MarshalTo
<1>7. UpTo(C, m, ps, Len(C) + 1)
  <2>1. IsMessage(C, m)
    BY DEF C
  <2>2. UpTo(C, m, ps, 4) /\ Len(C) + 1 = 4
    BY <1>1, <2>1, FourColumns
  <2>3. QED
    BY <2>2
<1>8. IsLaid(C, m, ps)
  BY <1>1, <1>7, AllLaid
<1>9. QED
  BY <1>6, <1>8 DEF C

----------------------------------------------------------------------------
(* The sizes                                                               *)

\* The pieces ps are n bytes.
Fill(ps, n) ==
  ps \in Seq(Seq(Byte)) /\ n \in Nat /\ Len(FlattenSeq(ps)) = n

\* Pieces behind others.
LEMMA FillConcat ==
  ASSUME NEW ps, NEW qs, NEW k, NEW n, Fill(ps, k), Fill(qs, n)
  PROVE  Fill(ps \o qs, k + n)
<1>1. /\ ps \in Seq(Seq(Byte)) /\ qs \in Seq(Seq(Byte))
      /\ k \in Nat /\ n \in Nat
      /\ Len(FlattenSeq(ps)) = k /\ Len(FlattenSeq(qs)) = n
  BY DEF Fill
<1>2. FlattenSeq(ps \o qs) = FlattenSeq(ps) \o FlattenSeq(qs)
  BY <1>1, FlattenConcat
<1>3. FlattenSeq(ps) \in Seq(Byte) /\ FlattenSeq(qs) \in Seq(Byte)
  BY <1>1, FlattenIsBytes
<1>4. Len(FlattenSeq(ps) \o FlattenSeq(qs)) = k + n
  BY <1>1, <1>3, ConcatProperties
<1>5. ps \o qs \in Seq(Seq(Byte))
  BY <1>1, ConcatProperties
<1>6. QED
  BY <1>1, <1>2, <1>4, <1>5 DEF Fill

\* No piece, and one.
LEMMA FillNone == Fill(<<>>, 0)
<1>1. <<>> \in Seq(Seq(Byte)) /\ Len(<<>>) = 0
  OBVIOUS
<1>2. QED
  BY <1>1, FlattenNone DEF Fill

\* One piece fills its own size.
LEMMA FillOne ==
  ASSUME NEW p \in Seq(Byte), NEW n, Len(p) = n
  PROVE  Fill(<<p>>, n)
<1> DEFINE S == Seq(Byte)
<1>1. Append(<<>>, p) = <<p>> /\ <<>> \in Seq(Seq(Byte))
  OBVIOUS
<1>2. FlattenSeq(<<p>>) = FlattenSeq(<<>>) \o p
  BY <1>1, FlattenAppend
<1>3. <<>> \o p = p
  OBVIOUS
<1>4. FlattenSeq(<<p>>) = p
  BY <1>2, <1>3, FlattenNone
<1>5. <<p>> \in Seq(Seq(Byte))
  <2> HIDE DEF S
  <2>1. p \in S => <<p>> \in Seq(S)
    OBVIOUS
  <2>2. QED
    BY <2>1 DEF S
<1>6. Len(p) \in Nat
  OBVIOUS
<1>7. QED
  BY <1>4, <1>5, <1>6 DEF Fill

\* What is written for a string is bytes.
LEMMA BytesPieceIsBytes ==
  ASSUME NEW tag \in Byte, NEW s \in Strings
  PROVE  /\ BytesPiece(tag, s) \in Seq(Byte)
         /\ Len(BytesPiece(tag, s)) = BytesPieceSize(s)
<1> DEFINE e == EncodeVarint(Digits(Len(s)))
<1>1. s \in Seq(Byte) /\ Len(s) \in Length
  BY DEF Strings
<1>2. e \in Seq(Byte)
  BY <1>1, LengthFacts, EncodedIsBytes
<1>3. BytesPiece(tag, s) = <<tag>> \o e \o s
  BY DEF BytesPiece
<1> HIDE DEF e
<1>4. BytesPiece(tag, s) \in Seq(Byte)
  BY <1>1, <1>2, <1>3
<1>5. QED
  BY <1>1, <1>4, SizeOfBytes

\* The fields of each kind, and what Size counts for them.
LEMMA BytesFill ==
  ASSUME NEW tag \in Byte, NEW s \in Strings
  PROVE  Fill(BytesField(tag, s), BytesSize(s))
<1>1. CASE s = <<>>
  BY <1>1, FillNone DEF BytesField, BytesSize
<1>2. CASE s # <<>>
  <2>1. Fill(<<BytesPiece(tag, s)>>, BytesPieceSize(s))
    BY BytesPieceIsBytes, FillOne
  <2>2. QED
    BY <1>2, <2>1 DEF BytesField, BytesSize
<1>3. QED
  BY <1>1, <1>2

\* A number fills the size that was counted for it.
LEMMA NumberFill ==
  ASSUME NEW tag \in Byte, NEW d \in Seq(Digit)
  PROVE  Fill(NumberField(tag, d), NumberSize(d))
<1>1. CASE d = Zero
  BY <1>1, FillNone DEF NumberField, NumberSize
<1>2. CASE d # Zero
  <2> DEFINE e == EncodeVarint(d)
             p == <<tag>> \o e
  <2>1. e \in Seq(Byte) /\ Len(e) = Sov(d)
    BY EncodedIsBytes, SizeOfVarint
  <2> HIDE DEF e
  <2>2. p \in Seq(Byte) /\ Len(p) = 1 + Sov(d)
    BY <2>1
  <2> HIDE DEF p
  <2>3. Fill(<<p>>, 1 + Sov(d))
    BY <2>2, FillOne
  <2>4. QED
    BY <1>2, <2>3 DEF NumberField, NumberSize, p, e
<1>3. QED
  BY <1>1, <1>2

\* So does a repeated field, whatever the number of its elements.
LEMMA RepeatedFill ==
  ASSUME NEW tag \in Byte, NEW ss \in Seq(Strings)
  PROVE  Fill(RepeatedField(tag, ss), RepeatedSize(ss))
<1> DEFINE n == Len(ss)
           qs == RepeatedField(tag, ss)
           Def(f) == [k \in 0..n |-> IF k = 0 THEN 0
                                     ELSE f[k - 1] + BytesPieceSize(ss[k])]
           g == [k \in 0..n |-> End(qs, k)]
           size == CHOOSE f : f = Def(f)
<1>1. n \in Nat /\ DOMAIN ss = 1..n /\ \A k \in 1..n : ss[k] \in Strings
  OBVIOUS
<1>2. qs = [k \in 1..n |-> BytesPiece(tag, ss[k])]
  BY <1>1, Zenon DEF RepeatedField
<1> HIDE DEF qs
<1>3. \A k \in 1..n : qs[k] = BytesPiece(tag, ss[k])
  BY <1>2
<1>4. qs \in Seq(Seq(Byte)) /\ Len(qs) = n
  <2> DEFINE S == Seq(Byte)
  <2> HIDE DEF S
  <2>1. \A k \in 1..n : BytesPiece(tag, ss[k]) \in S
    BY <1>1, BytesPieceIsBytes DEF S
  <2>2. qs \in [1..n -> S]
    BY <1>2, <2>1
  <2>3. qs \in Seq(S) /\ Len(qs) = n
    BY <1>1, <2>2
  <2>4. QED
    BY <2>3 DEF S
<1>5. RepeatedSize(ss) = size[n]
  BY DEF RepeatedSize
<1> HIDE DEF n
<1>6. g = Def(g)
  <2>1. g[0] = 0
    <3>1. SubSeq(qs, 1, 0) = <<>> /\ 0 \in 0..n
      BY <1>1, <1>4
    <3>2. End(qs, 0) = 0
      <4>1. Joined(qs, 0) = <<>>
        BY <3>1, FlattenNone, Zenon DEF Joined
      <4>2. QED
        BY <4>1 DEF End
    <3>3. QED
      BY <3>1, <3>2
  <2>2. ASSUME NEW k \in 1..n
        PROVE  g[k] = g[k - 1] + BytesPieceSize(ss[k])
    <3>1. k \in 0..n /\ k - 1 \in 0..n /\ k \in 1..Len(qs)
      BY <1>1, <1>4
    <3>2. End(qs, k) = End(qs, k - 1) + Len(qs[k])
      BY <1>4, <3>1, NextEnd DEF End, Joined
    <3>3. Len(qs[k]) = BytesPieceSize(ss[k])
      BY <1>1, <1>3, BytesPieceIsBytes
    <3>4. QED
      BY <3>1, <3>2, <3>3
  <2>3. ASSUME NEW k \in 0..n
        PROVE  g[k] = IF k = 0 THEN 0 ELSE g[k - 1] + BytesPieceSize(ss[k])
    <3>1. k = 0 \/ k \in 1..n
      OBVIOUS
    <3> HIDE DEF g
    <3>2. QED
      BY <2>1, <2>2, <3>1
  <2>4. g = [k \in 0..n |-> g[k]]
    OBVIOUS
  <2> HIDE DEF g
  <2>5. QED
    BY <2>3, <2>4
<1> HIDE DEF g
<1>7. size = Def(size)
  BY <1>6
<1> HIDE DEF size
<1> DEFINE T == {k \in Nat : k <= n => size[k] = g[k]}
<1>8. 0 \in T
  <2>1. 0 \in 0..n
    BY <1>1
  <2>2. QED
    BY <1>6, <1>7, <2>1
<1>9. ASSUME NEW k \in Nat, k \in T
      PROVE  k + 1 \in T
  <2>1. SUFFICES ASSUME k + 1 <= n
                 PROVE  size[k + 1] = g[k + 1]
    OBVIOUS
  <2>2. k + 1 \in 0..n /\ k + 1 # 0 /\ (k + 1) - 1 = k /\ k <= n
    BY <1>1, <2>1
  <2>3. size[k] = g[k]
    BY <1>9, <2>2
  <2>4. /\ size[k + 1] = size[k] + BytesPieceSize(ss[k + 1])
        /\ g[k + 1] = g[k] + BytesPieceSize(ss[k + 1])
    BY <1>6, <1>7, <2>2
  <2>5. QED
    BY <2>3, <2>4
<1>10. size[n] = g[n]
  <2> HIDE DEF T
  <2>1. Nat \subseteq T
    BY <1>8, <1>9, NumberInduction
  <2>2. QED
    BY <1>1, <2>1 DEF T
<1>11. g[n] = Len(FlattenSeq(qs)) /\ g[n] \in Nat
  <2>1. n \in 0..n /\ n \in 0..Len(qs)
    BY <1>1, <1>4
  <2>2. g[n] = End(qs, n)
    BY <2>1 DEF g
  <2>3. SubSeq(qs, 1, n) = qs
    BY <1>4
  <2>4. QED
    BY <1>4, <2>1, <2>2, <2>3, EndsGrow DEF End, Joined
<1>12. QED
  BY <1>4, <1>5, <1>10, <1>11 DEF Fill, qs

\* So do the unknown fields.
LEMMA UnknownFill ==
  ASSUME NEW m, m.unknown \in Seq(Byte)
  PROVE  Fill(UnknownFields(m), Len(m.unknown))
<1>1. CASE m.unknown = <<>>
  BY <1>1, FillNone DEF UnknownFields
<1>2. CASE m.unknown # <<>>
  BY <1>2, FillOne DEF UnknownFields
<1>3. QED
  BY <1>1, <1>2

\* What a column of a message is.
LEMMA ColumnIs ==
  ASSUME NEW cases, IsTable(cases), NEW m, IsMessage(cases, m),
         NEW k \in Columns(cases)
  PROVE  /\ KindOf(cases, k) = "bytes" => m[NameOf(cases, k)] \in Strings
         /\ KindOf(cases, k) \in {"uint32", "uint64"} =>
              m[NameOf(cases, k)] \in Seq(Digit)
         /\ KindOf(cases, k) = "repeated" =>
              m[NameOf(cases, k)] \in Seq(Strings)
         /\ KindOf(cases, k) = "unknown" => m[NameOf(cases, k)] \in Seq(Byte)
<1> DEFINE v == m[NameOf(cases, k)]
           kind == KindOf(cases, k)
           S == Values(kind)
           e == Elements(cases, m, k)
<1>1. e \in Seq(S)
  BY DEF IsMessage
<1>2. e = IF kind = "repeated" THEN v ELSE IF v = <<>> THEN <<>> ELSE <<v>>
  BY DEF Elements
<1> HIDE DEF e, v, kind
<1>3. CASE kind = "repeated"
  <2>1. v \in Seq(S) /\ S = Strings
    BY <1>1, <1>2, <1>3 DEF Values
  <2>2. QED
    BY <1>3, <2>1 DEF kind, v
<1>4. CASE kind # "repeated" /\ v # <<>>
  <2>1. e = <<v>>
    BY <1>2, <1>4, Zenon
  <2>2. v \in S
    <3> HIDE DEF S
    <3>1. e[1] \in S /\ e[1] = v
      BY <1>1, <2>1
    <3>2. QED
      BY <3>1
  <2>3. kind = "bytes" => v \in Strings
    BY <2>2 DEF Values
  <2>4. kind \in {"uint32", "uint64"} => v \in Seq(Digit)
    BY <2>2, Uint32Fits, Uint64Fits DEF Values
  <2>5. kind = "unknown" => v \in Seq(Byte)
    BY <2>2 DEF Values
  <2>6. QED
    BY <1>4, <2>3, <2>4, <2>5 DEF kind, v
<1>5. CASE kind # "repeated" /\ v = <<>>
  <2>1. <<>> \in Seq(Byte) /\ <<>> \in Seq(Digit) /\ Len(<<>>) = 0
    OBVIOUS
  <2>2. 0 \in Length
    BY DEF Length, Digit
  <2>3. <<>> \in Strings
    BY <2>1, <2>2 DEF Strings
  <2>4. QED
    BY <1>5, <2>1, <2>3 DEF kind, v
<1>6. QED
  BY <1>3, <1>4, <1>5

\* The sizes of the messages.
LEMMA OtChoiceRequestFill ==
  ASSUME NEW m, IsMessage(ChoiceCases, m)
  PROVE  Fill(OtChoiceRequest_MarshalTo(m), OtChoiceRequest_Size(m))
<1> DEFINE C == ChoiceCases
<1>1. /\ IsTable(C) /\ Columns(C) = 1..5
      /\ NameOf(C, 1) = "cid" /\ KindOf(C, 1) = "bytes"
      /\ NameOf(C, 2) = "owner" /\ KindOf(C, 2) = "bytes"
      /\ NameOf(C, 3) = "yp" /\ KindOf(C, 3) = "bytes"
      /\ NameOf(C, 4) = "lp" /\ KindOf(C, 4) = "bytes"
      /\ NameOf(C, 5) = "unknown" /\ KindOf(C, 5) = "unknown"
  BY ChoiceColumns DEF Columns, NameOf, KindOf
<1> HIDE DEF C
<1>2. IsMessage(C, m)
  BY DEF C
<1>3. m.cid \in Strings
  <2>1. 1 \in Columns(C)
    BY <1>1
  <2>2. QED
    BY <1>1, <1>2, <2>1, ColumnIs
<1>4. m.owner \in Strings
  <2>1. 2 \in Columns(C)
    BY <1>1
  <2>2. QED
    BY <1>1, <1>2, <2>1, ColumnIs
<1>5. m.yp \in Strings
  <2>1. 3 \in Columns(C)
    BY <1>1
  <2>2. QED
    BY <1>1, <1>2, <2>1, ColumnIs
<1>6. m.lp \in Strings
  <2>1. 4 \in Columns(C)
    BY <1>1
  <2>2. QED
    BY <1>1, <1>2, <2>1, ColumnIs
<1>7. m.unknown \in Seq(Byte)
  <2>1. 5 \in Columns(C)
    BY <1>1
  <2>2. QED
    BY <1>1, <1>2, <2>1, ColumnIs
<1>8. Fill(BytesField(10, m.cid), BytesSize(m.cid))
  <2>1. 10 \in Byte
    BY DEF Byte
  <2>2. QED
    BY <1>3, <2>1, BytesFill
<1>9. Fill(BytesField(18, m.owner), BytesSize(m.owner))
  <2>1. 18 \in Byte
    BY DEF Byte
  <2>2. QED
    BY <1>4, <2>1, BytesFill
<1>10. Fill(BytesField(26, m.yp), BytesSize(m.yp))
  <2>1. 26 \in Byte
    BY DEF Byte
  <2>2. QED
    BY <1>5, <2>1, BytesFill
<1>11. Fill(BytesField(34, m.lp), BytesSize(m.lp))
  <2>1. 34 \in Byte
    BY DEF Byte
  <2>2. QED
    BY <1>6, <2>1, BytesFill
<1>12. Fill(UnknownFields(m), Len(m.unknown))
  BY <1>7, UnknownFill
<1>13. QED
  BY <1>8, <1>9, <1>10, <1>11, <1>12, FillConcat, Zenon
     DEF OtChoiceRequest_MarshalTo, OtChoiceRequest_Size

\* OtChoiceResponse fills the size that was counted for it.
LEMMA OtChoiceResponseFill ==
  ASSUME NEW m, IsMessage(ErrorCases, m)
  PROVE  Fill(OtChoiceResponse_MarshalTo(m), OtChoiceResponse_Size(m))
<1> DEFINE C == ErrorCases
<1>1. /\ IsTable(C) /\ Columns(C) = 1..3
      /\ NameOf(C, 1) = "error_code" /\ KindOf(C, 1) = "uint32"
      /\ NameOf(C, 2) = "error_msg" /\ KindOf(C, 2) = "bytes"
      /\ NameOf(C, 3) = "unknown" /\ KindOf(C, 3) = "unknown"
  BY ErrorColumns DEF Columns, NameOf, KindOf
<1> HIDE DEF C
<1>2. IsMessage(C, m)
  BY DEF C
<1>3. m.error_code \in Seq(Digit)
  <2>1. 1 \in Columns(C)
    BY <1>1
  <2>2. QED
    BY <1>1, <1>2, <2>1, ColumnIs
<1>4. m.error_msg \in Strings
  <2>1. 2 \in Columns(C)
    BY <1>1
  <2>2. QED
    BY <1>1, <1>2, <2>1, ColumnIs
<1>5. m.unknown \in Seq(Byte)
  <2>1. 3 \in Columns(C)
    BY <1>1
  <2>2. QED
    BY <1>1, <1>2, <2>1, ColumnIs
<1>6. Fill(NumberField(8, m.error_code), NumberSize(m.error_code))
  <2>1. 8 \in Byte
    BY DEF Byte
  <2>2. QED
    BY <1>3, <2>1, NumberFill
<1>7. Fill(BytesField(18, m.error_msg), BytesSize(m.error_msg))
  <2>1. 18 \in Byte
    BY DEF Byte
  <2>2. QED
    BY <1>4, <2>1, BytesFill
<1>8. Fill(UnknownFields(m), Len(m.unknown))
  BY <1>5, UnknownFill
<1>9. QED
  BY <1>6, <1>7, <1>8, FillConcat, Zenon
     DEF OtChoiceResponse_MarshalTo, OtChoiceResponse_Size

\* PreReEncryptResponse fills the size that was counted for it.
LEMMA PreReEncryptResponseFill ==
  ASSUME NEW m, IsMessage(ErrorCases, m)
  PROVE  Fill(PreReEncryptResponse_MarshalTo(m), PreReEncryptResponse_Size(m))
<1> DEFINE C == ErrorCases
<1>1. /\ IsTable(C) /\ Columns(C) = 1..3
      /\ NameOf(C, 1) = "error_code" /\ KindOf(C, 1) = "uint32"
      /\ NameOf(C, 2) = "error_msg" /\ KindOf(C, 2) = "bytes"
      /\ NameOf(C, 3) = "unknown" /\ KindOf(C, 3) = "unknown"
  BY ErrorColumns DEF Columns, NameOf, KindOf
<1> HIDE DEF C
<1>2. IsMessage(C, m)
  BY DEF C
<1>3. m.error_code \in Seq(Digit)
  <2>1. 1 \in Columns(C)
    BY <1>1
  <2>2. QED
    BY <1>1, <1>2, <2>1, ColumnIs
<1>4. m.error_msg \in Strings
  <2>1. 2 \in Columns(C)
    BY <1>1
  <2>2. QED
    BY <1>1, <1>2, <2>1, ColumnIs
<1>5. m.unknown \in Seq(Byte)
  <2>1. 3 \in Columns(C)
    BY <1>1
  <2>2. QED
    BY <1>1, <1>2, <2>1, ColumnIs
<1>6. Fill(NumberField(8, m.error_code), NumberSize(m.error_code))
  <2>1. 8 \in Byte
    BY DEF Byte
  <2>2. QED
    BY <1>3, <2>1, NumberFill
<1>7. Fill(BytesField(18, m.error_msg), BytesSize(m.error_msg))
  <2>1. 18 \in Byte
    BY DEF Byte
  <2>2. QED
    BY <1>4, <2>1, BytesFill
<1>8. Fill(UnknownFields(m), Len(m.unknown))
  BY <1>5, UnknownFill
<1>9. QED
  BY <1>6, <1>7, <1>8, FillConcat, Zenon
     DEF PreReEncryptResponse_MarshalTo, PreReEncryptResponse_Size

\* PreReEncryptRequest fills the size that was counted for it.
LEMMA PreReEncryptRequestFill ==
  ASSUME NEW m, IsMessage(ReEncryptCases, m)
  PROVE  Fill(PreReEncryptRequest_MarshalTo(m), PreReEncryptRequest_Size(m))
<1> DEFINE C == ReEncryptCases
<1>1. /\ IsTable(C) /\ Columns(C) = 1..5
      /\ NameOf(C, 1) = "cid" /\ KindOf(C, 1) = "bytes"
      /\ NameOf(C, 2) = "lpp" /\ KindOf(C, 2) = "bytes"
      /\ NameOf(C, 3) = "re_keys" /\ KindOf(C, 3) = "repeated"
      /\ NameOf(C, 4) = "txid" /\ KindOf(C, 4) = "bytes"
      /\ NameOf(C, 5) = "unknown" /\ KindOf(C, 5) = "unknown"
  BY ReEncryptColumns DEF Columns, NameOf, KindOf
<1> HIDE DEF C
<1>2. IsMessage(C, m)
  BY DEF C
<1>3. m.cid \in Strings
  <2>1. 1 \in Columns(C)
    BY <1>1
  <2>2. QED
    BY <1>1, <1>2, <2>1, ColumnIs
<1>4. m.lpp \in Strings
  <2>1. 2 \in Columns(C)
    BY <1>1
  <2>2. QED
    BY <1>1, <1>2, <2>1, ColumnIs
<1>5. m.re_keys \in Seq(Strings)
  <2>1. 3 \in Columns(C)
    BY <1>1
  <2>2. QED
    BY <1>1, <1>2, <2>1, ColumnIs
<1>6. m.txid \in Strings
  <2>1. 4 \in Columns(C)
    BY <1>1
  <2>2. QED
    BY <1>1, <1>2, <2>1, ColumnIs
<1>7. m.unknown \in Seq(Byte)
  <2>1. 5 \in Columns(C)
    BY <1>1
  <2>2. QED
    BY <1>1, <1>2, <2>1, ColumnIs
<1>8. Fill(BytesField(10, m.cid), BytesSize(m.cid))
  <2>1. 10 \in Byte
    BY DEF Byte
  <2>2. QED
    BY <1>3, <2>1, BytesFill
<1>9. Fill(BytesField(18, m.lpp), BytesSize(m.lpp))
  <2>1. 18 \in Byte
    BY DEF Byte
  <2>2. QED
    BY <1>4, <2>1, BytesFill
<1>10. Fill(RepeatedField(26, m.re_keys), RepeatedSize(m.re_keys))
  <2>1. 26 \in Byte
    BY DEF Byte
  <2>2. QED
    BY <1>5, <2>1, RepeatedFill
<1>11. Fill(BytesField(34, m.txid), BytesSize(m.txid))
  <2>1. 34 \in Byte
    BY DEF Byte
  <2>2. QED
    BY <1>6, <2>1, BytesFill
<1>12. Fill(UnknownFields(m), Len(m.unknown))
  BY <1>7, UnknownFill
<1>13. QED
  BY <1>8, <1>9, <1>10, <1>11, <1>12, FillConcat, Zenon
     DEF PreReEncryptRequest_MarshalTo, PreReEncryptRequest_Size

\* StorUploadRequest fills the size that was counted for it.
LEMMA StorUploadRequestFill ==
  ASSUME NEW m, IsMessage(UploadCases, m)
  PROVE  Fill(StorUploadRequest_MarshalTo(m), StorUploadRequest_Size(m))
<1> DEFINE C == UploadCases
<1>1. /\ IsTable(C) /\ Columns(C) = 1..6
      /\ NameOf(C, 1) = "owner" /\ KindOf(C, 1) = "bytes"
      /\ NameOf(C, 2) = "sig" /\ KindOf(C, 2) = "bytes"
      /\ NameOf(C, 3) = "set" /\ KindOf(C, 3) = "uint32"
      /\ NameOf(C, 4) = "cid" /\ KindOf(C, 4) = "bytes"
      /\ NameOf(C, 5) = "file_size" /\ KindOf(C, 5) = "uint64"
      /\ NameOf(C, 6) = "unknown" /\ KindOf(C, 6) = "unknown"
  BY UploadColumns DEF Columns, NameOf, KindOf
<1> HIDE DEF C
<1>2. IsMessage(C, m)
  BY DEF C
<1>3. m.owner \in Strings
  <2>1. 1 \in Columns(C)
    BY <1>1
  <2>2. QED
    BY <1>1, <1>2, <2>1, ColumnIs
<1>4. m.sig \in Strings
  <2>1. 2 \in Columns(C)
    BY <1>1
  <2>2. QED
    BY <1>1, <1>2, <2>1, ColumnIs
<1>5. m.set \in Seq(Digit)
  <2>1. 3 \in Columns(C)
    BY <1>1
  <2>2. QED
    BY <1>1, <1>2, <2>1, ColumnIs
<1>6. m.cid \in Strings
  <2>1. 4 \in Columns(C)
    BY <1>1
  <2>2. QED
    BY <1>1, <1>2, <2>1, ColumnIs
<1>7. m.file_size \in Seq(Digit)
  <2>1. 5 \in Columns(C)
    BY <1>1
  <2>2. QED
    BY <1>1, <1>2, <2>1, ColumnIs
<1>8. m.unknown \in Seq(Byte)
  <2>1. 6 \in Columns(C)
    BY <1>1
  <2>2. QED
    BY <1>1, <1>2, <2>1, ColumnIs
<1>9. Fill(BytesField(10, m.owner), BytesSize(m.owner))
  <2>1. 10 \in Byte
    BY DEF Byte
  <2>2. QED
    BY <1>3, <2>1, BytesFill
<1>10. Fill(BytesField(18, m.sig), BytesSize(m.sig))
  <2>1. 18 \in Byte
    BY DEF Byte
  <2>2. QED
    BY <1>4, <2>1, BytesFill
<1>11. Fill(NumberField(24, m.set), NumberSize(m.set))
  <2>1. 24 \in Byte
    BY DEF Byte
  <2>2. QED
    BY <1>5, <2>1, NumberFill
<1>12. Fill(BytesField(34, m.cid), BytesSize(m.cid))
  <2>1. 34 \in Byte
    BY DEF Byte
  <2>2. QED
    BY <1>6, <2>1, BytesFill
<1>13. Fill(NumberField(40, m.file_size), NumberSize(m.file_size))
  <2>1. 40 \in Byte
    BY DEF Byte
  <2>2. QED
    BY <1>7, <2>1, NumberFill
<1>14. Fill(UnknownFields(m), Len(m.unknown))
  BY <1>8, UnknownFill
<1>15. QED
  BY <1>9, <1>10, <1>11, <1>12, <1>13, <1>14, FillConcat, ZenonT(30)
     DEF StorUploadRequest_MarshalTo, StorUploadRequest_Size

\* StorUploadResponse fills the size that was counted for it.
LEMMA StorUploadResponseFill ==
  ASSUME NEW m, IsMessage(UploadedCases, m)
  PROVE  Fill(StorUploadResponse_MarshalTo(m), StorUploadResponse_Size(m))
<1> DEFINE C == UploadedCases
<1>1. /\ IsTable(C) /\ Columns(C) = 1..4
      /\ NameOf(C, 1) = "error_code" /\ KindOf(C, 1) = "uint32"
      /\ NameOf(C, 2) = "error_msg" /\ KindOf(C, 2) = "bytes"
      /\ NameOf(C, 3) = "uploader" /\ KindOf(C, 3) = "bytes"
      /\ NameOf(C, 4) = "unknown" /\ KindOf(C, 4) = "unknown"
  BY UploadedColumns DEF Columns, NameOf, KindOf
<1> HIDE DEF C
<1>2. IsMessage(C, m)
  BY DEF C
<1>3. m.error_code \in Seq(Digit)
  <2>1. 1 \in Columns(C)
    BY <1>1
  <2>2. QED
    BY <1>1, <1>2, <2>1, ColumnIs
<1>4. m.error_msg \in Strings
  <2>1. 2 \in Columns(C)
    BY <1>1
  <2>2. QED
    BY <1>1, <1>2, <2>1, ColumnIs
<1>5. m.uploader \in Strings
  <2>1. 3 \in Columns(C)
    BY <1>1
  <2>2. QED
    BY <1>1, <1>2, <2>1, ColumnIs
<1>6. m.unknown \in Seq(Byte)
  <2>1. 4 \in Columns(C)
    BY <1>1
  <2>2. QED
    BY <1>1, <1>2, <2>1, ColumnIs
<1>7. Fill(NumberField(8, m.error_code), NumberSize(m.error_code))
  <2>1. 8 \in Byte
    BY DEF Byte
  <2>2. QED
    BY <1>3, <2>1, NumberFill
<1>8. Fill(BytesField(18, m.error_msg), BytesSize(m.error_msg))
  <2>1. 18 \in Byte
    BY DEF Byte
  <2>2. QED
    BY <1>4, <2>1, BytesFill
<1>9. Fill(BytesField(26, m.uploader), BytesSize(m.uploader))
  <2>1. 26 \in Byte
    BY DEF Byte
  <2>2. QED
    BY <1>5, <2>1, BytesFill
<1>10. Fill(UnknownFields(m), Len(m.unknown))
  BY <1>6, UnknownFill
<1>11. QED
  BY <1>7, <1>8, <1>9, <1>10, FillConcat, Zenon
     DEF StorUploadResponse_MarshalTo, StorUploadResponse_Size

\* StorDownloadRequest fills the size that was counted for it.
LEMMA StorDownloadRequestFill ==
  ASSUME NEW m, IsMessage(DownloadCases, m)
  PROVE  Fill(StorDownloadRequest_MarshalTo(m), StorDownloadRequest_Size(m))
<1> DEFINE C == DownloadCases
<1>1. /\ IsTable(C) /\ Columns(C) = 1..4
      /\ NameOf(C, 1) = "owner" /\ KindOf(C, 1) = "bytes"
      /\ NameOf(C, 2) = "cid" /\ KindOf(C, 2) = "bytes"
      /\ NameOf(C, 3) = "txid" /\ KindOf(C, 3) = "bytes"
      /\ NameOf(C, 4) = "unknown" /\ KindOf(C, 4) = "unknown"
  BY DownloadColumns DEF Columns, NameOf, KindOf
<1> HIDE DEF C
<1>2. IsMessage(C, m)
  BY DEF C
<1>3. m.owner \in Strings
  <2>1. 1 \in Columns(C)
    BY <1>1
  <2>2. QED
    BY <1>1, <1>2, <2>1, ColumnIs
<1>4. m.cid \in Strings
  <2>1. 2 \in Columns(C)
    BY <1>1
  <2>2. QED
    BY <1>1, <1>2, <2>1, ColumnIs
<1>5. m.txid \in Strings
  <2>1. 3 \in Columns(C)
    BY <1>1
  <2>2. QED
    BY <1>1, <1>2, <2>1, ColumnIs
<1>6. m.unknown \in Seq(Byte)
  <2>1. 4 \in Columns(C)
    BY <1>1
  <2>2. QED
    BY <1>1, <1>2, <2>1, ColumnIs
<1>7. Fill(BytesField(10, m.owner), BytesSize(m.owner))
  <2>1. 10 \in Byte
    BY DEF Byte
  <2>2. QED
    BY <1>3, <2>1, BytesFill
<1>8. Fill(BytesField(18, m.cid), BytesSize(m.cid))
  <2>1. 18 \in Byte
    BY DEF Byte
  <2>2. QED
    BY <1>4, <2>1, BytesFill
<1>9. Fill(BytesField(26, m.txid), BytesSize(m.txid))
  <2>1. 26 \in Byte
    BY DEF Byte
  <2>2. QED
    BY <1>5, <2>1, BytesFill
<1>10. Fill(UnknownFields(m), Len(m.unknown))
  BY <1>6, UnknownFill
<1>11. QED
  BY <1>7, <1>8, <1>9, <1>10, FillConcat, Zenon
     DEF StorDownloadRequest_MarshalTo, StorDownloadRequest_Size

\* StorDownloadResponse fills the size that was counted for it.
LEMMA StorDownloadResponseFill ==
  ASSUME NEW m, IsMessage(DownloadedCases, m)
  PROVE  Fill(StorDownloadResponse_MarshalTo(m), StorDownloadResponse_Size(m))
<1> DEFINE C == DownloadedCases
<1>1. /\ IsTable(C) /\ Columns(C) = 1..4
      /\ NameOf(C, 1) = "error_code" /\ KindOf(C, 1) = "uint32"
      /\ NameOf(C, 2) = "error_msg" /\ KindOf(C, 2) = "bytes"
      /\ NameOf(C, 3) = "downloader" /\ KindOf(C, 3) = "bytes"
      /\ NameOf(C, 4) = "unknown" /\ KindOf(C, 4) = "unknown"
  BY DownloadedColumns DEF Columns, NameOf, KindOf
<1> HIDE DEF C
<1>2. IsMessage(C, m)
  BY DEF C
<1>3. m.error_code \in Seq(Digit)
  <2>1. 1 \in Columns(C)
    BY <1>1
  <2>2. QED
    BY <1>1, <1>2, <2>1, ColumnIs
<1>4. m.error_msg \in Strings
  <2>1. 2 \in Columns(C)
    BY <1>1
  <2>2. QED
    BY <1>1, <1>2, <2>1, ColumnIs
<1>5. m.downloader \in Strings
  <2>1. 3 \in Columns(C)
    BY <1>1
  <2>2. QED
    BY <1>1, <1>2, <2>1, ColumnIs
<1>6. m.unknown \in Seq(Byte)
  <2>1. 4 \in Columns(C)
    BY <1>1
  <2>2. QED
    BY <1>1, <1>2, <2>1, ColumnIs
<1>7. Fill(NumberField(8, m.error_code), NumberSize(m.error_code))
  <2>1. 8 \in Byte
    BY DEF Byte
  <2>2. QED
    BY <1>3, <2>1, NumberFill
<1>8. Fill(BytesField(18, m.error_msg), BytesSize(m.error_msg))
  <2>1. 18 \in Byte
    BY DEF Byte
  <2>2. QED
    BY <1>4, <2>1, BytesFill
<1>9. Fill(BytesField(26, m.downloader), BytesSize(m.downloader))
  <2>1. 26 \in Byte
    BY DEF Byte
  <2>2. QED
    BY <1>5, <2>1, BytesFill
<1>10. Fill(UnknownFields(m), Len(m.unknown))
  BY <1>6, UnknownFill
<1>11. QED
  BY <1>7, <1>8, <1>9, <1>10, FillConcat, Zenon
     DEF StorDownloadResponse_MarshalTo, StorDownloadResponse_Size

----------------------------------------------------------------------------
(* Every message                                                           *)

Types == {"OtChoiceRequest", "OtChoiceResponse", "PreReEncryptRequest",
          "PreReEncryptResponse", "StorUploadRequest", "StorUploadResponse",
          "StorDownloadRequest", "StorDownloadResponse"}

Table(type) ==
  CASE type = "OtChoiceRequest" -> ChoiceCases
    [] type = "OtChoiceResponse" -> ErrorCases
    [] type = "PreReEncryptRequest" -> ReEncryptCases
    [] type = "PreReEncryptResponse" -> ErrorCases
    [] type = "StorUploadRequest" -> UploadCases
    [] type = "StorUploadResponse" -> UploadedCases
    [] type = "StorDownloadRequest" -> DownloadCases
    [] type = "StorDownloadResponse" -> DownloadedCases

\* A message of this type, without unknown fields.
IsPlain(type, m) == IsMessage(Table(type), m) /\ m.unknown = <<>>

\* Unmarshal goes through the cases of the type.
LEMMA TableIs ==
  ASSUME NEW type \in Types
  PROVE  /\ IsTable(Table(type))
         /\ \A b : Unmarshal(type, b) = Decode(Table(type), b)
<1>1. IsTable(Table(type))
  BY ChoiceColumns, ErrorColumns, ReEncryptColumns, UploadColumns,
     UploadedColumns, DownloadColumns, DownloadedColumns DEF Types, Table
<1>2. ASSUME NEW b
      PROVE  Unmarshal(type, b) = Decode(Table(type), b)
  <2>1. /\ OtChoiceRequest_Unmarshal(b) = Decode(ChoiceCases, b)
        /\ OtChoiceResponse_Unmarshal(b) = Decode(ErrorCases, b)
        /\ PreReEncryptRequest_Unmarshal(b) = Decode(ReEncryptCases, b)
        /\ PreReEncryptResponse_Unmarshal(b) = Decode(ErrorCases, b)
        /\ StorUploadRequest_Unmarshal(b) = Decode(UploadCases, b)
        /\ StorUploadResponse_Unmarshal(b) = Decode(UploadedCases, b)
        /\ StorDownloadRequest_Unmarshal(b) = Decode(DownloadCases, b)
        /\ StorDownloadResponse_Unmarshal(b) = Decode(DownloadedCases, b)
    BY DEF OtChoiceRequest_Unmarshal, OtChoiceResponse_Unmarshal,
           PreReEncryptRequest_Unmarshal, PreReEncryptResponse_Unmarshal,
           StorUploadRequest_Unmarshal, StorUploadResponse_Unmarshal,
           StorDownloadRequest_Unmarshal, StorDownloadResponse_Unmarshal,
           ChoiceCases, ErrorCases, ReEncryptCases, UploadCases, UploadedCases,
           DownloadCases, DownloadedCases
  <2>2. QED
    BY <2>1 DEF Types, Table, Unmarshal
<1>3. QED
  BY <1>1, <1>2

\* MarshalTo writes column after column, and Size counts that.
LEMMA MessageLaid ==
  ASSUME NEW type \in Types, NEW m, IsMessage(Table(type), m)
  PROVE  /\ IsLaid(Table(type), m, MarshalTo(type, m))
         /\ Fill(MarshalTo(type, m), Size(type, m))
<1>1. CASE type = "OtChoiceRequest"
  BY <1>1, OtChoiceRequestLaid, OtChoiceRequestFill
     DEF Table, MarshalTo, Size
<1>2. CASE type = "OtChoiceResponse"
  BY <1>2, OtChoiceResponseLaid, OtChoiceResponseFill
     DEF Table, MarshalTo, Size
<1>3. CASE type = "PreReEncryptRequest"
  BY <1>3, PreReEncryptRequestLaid, PreReEncryptRequestFill
     DEF Table, MarshalTo, Size
<1>4. CASE type = "PreReEncryptResponse"
  BY <1>4, PreReEncryptResponseLaid, PreReEncryptResponseFill
     DEF Table, MarshalTo, Size
<1>5. CASE type = "StorUploadRequest"
  BY <1>5, StorUploadRequestLaid, StorUploadRequestFill
     DEF Table, MarshalTo, Size
<1>6. CASE type = "StorUploadResponse"
  BY <1>6, StorUploadResponseLaid, StorUploadResponseFill
     DEF Table, MarshalTo, Size
<1>7. CASE type = "StorDownloadRequest"
  BY <1>7, StorDownloadRequestLaid, StorDownloadRequestFill
     DEF Table, MarshalTo, Size
<1>8. CASE type = "StorDownloadResponse"
  BY <1>8, StorDownloadResponseLaid, StorDownloadResponseFill
     DEF Table, MarshalTo, Size
<1>9. QED
  BY <1>1, <1>2, <1>3, <1>4, <1>5, <1>6, <1>7, <1>8 DEF Types

\* Size is the number of bytes that MarshalTo writes (msg.pb.go:923-1111 and
\* 590-907): the buffer is filled, and nothing goes beyond its end.
THEOREM SizeIsExact ==
  ASSUME NEW type \in Types, NEW m, IsMessage(Table(type), m)
  PROVE  /\ Len(FlattenSeq(MarshalTo(type, m))) = Size(type, m)
         /\ Written(type, m) = FlattenSeq(MarshalTo(type, m))
<1> DEFINE ps == MarshalTo(type, m)
           n == Size(type, m)
           b == FlattenSeq(ps)
<1>1. ps \in Seq(Seq(Byte)) /\ n \in Nat /\ Len(b) = n
  BY MessageLaid DEF Fill
<1>2. b \in Seq(Byte)
  BY <1>1, FlattenIsBytes
<1>3. Written(type, m) = [k \in 1..n |-> IF k <= Len(b) THEN b[k] ELSE 0]
  BY DEF Written
<1> HIDE DEF n, b
<1>4. [k \in 1..n |-> IF k <= Len(b) THEN b[k] ELSE 0] = [k \in 1..n |-> b[k]]
  BY <1>1
<1>5. [k \in 1..n |-> b[k]] = b
  BY <1>1, <1>2
<1>6. QED
  BY <1>1, <1>3, <1>4, <1>5 DEF n, b

\* A message decodes to what was written, whatever its numbers and lengths.
THEOREM MessageRoundTrip ==
  ASSUME NEW type \in Types, NEW m, IsMessage(Table(type), m)
  PROVE  Unmarshal(type, Written(type, m)) = {m}
<1> DEFINE C == Table(type)
           ps == MarshalTo(type, m)
<1>1. IsTable(C) /\ Unmarshal(type, FlattenSeq(ps)) = Decode(C, FlattenSeq(ps))
  BY TableIs
<1>2. PICK off : Laid(C, m, ps, off)
  BY MessageLaid DEF IsLaid
<1> HIDE DEF C, ps
<1>3. IsMessage(C, m)
  BY DEF C
<1>4. Decode(C, FlattenSeq(ps)) = {m}
  BY <1>1, <1>2, <1>3, WrittenDecodes
<1>5. Written(type, m) = FlattenSeq(ps)
  BY SizeIsExact DEF ps
<1>6. QED
  BY <1>1, <1>4, <1>5

\* Its fields may come in any order that leaves the elements of a repeated
\* field in theirs.
THEOREM MessageInAnyOrder ==
  ASSUME NEW type \in Types, NEW m, IsMessage(Table(type), m),
         NEW n \in Nat, n = Len(MarshalTo(type, m)),
         NEW ord, Reaches(ord, n), KeepsTags(MarshalTo(type, m), ord, n)
  PROVE  Unmarshal(type, FlattenSeq([j \in 1..n |->
                                       MarshalTo(type, m)[ord[j]]])) = {m}
<1> DEFINE C == Table(type)
           ps == MarshalTo(type, m)
           b == FlattenSeq([j \in 1..n |-> ps[ord[j]]])
<1>1. IsTable(C) /\ Unmarshal(type, b) = Decode(C, b)
  BY TableIs
<1>2. PICK off : Laid(C, m, ps, off)
  BY MessageLaid DEF IsLaid
<1> HIDE DEF C
<1>3. IsMessage(C, m)
  BY DEF C
<1>4. Keeps(C, m, off, ord, n)
  <2> HIDE DEF ps
  <2>1. KeepsTags(ps, ord, n)
    BY DEF ps
  <2>2. QED
    BY <1>1, <1>2, <1>3, <2>1, TagsKeep
<1>5. Decode(C, b) = {m}
  <2> HIDE DEF ps
  <2>1. n = Len(ps)
    BY DEF ps
  <2>2. QED
    BY <1>1, <1>2, <1>3, <1>4, <2>1, AnyOrderDecodes
<1>6. QED
  BY <1>1, <1>5

\* Unknown fields are no column that has been read.
LEMMA PlainCount ==
  ASSUME NEW type \in Types, NEW m, IsPlain(type, m)
  PROVE  Count(Table(type), m, Len(Table(type)) + 1) = 0
<1>1. NameOf(Table(type), Len(Table(type)) + 1) = "unknown"
      /\ KindOf(Table(type), Len(Table(type)) + 1) = "unknown"
  BY DEF NameOf, KindOf
<1>2. m["unknown"] = <<>>
  BY DEF IsPlain
<1>3. Elements(Table(type), m, Len(Table(type)) + 1) = <<>>
  BY <1>1, <1>2 DEF Elements
<1>4. QED
  BY <1>3 DEF Count

\* The message m with the unknown fields x.
IsWith(p, m, x) == p = [m EXCEPT !.unknown = x]

\* A field that only a later version has is kept, and written behind the others
\* when the message is written again.
THEOREM NewerMessage ==
  ASSUME NEW type \in Types, NEW m, IsPlain(type, m),
         NEW x \in Seq(Byte), IsNewField(x),
         NEW n \in 0..Len(MarshalTo(type, m)),
         NEW p, IsWith(p, m, x)
  PROVE  /\ IsMessage(Table(type), p)
         /\ Unmarshal(type, FlattenSeq(InsertAt(MarshalTo(type, m), n + 1, x)))
              = {p}
         /\ Written(type, p) = Written(type, m) \o x
<1> DEFINE C == Table(type)
           ps == MarshalTo(type, m)
           b == FlattenSeq(InsertAt(ps, n + 1, x))
<1>1. IsTable(C) /\ Unmarshal(type, b) = Decode(C, b)
  BY TableIs
<1>2. IsMessage(C, m) /\ Count(C, m, Len(C) + 1) = 0
  BY PlainCount DEF IsPlain
<1>3. PICK off : Laid(C, m, ps, off)
  BY <1>2, MessageLaid DEF IsLaid
<1>4. p = WithNew(C, m, x)
  <2>1. m = [name \in Names(C) |-> m[name]]
    BY <1>2 DEF IsMessage
  <2>2. "unknown" \in Names(C)
    BY DEF Names
  <2> HIDE DEF C
  <2>3. QED
    BY <2>1, <2>2 DEF WithNew, IsWith
<1>5. Written(type, m) = FlattenSeq(ps) /\ ps \in Seq(Seq(Byte))
  BY <1>2, <1>3, SizeIsExact DEF Laid
<1>6. n \in 0..Len(ps)
  OBVIOUS
<1> HIDE DEF ps
<1>7. Decode(C, b) = {p}
  <2> HIDE DEF C
  <2>1. QED
    BY <1>1, <1>2, <1>3, <1>4, <1>6, NewFieldKept
<1>8. IsMessage(C, p) /\ \E o : Laid(C, p, Append(ps, x), o)
  <2> HIDE DEF C
  <2>1. QED
    BY <1>1, <1>2, <1>3, <1>4, NewLaid
<1>9. MarshalTo(type, p) = Append(ps, x)
  <2> DEFINE qs == MarshalTo(type, p)
             rs == Append(ps, x)
  <2>1. PICK o : Laid(C, p, qs, o)
    BY <1>8, MessageLaid DEF IsLaid
  <2>2. PICK u : Laid(C, p, rs, u)
    BY <1>8
  <2> HIDE DEF C, qs, rs
  <2>3. qs = rs
    BY <1>1, <1>8, <2>1, <2>2, LaidSame
  <2>4. QED
    BY <2>3 DEF qs, rs
<1>10. Written(type, p) = FlattenSeq(Append(ps, x))
  BY <1>8, <1>9, SizeIsExact
<1>11. FlattenSeq(Append(ps, x)) = FlattenSeq(ps) \o x
  BY <1>5, FlattenAppend
<1>12. QED
  BY <1>1, <1>5, <1>7, <1>8, <1>10, <1>11 DEF ps

\* A column starts after the end of those before it.
LEMMA FrontFirst ==
  ASSUME NEW cases, IsTable(cases), NEW m, IsMessage(cases, m),
         NEW ps, NEW off, Laid(cases, m, ps, off), NEW n \in Nat,
         NEW j \in Columns(cases), NEW k \in Columns(cases), j < k,
         FirstOf(off, n, k) # 0
  PROVE  FirstOf(off, n, j) = Count(cases, m, j)
<1> DEFINE N == Len(cases) + 1
           a == off[j]
           b == off[j + 1]
           c == off[k]
           d == off[k + 1]
           e == Count(cases, m, j)
<1>1. N \in Nat /\ Columns(cases) = 1..N
  BY DEF IsTable, Columns
<1>2. Offsets(N, Counts(cases, m), off)
  BY DEF Laid
<1>3. a \in Nat /\ e \in Nat /\ b = a + e
  BY ColumnLies
<1>4. c \in Nat /\ d \in Nat /\ c <= d
  <2>1. c \in Nat /\ Count(cases, m, k) \in Nat /\ d = c + Count(cases, m, k)
    BY ColumnLies
  <2> HIDE DEF c, d
  <2>2. QED
    BY <2>1
<1>5. b <= c
  <2> HIDE DEF N
  <2>1. j \in 1..N /\ k \in 1..(N + 1)
    BY <1>1
  <2>2. QED
    BY <1>1, <1>2, <2>1, OffsetsGrow
<1>6. Lesser(d, n) - Lesser(c, n) # 0
  BY DEF FirstOf
<1>7. FirstOf(off, n, j) = Lesser(b, n) - Lesser(a, n)
  BY DEF FirstOf
<1> HIDE DEF a, b, c, d, e
<1>8. Lesser(b, n) - Lesser(a, n) = e
  BY <1>3, <1>4, <1>5, <1>6 DEF Lesser
<1>9. QED
  BY <1>7, <1>8 DEF e

\* The stream b of a message that was cut holds the first n of its fields, of
\* which c are those of each column.
HoldsFirst(type, m, b, n, c) ==
  /\ n \in 0..Len(MarshalTo(type, m))
  /\ FlattenSeq(SubSeq(MarshalTo(type, m), 1, n)) = b
  /\ Unmarshal(type, b) = {Part(Table(type), m, c)}
  /\ \A k \in Columns(Table(type)) : c[k] \in 0..Count(Table(type), m, k)
  /\ \A j, k \in Columns(Table(type)) :
       j < k /\ c[k] # 0 => c[j] = Count(Table(type), m, j)
  /\ IsMessage(Table(type), Part(Table(type), m, c))
  /\ MarshalTo(type, Part(Table(type), m, c)) = SubSeq(MarshalTo(type, m), 1, n)

\* A stream that was cut decodes only if it was cut between two fields, to the
\* message without the fields that are missing.
THEOREM CutMessage ==
  ASSUME NEW type \in Types, NEW m, IsPlain(type, m),
         NEW l \in Nat, l < Len(Written(type, m)),
         NEW b, b = SubSeq(Written(type, m), 1, l)
  PROVE  \/ /\ Unmarshal(type, b) = {}
            /\ \A n \in 0..Len(MarshalTo(type, m)) :
                 FlattenSeq(SubSeq(MarshalTo(type, m), 1, n)) # b
         \/ \E n, c : HoldsFirst(type, m, b, n, c)
<1> DEFINE C == Table(type)
           ps == MarshalTo(type, m)
<1>1. IsTable(C) /\ Unmarshal(type, b) = Decode(C, b)
  BY TableIs
<1>2. IsMessage(C, m) /\ Count(C, m, Len(C) + 1) = 0
  BY PlainCount DEF IsPlain
<1>3. PICK off : Laid(C, m, ps, off)
  BY <1>2, MessageLaid DEF IsLaid
<1>4. Written(type, m) = FlattenSeq(ps)
  BY <1>2, SizeIsExact
<1>5. b = Cut(FlattenSeq(ps), l) /\ l < Len(FlattenSeq(ps))
  BY <1>4 DEF Cut
<1> HIDE DEF C, ps
<1>6. \/ CutWithin(C, ps, b)
      \/ \E n : CutBetween(C, m, ps, off, b, n)
  BY <1>1, <1>2, <1>3, <1>5, CutDecodes
<1>7. CASE CutWithin(C, ps, b)
  BY <1>1, <1>7 DEF CutWithin, Joined, ps
<1>8. ASSUME NEW n, CutBetween(C, m, ps, off, b, n)
      PROVE  \E c : HoldsFirst(type, m, b, n, c)
  <2> DEFINE c == Taken(C, off, n)
             p == Part(C, m, c)
  <2>1. n \in 0..Len(ps) /\ FlattenSeq(SubSeq(ps, 1, n)) = b
        /\ Unmarshal(type, b) = {p}
    BY <1>1, <1>8 DEF CutBetween, Joined
  <2>2. \A k \in Columns(C) : c[k] \in 0..Count(C, m, k)
    <3>1. SUFFICES ASSUME NEW k \in Columns(C)
                   PROVE  c[k] \in 0..Count(C, m, k)
      OBVIOUS
    <3>2. c[k] = FirstOf(off, n, k)
      BY DEF Taken
    <3>3. n \in Nat
      BY <2>1
    <3>4. QED
      BY <1>1, <1>2, <1>3, <3>2, <3>3, FirstAre
  <2>3. IsMessage(C, p) /\ \E o : Laid(C, p, SubSeq(ps, 1, n), o)
    BY <1>1, <1>2, <1>3, <2>1, PartLaid
  <2>7. ASSUME NEW j \in Columns(C), NEW k \in Columns(C), j < k, c[k] # 0
        PROVE  c[j] = Count(C, m, j)
    <3>1. c[j] = FirstOf(off, n, j) /\ c[k] = FirstOf(off, n, k)
      BY DEF Taken
    <3>2. n \in Nat
      BY <2>1
    <3> HIDE DEF c
    <3>3. QED
      BY <1>1, <1>2, <1>3, <2>7, <3>1, <3>2, FrontFirst
  <2> HIDE DEF c, p
  <2>4. MarshalTo(type, p) = SubSeq(ps, 1, n)
    <3> DEFINE qs == MarshalTo(type, p)
               rs == SubSeq(ps, 1, n)
    <3>1. PICK o : Laid(C, p, qs, o)
      BY <2>3, MessageLaid DEF IsLaid, C
    <3>2. PICK u : Laid(C, p, rs, u)
      BY <2>3
    <3> HIDE DEF qs, rs
    <3>3. qs = rs
      BY <1>1, <2>3, <3>1, <3>2, LaidSame
    <3>4. QED
      BY <3>3 DEF qs, rs
  <2>5. HoldsFirst(type, m, b, n, c)
    BY <2>1, <2>2, <2>3, <2>4, <2>7 DEF HoldsFirst, C, ps, p
  <2>6. QED
    BY <2>5
<1>9. QED
  BY <1>6, <1>7, <1>8
===============================================================================
