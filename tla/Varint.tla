------------------------------- MODULE Varint ---------------------------------
(***************************************************************************)
(* The integers of node/protocol/pb/msg.pb.go on the wire.  An integer is  *)
(* the sequence of its digits in base 128, the least significant one first *)
(* and without zeros at the end: a uint64 does not fit the integers of TLC.*)
(* On the wire each digit is a byte, and all but the last have 128 added.  *)
(***************************************************************************)
EXTENDS Integers, Sequences

Byte == 0..255
Digit == 0..127

Canonical(d) == d = <<>> \/ d[Len(d)] # 0

Zero == <<>>

DigitAt(d, k) == IF k <= Len(d) THEN d[k] ELSE 0

\* d without the zeros at its end.
Trim(d) ==
  SubSeq(d, 1, CHOOSE n \in 0..Len(d) :
                 /\ n = 0 \/ d[n] # 0
                 /\ \A k \in (n + 1)..Len(d) : d[k] = 0)

\* The digits of n < 128^4, as large as a length gets here.
Digits(n) ==
  LET n2 == n \div 128
      n3 == n2 \div 128
  IN Trim(<<n % 128, n2 % 128, n3 % 128, n3 \div 128>>)

\* The integer of d, if it has no more than four digits.
IntOf(d) ==
  DigitAt(d, 1)
    + 128 * (DigitAt(d, 2) + 128 * (DigitAt(d, 3) + 128 * DigitAt(d, 4)))

\* The low bits of d, as an integer type of that width holds them.
Low(d, bits) ==
  Trim([k \in DOMAIN d |->
          IF 7 * k <= bits THEN d[k]
          ELSE IF 7 * (k - 1) < bits THEN d[k] % 2^(bits - 7 * (k - 1))
          ELSE 0])

\* The integers of a type of that width.
Uints(bits) == {d \in Seq(Digit) : Low(d, bits) = d}

EncodeVarint(d) ==
  IF d = Zero THEN <<0>>
  ELSE [k \in DOMAIN d |-> IF k < Len(d) THEN d[k] + 128 ELSE d[k]]

\* The number of bytes of EncodeVarint.
Sov(d) == IF d = Zero THEN 1 ELSE Len(d)

\* The outcome of reading: where to go on, or 0 after an error.
Unreadable == [digits |-> Zero, next |-> 0]

\* Reads bytes from i on up to the first one below 128: there must be one, and
\* among ten bytes (the 64 bits of the shift).
ReadVarint(b, i) ==
  LET ends == {j \in i..(i + 9) : j <= Len(b) /\ b[j] < 128}
      end == CHOOSE j \in ends : \A k \in ends : j <= k
  IN IF ends = {} THEN Unreadable
     ELSE [digits |-> Low([k \in 1..(end - i + 1) |-> b[i + k - 1] % 128], 64),
           next |-> end + 1]
=============================================================================
