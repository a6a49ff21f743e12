------------------------------- MODULE Fields ---------------------------------
(***************************************************************************)
(* The fields of the messages of node/protocol/pb on the wire: how         *)
(* MarshalTo writes one, what Size counts for it, and how Unmarshal reads  *)
(* its tag and its value.  Messages puts them together.                    *)
(***************************************************************************)
EXTENDS Varint

----------------------------------------------------------------------------
(* Writing and counting                                                    *)

\* A tag, a length and a string or bytes; a tag and a number.  What is empty or
\* zero is not written.
BytesPiece(tag, s) == <<tag>> \o EncodeVarint(Digits(Len(s))) \o s

BytesField(tag, s) == IF s = <<>> THEN <<>> ELSE <<BytesPiece(tag, s)>>
NumberField(tag, d) ==
  IF d = Zero THEN <<>> ELSE << <<tag>> \o EncodeVarint(d) >>

BytesPieceSize(s) == 1 + Len(s) + Sov(Digits(Len(s)))
BytesSize(s) == IF s = <<>> THEN 0 ELSE BytesPieceSize(s)
NumberSize(d) == IF d = Zero THEN 0 ELSE 1 + Sov(d)

----------------------------------------------------------------------------
(* Reading                                                                 *)

\* The two halves of a tag: the wire type, and the field number as an int32,
\* negative (for which -1 stands) if its highest bit is set.
WireType(tag) == DigitAt(tag, 1) % 8
FieldNum(tag) ==
  IF DigitAt(tag, 5) >= 64 THEN -1
  ELSE DigitAt(tag, 1) \div 8 + 16 * DigitAt(tag, 2) + 2048 * DigitAt(tag, 3)
         + 262144 * DigitAt(tag, 4) + 33554432 * DigitAt(tag, 5)

\* Where len bytes from i on end, 0 if they go past the end of b.
After(b, i, len) ==
  IF Len(len) <= 4 /\ i + IntOf(len) <= Len(b) + 1 THEN i + IntOf(len) ELSE 0

\* A case of Unmarshal's switch, for a value that starts at i: the message with
\* the value and the position behind it, none after an error.
ReadNumber(b, i, m, name, bits) ==
  LET number == ReadVarint(b, i)
  IN IF number.next = 0 THEN {}
     ELSE {[m |-> [m EXCEPT ![name] = Low(number.digits, bits)],
            next |-> number.next]}

\* (Faulty variant: a length that goes past the end is not an error.)
ReadBytesUnchecked(b, i, m, name, repeated) ==
  LET len == ReadVarint(b, i)
      next == len.next + IntOf(len.digits)
      s == SubSeq(b, len.next, IF next > Len(b) THEN Len(b) ELSE next - 1)
  IN IF len.next = 0 THEN {}
     ELSE {[m |-> [m EXCEPT ![name] = IF repeated THEN Append(@, s) ELSE s],
            next |-> next]}

ReadBytes(b, i, m, name, repeated) ==
  LET len == ReadVarint(b, i)
      next == After(b, len.next, len.digits)
      s == SubSeq(b, len.next, next - 1)
  IN IF len.next = 0 \/ next = 0 THEN {}
     ELSE {[m |-> [m EXCEPT ![name] = IF repeated THEN Append(@, s) ELSE s],
            next |-> next]}
==============================================================================
