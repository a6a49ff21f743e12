--------------------------- MODULE Handlers_proofs ----------------------------
(***************************************************************************)
(* Proofs about Handlers, for every set of identifiers, points, tickets,   *)
(* answers and new fields: what a call passes to the node of the server    *)
(* and what it returns, whatever becomes of its streams.                   *)
(***************************************************************************)
EXTENDS Handlers, Messages_proofs

----------------------------------------------------------------------------
(* What a reader gets                                                      *)

\* The columns of a type, but for the unknown fields.
Known(type) == 1..Len(Table(type))
NameIn(type, k) == NameOf(Table(type), k)
KindIn(type, k) == KindOf(Table(type), k)

\* The message m has all the fields of msg.
AllFields(type, msg, m) ==
  \A k \in Known(type) : m[NameIn(type, k)] = msg[NameIn(type, k)]

\* m has the first fields of msg: where m has a field, it has those before.
FirstFields(type, msg, m) ==
  \A k \in Known(type) :
    /\ \/ KindIn(type, k) = "repeated"
       \/ m[NameIn(type, k)] \in {msg[NameIn(type, k)], <<>>}
    /\ \/ m[NameIn(type, k)] = <<>>
       \/ \A j \in 1..(k - 1) : m[NameIn(type, j)] = msg[NameIn(type, j)]

\* What comes of the bytes of msg.
Comes(type, msg, h, bytes, new) ==
  LET ps == MarshalTo(type, msg)
  IN \/ h = "whole" /\ bytes = Written(type, msg)
     \/ /\ h = "reordered"
        /\ \E order \in Orders([k \in DOMAIN ps |-> ps[k][1]]) :
             bytes = FlattenSeq([k \in DOMAIN ps |-> ps[order[k]]])
     \/ /\ h = "extended" /\ new \in NewFields
        /\ \E n \in 0..Len(ps) : bytes = FlattenSeq(InsertAt(ps, n + 1, new))
     \/ /\ h = "cut"
        /\ \E n \in 0..(Len(Written(type, msg)) - 1) :
             bytes = SubSeq(Written(type, msg), 1, n)

\* The n-th end of a field is the end of the stream.
EndsAfter(type, msg, bytes, n) ==
  /\ n \in 0..Len(MarshalTo(type, msg))
  /\ FlattenSeq(SubSeq(MarshalTo(type, msg), 1, n)) = bytes

\* What is read of them.
ReadsNone(type, msg, bytes) ==
  /\ Unmarshal(type, bytes) = {}
  /\ \A n : ~EndsAfter(type, msg, bytes, n)

ReadsFirst(type, msg, bytes, m) ==
  /\ Unmarshal(type, bytes) = {m} /\ FirstFields(type, msg, m)
  /\ IsMessage(Table(type), m) /\ m["unknown"] = <<>>
  /\ \E n : /\ EndsAfter(type, msg, bytes, n)
            /\ MarshalTo(type, m) = SubSeq(MarshalTo(type, msg), 1, n)

ReadsNew(type, msg, bytes, new, m) ==
  /\ Unmarshal(type, bytes) = {m}
  /\ IsMessage(Table(type), m)
  /\ m = [msg EXCEPT !.unknown = new]
  /\ Written(type, m) = Written(type, msg) \o new

\* A message of which the first fields have been read.
LEMMA PartFields ==
  ASSUME NEW type \in Types, NEW msg, IsPlain(type, msg),
         NEW b, NEW n, NEW c, HoldsFirst(type, msg, b, n, c)
  PROVE  /\ FirstFields(type, msg, Part(Table(type), msg, c))
         /\ Part(Table(type), msg, c)["unknown"] = <<>>
<1> DEFINE C == Table(type)
           m == Part(C, msg, c)
<1>1. IsTable(C)
  BY TableIs
<1>2. Len(C) \in Nat /\ Columns(C) = 1..(Len(C) + 1)
  BY <1>1 DEF IsTable, Columns
<1>3. \A k \in Columns(C) : c[k] \in 0..Count(C, msg, k)
  BY DEF HoldsFirst
<1>4. \A j, k \in Columns(C) : j < k /\ c[k] # 0 => c[j] = Count(C, msg, j)
  BY DEF HoldsFirst
<1>5. IsMessage(C, msg) /\ Count(C, msg, Len(C) + 1) = 0
  BY PlainCount DEF IsPlain
<1> HIDE DEF C, m
<1>6. ASSUME NEW k \in Columns(C)
      PROVE  m[NameOf(C, k)] = ReadOf(C, msg, c, k)
  BY <1>1, <1>5, PartAt DEF m
<1>7. ASSUME NEW k \in Columns(C), c[k] = 0
      PROVE  m[NameOf(C, k)] = <<>>
  BY <1>1, <1>5, <1>6, <1>7, ReadNone
<1>8. ASSUME NEW k \in Columns(C), c[k] = Count(C, msg, k)
      PROVE  m[NameOf(C, k)] = msg[NameOf(C, k)]
  BY <1>1, <1>5, <1>6, <1>8, ReadAll DEF Count
<1>9. ASSUME NEW k \in 1..Len(C)
      PROVE  /\ \/ KindOf(C, k) = "repeated"
                \/ m[NameOf(C, k)] \in {msg[NameOf(C, k)], <<>>}
             /\ \/ m[NameOf(C, k)] = <<>>
                \/ \A j \in 1..(k - 1) : m[NameOf(C, j)] = msg[NameOf(C, j)]
  <2>1. k \in Columns(C) /\ \A j \in 1..(k - 1) : j \in Columns(C) /\ j < k
    BY <1>2
  <2>2. CASE c[k] = 0
    BY <1>7, <2>1, <2>2
  <2>3. CASE c[k] # 0
    <3>1. \A j \in 1..(k - 1) : m[NameOf(C, j)] = msg[NameOf(C, j)]
      BY <1>4, <1>8, <2>1, <2>3
    <3>2. ASSUME KindOf(C, k) # "repeated"
          PROVE  c[k] = Count(C, msg, k)
      <4>1. Count(C, msg, k) \in 0..1
        <5>1. Elements(C, msg, k) = <<>> \/ \E v : Elements(C, msg, k) = <<v>>
          BY <3>2 DEF Elements
        <5>2. QED
          BY <5>1 DEF Count
      <4>2. QED
        BY <1>3, <2>1, <2>3, <4>1
    <3>3. QED
      BY <1>8, <2>1, <3>1, <3>2
  <2>4. QED
    BY <2>2, <2>3
<1>10. m["unknown"] = <<>>
  <2>1. Len(C) + 1 \in Columns(C) /\ NameOf(C, Len(C) + 1) = "unknown"
    BY <1>2 DEF NameOf
  <2>2. c[Len(C) + 1] = 0
    BY <1>3, <1>5, <2>1
  <2>3. QED
    BY <1>7, <2>1, <2>2
<1>11. QED
  BY <1>9, <1>10 DEF FirstFields, Known, NameIn, KindIn, C, m

\* The pieces of a message are sequences of bytes.
LEMMA PiecesAre ==
  ASSUME NEW type \in Types, NEW msg, IsMessage(Table(type), msg)
  PROVE  /\ MarshalTo(type, msg) \in Seq(Seq(Byte))
         /\ Written(type, msg) = FlattenSeq(MarshalTo(type, msg))
         /\ Written(type, msg) \in Seq(Byte)
<1>1. MarshalTo(type, msg) \in Seq(Seq(Byte))
  BY MessageLaid DEF Fill
<1>2. Written(type, msg) = FlattenSeq(MarshalTo(type, msg))
  BY SizeIsExact
<1>3. QED
  BY <1>1, <1>2, FlattenIsBytes

\* Every new field is one that a reader skips.
LEMMA NewFieldIs ==
  ASSUME NEW x \in NewFields
  PROVE  x \in Seq(Byte) /\ IsNewField(x)
<1>1. LET tag == ReadVarint(x, 1)
      IN /\ x \in Seq(Byte)
         /\ tag.next # 0 /\ WireType(tag.digits) # 4 /\ FieldNum(tag.digits) > 5
         /\ SkipMsg(x, 1) = Len(x) + 1
  BY NewFieldAssumption
<1>2. QED
  BY <1>1 DEF IsNewField

\* An order of the fields keeps them all, and the elements of a repeated field
\* in theirs.
LEMMA OrderIs ==
  ASSUME NEW ps \in Seq(Seq(Byte)), NEW n, n = Len(ps),
         NEW order \in Orders([k \in DOMAIN ps |-> ps[k][1]])
  PROVE  Reaches(order, n) /\ KeepsTags(ps, order, n) /\ DOMAIN ps = 1..n
<1> DEFINE S == Seq(Byte)
           D == 1..n
           tags == [k \in DOMAIN ps |-> ps[k][1]]
<1>1. DOMAIN ps = D
  <2> HIDE DEF S
  <2>1. ps \in Seq(S)
    BY DEF S
  <2>2. QED
    BY <2>1
<1>2. tags = [k \in D |-> ps[k][1]] /\ DOMAIN tags = D
  BY <1>1
<1>3. order \in Bijection(D, D)
  BY <1>2 DEF Orders
<1>4. /\ order \in [D -> D]
      /\ \A i \in D : \E j \in D : order[j] = i
      /\ \A i, j \in D : order[i] = order[j] => i = j
  BY <1>3, Zenon DEF Bijection, Surjection, Injection, IsInjective
<1>5. \A j, k \in D : j < k /\ tags[order[j]] = tags[order[k]]
                        => order[j] < order[k]
  BY <1>2 DEF Orders
<1>6. \A j \in D : order[j] \in D
  BY <1>4
<1>7. \A j \in D : tags[order[j]] = ps[order[j]][1]
  BY <1>2, <1>6
<1> HIDE DEF tags
<1>8. \A i, j \in D : i < j => order[i] # order[j]
  <2>1. ASSUME NEW i \in D, NEW j \in D, i < j, order[i] = order[j]
        PROVE  FALSE
    <3>1. i = j
      BY <1>4, <2>1
    <3>2. n \in Nat
      BY LenProperties
    <3>3. QED
      BY <2>1, <3>1, <3>2
  <2>2. QED
    BY <2>1
<1>9. Reaches(order, n)
  BY <1>4, <1>6 DEF Reaches
<1>10. KeepsTags(ps, order, n)
  BY <1>5, <1>7, <1>8 DEF KeepsTags
<1>11. QED
  BY <1>1, <1>9, <1>10

\* Whatever comes of a message is bytes.
LEMMA ComesBytes ==
  ASSUME NEW type \in Types, NEW msg, IsMessage(Table(type), msg),
         NEW h, NEW bytes, NEW new, Comes(type, msg, h, bytes, new)
  PROVE  bytes \in Seq(Byte)
<1> DEFINE ps == MarshalTo(type, msg)
           w == Written(type, msg)
           S == Seq(Byte)
<1>1. ps \in Seq(S) /\ w \in Seq(Byte)
  BY PiecesAre
<1>2. \/ bytes = w
      \/ \E order \in Orders([k \in DOMAIN ps |-> ps[k][1]]) :
           bytes = FlattenSeq([k \in DOMAIN ps |-> ps[order[k]]])
      \/ /\ new \in NewFields
         /\ \E n \in 0..Len(ps) : bytes = FlattenSeq(InsertAt(ps, n + 1, new))
      \/ \E n \in 0..(Len(w) - 1) : bytes = SubSeq(w, 1, n)
  BY DEF Comes
<1> HIDE DEF ps, w
<1>3. CASE bytes = w
  BY <1>1, <1>3
<1>4. ASSUME NEW order \in Orders([k \in DOMAIN ps |-> ps[k][1]]),
             bytes = FlattenSeq([k \in DOMAIN ps |-> ps[order[k]]])
      PROVE  bytes \in Seq(Byte)
  <2> DEFINE qs == [k \in DOMAIN ps |-> ps[order[k]]]
             n == Len(ps)
  <2>1. Reaches(order, n) /\ DOMAIN ps = 1..n
    BY <1>1, OrderIs
  <2>2. \A k \in 1..n : order[k] \in 1..n
    BY <2>1 DEF Reaches
  <2>3. n \in Nat
    <3> HIDE DEF S
    <3>1. QED
      BY <1>1
  <2>4. qs \in Seq(S)
    <3>1. \A k \in 1..n : ps[order[k]] \in S
      <4> HIDE DEF S
      <4>1. QED
        BY <1>1, <2>1, <2>2
    <3> HIDE DEF S, n
    <3>2. QED
      BY <2>1, <2>3, <3>1
  <2>5. QED
    BY <1>4, <2>4, FlattenIsBytes
<1>5. ASSUME NEW n \in 0..Len(ps), new \in NewFields,
             bytes = FlattenSeq(InsertAt(ps, n + 1, new))
      PROVE  bytes \in Seq(Byte)
  <2>1. new \in S
    BY <1>5, NewFieldIs
  <2>2. InsertAt(ps, n + 1, new) \in Seq(S)
    <3> DEFINE a == SubSeq(ps, 1, (n + 1) - 1)
               c == SubSeq(ps, n + 1, Len(ps))
    <3> HIDE DEF S
    <3>1. a \in Seq(S) /\ c \in Seq(S)
      BY <1>1
    <3>2. InsertAt(ps, n + 1, new) = a \o <<new>> \o c
      BY DEF InsertAt
    <3> HIDE DEF a, c
    <3>3. a \o <<new>> \in Seq(S)
      BY <2>1, <3>1
    <3>4. a \o <<new>> \o c \in Seq(S)
      BY <3>1, <3>3
    <3>5. QED
      BY <3>2, <3>4
  <2>3. QED
    BY <1>5, <2>2, FlattenIsBytes
<1>6. ASSUME NEW n \in 0..(Len(w) - 1), bytes = SubSeq(w, 1, n)
      PROVE  bytes \in Seq(Byte)
  BY <1>1, <1>6
<1>7. QED
  BY <1>2, <1>3, <1>4, <1>5, <1>6
\* What is read of the bytes of a message: the message, with the new field if
\* there is one; or its first fields, if they were cut.
LEMMA WhatIsRead ==
  ASSUME NEW type \in Types, NEW msg, IsPlain(type, msg),
         NEW h, NEW bytes, NEW new, Comes(type, msg, h, bytes, new)
  PROVE  /\ h \in {"whole", "reordered", "extended", "cut"}
         /\ h \in {"whole", "reordered"} => Unmarshal(type, bytes) = {msg}
         /\ h = "extended" =>
              ReadsNew(type, msg, bytes, new, [msg EXCEPT !.unknown = new])
         /\ h = "cut" => \/ ReadsNone(type, msg, bytes)
                         \/ \E m : ReadsFirst(type, msg, bytes, m)
<1> DEFINE ps == MarshalTo(type, msg)
           w == Written(type, msg)
           n == Len(ps)
<1>1. IsMessage(Table(type), msg)
  BY DEF IsPlain
<1>2. ps \in Seq(Seq(Byte)) /\ w = FlattenSeq(ps) /\ w \in Seq(Byte)
  BY <1>1, PiecesAre
<1>3. n \in Nat
  <2> DEFINE S == Seq(Byte)
  <2>1. ps \in Seq(S)
    BY <1>2
  <2> HIDE DEF S, ps
  <2>2. QED
    BY <2>1
<1>4. \/ h = "whole" /\ bytes = w
      \/ /\ h = "reordered"
         /\ \E order \in Orders([k \in DOMAIN ps |-> ps[k][1]]) :
              bytes = FlattenSeq([k \in DOMAIN ps |-> ps[order[k]]])
      \/ /\ h = "extended" /\ new \in NewFields
         /\ \E i \in 0..Len(ps) : bytes = FlattenSeq(InsertAt(ps, i + 1, new))
      \/ /\ h = "cut"
         /\ \E i \in 0..(Len(w) - 1) : bytes = SubSeq(w, 1, i)
  BY DEF Comes
<1>5. CASE h = "whole" /\ bytes = w
  <2>1. Unmarshal(type, bytes) = {msg}
    BY <1>1, <1>5, MessageRoundTrip
  <2>2. QED
    BY <1>5, <2>1
<1>6. ASSUME h = "reordered",
             NEW order \in Orders([k \in DOMAIN ps |-> ps[k][1]]),
             bytes = FlattenSeq([k \in DOMAIN ps |-> ps[order[k]]])
      PROVE  Unmarshal(type, bytes) = {msg}
  <2>1. Reaches(order, n) /\ KeepsTags(ps, order, n) /\ DOMAIN ps = 1..n
    <3> HIDE DEF ps
    <3>1. QED
      BY <1>2, <1>6, OrderIs
  <2>2. bytes = FlattenSeq([j \in 1..n |-> MarshalTo(type, msg)[order[j]]])
    BY <1>6, <2>1
  <2>3. QED
    BY <1>1, <1>3, <2>1, <2>2, MessageInAnyOrder
<1>7. ASSUME h = "extended", new \in NewFields, NEW i \in 0..Len(ps),
             bytes = FlattenSeq(InsertAt(ps, i + 1, new))
      PROVE  ReadsNew(type, msg, bytes, new, [msg EXCEPT !.unknown = new])
  <2> DEFINE p == [msg EXCEPT !.unknown = new]
  <2>1. new \in Seq(Byte) /\ IsNewField(new)
    BY <1>7, NewFieldIs
  <2>2. /\ IsMessage(Table(type), p)
        /\ Unmarshal(type, FlattenSeq(InsertAt(MarshalTo(type, msg),
                                               i + 1, new))) = {p}
        /\ Written(type, p) = Written(type, msg) \o new
    <3>1. i \in 0..Len(MarshalTo(type, msg)) /\ IsWith(p, msg, new)
      BY DEF IsWith
    <3> HIDE DEF p
    <3>2. QED
      BY <2>1, <3>1, NewerMessage
  <2> HIDE DEF p
  <2>3. Unmarshal(type, bytes) = {p}
    BY <1>7, <2>2
  <2>4. QED
    BY <2>2, <2>3 DEF ReadsNew, p
<1>8. ASSUME h = "cut", NEW i \in 0..(Len(w) - 1), bytes = SubSeq(w, 1, i)
      PROVE  \/ ReadsNone(type, msg, bytes)
             \/ \E m : ReadsFirst(type, msg, bytes, m)
  <2>1. i \in Nat /\ i < Len(Written(type, msg))
        /\ bytes = SubSeq(Written(type, msg), 1, i)
    <3>1. Len(w) \in Nat
      BY <1>2
    <3> HIDE DEF w
    <3>2. i \in Nat /\ i < Len(w) /\ bytes = SubSeq(w, 1, i)
      BY <1>8, <3>1
    <3>3. QED
      BY <3>2 DEF w
  <2>2. \/ /\ Unmarshal(type, bytes) = {}
           /\ \A j \in 0..Len(MarshalTo(type, msg)) :
                FlattenSeq(SubSeq(MarshalTo(type, msg), 1, j)) # bytes
        \/ \E j, c : HoldsFirst(type, msg, bytes, j, c)
    BY <2>1, CutMessage
  <2>3. ASSUME NEW j, NEW c, HoldsFirst(type, msg, bytes, j, c)
        PROVE  ReadsFirst(type, msg, bytes, Part(Table(type), msg, c))
    <3>1. /\ FirstFields(type, msg, Part(Table(type), msg, c))
          /\ Part(Table(type), msg, c)["unknown"] = <<>>
      BY <2>3, PartFields
    <3>2. QED
      BY <2>3, <3>1 DEF HoldsFirst, ReadsFirst, EndsAfter
  <2>4. QED
    BY <2>2, <2>3 DEF ReadsNone, EndsAfter
<1>9. QED
  BY <1>4, <1>5, <1>6, <1>7, <1>8

----------------------------------------------------------------------------
(* The messages that are sent                                              *)

\* A text is a string whose length a reader can read.
LEMMA TextIs ==
  ASSUME NEW s \in Texts
  PROVE  s \in Strings
<1>1. s \in Seq(Byte) /\ Len(s) < 128 * 128 * 128 * 128
  BY DEF Texts
<1>2. Len(s) \in Nat
  BY <1>1
<1> DEFINE n == Len(s)
<1> HIDE DEF n
<1>3. n \in Nat /\ n < 128 * 128 * 128 * 128
  BY <1>1, <1>2 DEF n
<1>4. ((n \div 128) \div 128) \div 128 \in 0..127
  BY <1>3
<1>5. QED
  BY <1>1, <1>3, <1>4 DEF Strings, Length, Digit, n

\* The encodings of points and identifiers are strings.
LEMMA EncodingsAre ==
  ASSUME NEW p \in Byte
  PROVE  /\ G1Marshal(p) \in Strings /\ G1Marshal(p) # <<>>
         /\ G2Marshal(p) \in Strings /\ G2Marshal(p) # <<>>
         /\ CidString(p) \in Strings /\ CidString(p) # <<>>
<1>1. ASSUME NEW n \in {1, 46, 64, 129}, NEW s \in Seq(Byte), Len(s) = n
      PROVE  s \in Strings /\ s # <<>>
  <2>1. n < 128 * 128 * 128 * 128
    BY <1>1
  <2>2. s \in Texts
    BY <1>1, <2>1 DEF Texts
  <2>3. QED
    BY <1>1, <2>2, TextIs
<1>2. G1Marshal(p) \in Seq(Byte) /\ Len(G1Marshal(p)) = 64
  BY DEF G1Marshal
<1>3. G2Marshal(p) \in Seq(Byte) /\ Len(G2Marshal(p)) = 129
  BY DEF G2Marshal
<1>4. [k \in 1..46 |-> p] \in Seq(Byte) /\ Len([k \in 1..46 |-> p]) = 46
  OBVIOUS
<1>5. <<98>> \in Seq(Byte) /\ Len(<<98>>) = 1
  BY DEF Byte
<1>6. /\ CidString(p) \in Seq(Byte)
      /\ Len(CidString(p)) = 46 \/ Len(CidString(p)) = 1
  BY <1>4, <1>5 DEF CidString
<1>7. QED
  BY <1>1, <1>2, <1>3, <1>6

\* Identifiers and points are represented by bytes.  That cid.Undef is not one
\* of the others is all that is said of it.
LEMMA UndefIs ==
  CidString(UndefCid) \in Strings /\ CidString(UndefCid) # <<>>
<1>1. <<98>> \in Seq(Byte) /\ Len(<<98>>) = 1
  BY DEF Byte
<1>2. <<98>> \in Texts
  <2>1. 1 < 128 * 128 * 128 * 128
    OBVIOUS
  <2>2. QED
    BY <1>1, <2>1 DEF Texts
<1>3. QED
  BY <1>1, <1>2, TextIs DEF CidString

\* The elements of a column.
LEMMA BytesColumn ==
  ASSUME NEW cases, NEW m, NEW k, KindOf(cases, k) = "bytes",
         m[NameOf(cases, k)] \in Strings
  PROVE  Elements(cases, m, k) \in Seq(Values(KindOf(cases, k)))
<1> DEFINE v == m[NameOf(cases, k)]
           S == Strings \ {<<>>}
<1>1. Values(KindOf(cases, k)) = S
  BY DEF Values
<1>2. Elements(cases, m, k) = IF v = <<>> THEN <<>> ELSE <<v>>
  BY DEF Elements
<1>3. v = <<>> \/ v \in S
  OBVIOUS
<1> HIDE DEF v, S
<1>4. (IF v = <<>> THEN <<>> ELSE <<v>>) \in Seq(S)
  BY <1>3
<1>5. QED
  BY <1>1, <1>2, <1>4

\* A number, of either width.
LEMMA NumberColumn ==
  ASSUME NEW cases, NEW m, NEW k,
         \/ KindOf(cases, k) = "uint32" /\ m[NameOf(cases, k)] \in Uints(32)
         \/ KindOf(cases, k) = "uint64" /\ m[NameOf(cases, k)] \in Uints(64)
  PROVE  Elements(cases, m, k) \in Seq(Values(KindOf(cases, k)))
<1> DEFINE v == m[NameOf(cases, k)]
           S == Values(KindOf(cases, k))
<1>1. v = <<>> \/ v \in S
  BY DEF Values, Zero
<1>2. Elements(cases, m, k) = IF v = <<>> THEN <<>> ELSE <<v>>
  BY DEF Elements
<1> HIDE DEF v, S
<1>3. (IF v = <<>> THEN <<>> ELSE <<v>>) \in Seq(S)
  BY <1>1
<1>4. QED
  BY <1>2, <1>3 DEF S

\* A repeated field.
LEMMA RepeatedColumn ==
  ASSUME NEW cases, NEW m, NEW k, KindOf(cases, k) = "repeated",
         m[NameOf(cases, k)] \in Seq(Strings)
  PROVE  Elements(cases, m, k) \in Seq(Values(KindOf(cases, k)))
BY DEF Elements, Values

\* No unknown fields.
LEMMA NoneColumn ==
  ASSUME NEW cases, NEW m, NEW k, KindOf(cases, k) = "unknown",
         m[NameOf(cases, k)] = <<>>
  PROVE  Elements(cases, m, k) \in Seq(Values(KindOf(cases, k)))
<1> DEFINE S == Values(KindOf(cases, k))
<1>1. Elements(cases, m, k) = <<>>
  BY DEF Elements
<1> HIDE DEF S
<1>2. <<>> \in Seq(S)
  OBVIOUS
<1>3. QED
  BY <1>1, <1>2 DEF S
\* The messages of the handlers, by what they carry.
ChoiceRequest(choice) ==
  [cid |-> CidString(choice.cid), owner |-> G1Marshal(choice.owner),
   yp |-> G1Marshal(choice.y), lp |-> G1Marshal(choice.l), unknown |-> <<>>]

ReEncryptRequest(args) ==
  [cid |-> CidString(args.cid), lpp |-> G1Marshal(args.lprime),
   re_keys |-> [k \in DOMAIN args.rekeys |-> G2Marshal(args.rekeys[k])],
   txid |-> CidString(args.txid), unknown |-> <<>>]

UploadRequest(ticket) ==
  [owner |-> G1Marshal(ticket.owner), sig |-> <<>>, set |-> ticket.set,
   cid |-> CidString(ticket.cid), file_size |-> ticket.size,
   unknown |-> <<>>]

DownloadRequest(ticket) ==
  [owner |-> G1Marshal(ticket.owner), cid |-> CidString(ticket.cid),
   txid |-> CidString(ticket.txid), unknown |-> <<>>]

ErrorResponse(a) ==
  [error_code |-> a.err.code, error_msg |-> a.err.msg, unknown |-> <<>>]

UploadResponse(a) ==
  [error_code |-> a.err.code, error_msg |-> a.err.msg, uploader |-> a.name,
   unknown |-> <<>>]

DownloadResponse(a) ==
  [error_code |-> a.err.code, error_msg |-> a.err.msg, downloader |-> a.name,
   unknown |-> <<>>]

\* The empty string is a string, and the columns end with the unknown fields.
LEMMA EmptyIs ==
  /\ <<>> \in Strings
  /\ \A C : /\ NameOf(C, Len(C) + 1) = "unknown"
            /\ KindOf(C, Len(C) + 1) = "unknown"
<1>1. <<>> \in Seq(Byte) /\ Len(<<>>) = 0 /\ 0 < 128 * 128 * 128 * 128
  OBVIOUS
<1>2. <<>> \in Texts
  BY <1>1 DEF Texts
<1>3. QED
  BY <1>2, TextIs DEF NameOf, KindOf

\* The bytes behind identifiers and points.
LEMMA BytesAre ==
  /\ Cids \subseteq Byte /\ G1Points \subseteq Byte /\ G2Points \subseteq Byte
  /\ UndefCid \notin Cids
BY ValueAssumption

\* A request of SendChoice.
LEMMA ChoiceRequestIsPlain ==
  ASSUME NEW choice \in OtChoices
  PROVE  IsPlain("OtChoiceRequest", ChoiceRequest(choice))
<1> DEFINE C == ChoiceCases
           m == ChoiceRequest(choice)
<1>1. /\ choice.cid \in Cids
      /\ choice.owner \in G1Points
      /\ choice.y \in G1Points
      /\ choice.l \in G1Points
  BY ValueAssumption
<1>2. /\ m.cid \in Strings
      /\ m.owner \in Strings
      /\ m.yp \in Strings
      /\ m.lp \in Strings
  <2>1. m.cid \in Strings
    <3>1. m.cid = CidString(choice.cid)
      BY DEF ChoiceRequest
    <3>2. QED
      BY <1>1, <3>1, BytesAre, EncodingsAre
  <2>2. m.owner \in Strings
    <3>1. m.owner = G1Marshal(choice.owner)
      BY DEF ChoiceRequest
    <3>2. QED
      BY <1>1, <3>1, BytesAre, EncodingsAre
  <2>3. m.yp \in Strings
    <3>1. m.yp = G1Marshal(choice.y)
      BY DEF ChoiceRequest
    <3>2. QED
      BY <1>1, <3>1, BytesAre, EncodingsAre
  <2>4. m.lp \in Strings
    <3>1. m.lp = G1Marshal(choice.l)
      BY DEF ChoiceRequest
    <3>2. QED
      BY <1>1, <3>1, BytesAre, EncodingsAre
  <2>5. QED
    BY <2>1, <2>2, <2>3, <2>4
<1>3. m.unknown = <<>> /\ m = [x \in Names(C) |-> m[x]]
  BY ChoiceColumns DEF ChoiceRequest
<1>4. IsTable(C) /\ Columns(C) = 1..5 /\ 5 = Len(C) + 1
  BY ChoiceColumns DEF Columns
<1> HIDE DEF m
<1>5. Elements(C, m, 1) \in Seq(Values(KindOf(C, 1)))
  BY <1>2, ChoiceColumns, BytesColumn
<1>6. Elements(C, m, 2) \in Seq(Values(KindOf(C, 2)))
  BY <1>2, ChoiceColumns, BytesColumn
<1>7. Elements(C, m, 3) \in Seq(Values(KindOf(C, 3)))
  BY <1>2, ChoiceColumns, BytesColumn
<1>8. Elements(C, m, 4) \in Seq(Values(KindOf(C, 4)))
  BY <1>2, ChoiceColumns, BytesColumn
<1>9. Elements(C, m, 5) \in Seq(Values(KindOf(C, 5)))
  BY <1>3, <1>4, EmptyIs, NoneColumn
<1>10. IsMessage(C, m)
  <2> HIDE DEF C
  <2>1. QED
    BY <1>3, <1>4, <1>5, <1>6, <1>7, <1>8, <1>9 DEF IsMessage
<1>11. QED
  BY <1>3, <1>10 DEF IsPlain, Table, m

\* A request of SendReEncrypt.
LEMMA ReEncryptRequestIsPlain ==
  ASSUME NEW args \in PreArgs
  PROVE  IsPlain("PreReEncryptRequest", ReEncryptRequest(args))
<1> DEFINE C == ReEncryptCases
           m == ReEncryptRequest(args)
<1>1. /\ args.cid \in Cids
      /\ args.lprime \in G1Points
      /\ args.rekeys \in Seq(G2Points)
      /\ args.txid \in Cids
  BY ValueAssumption
<1>2. /\ m.cid \in Strings
      /\ m.lpp \in Strings
      /\ m.re_keys \in Seq(Strings)
      /\ m.txid \in Strings
  <2>1. m.cid \in Strings
    <3>1. m.cid = CidString(args.cid)
      BY DEF ReEncryptRequest
    <3>2. QED
      BY <1>1, <3>1, BytesAre, EncodingsAre
  <2>2. m.lpp \in Strings
    <3>1. m.lpp = G1Marshal(args.lprime)
      BY DEF ReEncryptRequest
    <3>2. QED
      BY <1>1, <3>1, BytesAre, EncodingsAre
  <2>3. m.re_keys \in Seq(Strings)
    <3>1. m.re_keys = [k \in DOMAIN args.rekeys |-> G2Marshal(args.rekeys[k])]
      BY DEF ReEncryptRequest
    <3>2. \A k \in DOMAIN args.rekeys : G2Marshal(args.rekeys[k]) \in Strings
      BY <1>1, BytesAre, EncodingsAre
    <3> HIDE DEF m
    <3>3. QED
      BY <1>1, <3>1, <3>2
  <2>4. m.txid \in Strings
    <3>1. m.txid = CidString(args.txid)
      BY DEF ReEncryptRequest
    <3>2. QED
      BY <1>1, <3>1, BytesAre, EncodingsAre
  <2>5. QED
    BY <2>1, <2>2, <2>3, <2>4
<1>3. m.unknown = <<>> /\ m = [x \in Names(C) |-> m[x]]
  BY ReEncryptColumns DEF ReEncryptRequest
<1>4. IsTable(C) /\ Columns(C) = 1..5 /\ 5 = Len(C) + 1
  BY ReEncryptColumns DEF Columns
<1> HIDE DEF m
<1>5. Elements(C, m, 1) \in Seq(Values(KindOf(C, 1)))
  BY <1>2, ReEncryptColumns, BytesColumn
<1>6. Elements(C, m, 2) \in Seq(Values(KindOf(C, 2)))
  BY <1>2, ReEncryptColumns, BytesColumn
<1>7. Elements(C, m, 3) \in Seq(Values(KindOf(C, 3)))
  BY <1>2, ReEncryptColumns, RepeatedColumn
<1>8. Elements(C, m, 4) \in Seq(Values(KindOf(C, 4)))
  BY <1>2, ReEncryptColumns, BytesColumn
<1>9. Elements(C, m, 5) \in Seq(Values(KindOf(C, 5)))
  BY <1>3, <1>4, EmptyIs, NoneColumn
<1>10. IsMessage(C, m)
  <2> HIDE DEF C
  <2>1. QED
    BY <1>3, <1>4, <1>5, <1>6, <1>7, <1>8, <1>9 DEF IsMessage
<1>11. QED
  BY <1>3, <1>10 DEF IsPlain, Table, m

\* A request of SendUploadRequest.
LEMMA UploadRequestIsPlain ==
  ASSUME NEW ticket \in UploadTickets
  PROVE  IsPlain("StorUploadRequest", UploadRequest(ticket))
<1> DEFINE C == UploadCases
           m == UploadRequest(ticket)
<1>1. /\ ticket.owner \in G1Points
      /\ ticket.set \in Uints(32)
      /\ ticket.cid \in Cids
      /\ ticket.size \in Uints(64)
  BY ValueAssumption
<1>2. /\ m.owner \in Strings
      /\ m.sig \in Strings
      /\ m.set \in Uints(32)
      /\ m.cid \in Strings
      /\ m.file_size \in Uints(64)
  <2>1. m.owner \in Strings
    <3>1. m.owner = G1Marshal(ticket.owner)
      BY DEF UploadRequest
    <3>2. QED
      BY <1>1, <3>1, BytesAre, EncodingsAre
  <2>2. m.sig \in Strings
    <3>1. m.sig = <<>>
      BY DEF UploadRequest
    <3>2. QED
      BY <3>1, EmptyIs
  <2>3. m.set \in Uints(32)
    <3>1. m.set = ticket.set
      BY DEF UploadRequest
    <3>2. QED
      BY <1>1, <3>1
  <2>4. m.cid \in Strings
    <3>1. m.cid = CidString(ticket.cid)
      BY DEF UploadRequest
    <3>2. QED
      BY <1>1, <3>1, BytesAre, EncodingsAre
  <2>5. m.file_size \in Uints(64)
    <3>1. m.file_size = ticket.size
      BY DEF UploadRequest
    <3>2. QED
      BY <1>1, <3>1
  <2>6. QED
    BY <2>1, <2>2, <2>3, <2>4, <2>5
<1>3. m.unknown = <<>> /\ m = [x \in Names(C) |-> m[x]]
  BY UploadColumns DEF UploadRequest
<1>4. IsTable(C) /\ Columns(C) = 1..6 /\ 6 = Len(C) + 1
  BY UploadColumns DEF Columns
<1> HIDE DEF m
<1>5. Elements(C, m, 1) \in Seq(Values(KindOf(C, 1)))
  BY <1>2, UploadColumns, BytesColumn
<1>6. Elements(C, m, 2) \in Seq(Values(KindOf(C, 2)))
  BY <1>2, UploadColumns, BytesColumn
<1>7. Elements(C, m, 3) \in Seq(Values(KindOf(C, 3)))
  BY <1>2, UploadColumns, NumberColumn
<1>8. Elements(C, m, 4) \in Seq(Values(KindOf(C, 4)))
  BY <1>2, UploadColumns, BytesColumn
<1>9. Elements(C, m, 5) \in Seq(Values(KindOf(C, 5)))
  BY <1>2, UploadColumns, NumberColumn
<1>10. Elements(C, m, 6) \in Seq(Values(KindOf(C, 6)))
  BY <1>3, <1>4, EmptyIs, NoneColumn
<1>11. IsMessage(C, m)
  <2> HIDE DEF C
  <2>1. QED
    BY <1>3, <1>4, <1>5, <1>6, <1>7, <1>8, <1>9, <1>10 DEF IsMessage
<1>12. QED
  BY <1>3, <1>11 DEF IsPlain, Table, m

\* A request of SendDownloadRequest, with a transaction or with cid.Undef.
LEMMA DownloadRequestIsPlain ==
  ASSUME NEW ticket \in DownloadTickets
  PROVE  IsPlain("StorDownloadRequest", DownloadRequest(ticket))
<1> DEFINE C == DownloadCases
           m == DownloadRequest(ticket)
<1>1. /\ ticket.owner \in G1Points
      /\ ticket.cid \in Cids
      /\ ticket.txid \in Cids \cup {UndefCid}
  BY ValueAssumption
<1>2. /\ m.owner \in Strings
      /\ m.cid \in Strings
      /\ m.txid \in Strings
  <2>1. m.owner \in Strings
    <3>1. m.owner = G1Marshal(ticket.owner)
      BY DEF DownloadRequest
    <3>2. QED
      BY <1>1, <3>1, BytesAre, EncodingsAre
  <2>2. m.cid \in Strings
    <3>1. m.cid = CidString(ticket.cid)
      BY DEF DownloadRequest
    <3>2. QED
      BY <1>1, <3>1, BytesAre, EncodingsAre
  <2>3. m.txid \in Strings
    <3>1. m.txid = CidString(ticket.txid)
      BY DEF DownloadRequest
    <3>2. QED
      BY <1>1, <3>1, BytesAre, EncodingsAre, UndefIs
  <2>4. QED
    BY <2>1, <2>2, <2>3
<1>3. m.unknown = <<>> /\ m = [x \in Names(C) |-> m[x]]
  BY DownloadColumns DEF DownloadRequest
<1>4. IsTable(C) /\ Columns(C) = 1..4 /\ 4 = Len(C) + 1
  BY DownloadColumns DEF Columns
<1> HIDE DEF m
<1>5. Elements(C, m, 1) \in Seq(Values(KindOf(C, 1)))
  BY <1>2, DownloadColumns, BytesColumn
<1>6. Elements(C, m, 2) \in Seq(Values(KindOf(C, 2)))
  BY <1>2, DownloadColumns, BytesColumn
<1>7. Elements(C, m, 3) \in Seq(Values(KindOf(C, 3)))
  BY <1>2, DownloadColumns, BytesColumn
<1>8. Elements(C, m, 4) \in Seq(Values(KindOf(C, 4)))
  BY <1>3, <1>4, EmptyIs, NoneColumn
<1>9. IsMessage(C, m)
  <2> HIDE DEF C
  <2>1. QED
    BY <1>3, <1>4, <1>5, <1>6, <1>7, <1>8 DEF IsMessage
<1>10. QED
  BY <1>3, <1>9 DEF IsPlain, Table, m

\* A response that is only an error.
LEMMA ErrorResponseIsPlain ==
  ASSUME NEW a \in Answers
  PROVE  /\ IsPlain("OtChoiceResponse", ErrorResponse(a))
         /\ IsPlain("PreReEncryptResponse", ErrorResponse(a))
<1> DEFINE C == ErrorCases
           m == ErrorResponse(a)
<1>1. /\ a.err.code \in Uints(32)
      /\ a.err.msg \in Texts
  BY ValueAssumption
<1>2. /\ m.error_code \in Uints(32)
      /\ m.error_msg \in Strings
  <2>1. m.error_code \in Uints(32)
    <3>1. m.error_code = a.err.code
      BY DEF ErrorResponse
    <3>2. QED
      BY <1>1, <3>1
  <2>2. m.error_msg \in Strings
    <3>1. m.error_msg = a.err.msg
      BY DEF ErrorResponse
    <3>2. QED
      BY <1>1, <3>1, TextIs
  <2>3. QED
    BY <2>1, <2>2
<1>3. m.unknown = <<>> /\ m = [x \in Names(C) |-> m[x]]
  BY ErrorColumns DEF ErrorResponse
<1>4. IsTable(C) /\ Columns(C) = 1..3 /\ 3 = Len(C) + 1
  BY ErrorColumns DEF Columns
<1> HIDE DEF m
<1>5. Elements(C, m, 1) \in Seq(Values(KindOf(C, 1)))
  BY <1>2, ErrorColumns, NumberColumn
<1>6. Elements(C, m, 2) \in Seq(Values(KindOf(C, 2)))
  BY <1>2, ErrorColumns, BytesColumn
<1>7. Elements(C, m, 3) \in Seq(Values(KindOf(C, 3)))
  BY <1>3, <1>4, EmptyIs, NoneColumn
<1>8. IsMessage(C, m)
  <2> HIDE DEF C
  <2>1. QED
    BY <1>3, <1>4, <1>5, <1>6, <1>7 DEF IsMessage
<1>9. QED
  BY <1>3, <1>8 DEF IsPlain, Table, m

\* The response to an upload.
LEMMA UploadResponseIsPlain ==
  ASSUME NEW a \in Answers
  PROVE  IsPlain("StorUploadResponse", UploadResponse(a))
<1> DEFINE C == UploadedCases
           m == UploadResponse(a)
<1>1. /\ a.err.code \in Uints(32)
      /\ a.err.msg \in Texts
      /\ a.name \in Texts
  BY ValueAssumption
<1>2. /\ m.error_code \in Uints(32)
      /\ m.error_msg \in Strings
      /\ m.uploader \in Strings
  <2>1. m.error_code \in Uints(32)
    <3>1. m.error_code = a.err.code
      BY DEF UploadResponse
    <3>2. QED
      BY <1>1, <3>1
  <2>2. m.error_msg \in Strings
    <3>1. m.error_msg = a.err.msg
      BY DEF UploadResponse
    <3>2. QED
      BY <1>1, <3>1, TextIs
  <2>3. m.uploader \in Strings
    <3>1. m.uploader = a.name
      BY DEF UploadResponse
    <3>2. QED
      BY <1>1, <3>1, TextIs
  <2>4. QED
    BY <2>1, <2>2, <2>3
<1>3. m.unknown = <<>> /\ m = [x \in Names(C) |-> m[x]]
  BY UploadedColumns DEF UploadResponse
<1>4. IsTable(C) /\ Columns(C) = 1..4 /\ 4 = Len(C) + 1
  BY UploadedColumns DEF Columns
<1> HIDE DEF m
<1>5. Elements(C, m, 1) \in Seq(Values(KindOf(C, 1)))
  BY <1>2, UploadedColumns, NumberColumn
<1>6. Elements(C, m, 2) \in Seq(Values(KindOf(C, 2)))
  BY <1>2, UploadedColumns, BytesColumn
<1>7. Elements(C, m, 3) \in Seq(Values(KindOf(C, 3)))
  BY <1>2, UploadedColumns, BytesColumn
<1>8. Elements(C, m, 4) \in Seq(Values(KindOf(C, 4)))
  BY <1>3, <1>4, EmptyIs, NoneColumn
<1>9. IsMessage(C, m)
  <2> HIDE DEF C
  <2>1. QED
    BY <1>3, <1>4, <1>5, <1>6, <1>7, <1>8 DEF IsMessage
<1>10. QED
  BY <1>3, <1>9 DEF IsPlain, Table, m

\* The response to a download.
LEMMA DownloadResponseIsPlain ==
  ASSUME NEW a \in Answers
  PROVE  IsPlain("StorDownloadResponse", DownloadResponse(a))
<1> DEFINE C == DownloadedCases
           m == DownloadResponse(a)
<1>1. /\ a.err.code \in Uints(32)
      /\ a.err.msg \in Texts
      /\ a.name \in Texts
  BY ValueAssumption
<1>2. /\ m.error_code \in Uints(32)
      /\ m.error_msg \in Strings
      /\ m.downloader \in Strings
  <2>1. m.error_code \in Uints(32)
    <3>1. m.error_code = a.err.code
      BY DEF DownloadResponse
    <3>2. QED
      BY <1>1, <3>1
  <2>2. m.error_msg \in Strings
    <3>1. m.error_msg = a.err.msg
      BY DEF DownloadResponse
    <3>2. QED
      BY <1>1, <3>1, TextIs
  <2>3. m.downloader \in Strings
    <3>1. m.downloader = a.name
      BY DEF DownloadResponse
    <3>2. QED
      BY <1>1, <3>1, TextIs
  <2>4. QED
    BY <2>1, <2>2, <2>3
<1>3. m.unknown = <<>> /\ m = [x \in Names(C) |-> m[x]]
  BY DownloadedColumns DEF DownloadResponse
<1>4. IsTable(C) /\ Columns(C) = 1..4 /\ 4 = Len(C) + 1
  BY DownloadedColumns DEF Columns
<1> HIDE DEF m
<1>5. Elements(C, m, 1) \in Seq(Values(KindOf(C, 1)))
  BY <1>2, DownloadedColumns, NumberColumn
<1>6. Elements(C, m, 2) \in Seq(Values(KindOf(C, 2)))
  BY <1>2, DownloadedColumns, BytesColumn
<1>7. Elements(C, m, 3) \in Seq(Values(KindOf(C, 3)))
  BY <1>2, DownloadedColumns, BytesColumn
<1>8. Elements(C, m, 4) \in Seq(Values(KindOf(C, 4)))
  BY <1>3, <1>4, EmptyIs, NoneColumn
<1>9. IsMessage(C, m)
  <2> HIDE DEF C
  <2>1. QED
    BY <1>3, <1>4, <1>5, <1>6, <1>7, <1>8 DEF IsMessage
<1>10. QED
  BY <1>3, <1>9 DEF IsPlain, Table, m

----------------------------------------------------------------------------
(* Reading them back                                                       *)

\* A reader that is told nothing else gets the first fields of the message msg
\* and, unless the stream was cut, all of them.
Gets(type, msg, h, m) ==
  FirstFields(type, msg, m) /\ (h # "cut" => AllFields(type, msg, m))

\* All fields are also the first ones.
LEMMA AllAreFirst ==
  ASSUME NEW type, NEW msg, NEW m, AllFields(type, msg, m),
         Len(Table(type)) \in Nat
  PROVE  FirstFields(type, msg, m)
<1>1. \A k \in Known(type) :
        /\ m[NameIn(type, k)] = msg[NameIn(type, k)]
        /\ \A j \in 1..(k - 1) : j \in Known(type)
  BY DEF AllFields, Known
<1>2. QED
  BY <1>1 DEF FirstFields, AllFields

\* What is read of the bytes that come of a message.
LEMMA WhatIsGot ==
  ASSUME NEW type \in Types, NEW msg, IsPlain(type, msg),
         NEW h, NEW bytes, NEW new, Comes(type, msg, h, bytes, new)
  PROVE  \/ h = "cut" /\ Unmarshal(type, bytes) = {}
         \/ \E m : /\ Unmarshal(type, bytes) = {m}
                   /\ Gets(type, msg, h, m)
                   /\ h = "cut" => ReadsFirst(type, msg, bytes, m)
<1>1. Len(Table(type)) \in Nat
      /\ \A k \in Known(type) : /\ NameIn(type, k) # "unknown"
                                /\ NameIn(type, k) \in Names(Table(type))
  <2>1. IsTable(Table(type))
    BY TableIs
  <2> DEFINE C == Table(type)
  <2>2. C = Table(type)
    OBVIOUS
  <2> HIDE DEF C
  <2>3. Len(C) \in Nat
    BY <2>1, <2>2 DEF IsTable
  <2>4. ASSUME NEW k \in 1..Len(C), NameOf(C, k) = "unknown"
        PROVE  FALSE
    <3>1. k \in Columns(C) /\ Len(C) + 1 \in Columns(C) /\ k # Len(C) + 1
      BY <2>3 DEF Columns
    <3>2. NameOf(C, Len(C) + 1) = "unknown"
      BY DEF NameOf
    <3>3. QED
      BY <2>1, <2>2, <2>4, <3>1, <3>2 DEF IsTable
  <2>5. \A k \in 1..Len(C) : NameOf(C, k) \in Names(C)
    <3>1. \A k \in 1..Len(C) : k \in Columns(C)
      BY <2>3 DEF Columns
    <3>2. QED
      BY <2>1, <2>2, <3>1, ColumnNames
  <2>6. QED
    BY <2>2, <2>3, <2>4, <2>5 DEF Known, NameIn
<1>2. msg = [x \in Names(Table(type)) |-> msg[x]]
  BY DEF IsPlain, IsMessage
<1>3. CASE h \in {"whole", "reordered"}
  <2>1. Unmarshal(type, bytes) = {msg} /\ h # "cut"
    BY <1>3, WhatIsRead
  <2>2. AllFields(type, msg, msg)
    BY DEF AllFields
  <2>3. Gets(type, msg, h, msg)
    BY <1>1, <2>2, AllAreFirst DEF Gets
  <2>4. QED
    BY <2>1, <2>3
<1>4. CASE h = "extended"
  <2> DEFINE p == [msg EXCEPT !.unknown = new]
  <2>1. ReadsNew(type, msg, bytes, new, p)
    BY <1>4, WhatIsRead, Zenon
  <2>2. \A k \in Known(type) : p[NameIn(type, k)] = msg[NameIn(type, k)]
    <3> DEFINE N == Names(Table(type))
    <3>1. msg = [x \in N |-> msg[x]]
      BY <1>2
    <3> HIDE DEF N
    <3>2. ASSUME NEW x \in N, x # "unknown"
          PROVE  p[x] = msg[x]
      BY <3>1, <3>2
    <3> HIDE DEF p
    <3>3. \A k \in Known(type) : NameIn(type, k) \in N
      BY <1>1 DEF N
    <3>4. QED
      BY <1>1, <3>2, <3>3
  <2> HIDE DEF p
  <2>6. Unmarshal(type, bytes) = {p}
    BY <2>1 DEF ReadsNew
  <2>3. AllFields(type, msg, p)
    BY <2>2 DEF AllFields
  <2>4. Gets(type, msg, h, p)
    BY <1>1, <2>3, AllAreFirst DEF Gets
  <2>5. QED
    BY <1>4, <2>4, <2>6
<1>5. CASE h = "cut"
  <2>1. \/ ReadsNone(type, msg, bytes)
        \/ \E m : ReadsFirst(type, msg, bytes, m)
    BY <1>5, WhatIsRead
  <2>2. QED
    BY <1>5, <2>1 DEF ReadsNone, ReadsFirst, Gets
<1>6. QED
  BY <1>3, <1>4, <1>5, WhatIsRead

\* A point decodes to itself, and what is missing does not decode.
LEMMA G1Decodes ==
  /\ G1Unmarshal(<<>>) = {}
  /\ \A p \in G1Points : G1Unmarshal(G1Marshal(p)) = {p}
<1>1. \A p, q : IsPrefix(G1Marshal(p), G1Marshal(q)) <=> p = q
  <2>1. ASSUME NEW p
        PROVE  /\ Len(G1Marshal(p)) = 64
               /\ SubSeq(G1Marshal(p), 1, 64) = [k \in 1..64 |-> p]
    BY DEF G1Marshal
  <2>2. ASSUME NEW p, NEW q, [k \in 1..64 |-> p] = [k \in 1..64 |-> q]
        PROVE  p = q
    <3>1. [k \in 1..64 |-> p][1] = [k \in 1..64 |-> q][1]
      BY <2>2
    <3>2. QED
      BY <3>1
  <2>3. ASSUME NEW p, NEW q
        PROVE  IsPrefix(G1Marshal(p), G1Marshal(q)) <=> p = q
    <3> DEFINE a == G1Marshal(p)
               b == G1Marshal(q)
    <3>1. /\ Len(a) = 64 /\ SubSeq(a, 1, 64) = [k \in 1..64 |-> p]
          /\ Len(b) = 64 /\ SubSeq(b, 1, 64) = [k \in 1..64 |-> q]
      BY <2>1
    <3> HIDE DEF a, b
    <3>2. IsPrefix(a, b) <=> [k \in 1..64 |-> p] = [k \in 1..64 |-> q]
      BY <3>1 DEF IsPrefix
    <3>3. IsPrefix(a, b) <=> p = q
      BY <2>2, <3>2
    <3>4. QED
      BY <3>3 DEF a, b
  <2>4. QED
    BY <2>3
<1>2. \A p : ~IsPrefix(G1Marshal(p), <<>>)
  <2>1. \A p : Len(G1Marshal(p)) = 64
    BY DEF G1Marshal
  <2>2. QED
    BY <2>1 DEF IsPrefix
<1>3. QED
  BY <1>1, <1>2 DEF G1Unmarshal

\* The same for the points of the other group.
LEMMA G2Decodes ==
  /\ G2Unmarshal(<<>>) = {}
  /\ \A p \in G2Points : G2Unmarshal(G2Marshal(p)) = {p}
<1>1. \A p, q : IsPrefix(G2Marshal(p), G2Marshal(q)) <=> p = q
  <2>1. ASSUME NEW p
        PROVE  /\ Len(G2Marshal(p)) = 129
               /\ SubSeq(G2Marshal(p), 1, 129) = [k \in 1..129 |-> p]
    BY DEF G2Marshal
  <2>2. ASSUME NEW p, NEW q, [k \in 1..129 |-> p] = [k \in 1..129 |-> q]
        PROVE  p = q
    <3>1. [k \in 1..129 |-> p][1] = [k \in 1..129 |-> q][1]
      BY <2>2
    <3>2. QED
      BY <3>1
  <2>3. ASSUME NEW p, NEW q
        PROVE  IsPrefix(G2Marshal(p), G2Marshal(q)) <=> p = q
    <3> DEFINE a == G2Marshal(p)
               b == G2Marshal(q)
    <3>1. /\ Len(a) = 129 /\ SubSeq(a, 1, 129) = [k \in 1..129 |-> p]
          /\ Len(b) = 129 /\ SubSeq(b, 1, 129) = [k \in 1..129 |-> q]
      BY <2>1
    <3> HIDE DEF a, b
    <3>2. IsPrefix(a, b) <=> [k \in 1..129 |-> p] = [k \in 1..129 |-> q]
      BY <3>1 DEF IsPrefix
    <3>3. IsPrefix(a, b) <=> p = q
      BY <2>2, <3>2
    <3>4. QED
      BY <3>3 DEF a, b
  <2>4. QED
    BY <2>3
<1>2. \A p : ~IsPrefix(G2Marshal(p), <<>>)
  <2>1. \A p : Len(G2Marshal(p)) = 129
    BY DEF G2Marshal
  <2>2. QED
    BY <2>1 DEF IsPrefix
<1>3. QED
  BY <1>1, <1>2 DEF G2Unmarshal

\* An identifier decodes to itself, and cid.Undef does not decode.
LEMMA CidDecodes ==
  /\ CidDecode(<<>>) = {}
  /\ CidDecode(CidString(UndefCid)) = {}
  /\ \A c \in Cids : CidDecode(CidString(c)) = {c}
<1>1. \A c \in Cids : CidString(c) = [k \in 1..46 |-> c]
  BY BytesAre DEF CidString
<1>2. \A c : Len([k \in 1..46 |-> c]) = 46 /\ [k \in 1..46 |-> c][1] = c
  OBVIOUS
<1>3. CidString(UndefCid) = <<98>>
  BY DEF CidString
<1>4. Len(<<98>>) = 1 /\ Len(<<>>) = 0
  OBVIOUS
<1>5. \A c \in Cids : CidString(c) # <<>> /\ CidString(c) # <<98>>
  <2>1. \A c \in Cids : Len(CidString(c)) = 46
    BY <1>1, <1>2
  <2>2. ASSUME NEW s, Len(s) = 46
        PROVE  s # <<>> /\ s # <<98>>
    <3>1. 46 # 1 /\ 46 # 0
      OBVIOUS
    <3>2. QED
      BY <1>4, <2>2, <3>1, Zenon
  <2>3. QED
    BY <2>1, <2>2
<1>6. \A c, d \in Cids : CidString(c) = CidString(d) => c = d
  <2>1. \A c \in Cids : CidString(c)[1] = c
    BY <1>1, <1>2
  <2>2. QED
    BY <2>1
<1>7. QED
  BY <1>3, <1>5, <1>6 DEF CidDecode

\* The re-keys decode to themselves.
LEMMA ReKeysDecode ==
  ASSUME NEW ks \in Seq(G2Points)
  PROVE  ReadReKeys([k \in DOMAIN ks |-> G2Marshal(ks[k])]) = {ks}
<1> DEFINE s == [k \in DOMAIN ks |-> G2Marshal(ks[k])]
<1>1. \A k \in DOMAIN ks : ks[k] \in G2Points
  OBVIOUS
<1>2. \A k \in DOMAIN ks : G2Unmarshal(s[k]) = {ks[k]}
  BY <1>1, G2Decodes
<1>3. DOMAIN s = DOMAIN ks
  OBVIOUS
<1>4. ReadReKeys(s) = {f \in [DOMAIN ks -> G2Points] :
                         \A k \in DOMAIN ks : f[k] \in {ks[k]}}
  <2> HIDE DEF s
  <2>1. QED
    BY <1>2, <1>3 DEF ReadReKeys
<1>5. ks \in [DOMAIN ks -> G2Points]
  BY <1>1
<1> HIDE DEF s
<1>6. \A f \in [DOMAIN ks -> G2Points] :
        (\A k \in DOMAIN ks : f[k] \in {ks[k]}) => f = ks
  BY <1>5
<1>7. ReadReKeys(s) = {ks}
  BY <1>4, <1>5, <1>6
<1>8. QED
  BY <1>7 DEF s
\* What the handlers make of the requests.
ChoiceIn(m) ==
  [cid : CidDecode(m.cid), owner : G1Unmarshal(m.owner),
   y : G1Unmarshal(m.yp), l : G1Unmarshal(m.lp)]
ReEncryptIn(m) ==
  [cid : CidDecode(m.cid), lprime : G1Unmarshal(m.lpp),
   rekeys : ReadReKeys(m.re_keys), txid : CidDecode(m.txid)]
UploadIn(m) ==
  [owner : G1Unmarshal(m.owner), set : {m.set}, cid : CidDecode(m.cid),
   size : {m.file_size}]
DownloadIn(m) ==
  [owner : G1Unmarshal(m.owner), cid : CidDecode(m.cid),
   txid : CidDecode(m.txid)]

\* What is got of a field that is not repeated.
Part1(msg, h, m, x) == m[x] \in {msg[x], <<>>} /\ (h # "cut" => m[x] = msg[x])

\* A field that is got, and those before it.
LEMMA FieldGot ==
  ASSUME NEW type, NEW msg, NEW h, NEW m, Gets(type, msg, h, m),
         NEW k \in Known(type), KindIn(type, k) # "repeated"
  PROVE  /\ Part1(msg, h, m, NameIn(type, k))
         /\ m[NameIn(type, k)] # <<>> =>
              \A j \in 1..(k - 1) : m[NameIn(type, j)] = msg[NameIn(type, j)]
BY DEF Gets, FirstFields, AllFields, Part1

\* x is what a field decodes to, if to anything, and the field was not cut.
Back(h, R, x) == R \subseteq {x} /\ (h # "cut" => R = {x})

\* A point, if it is got, is the one that was sent.
LEMMA PointGot ==
  ASSUME NEW msg, NEW h, NEW m, NEW x, Part1(msg, h, m, x),
         NEW p \in G1Points, msg[x] = G1Marshal(p)
  PROVE  Back(h, G1Unmarshal(m[x]), p)
BY G1Decodes DEF Part1, Back

\* An identifier, the same.
LEMMA CidGot ==
  ASSUME NEW msg, NEW h, NEW m, NEW x, Part1(msg, h, m, x),
         NEW c \in Cids, msg[x] = CidString(c)
  PROVE  Back(h, CidDecode(m[x]), c)
BY CidDecodes DEF Part1, Back

\* What the server passes to its node is what the client's call was given,
\* and it passes something unless the stream was cut.
LEMMA ChoiceGot ==
  ASSUME NEW args \in OtChoices, NEW h, NEW m,
         Gets("OtChoiceRequest", ChoiceRequest(args), h, m),
         NEW R, R = ChoiceIn(m)
  PROVE  R \subseteq {args} /\ (h # "cut" => R # {})
<1> DEFINE T == "OtChoiceRequest"
           msg == ChoiceRequest(args)
<1>1. /\ args.cid \in Cids /\ args.owner \in G1Points
      /\ args.y \in G1Points /\ args.l \in G1Points
      /\ args = [cid |-> args.cid, owner |-> args.owner,
                 y |-> args.y, l |-> args.l]
  BY ValueAssumption
<1>2. /\ msg["cid"] = CidString(args.cid)
      /\ msg["owner"] = G1Marshal(args.owner)
      /\ msg["yp"] = G1Marshal(args.y) /\ msg["lp"] = G1Marshal(args.l)
  BY DEF ChoiceRequest
<1>3. Known(T) = 1..4
  BY ChoiceColumns DEF Known, Table
<1>4. /\ NameIn(T, 1) = "cid" /\ NameIn(T, 2) = "owner"
      /\ NameIn(T, 3) = "yp" /\ NameIn(T, 4) = "lp"
      /\ \A k \in 1..4 : KindIn(T, k) = "bytes"
  <2>1. Table(T) = ChoiceCases
    BY DEF Table
  <2>2. QED
    BY <2>1, ChoiceColumns DEF NameIn, KindIn
<1> HIDE DEF T, msg
<1>5. Gets(T, msg, h, m)
  BY DEF T, msg
<1>6. /\ Part1(msg, h, m, "cid") /\ Part1(msg, h, m, "owner")
      /\ Part1(msg, h, m, "yp") /\ Part1(msg, h, m, "lp")
  <2>1. \A k \in 1..4 : Part1(msg, h, m, NameIn(T, k))
    <3>1. \A k \in 1..4 : KindIn(T, k) # "repeated"
      BY <1>4
    <3>2. QED
      BY <1>3, <1>5, <3>1, FieldGot
  <2>2. QED
    BY <1>4, <2>1
<1> DEFINE C == CidDecode(m["cid"])
           O == G1Unmarshal(m["owner"])
           Y == G1Unmarshal(m["yp"])
           L == G1Unmarshal(m["lp"])
<1>7. /\ Back(h, C, args.cid) /\ Back(h, O, args.owner)
      /\ Back(h, Y, args.y) /\ Back(h, L, args.l)
  <2>1. Back(h, C, args.cid)
    <3>1. args.cid \in Cids
      BY <1>1
    <3>2. msg["cid"] = CidString(args.cid)
      BY <1>2
    <3>3. Part1(msg, h, m, "cid")
      BY <1>6
    <3>4. QED
      BY <3>1, <3>2, <3>3, CidGot
  <2>2. Back(h, O, args.owner)
    BY <1>1, <1>2, <1>6, PointGot
  <2>3. Back(h, Y, args.y)
    BY <1>1, <1>2, <1>6, PointGot
  <2>4. Back(h, L, args.l)
    BY <1>1, <1>2, <1>6, PointGot
  <2>5. QED
    BY <2>1, <2>2, <2>3, <2>4, Zenon
<1>8. R = [cid : C, owner : O, y : Y, l : L]
  BY DEF ChoiceIn
<1> HIDE DEF C, O, Y, L
<1>9. ASSUME NEW r \in R
      PROVE  r = args
  BY <1>1, <1>7, <1>8 DEF Back
<1>10. ASSUME h # "cut"
       PROVE  args \in R
  BY <1>1, <1>7, <1>8, <1>10 DEF Back
<1>11. QED
  BY <1>9, <1>10
\* The re-keys come all of them or the request is dropped, for the transaction
\* comes after them.
LEMMA ReEncryptGot ==
  ASSUME NEW args \in PreArgs, NEW h, NEW m,
         Gets("PreReEncryptRequest", ReEncryptRequest(args), h, m),
         NEW R, R = ReEncryptIn(m)
  PROVE  R \subseteq {args} /\ (h # "cut" => R # {})
<1> DEFINE T == "PreReEncryptRequest"
           msg == ReEncryptRequest(args)
<1>1. /\ args.cid \in Cids /\ args.lprime \in G1Points
      /\ args.rekeys \in Seq(G2Points) /\ args.txid \in Cids
      /\ args = [cid |-> args.cid, lprime |-> args.lprime,
                 rekeys |-> args.rekeys, txid |-> args.txid]
  BY ValueAssumption
<1>2. /\ msg["cid"] = CidString(args.cid) /\ msg["lpp"] = G1Marshal(args.lprime)
      /\ msg["re_keys"] =
           [k \in DOMAIN args.rekeys |-> G2Marshal(args.rekeys[k])]
      /\ msg["txid"] = CidString(args.txid)
  BY DEF ReEncryptRequest
<1>3. Known(T) = 1..4
  BY ReEncryptColumns DEF Known, Table
<1>4. /\ NameIn(T, 1) = "cid" /\ NameIn(T, 2) = "lpp"
      /\ NameIn(T, 3) = "re_keys" /\ NameIn(T, 4) = "txid"
      /\ \A k \in {1, 2, 4} : KindIn(T, k) = "bytes"
  <2>1. Table(T) = ReEncryptCases
    BY DEF Table
  <2>2. QED
    BY <2>1, ReEncryptColumns DEF NameIn, KindIn
<1> HIDE DEF T, msg
<1>5. Gets(T, msg, h, m)
  BY DEF T, msg
<1>6. /\ Part1(msg, h, m, "cid") /\ Part1(msg, h, m, "lpp")
      /\ Part1(msg, h, m, "txid")
      /\ m["txid"] # <<>> => m["re_keys"] = msg["re_keys"]
  <2>1. \A k \in {1, 2, 4} :
          /\ Part1(msg, h, m, NameIn(T, k))
          /\ m[NameIn(T, k)] # <<>> =>
               \A j \in 1..(k - 1) : m[NameIn(T, j)] = msg[NameIn(T, j)]
    <3>1. \A k \in {1, 2, 4} : k \in Known(T) /\ KindIn(T, k) # "repeated"
      BY <1>3, <1>4
    <3>2. QED
      BY <1>5, <3>1, FieldGot
  <2>2. 3 \in 1..(4 - 1)
    OBVIOUS
  <2>3. QED
    BY <1>4, <2>1, <2>2
<1>7. h # "cut" => m["re_keys"] = msg["re_keys"]
  BY <1>3, <1>4, <1>5 DEF Gets, AllFields
<1> DEFINE C == CidDecode(m["cid"])
           L == G1Unmarshal(m["lpp"])
           K == ReadReKeys(m["re_keys"])
           X == CidDecode(m["txid"])
<1>8. Back(h, C, args.cid)
  <2>1. args.cid \in Cids
    BY <1>1
  <2>2. msg["cid"] = CidString(args.cid)
    BY <1>2
  <2>3. Part1(msg, h, m, "cid")
    BY <1>6
  <2>4. QED
    BY <2>1, <2>2, <2>3, CidGot
<1>9. Back(h, L, args.lprime)
  BY <1>1, <1>2, <1>6, PointGot
<1>10. Back(h, X, args.txid)
  <2>1. args.txid \in Cids
    BY <1>1
  <2>2. msg["txid"] = CidString(args.txid)
    BY <1>2
  <2>3. Part1(msg, h, m, "txid")
    BY <1>6
  <2>4. QED
    BY <2>1, <2>2, <2>3, CidGot
<1>11. X # {} \/ h # "cut" => K = {args.rekeys}
  <2>1. ReadReKeys(msg["re_keys"]) = {args.rekeys}
    BY <1>1, <1>2, ReKeysDecode
  <2>2. X # {} \/ h # "cut" => m["re_keys"] = msg["re_keys"]
    BY <1>6, <1>7, CidDecodes
  <2>3. QED
    BY <2>1, <2>2
<1>12. R = [cid : C, lprime : L, rekeys : K, txid : X]
  BY DEF ReEncryptIn
<1> HIDE DEF C, L, K, X
<1>13. ASSUME NEW r \in R
       PROVE  r = args
  <2>1. X # {}
    BY <1>12
  <2>2. QED
    BY <1>1, <1>8, <1>9, <1>10, <1>11, <1>12, <2>1 DEF Back
<1>14. ASSUME h # "cut"
       PROVE  args \in R
  BY <1>1, <1>8, <1>9, <1>10, <1>11, <1>12, <1>14 DEF Back
<1>15. QED
  BY <1>13, <1>14

\* The size of an upload may be missing: it comes last, and is not checked.
LEMMA UploadGot ==
  ASSUME NEW args \in UploadTickets, NEW h, NEW m,
         Gets("StorUploadRequest", UploadRequest(args), h, m),
         NEW R, R = UploadIn(m)
  PROVE  /\ \A r \in R : \/ r = args
                         \/ h = "cut" /\ r = [args EXCEPT !.size = Zero]
         /\ h # "cut" => R # {}
<1> DEFINE T == "StorUploadRequest"
           msg == UploadRequest(args)
<1>1. /\ args.owner \in G1Points /\ args.cid \in Cids
      /\ args = [owner |-> args.owner, set |-> args.set,
                 cid |-> args.cid, size |-> args.size]
  BY ValueAssumption
<1>2. /\ msg["owner"] = G1Marshal(args.owner) /\ msg["set"] = args.set
      /\ msg["cid"] = CidString(args.cid) /\ msg["file_size"] = args.size
  BY DEF UploadRequest
<1>3. Known(T) = 1..5
  BY UploadColumns DEF Known, Table
<1>4. /\ NameIn(T, 1) = "owner" /\ NameIn(T, 3) = "set"
      /\ NameIn(T, 4) = "cid" /\ NameIn(T, 5) = "file_size"
      /\ \A k \in 1..5 : KindIn(T, k) # "repeated"
  <2>1. Table(T) = UploadCases
    BY DEF Table
  <2>2. QED
    BY <2>1, UploadColumns DEF NameIn, KindIn
<1> HIDE DEF T, msg
<1>5. Gets(T, msg, h, m)
  BY DEF T, msg
<1>6. /\ Part1(msg, h, m, "owner") /\ Part1(msg, h, m, "set")
      /\ Part1(msg, h, m, "cid") /\ Part1(msg, h, m, "file_size")
      /\ m["cid"] # <<>> => m["set"] = msg["set"]
  <2>1. \A k \in 1..5 :
          /\ Part1(msg, h, m, NameIn(T, k))
          /\ m[NameIn(T, k)] # <<>> =>
               \A j \in 1..(k - 1) : m[NameIn(T, j)] = msg[NameIn(T, j)]
    BY <1>3, <1>4, <1>5, FieldGot
  <2>2. 3 \in 1..(4 - 1)
    OBVIOUS
  <2>3. QED
    BY <1>4, <2>1, <2>2
<1> DEFINE O == G1Unmarshal(m["owner"])
           C == CidDecode(m["cid"])
           s == m["set"]
           z == m["file_size"]
<1>7. Back(h, O, args.owner)
  BY <1>1, <1>2, <1>6, PointGot
<1>8. Back(h, C, args.cid)
  <2>1. args.cid \in Cids
    BY <1>1
  <2>2. msg["cid"] = CidString(args.cid)
    BY <1>2
  <2>3. Part1(msg, h, m, "cid")
    BY <1>6
  <2>4. QED
    BY <2>1, <2>2, <2>3, CidGot
<1>9. /\ z = args.size \/ (h = "cut" /\ z = Zero)
      /\ h # "cut" => s = args.set
  BY <1>2, <1>6 DEF Part1, Zero
<1>10. C # {} => s = args.set
  BY <1>2, <1>6, CidDecodes
<1>11. R = [owner : O, set : {s}, cid : C, size : {z}]
  BY DEF UploadIn
<1> HIDE DEF O, C, s, z
<1>12. ASSUME NEW r \in R
       PROVE  r = args \/ (h = "cut" /\ r = [args EXCEPT !.size = Zero])
  <2>1. /\ r = [owner |-> r.owner, set |-> r.set, cid |-> r.cid,
                size |-> r.size]
        /\ r.owner \in O /\ r.set = s /\ r.cid \in C /\ r.size = z
    BY <1>11
  <2>2. r.owner = args.owner /\ r.cid = args.cid /\ r.set = args.set
    BY <1>7, <1>8, <1>10, <2>1 DEF Back
  <2>3. CASE z = args.size
    BY <1>1, <2>1, <2>2, <2>3
  <2>4. CASE h = "cut" /\ z = Zero
    <3>1. r = [owner |-> args.owner, set |-> args.set, cid |-> args.cid,
               size |-> Zero]
      BY <2>1, <2>2, <2>4
    <3>2. [args EXCEPT !.size = Zero] =
            [owner |-> args.owner, set |-> args.set, cid |-> args.cid,
             size |-> Zero]
      BY <1>1
    <3>3. QED
      BY <2>4, <3>1, <3>2
  <2>5. QED
    BY <1>9, <2>3, <2>4
<1>13. ASSUME h # "cut"
       PROVE  args \in R
  BY <1>1, <1>7, <1>8, <1>9, <1>11, <1>13 DEF Back
<1>14. QED
  BY <1>12, <1>13

\* A download is dropped, too, if it names no transaction.
LEMMA DownloadGot ==
  ASSUME NEW args \in DownloadTickets, NEW h, NEW m,
         Gets("StorDownloadRequest", DownloadRequest(args), h, m),
         NEW R, R = DownloadIn(m)
  PROVE  R \subseteq {args} /\ (h # "cut" /\ args.txid # UndefCid => R # {})
<1> DEFINE T == "StorDownloadRequest"
           msg == DownloadRequest(args)
<1>1. /\ args.owner \in G1Points /\ args.cid \in Cids
      /\ args.txid \in Cids \cup {UndefCid}
      /\ args = [owner |-> args.owner, cid |-> args.cid, txid |-> args.txid]
  BY ValueAssumption
<1>2. /\ msg["owner"] = G1Marshal(args.owner)
      /\ msg["cid"] = CidString(args.cid) /\ msg["txid"] = CidString(args.txid)
  BY DEF DownloadRequest
<1>3. Known(T) = 1..3
  BY DownloadColumns DEF Known, Table
<1>4. /\ NameIn(T, 1) = "owner" /\ NameIn(T, 2) = "cid" /\ NameIn(T, 3) = "txid"
      /\ \A k \in 1..3 : KindIn(T, k) # "repeated"
  <2>1. Table(T) = DownloadCases
    BY DEF Table
  <2>2. QED
    BY <2>1, DownloadColumns DEF NameIn, KindIn
<1> HIDE DEF T, msg
<1>5. Gets(T, msg, h, m)
  BY DEF T, msg
<1>6. /\ Part1(msg, h, m, "owner") /\ Part1(msg, h, m, "cid")
      /\ Part1(msg, h, m, "txid")
  <2>1. \A k \in 1..3 : Part1(msg, h, m, NameIn(T, k))
    BY <1>3, <1>4, <1>5, FieldGot
  <2>2. QED
    BY <1>4, <2>1
<1> DEFINE O == G1Unmarshal(m["owner"])
           C == CidDecode(m["cid"])
           X == CidDecode(m["txid"])
<1>7. Back(h, O, args.owner)
  BY <1>1, <1>2, <1>6, PointGot
<1>8. Back(h, C, args.cid)
  <2>1. args.cid \in Cids
    BY <1>1
  <2>2. msg["cid"] = CidString(args.cid)
    BY <1>2
  <2>3. Part1(msg, h, m, "cid")
    BY <1>6
  <2>4. QED
    BY <2>1, <2>2, <2>3, CidGot
<1>9. /\ X \subseteq {args.txid}
      /\ h # "cut" /\ args.txid # UndefCid => X = {args.txid}
  <2>1. msg["txid"] = CidString(args.txid) /\ Part1(msg, h, m, "txid")
    BY <1>2, <1>6
  <2>2. CASE args.txid \in Cids
    BY <2>1, <2>2, CidGot DEF Back
  <2>3. CASE args.txid = UndefCid
    <3>1. msg["txid"] = CidString(UndefCid)
      BY <2>1, <2>3
    <3>2. X = {}
      BY <2>1, <3>1, CidDecodes DEF Part1
    <3>3. QED
      BY <2>3, <3>2
  <2>4. QED
    BY <1>1, <2>2, <2>3
<1>10. R = [owner : O, cid : C, txid : X]
  BY DEF DownloadIn
<1> HIDE DEF O, C, X
<1>11. ASSUME NEW r \in R
       PROVE  r = args
  BY <1>1, <1>7, <1>8, <1>9, <1>10 DEF Back
<1>12. ASSUME h # "cut", args.txid # UndefCid
       PROVE  args \in R
  BY <1>1, <1>7, <1>8, <1>9, <1>10, <1>12 DEF Back
<1>13. QED
  BY <1>11, <1>12

----------------------------------------------------------------------------
(* What the client makes of a response                                     *)

\* A response without a field is read from nothing only.
LEMMA NothingRead ==
  ASSUME NEW type \in Types, NEW msg, NEW bytes, NEW m,
         ReadsFirst(type, msg, bytes, m), MarshalTo(type, m) = <<>>,
         IsMessage(Table(type), msg)
  PROVE  bytes = <<>>
<1> DEFINE ps == MarshalTo(type, msg)
           S == Seq(Byte)
<1>1. ps \in Seq(S)
  BY PiecesAre
<1>2. PICK n \in 0..Len(ps) : FlattenSeq(SubSeq(ps, 1, n)) = bytes
                              /\ <<>> = SubSeq(ps, 1, n)
  BY DEF ReadsFirst, EndsAfter
<1>3. FlattenSeq(<<>>) = <<>>
  BY FlattenNone
<1> HIDE DEF ps
<1>4. QED
  BY <1>2, <1>3, Zenon

\* The code of a response of the error err that comes as code, with text.
Tells(h, bytes, err, code, text) ==
  /\ text \in {err.msg, <<>>} /\ (h # "cut" => text = err.msg)
  /\ code = err.code \/ (h = "cut" /\ code = Zero /\ bytes = <<>>)

\* An error that is all of a response.
LEMMA ErrorGot ==
  ASSUME NEW type \in {"OtChoiceResponse", "PreReEncryptResponse"},
         NEW a \in Answers, NEW h, NEW m, NEW bytes,
         Gets(type, ErrorResponse(a), h, m),
         h = "cut" => ReadsFirst(type, ErrorResponse(a), bytes, m)
  PROVE  Tells(h, bytes, a.err, m.error_code, m.error_msg)
<1> DEFINE msg == ErrorResponse(a)
<1>1. msg["error_code"] = a.err.code /\ msg["error_msg"] = a.err.msg
  BY DEF ErrorResponse
<1>2. Known(type) = 1..2
  BY ErrorColumns DEF Known, Table
<1>3. /\ NameIn(type, 1) = "error_code" /\ NameIn(type, 2) = "error_msg"
      /\ \A k \in 1..2 : KindIn(type, k) # "repeated"
  <2>1. Table(type) = ErrorCases
    BY DEF Table
  <2>2. QED
    BY <2>1, ErrorColumns DEF NameIn, KindIn
<1>4. type \in Types /\ IsMessage(Table(type), msg)
  BY ErrorResponseIsPlain DEF Types, IsPlain
<1> HIDE DEF msg
<1>5. Gets(type, msg, h, m) /\ (h = "cut" => ReadsFirst(type, msg, bytes, m))
  BY DEF msg
<1>6. /\ Part1(msg, h, m, "error_code") /\ Part1(msg, h, m, "error_msg")
      /\ m["error_msg"] # <<>> => m["error_code"] = msg["error_code"]
  <2>1. \A k \in 1..2 :
          /\ Part1(msg, h, m, NameIn(type, k))
          /\ m[NameIn(type, k)] # <<>> =>
               \A j \in 1..(k - 1) : m[NameIn(type, j)] = msg[NameIn(type, j)]
    BY <1>2, <1>3, <1>5, FieldGot
  <2>2. 1 \in 1..(2 - 1)
    OBVIOUS
  <2>3. QED
    BY <1>3, <2>1, <2>2
<1>7. ASSUME m["error_code"] # a.err.code
      PROVE  bytes = <<>>
  <2>1. h = "cut" /\ m["error_code"] = <<>> /\ m["error_msg"] = <<>>
    BY <1>1, <1>6, <1>7 DEF Part1
  <2>2. ReadsFirst(type, msg, bytes, m) /\ m["unknown"] = <<>>
    BY <1>5, <2>1 DEF ReadsFirst
  <2>3. MarshalTo(type, m) = <<>>
    BY <2>1, <2>2 DEF MarshalTo, OtChoiceResponse_MarshalTo, Zero,
       PreReEncryptResponse_MarshalTo, NumberField, BytesField, UnknownFields
  <2>4. QED
    BY <1>4, <2>2, <2>3, NothingRead
<1>8. QED
  BY <1>1, <1>6, <1>7 DEF Tells, Part1, Zero

\* A response with the name of a peer.
LEMMA UploadedGot ==
  ASSUME NEW a \in Answers, NEW h, NEW m, NEW bytes,
         Gets("StorUploadResponse", UploadResponse(a), h, m),
         h = "cut" =>
           ReadsFirst("StorUploadResponse", UploadResponse(a), bytes, m)
  PROVE  /\ Tells(h, bytes, a.err, m.error_code, m.error_msg)
         /\ m.uploader \in {a.name, <<>>} /\ (h # "cut" => m.uploader = a.name)
<1> DEFINE type == "StorUploadResponse"
           msg == UploadResponse(a)
<1>1. msg["error_code"] = a.err.code /\ msg["error_msg"] = a.err.msg
      /\ msg["uploader"] = a.name
  BY DEF UploadResponse
<1>2. Known(type) = 1..3
  BY UploadedColumns DEF Known, Table
<1>3. /\ NameIn(type, 1) = "error_code" /\ NameIn(type, 2) = "error_msg"
      /\ NameIn(type, 3) = "uploader"
      /\ \A k \in 1..3 : KindIn(type, k) # "repeated"
  <2>1. Table(type) = UploadedCases
    BY DEF Table
  <2>2. QED
    BY <2>1, UploadedColumns DEF NameIn, KindIn
<1>4. type \in Types /\ IsMessage(Table(type), msg)
  BY UploadResponseIsPlain DEF Types, IsPlain
<1>5. \A x : x["error_code"] = <<>> /\ x["error_msg"] = <<>>
             /\ x["uploader"] = <<>> /\ x["unknown"] = <<>>
             => MarshalTo(type, x) = <<>>
  BY DEF MarshalTo, StorUploadResponse_MarshalTo, NumberField, BytesField,
         UnknownFields, Zero
<1> HIDE DEF type, msg
<1>6. Gets(type, msg, h, m) /\ (h = "cut" => ReadsFirst(type, msg, bytes, m))
  BY DEF type, msg
<1>7. /\ Part1(msg, h, m, "error_code") /\ Part1(msg, h, m, "error_msg")
      /\ Part1(msg, h, m, "uploader")
      /\ m["error_msg"] # <<>> => m["error_code"] = msg["error_code"]
      /\ m["uploader"] # <<>> => m["error_code"] = msg["error_code"]
  <2>1. \A k \in 1..3 :
          /\ Part1(msg, h, m, NameIn(type, k))
          /\ m[NameIn(type, k)] # <<>> =>
               \A j \in 1..(k - 1) : m[NameIn(type, j)] = msg[NameIn(type, j)]
    BY <1>2, <1>3, <1>6, FieldGot
  <2>2. 1 \in 1..(2 - 1) /\ 1 \in 1..(3 - 1)
    OBVIOUS
  <2>3. QED
    BY <1>3, <2>1, <2>2
<1>8. ASSUME m["error_code"] # a.err.code
      PROVE  bytes = <<>>
  <2>1. /\ h = "cut" /\ m["error_code"] = <<>> /\ m["error_msg"] = <<>>
        /\ m["uploader"] = <<>>
    BY <1>1, <1>7, <1>8 DEF Part1
  <2>2. ReadsFirst(type, msg, bytes, m) /\ m["unknown"] = <<>>
    BY <1>6, <2>1 DEF ReadsFirst
  <2>3. MarshalTo(type, m) = <<>>
    BY <1>5, <2>1, <2>2
  <2>4. QED
    BY <1>4, <2>2, <2>3, NothingRead
<1>9. QED
  BY <1>1, <1>7, <1>8 DEF Tells, Part1, Zero

\* The same for the response to a download.
LEMMA DownloadedGot ==
  ASSUME NEW a \in Answers, NEW h, NEW m, NEW bytes,
         Gets("StorDownloadResponse", DownloadResponse(a), h, m),
         h = "cut" =>
           ReadsFirst("StorDownloadResponse", DownloadResponse(a), bytes, m)
  PROVE  /\ Tells(h, bytes, a.err, m.error_code, m.error_msg)
         /\ m.downloader \in {a.name, <<>>}
         /\ h # "cut" => m.downloader = a.name
<1> DEFINE type == "StorDownloadResponse"
           msg == DownloadResponse(a)
<1>1. msg["error_code"] = a.err.code /\ msg["error_msg"] = a.err.msg
      /\ msg["downloader"] = a.name
  BY DEF DownloadResponse
<1>2. Known(type) = 1..3
  BY DownloadedColumns DEF Known, Table
<1>3. /\ NameIn(type, 1) = "error_code" /\ NameIn(type, 2) = "error_msg"
      /\ NameIn(type, 3) = "downloader"
      /\ \A k \in 1..3 : KindIn(type, k) # "repeated"
  <2>1. Table(type) = DownloadedCases
    BY DEF Table
  <2>2. QED
    BY <2>1, DownloadedColumns DEF NameIn, KindIn
<1>4. type \in Types /\ IsMessage(Table(type), msg)
  BY DownloadResponseIsPlain DEF Types, IsPlain
<1>5. \A x : x["error_code"] = <<>> /\ x["error_msg"] = <<>>
             /\ x["downloader"] = <<>> /\ x["unknown"] = <<>>
             => MarshalTo(type, x) = <<>>
  BY DEF MarshalTo, StorDownloadResponse_MarshalTo, NumberField, BytesField,
         UnknownFields, Zero
<1> HIDE DEF type, msg
<1>6. Gets(type, msg, h, m) /\ (h = "cut" => ReadsFirst(type, msg, bytes, m))
  BY DEF type, msg
<1>7. /\ Part1(msg, h, m, "error_code") /\ Part1(msg, h, m, "error_msg")
      /\ Part1(msg, h, m, "downloader")
      /\ m["error_msg"] # <<>> => m["error_code"] = msg["error_code"]
      /\ m["downloader"] # <<>> => m["error_code"] = msg["error_code"]
  <2>1. \A k \in 1..3 :
          /\ Part1(msg, h, m, NameIn(type, k))
          /\ m[NameIn(type, k)] # <<>> =>
               \A j \in 1..(k - 1) : m[NameIn(type, j)] = msg[NameIn(type, j)]
    BY <1>2, <1>3, <1>6, FieldGot
  <2>2. 1 \in 1..(2 - 1) /\ 1 \in 1..(3 - 1)
    OBVIOUS
  <2>3. QED
    BY <1>3, <2>1, <2>2
<1>8. ASSUME m["error_code"] # a.err.code
      PROVE  bytes = <<>>
  <2>1. /\ h = "cut" /\ m["error_code"] = <<>> /\ m["error_msg"] = <<>>
        /\ m["downloader"] = <<>>
    BY <1>1, <1>7, <1>8 DEF Part1
  <2>2. ReadsFirst(type, msg, bytes, m) /\ m["unknown"] = <<>>
    BY <1>6, <2>1 DEF ReadsFirst
  <2>3. MarshalTo(type, m) = <<>>
    BY <1>5, <2>1, <2>2
  <2>4. QED
    BY <1>4, <2>2, <2>3, NothingRead
<1>9. QED
  BY <1>1, <1>7, <1>8 DEF Tells, Part1, Zero

----------------------------------------------------------------------------
(* The inductive invariant                                                 *)

\* The message of a request for these arguments, and of a response with this
\* answer.
Asks(kind, args, type, m) ==
  \/ /\ kind = "choice" /\ type = "OtChoiceRequest"
     /\ args \in OtChoices /\ m = ChoiceRequest(args)
  \/ /\ kind = "reencrypt" /\ type = "PreReEncryptRequest"
     /\ args \in PreArgs /\ m = ReEncryptRequest(args)
  \/ /\ kind = "upload" /\ type = "StorUploadRequest"
     /\ args \in UploadTickets /\ m = UploadRequest(args)
  \/ /\ kind = "download" /\ type = "StorDownloadRequest"
     /\ args \in DownloadTickets /\ m = DownloadRequest(args)

Responds(kind, a, type, m) ==
  \/ /\ kind = "choice" /\ type = "OtChoiceResponse"
     /\ m = ErrorResponse(a)
  \/ /\ kind = "reencrypt" /\ type = "PreReEncryptResponse"
     /\ m = ErrorResponse(a)
  \/ /\ kind = "upload" /\ type = "StorUploadResponse"
     /\ m = UploadResponse(a)
  \/ /\ kind = "download" /\ type = "StorDownloadResponse"
     /\ m = DownloadResponse(a)

IsStream(s) ==
  /\ s = [type |-> s.type, msg |-> s.msg, bytes |-> s.bytes, new |-> s.new]
  /\ s # None /\ s.bytes \in Seq(Byte)

\* The stream under way carries what comes of its message.
Carries(h) == Comes(stream.type, stream.msg, h, stream.bytes, stream.new)

Idle ==
  /\ pc = "idle" /\ call = None /\ stream = None /\ passed = None
  /\ answer = None /\ result = None
  /\ how.request = "whole" /\ how.response = "whole"

Requesting ==
  /\ pc = "request" /\ call # None /\ IsStream(stream)
  /\ Asks(call.kind, call.args, stream.type, stream.msg)
  /\ Carries(how.request)
  /\ passed = None /\ answer = None /\ result = None
  /\ how.response = "whole"

Responding ==
  /\ pc = "response" /\ call # None /\ IsStream(stream)
  /\ Responds(call.kind, answer, stream.type, stream.msg)
  /\ Carries(how.response)
  /\ passed # None /\ answer \in Answers /\ answer # None /\ result = None

\* If the node has answered, it was the response that broke.
Lost ==
  /\ pc = "lost" /\ call # None /\ IsStream(stream) /\ result = None
  /\ \/ passed = None /\ answer = None
     \/ passed # None /\ answer # None /\ how.response = "cut"

Done ==
  /\ pc = "done" /\ call # None /\ IsStream(stream) /\ result # None
  /\ result.name \in Seq(Byte)
  /\ passed = None <=> answer = None

IInv ==
  /\ how = [request |-> how.request, response |-> how.response]
  /\ Idle \/ Requesting \/ Responding \/ Lost \/ Done
  /\ NodeGetsArgs /\ DropsOnlyBroken /\ AnswerExact
Requests == {"OtChoiceRequest", "PreReEncryptRequest", "StorUploadRequest",
             "StorDownloadRequest"}

\* What is sent is a message of its type.
LEMMA AskedIsPlain ==
  ASSUME NEW kind, NEW args, NEW type, NEW m, Asks(kind, args, type, m)
  PROVE  type \in Requests /\ type \in Types /\ IsPlain(type, m)
BY ChoiceRequestIsPlain, ReEncryptRequestIsPlain, UploadRequestIsPlain,
   DownloadRequestIsPlain DEF Asks, Requests, Types

\* The same for a response.
LEMMA RespondedIsPlain ==
  ASSUME NEW kind, NEW a \in Answers, NEW type, NEW m,
         Responds(kind, a, type, m)
  PROVE  type \notin Requests /\ type \in Types /\ IsPlain(type, m)
BY ErrorResponseIsPlain, UploadResponseIsPlain, DownloadResponseIsPlain
   DEF Responds, Requests, Types

\* What is under way is the bytes of a message.
LEMMA UnderWay ==
  ASSUME IInv, pc \in {"request", "response"}
  PROVE  /\ stream.type \in Types /\ IsPlain(stream.type, stream.msg)
         /\ stream.type \in Requests <=> pc = "request"
         /\ IsStream(stream) /\ Carries(how[pc])
<1>1. CASE pc = "request"
  <2>1. Requesting
    BY <1>1 DEF IInv, Idle, Responding, Lost, Done
  <2>2. how[pc] = how.request
    BY <1>1
  <2>3. QED
    BY <1>1, <2>1, <2>2, AskedIsPlain DEF Requesting
<1>2. CASE pc = "response"
  <2>1. Responding
    BY <1>2 DEF IInv, Idle, Requesting, Lost, Done
  <2>2. how[pc] = how.response
    BY <1>2
  <2>3. QED
    BY <1>2, <2>1, <2>2, RespondedIsPlain DEF Responding
<1>3. QED
  BY <1>1, <1>2

\* Initially nothing has been called.
LEMMA InitInv ==
  Init => IInv
BY DEF Init, IInv, Idle, NodeGetsArgs, DropsOnlyBroken, AnswerExact

\* The bytes of a message that nothing happens to.
LEMMA WholeComes ==
  ASSUME NEW type \in Types, NEW m, IsPlain(type, m), NEW s,
         s = [type |-> type, msg |-> m, bytes |-> Written(type, m),
              new |-> <<>>]
  PROVE  IsStream(s) /\ Comes(s.type, s.msg, "whole", s.bytes, s.new)
<1>1. Written(type, m) \in Seq(Byte)
  BY PiecesAre DEF IsPlain
<1>2. s.bytes = Written(type, m) /\ s.type = type /\ s.msg = m
      /\ s = [type |-> s.type, msg |-> s.msg, bytes |-> s.bytes, new |-> s.new]
  OBVIOUS
<1>3. s # None
  BY DEF None
<1>4. QED
  BY <1>1, <1>2, <1>3 DEF IsStream, Comes

\* The client calls.
LEMMA StartKeeps ==
  ASSUME IInv, NEW kind, NEW args, NEW type, NEW m, Asks(kind, args, type, m),
         Start(kind, args, type, m)
  PROVE  IInv'
<1>1. type \in Types /\ IsPlain(type, m)
  BY AskedIsPlain
<1>2. Idle
  BY DEF Start, IInv, Requesting, Responding, Lost, Done
<1>3. /\ pc' = "request" /\ call' = [kind |-> kind, args |-> args]
      /\ stream' = [type |-> type, msg |-> m, bytes |-> Written(type, m),
                    new |-> <<>>]
      /\ how' = how /\ passed' = passed /\ answer' = answer
      /\ result' = result
  BY DEF Start, Carry
<1>4. /\ IsStream(stream')
      /\ Comes(stream'.type, stream'.msg, "whole", stream'.bytes, stream'.new)
  BY <1>1, <1>3, WholeComes
<1>5. call' # None /\ call'.kind = kind /\ call'.args = args
      /\ stream'.type = type /\ stream'.msg = m
  BY <1>3 DEF None
<1>6. /\ how'.request = "whole" /\ how'.response = "whole"
      /\ passed' = None /\ answer' = None /\ result' = None
  BY <1>2, <1>3 DEF Idle
<1>7. Requesting'
  BY <1>3, <1>4, <1>5, <1>6 DEF Requesting, Carries
<1>8. NodeGetsArgs' /\ DropsOnlyBroken' /\ AnswerExact'
  BY <1>3, <1>6 DEF NodeGetsArgs, DropsOnlyBroken, AnswerExact
<1>9. (how = [request |-> how.request, response |-> how.response])'
  BY <1>3 DEF IInv
<1>10. QED
  BY <1>7, <1>8, <1>9 DEF IInv
\* Something happens to a stream.
LEMMA DisturbKeeps ==
  ASSUME IInv, pc \in {"request", "response"}, NEW kind, NEW bytes, NEW new,
         Disturb(kind, bytes, new),
         Comes(stream.type, stream.msg, kind, bytes, new)
  PROVE  IInv'
<1>1. stream.type \in Types /\ IsPlain(stream.type, stream.msg)
      /\ IsStream(stream)
  BY UnderWay
<1>2. bytes \in Seq(Byte)
  BY <1>1, ComesBytes DEF IsPlain
<1>3. /\ how.request = "whole" /\ how.response = "whole"
      /\ how = [request |-> how.request, response |-> how.response]
  <2>1. how = [request |-> how.request, response |-> how.response]
    BY DEF IInv
  <2>2. \A d \in DOMAIN how : how[d] = "whole"
    BY DEF Disturb
  <2>3. "request" \in DOMAIN how /\ "response" \in DOMAIN how
    BY <2>1
  <2>4. QED
    BY <2>1, <2>2, <2>3
<1>4. /\ pc' = pc /\ call' = call /\ passed' = passed /\ answer' = answer
      /\ result' = result
      /\ how' = [how EXCEPT ![pc] = kind]
      /\ stream' = [stream EXCEPT !.bytes = bytes, !.new = new]
  BY DEF Disturb, IInv, Idle, Requesting, Responding, Lost, Done
<1>5. /\ stream' = [type |-> stream.type, msg |-> stream.msg,
                    bytes |-> bytes, new |-> new]
      /\ stream'.type = stream.type /\ stream'.msg = stream.msg
      /\ stream'.bytes = bytes /\ stream'.new = new
  BY <1>1, <1>4 DEF IsStream
<1>6. IsStream(stream')
  BY <1>2, <1>5 DEF IsStream, None
<1>7. Comes(stream'.type, stream'.msg, kind, stream'.bytes, stream'.new)
  BY <1>5
<1>8. CASE pc = "request"
  <2>1. how' = [request |-> kind, response |-> "whole"]
    BY <1>3, <1>4, <1>8
  <2>2. Requesting
    BY <1>8 DEF IInv, Idle, Responding, Lost, Done
  <2>3. how'.request = kind /\ how'.response = "whole"
        /\ how' = [request |-> how'.request, response |-> how'.response]
    BY <2>1
  <2>4. Requesting'
    BY <1>4, <1>5, <1>6, <1>7, <2>2, <2>3 DEF Requesting, Carries
  <2>5. NodeGetsArgs' /\ DropsOnlyBroken' /\ AnswerExact'
    BY <1>4, <1>8, <2>2
       DEF Requesting, NodeGetsArgs, DropsOnlyBroken, AnswerExact
  <2>6. QED
    BY <2>3, <2>4, <2>5 DEF IInv
<1>9. CASE pc = "response"
  <2>1. how' = [request |-> "whole", response |-> kind]
    BY <1>3, <1>4, <1>9
  <2>2. Responding
    BY <1>9 DEF IInv, Idle, Requesting, Lost, Done
  <2>3. how'.request = "whole" /\ how'.response = kind
        /\ how' = [request |-> how'.request, response |-> how'.response]
    BY <2>1
  <2>4. Responding'
    BY <1>4, <1>5, <1>6, <1>7, <2>2, <2>3 DEF Responding, Carries
  <2>5. DropsOnlyBroken' /\ AnswerExact'
    BY <1>4, <1>9, <2>2 DEF Responding, DropsOnlyBroken, AnswerExact
  <2>6. NodeGetsArgs'
    BY <1>3, <1>4, <2>3 DEF IInv, NodeGetsArgs
  <2>7. QED
    BY <2>3, <2>4, <2>5, <2>6 DEF IInv
<1>10. QED
  BY <1>8, <1>9

\* Every disturbance leaves bytes that come of the message.
LEMMA DisturbanceKeeps ==
  ASSUME IInv, Disturbance
  PROVE  IInv'
<1>1. pc \in {"request", "response"}
  BY DEF Disturbance
<1>2. stream.bytes = Written(stream.type, stream.msg)
      \/ ~(\A d \in DOMAIN how : how[d] = "whole")
  <2>1. SUFFICES ASSUME \A d \in DOMAIN how : how[d] = "whole"
                 PROVE  stream.bytes = Written(stream.type, stream.msg)
    OBVIOUS
  <2>2. how = [request |-> how.request, response |-> how.response]
    BY DEF IInv
  <2>3. pc \in DOMAIN how
    BY <1>1, <2>2
  <2>4. how[pc] = "whole"
    BY <2>1, <2>3
  <2>5. Carries("whole")
    BY <1>1, <2>4, UnderWay
  <2>6. QED
    BY <2>5 DEF Carries, Comes
<1>3. CASE \E field \in NewFields, n \in 0..Len(Pieces) : LaterVersion(field, n)
  <2>1. PICK field \in NewFields, n \in 0..Len(Pieces) : LaterVersion(field, n)
    BY <1>3
  <2> DEFINE b == FlattenSeq(InsertAt(Pieces, n + 1, field))
  <2>2. Disturb("extended", b, field)
    BY <2>1 DEF LaterVersion
  <2>3. Comes(stream.type, stream.msg, "extended", b, field)
    BY <2>1 DEF Comes, Pieces
  <2> HIDE DEF b
  <2>4. QED
    BY <1>1, <2>2, <2>3, DisturbKeeps
<1>4. CASE OtherOrder
  <2>1. PICK order \in Orders([k \in DOMAIN Pieces |-> Pieces[k][1]]) :
          Disturb("reordered",
                  FlattenSeq([k \in DOMAIN Pieces |-> Pieces[order[k]]]), <<>>)
    BY <1>4, Zenon DEF OtherOrder
  <2> DEFINE b == FlattenSeq([k \in DOMAIN Pieces |-> Pieces[order[k]]])
  <2>2. Disturb("reordered", b, <<>>)
    BY <2>1
  <2>3. Comes(stream.type, stream.msg, "reordered", b, <<>>)
    BY <2>1, Zenon DEF Comes, Pieces
  <2> HIDE DEF b
  <2>4. QED
    BY <1>1, <2>2, <2>3, DisturbKeeps
<1>5. CASE \E n \in 0..(Len(stream.bytes) - 1) : EndsEarly(n)
  <2>1. PICK n \in 0..(Len(stream.bytes) - 1) : EndsEarly(n)
    BY <1>5
  <2> DEFINE b == SubSeq(stream.bytes, 1, n)
  <2>2. Disturb("cut", b, <<>>)
    BY <2>1 DEF EndsEarly
  <2>3. stream.bytes = Written(stream.type, stream.msg)
    BY <1>2, <2>2 DEF Disturb
  <2>4. Comes(stream.type, stream.msg, "cut", b, <<>>)
    BY <2>1, <2>3 DEF Comes
  <2> HIDE DEF b
  <2>5. QED
    BY <1>1, <2>2, <2>4, DisturbKeeps
<1>6. QED
  BY <1>3, <1>4, <1>5 DEF Disturbance
\* The server's handler calls its node, which answers.
LEMMA ReplyKeeps ==
  ASSUME IInv, Requesting, NEW args, NEW a \in Answers, NEW type, NEW m,
         Reply(args, a, type, m), Responds(call.kind, a, type, m),
         args # None,
         \/ args = call.args
         \/ /\ how.request = "cut" /\ call.kind = "upload"
            /\ args = [call.args EXCEPT !.size = Zero]
  PROVE  IInv'
<1>1. type \in Types /\ IsPlain(type, m)
  BY RespondedIsPlain
<1>2. /\ pc' = "response" /\ call' = call /\ how' = how /\ passed' = args
      /\ answer' = a /\ result' = result
      /\ stream' = [type |-> type, msg |-> m, bytes |-> Written(type, m),
                    new |-> <<>>]
  BY DEF Reply, Carry
<1>3. /\ IsStream(stream')
      /\ Comes(stream'.type, stream'.msg, "whole", stream'.bytes, stream'.new)
  BY <1>1, <1>2, WholeComes
<1>4. stream'.type = type /\ stream'.msg = m
  BY <1>2
<1>5. a # None
  <2>1. a = [name |-> a.name, err |-> a.err]
    BY ValueAssumption
  <2>2. QED
    BY <2>1 DEF None
<1>6. Responding'
  BY <1>2, <1>3, <1>4, <1>5 DEF Requesting, Responding, Carries
<1>7. DropsOnlyBroken' /\ AnswerExact'
  BY <1>2 DEF DropsOnlyBroken, AnswerExact
<1>8. NodeGetsArgs'
  BY <1>2 DEF NodeGetsArgs
<1>9. (how = [request |-> how.request, response |-> how.response])'
  BY <1>2 DEF IInv
<1>10. QED
  BY <1>6, <1>7, <1>8, <1>9 DEF IInv

\* A handler returns without a call of the node, or of Push.
LEMMA DropKeeps ==
  ASSUME IInv, pc \in {"request", "response"}, Drop,
         \/ \E d \in DOMAIN how : how[d] = "cut"
         \/ call.kind = "download" /\ call.args.txid = UndefCid,
         pc = "response" => how.response = "cut"
  PROVE  IInv'
<1>1. /\ pc' = "lost" /\ call' = call /\ stream' = stream /\ how' = how
      /\ passed' = passed /\ answer' = answer /\ result' = result
  BY DEF Drop
<1>2. Requesting \/ Responding
  BY DEF IInv, Idle, Lost, Done
<1>3. Lost'
  BY <1>1, <1>2 DEF Requesting, Responding, Lost
<1>4. DropsOnlyBroken' /\ AnswerExact'
  BY <1>1 DEF DropsOnlyBroken, AnswerExact
<1>5. NodeGetsArgs'
  BY <1>1 DEF IInv, NodeGetsArgs
<1>6. (how = [request |-> how.request, response |-> how.response])'
  BY <1>1 DEF IInv
<1>7. QED
  BY <1>3, <1>4, <1>5, <1>6 DEF IInv

\* What a server's handler finds on its stream.
LEMMA RequestArrived ==
  ASSUME IInv, NEW type \in Requests, Arrived(type)
  PROVE  /\ Requesting /\ pc = "request" /\ type \in Types
         /\ IsPlain(type, stream.msg)
         /\ Asks(call.kind, call.args, type, stream.msg)
         /\ Comes(type, stream.msg, how.request, stream.bytes, stream.new)
         /\ how.request = "cut" => \E d \in DOMAIN how : how[d] = "cut"
<1>1. pc \in {"request", "response"} /\ stream.type = type
  BY DEF Arrived
<1>2. pc = "request"
  BY <1>1, UnderWay
<1>3. Requesting
  BY <1>2 DEF IInv, Idle, Responding, Lost, Done
<1>4. /\ Asks(call.kind, call.args, type, stream.msg)
      /\ Comes(type, stream.msg, how.request, stream.bytes, stream.new)
  BY <1>1, <1>3 DEF Requesting, Carries
<1>5. how.request = "cut" => \E d \in DOMAIN how : how[d] = "cut"
  <2>1. how = [request |-> how.request, response |-> how.response]
    BY DEF IInv
  <2>2. "request" \in DOMAIN how
    BY <2>1
  <2>3. QED
    BY <2>2
<1>6. QED
  BY <1>2, <1>3, <1>4, <1>5, AskedIsPlain

\* The server of OtChoiceRequest.
LEMMA ChoiceRequestKeeps ==
  ASSUME IInv, OnChoiceRequest
  PROVE  IInv'
<1> DEFINE type == "OtChoiceRequest"
           b == stream.bytes
<1>1. Arrived(type) /\ type \in Requests
  BY DEF OnChoiceRequest, Requests
<1>2. /\ Requesting /\ pc = "request" /\ type \in Types
      /\ IsPlain(type, stream.msg)
      /\ Asks(call.kind, call.args, type, stream.msg)
      /\ Comes(type, stream.msg, how.request, b, stream.new)
      /\ how.request = "cut" => \E d \in DOMAIN how : how[d] = "cut"
  BY <1>1, RequestArrived
<1>3. /\ call.kind = "choice" /\ call.args \in OtChoices
      /\ stream.msg = ChoiceRequest(call.args)
  BY <1>2 DEF Asks
<1>4. ReadChoice = UNION {ChoiceIn(m) : m \in Unmarshal(type, b)}
  BY DEF ReadChoice, ChoiceIn, Unmarshal
<1>5. \/ how.request = "cut" /\ Unmarshal(type, b) = {}
      \/ \E m : /\ Unmarshal(type, b) = {m}
                /\ Gets(type, stream.msg, how.request, m)
  BY <1>2, WhatIsGot
<1>6. /\ ReadChoice \subseteq {call.args}
      /\ how.request # "cut" => ReadChoice # {}
  <2>1. CASE how.request = "cut" /\ Unmarshal(type, b) = {}
    BY <1>4, <2>1
  <2>2. ASSUME NEW m, Unmarshal(type, b) = {m},
               Gets(type, stream.msg, how.request, m)
        PROVE  /\ ReadChoice \subseteq {call.args}
               /\ how.request # "cut" => ReadChoice # {}
    <3>1. ReadChoice = ChoiceIn(m)
      BY <1>4, <2>2
    <3>2. Gets(type, ChoiceRequest(call.args), how.request, m)
      BY <1>3, <2>2
    <3>3. QED
      BY <1>3, <3>1, <3>2, ChoiceGot
  <2>3. QED
    BY <1>5, <2>1, <2>2
<1>7. CASE ReadChoice = {} /\ Drop
  BY <1>2, <1>6, <1>7, DropKeeps
<1>8. ASSUME NEW choice \in ReadChoice, NEW a \in Answers,
             Reply(choice, a, "OtChoiceResponse", ErrorResponse(a))
      PROVE  IInv'
  <2>1. choice = call.args /\ choice # None
    <3>1. choice = [cid |-> choice.cid, owner |-> choice.owner,
                    y |-> choice.y, l |-> choice.l]
      BY <1>3, <1>6, ValueAssumption
    <3>2. QED
      BY <1>6, <3>1 DEF None
  <2>2. Responds(call.kind, a, "OtChoiceResponse", ErrorResponse(a))
    BY <1>3 DEF Responds
  <2>3. QED
    BY <1>2, <1>8, <2>1, <2>2, ReplyKeeps
<1>9. QED
  BY <1>7, <1>8 DEF OnChoiceRequest, ErrorResponse

\* The server of PreReEncryptRequest.
LEMMA ReEncryptRequestKeeps ==
  ASSUME IInv, OnReEncryptRequest
  PROVE  IInv'
<1> DEFINE type == "PreReEncryptRequest"
           b == stream.bytes
<1>1. Arrived(type) /\ type \in Requests
  BY DEF OnReEncryptRequest, Requests
<1>2. /\ Requesting /\ pc = "request" /\ type \in Types
      /\ IsPlain(type, stream.msg)
      /\ Asks(call.kind, call.args, type, stream.msg)
      /\ Comes(type, stream.msg, how.request, b, stream.new)
      /\ how.request = "cut" => \E d \in DOMAIN how : how[d] = "cut"
  BY <1>1, RequestArrived
<1>3. /\ call.kind = "reencrypt" /\ call.args \in PreArgs
      /\ stream.msg = ReEncryptRequest(call.args)
  BY <1>2 DEF Asks
<1>4. ReadReEncryption = UNION {ReEncryptIn(m) : m \in Unmarshal(type, b)}
  BY DEF ReadReEncryption, ReEncryptIn, Unmarshal
<1>5. \/ how.request = "cut" /\ Unmarshal(type, b) = {}
      \/ \E m : /\ Unmarshal(type, b) = {m}
                /\ Gets(type, stream.msg, how.request, m)
  BY <1>2, WhatIsGot
<1>6. /\ ReadReEncryption \subseteq {call.args}
      /\ how.request # "cut" => ReadReEncryption # {}
  <2>1. CASE how.request = "cut" /\ Unmarshal(type, b) = {}
    BY <1>4, <2>1
  <2>2. ASSUME NEW m, Unmarshal(type, b) = {m},
               Gets(type, stream.msg, how.request, m)
        PROVE  /\ ReadReEncryption \subseteq {call.args}
               /\ how.request # "cut" => ReadReEncryption # {}
    <3>1. ReadReEncryption = ReEncryptIn(m)
      BY <1>4, <2>2
    <3>2. Gets(type, ReEncryptRequest(call.args), how.request, m)
      BY <1>3, <2>2
    <3>3. QED
      BY <1>3, <3>1, <3>2, ReEncryptGot
  <2>3. QED
    BY <1>5, <2>1, <2>2
<1>7. CASE ReadReEncryption = {} /\ Drop
  BY <1>2, <1>6, <1>7, DropKeeps
<1>8. ASSUME NEW args \in ReadReEncryption, NEW a \in Answers,
             Reply(args, a, "PreReEncryptResponse", ErrorResponse(a))
      PROVE  IInv'
  <2>1. args = call.args /\ args # None
    <3>1. args = [cid |-> args.cid, lprime |-> args.lprime,
                  rekeys |-> args.rekeys, txid |-> args.txid]
      BY <1>3, <1>6, ValueAssumption
    <3>2. QED
      BY <1>6, <3>1 DEF None
  <2>2. Responds(call.kind, a, "PreReEncryptResponse", ErrorResponse(a))
    BY <1>3 DEF Responds
  <2>3. QED
    BY <1>2, <1>8, <2>1, <2>2, ReplyKeeps
<1>9. QED
  BY <1>7, <1>8 DEF OnReEncryptRequest, ErrorResponse

\* The server of StorUploadRequest.
LEMMA UploadRequestKeeps ==
  ASSUME IInv, OnUploadRequest
  PROVE  IInv'
<1> DEFINE type == "StorUploadRequest"
           b == stream.bytes
<1>1. Arrived(type) /\ type \in Requests
  BY DEF OnUploadRequest, Requests
<1>2. /\ Requesting /\ pc = "request" /\ type \in Types
      /\ IsPlain(type, stream.msg)
      /\ Asks(call.kind, call.args, type, stream.msg)
      /\ Comes(type, stream.msg, how.request, b, stream.new)
      /\ how.request = "cut" => \E d \in DOMAIN how : how[d] = "cut"
  BY <1>1, RequestArrived
<1>3. /\ call.kind = "upload" /\ call.args \in UploadTickets
      /\ stream.msg = UploadRequest(call.args)
  BY <1>2 DEF Asks
<1>4. ReadUpload = UNION {UploadIn(m) : m \in Unmarshal(type, b)}
  BY DEF ReadUpload, UploadIn, Unmarshal
<1>5. \/ how.request = "cut" /\ Unmarshal(type, b) = {}
      \/ \E m : /\ Unmarshal(type, b) = {m}
                /\ Gets(type, stream.msg, how.request, m)
  BY <1>2, WhatIsGot
<1>6. /\ \A r \in ReadUpload :
           \/ r = call.args
           \/ how.request = "cut" /\ r = [call.args EXCEPT !.size = Zero]
      /\ how.request # "cut" => ReadUpload # {}
  <2>1. CASE how.request = "cut" /\ Unmarshal(type, b) = {}
    BY <1>4, <2>1
  <2>2. ASSUME NEW m, Unmarshal(type, b) = {m},
               Gets(type, stream.msg, how.request, m)
        PROVE  /\ \A r \in ReadUpload :
                    \/ r = call.args
                    \/ /\ how.request = "cut"
                       /\ r = [call.args EXCEPT !.size = Zero]
               /\ how.request # "cut" => ReadUpload # {}
    <3>1. ReadUpload = UploadIn(m)
      BY <1>4, <2>2
    <3>2. Gets(type, UploadRequest(call.args), how.request, m)
      BY <1>3, <2>2
    <3>3. QED
      BY <1>3, <3>1, <3>2, UploadGot
  <2>3. QED
    BY <1>5, <2>1, <2>2
<1>7. CASE ReadUpload = {} /\ Drop
  BY <1>2, <1>6, <1>7, DropKeeps
<1>8. ASSUME NEW ticket \in ReadUpload, NEW a \in Answers,
             Reply(ticket, a, "StorUploadResponse", UploadResponse(a))
      PROVE  IInv'
  <2>1. ticket # None
    <3>1. ticket \in UNION {UploadIn(m) : m \in Unmarshal(type, b)}
      BY <1>4
    <3>2. PICK m : ticket \in UploadIn(m)
      BY <3>1
    <3>3. ticket = [owner |-> ticket.owner, set |-> ticket.set,
                    cid |-> ticket.cid, size |-> ticket.size]
      BY <3>2 DEF UploadIn
    <3>4. QED
      BY <3>3 DEF None
  <2>2. Responds(call.kind, a, "StorUploadResponse", UploadResponse(a))
    BY <1>3 DEF Responds
  <2>3. QED
    BY <1>2, <1>3, <1>6, <1>8, <2>1, <2>2, ReplyKeeps
<1>9. QED
  BY <1>7, <1>8 DEF OnUploadRequest, UploadResponse

\* The server of StorDownloadRequest.
LEMMA DownloadRequestKeeps ==
  ASSUME IInv, OnDownloadRequest
  PROVE  IInv'
<1> DEFINE type == "StorDownloadRequest"
           b == stream.bytes
<1>1. Arrived(type) /\ type \in Requests
  BY DEF OnDownloadRequest, Requests
<1>2. /\ Requesting /\ pc = "request" /\ type \in Types
      /\ IsPlain(type, stream.msg)
      /\ Asks(call.kind, call.args, type, stream.msg)
      /\ Comes(type, stream.msg, how.request, b, stream.new)
      /\ how.request = "cut" => \E d \in DOMAIN how : how[d] = "cut"
  BY <1>1, RequestArrived
<1>3. /\ call.kind = "download" /\ call.args \in DownloadTickets
      /\ stream.msg = DownloadRequest(call.args)
  BY <1>2 DEF Asks
<1>4. ReadDownload = UNION {DownloadIn(m) : m \in Unmarshal(type, b)}
  BY DEF ReadDownload, DownloadIn, Unmarshal
<1>5. \/ how.request = "cut" /\ Unmarshal(type, b) = {}
      \/ \E m : /\ Unmarshal(type, b) = {m}
                /\ Gets(type, stream.msg, how.request, m)
  BY <1>2, WhatIsGot
<1>6. /\ ReadDownload \subseteq {call.args}
      /\ how.request # "cut" /\ call.args.txid # UndefCid => ReadDownload # {}
  <2>1. CASE how.request = "cut" /\ Unmarshal(type, b) = {}
    BY <1>4, <2>1
  <2>2. ASSUME NEW m, Unmarshal(type, b) = {m},
               Gets(type, stream.msg, how.request, m)
        PROVE  /\ ReadDownload \subseteq {call.args}
               /\ how.request # "cut" /\ call.args.txid # UndefCid
                    => ReadDownload # {}
    <3>1. ReadDownload = DownloadIn(m)
      BY <1>4, <2>2
    <3>2. Gets(type, DownloadRequest(call.args), how.request, m)
      BY <1>3, <2>2
    <3>3. QED
      BY <1>3, <3>1, <3>2, DownloadGot
  <2>3. QED
    BY <1>5, <2>1, <2>2
<1>7. CASE ReadDownload = {} /\ Drop
  BY <1>2, <1>3, <1>6, <1>7, DropKeeps
<1>8. ASSUME NEW ticket \in ReadDownload, NEW a \in Answers,
             Reply(ticket, a, "StorDownloadResponse", DownloadResponse(a))
      PROVE  IInv'
  <2>1. ticket = call.args /\ ticket # None
    <3>1. ticket = [owner |-> ticket.owner, cid |-> ticket.cid,
                    txid |-> ticket.txid]
      BY <1>3, <1>6, ValueAssumption
    <3>2. QED
      BY <1>6, <3>1 DEF None
  <2>2. Responds(call.kind, a, "StorDownloadResponse", DownloadResponse(a))
    BY <1>3 DEF Responds
  <2>3. QED
    BY <1>2, <1>8, <2>1, <2>2, ReplyKeeps
<1>9. QED
  BY <1>7, <1>8 DEF OnDownloadRequest, DownloadResponse

\* What a client's handler finds on its stream.
LEMMA ResponseArrived ==
  ASSUME IInv, NEW type \in Types, type \notin Requests, Arrived(type)
  PROVE  /\ Responding /\ pc = "response" /\ answer \in Answers
         /\ IsPlain(type, stream.msg)
         /\ Responds(call.kind, answer, type, stream.msg)
         /\ Comes(type, stream.msg, how.response, stream.bytes, stream.new)
         /\ how.response = "cut" => \E d \in DOMAIN how : how[d] = "cut"
<1>1. pc \in {"request", "response"} /\ stream.type = type
  BY DEF Arrived
<1>2. pc = "response"
  BY <1>1, UnderWay
<1>3. Responding
  BY <1>2 DEF IInv, Idle, Requesting, Lost, Done
<1>4. /\ Responds(call.kind, answer, type, stream.msg) /\ answer \in Answers
      /\ Comes(type, stream.msg, how.response, stream.bytes, stream.new)
  BY <1>1, <1>3 DEF Responding, Carries
<1>5. how.response = "cut" => \E d \in DOMAIN how : how[d] = "cut"
  <2>1. how = [request |-> how.request, response |-> how.response]
    BY DEF IInv
  <2>2. "response" \in DOMAIN how
    BY <2>1
  <2>3. QED
    BY <2>2
<1>6. QED
  BY <1>2, <1>3, <1>4, <1>5, RespondedIsPlain

\* What may be returned for the answer a, of which `heard' is what can be told.
HeardOf(kind, a) ==
  [name |-> IF kind \in {"upload", "download"} THEN a.name ELSE <<>>,
   err |-> IF kind \in {"upload", "download"} /\ IsNil(a.err) THEN NilError
           ELSE a.err]
Returns(h, bytes, heard, name, err) ==
  \/ [name |-> name, err |-> err] = heard
  \/ /\ h = "cut"
     /\ name \in {heard.name, <<>>}
     /\ err.msg \in {heard.err.msg, <<>>}
     /\ err.code = heard.err.code \/ (IsNil(err) /\ bytes = <<>>)

\* The client's call returns.
LEMMA ReturnKeeps ==
  ASSUME IInv, Responding, NEW name \in Seq(Byte), NEW err, Return(name, err),
         Returns(how.response, stream.bytes, HeardOf(call.kind, answer),
                 name, err)
  PROVE  IInv'
<1>1. /\ pc' = "done" /\ call' = call /\ stream' = stream /\ how' = how
      /\ passed' = passed /\ answer' = answer
      /\ result' = [name |-> name, err |-> err]
  BY DEF Return
<1>2. result' # None /\ result'.name = name /\ result'.err = err
  BY <1>1 DEF None
<1>3. Done'
  BY <1>1, <1>2 DEF Responding, Done
<1>4. DropsOnlyBroken'
  BY <1>1 DEF DropsOnlyBroken
<1>5. NodeGetsArgs'
  BY <1>1 DEF IInv, NodeGetsArgs
<1>6. AnswerExact'
  <2> DEFINE heard == HeardOf(call.kind, answer)
  <2>1. /\ heard'.name = heard.name /\ heard'.err = heard.err
        /\ heard' = heard
    BY <1>1 DEF HeardOf
  <2>2. \/ result' = heard
        \/ /\ how.response = "cut"
           /\ result'.name \in {heard.name, <<>>}
           /\ result'.err.msg \in {heard.err.msg, <<>>}
           /\ \/ result'.err.code = heard.err.code
              \/ IsNil(result'.err) /\ stream.bytes = <<>>
    BY <1>1, <1>2 DEF Returns
  <2>3. heard = [name |-> IF call.kind \in {"upload", "download"}
                          THEN answer.name ELSE <<>>,
                 err |-> IF call.kind \in {"upload", "download"}
                            /\ IsNil(answer.err)
                         THEN NilError ELSE answer.err]
    BY DEF HeardOf
  <2> HIDE DEF heard
  <2>4. QED
    BY <1>1, <2>2, <2>3 DEF AnswerExact
<1>7. (how = [request |-> how.request, response |-> how.response])'
  BY <1>1 DEF IInv
<1>8. QED
  BY <1>3, <1>4, <1>5, <1>6, <1>7 DEF IInv

\* A response that is only an error, as the calls of ot.go and pre.go tell it.
LEMMA ErrorTold ==
  ASSUME NEW a \in Answers, NEW h, NEW bytes, NEW code, NEW text,
         Tells(h, bytes, a.err, code, text),
         NEW kind \in {"choice", "reencrypt"}
  PROVE  Returns(h, bytes, HeardOf(kind, a), <<>>, NewError(code, text))
<1>1. a.err = [code |-> a.err.code, msg |-> a.err.msg]
  BY ValueAssumption
<1>2. HeardOf(kind, a) = [name |-> <<>>, err |-> a.err]
  BY DEF HeardOf
<1>3. NewError(code, text) = [code |-> code, msg |-> text]
  BY DEF NewError
<1>4. CASE h # "cut"
  <2>1. NewError(code, text) = a.err
    BY <1>1, <1>3, <1>4 DEF Tells
  <2>2. QED
    BY <1>2, <2>1 DEF Returns
<1>5. CASE h = "cut"
  BY <1>2, <1>3, <1>5 DEF Returns, Tells, IsNil
<1>6. QED
  BY <1>4, <1>5

\* A response with a name, as those of storage.go tell it.
LEMMA NameTold ==
  ASSUME NEW a \in Answers, NEW h, NEW bytes, NEW code, NEW text,
         Tells(h, bytes, a.err, code, text),
         NEW kind \in {"upload", "download"},
         NEW name \in {a.name, <<>>}, h # "cut" => name = a.name
  PROVE  Returns(h, bytes, HeardOf(kind, a), name,
                 IF code = Zero THEN NilError ELSE NewError(code, text))
<1> DEFINE err == IF code = Zero THEN NilError ELSE NewError(code, text)
           heard == HeardOf(kind, a)
<1>1. a.err = [code |-> a.err.code, msg |-> a.err.msg]
  BY ValueAssumption
<1>2. heard = [name |-> a.name,
               err |-> IF IsNil(a.err) THEN NilError ELSE a.err]
  BY DEF HeardOf
<1>3. /\ NewError(code, text) = [code |-> code, msg |-> text]
      /\ NilError = [code |-> Zero, msg |-> <<>>]
  BY DEF NewError, NilError
<1>4. code = a.err.code \/ (h = "cut" /\ code = Zero /\ bytes = <<>>)
  BY DEF Tells
<1>5. text \in {a.err.msg, <<>>} /\ (h # "cut" => text = a.err.msg)
  BY DEF Tells
<1>6. CASE code = a.err.code /\ code = Zero
  <2>1. err = NilError /\ heard.err = NilError /\ heard.name = a.name
    BY <1>2, <1>6 DEF IsNil
  <2>2. heard = [name |-> a.name, err |-> NilError]
    BY <1>2, <1>6 DEF IsNil
  <2> HIDE DEF err, heard
  <2>3. h # "cut" => [name |-> name, err |-> err] = heard
    BY <2>1, <2>2
  <2>4. Returns(h, bytes, heard, name, err)
    BY <2>1, <2>3, Zenon DEF Returns
  <2>5. QED
    BY <2>4 DEF err, heard
<1>7. CASE code = a.err.code /\ code # Zero
  <2>1. err = [code |-> code, msg |-> text] /\ heard.err = a.err
        /\ heard.name = a.name /\ heard = [name |-> a.name, err |-> a.err]
    BY <1>2, <1>3, <1>7 DEF IsNil
  <2> HIDE DEF err, heard
  <2>2. h # "cut" => [name |-> name, err |-> err] = heard
    BY <1>1, <1>5, <1>7, <2>1
  <2>3. err.msg \in {heard.err.msg, <<>>} /\ err.code = heard.err.code
    BY <1>5, <1>7, <2>1
  <2>4. Returns(h, bytes, heard, name, err)
    BY <2>1, <2>2, <2>3, Zenon DEF Returns
  <2>5. QED
    BY <2>4 DEF err, heard
<1>8. CASE h = "cut" /\ code = Zero /\ bytes = <<>>
  <2>1. err = NilError /\ heard.name = a.name /\ err.msg = <<>> /\ IsNil(err)
    BY <1>2, <1>3, <1>8 DEF IsNil
  <2> HIDE DEF err, heard
  <2>2. Returns(h, bytes, heard, name, err)
    BY <1>8, <2>1, Zenon DEF Returns
  <2>3. QED
    BY <2>2 DEF err, heard
<1>9. QED
  BY <1>4, <1>6, <1>7, <1>8

\* The client of OtChoiceResponse.
LEMMA ChoiceResponseKeeps ==
  ASSUME IInv, OnChoiceResponse
  PROVE  IInv'
<1> DEFINE type == "OtChoiceResponse"
           b == stream.bytes
<1>1. Arrived(type) /\ type \in Types /\ type \notin Requests
  BY DEF OnChoiceResponse, Requests, Types
<1>2. /\ Responding /\ pc = "response" /\ answer \in Answers
      /\ IsPlain(type, stream.msg)
      /\ Responds(call.kind, answer, type, stream.msg)
      /\ Comes(type, stream.msg, how.response, b, stream.new)
      /\ how.response = "cut" => \E d \in DOMAIN how : how[d] = "cut"
  BY <1>1, ResponseArrived
<1>3. call.kind = "choice" /\ stream.msg = ErrorResponse(answer)
  BY <1>2 DEF Responds
<1>4. OtChoiceResponse_Unmarshal(b) = Unmarshal(type, b)
  BY DEF Unmarshal
<1>5. \/ how.response = "cut" /\ Unmarshal(type, b) = {}
      \/ \E m : /\ Unmarshal(type, b) = {m}
                /\ Gets(type, stream.msg, how.response, m)
                /\ how.response = "cut" =>
                     ReadsFirst(type, stream.msg, b, m)
  BY <1>1, <1>2, WhatIsGot
<1>6. CASE Unmarshal(type, b) = {} /\ Drop
  BY <1>2, <1>5, <1>6, DropKeeps
<1>7. ASSUME NEW m \in Unmarshal(type, b),
             Return(<<>>, NewError(m.error_code, m.error_msg))
      PROVE  IInv'
  <2>1. /\ Gets(type, ErrorResponse(answer), how.response, m)
        /\ how.response = "cut" =>
             ReadsFirst(type, ErrorResponse(answer), b, m)
    BY <1>3, <1>5, <1>7
  <2>2. Tells(how.response, b, answer.err, m.error_code, m.error_msg)
    BY <1>2, <2>1, ErrorGot
  <2>3. Returns(how.response, b, HeardOf(call.kind, answer), <<>>,
                NewError(m.error_code, m.error_msg))
    BY <1>2, <1>3, <2>2, ErrorTold
  <2>4. <<>> \in Seq(Byte)
    OBVIOUS
  <2>5. QED
    BY <1>2, <1>7, <2>3, <2>4, ReturnKeeps
<1>8. QED
  BY <1>4, <1>6, <1>7 DEF OnChoiceResponse

\* The client of PreReEncryptResponse.
LEMMA ReEncryptResponseKeeps ==
  ASSUME IInv, OnReEncryptResponse
  PROVE  IInv'
<1> DEFINE type == "PreReEncryptResponse"
           b == stream.bytes
<1>1. Arrived(type) /\ type \in Types /\ type \notin Requests
  BY DEF OnReEncryptResponse, Requests, Types
<1>2. /\ Responding /\ pc = "response" /\ answer \in Answers
      /\ IsPlain(type, stream.msg)
      /\ Responds(call.kind, answer, type, stream.msg)
      /\ Comes(type, stream.msg, how.response, b, stream.new)
      /\ how.response = "cut" => \E d \in DOMAIN how : how[d] = "cut"
  BY <1>1, ResponseArrived
<1>3. call.kind = "reencrypt" /\ stream.msg = ErrorResponse(answer)
  BY <1>2 DEF Responds
<1>4. PreReEncryptResponse_Unmarshal(b) = Unmarshal(type, b)
  BY DEF Unmarshal
<1>5. \/ how.response = "cut" /\ Unmarshal(type, b) = {}
      \/ \E m : /\ Unmarshal(type, b) = {m}
                /\ Gets(type, stream.msg, how.response, m)
                /\ how.response = "cut" =>
                     ReadsFirst(type, stream.msg, b, m)
  BY <1>1, <1>2, WhatIsGot
<1>6. CASE Unmarshal(type, b) = {} /\ Drop
  BY <1>2, <1>5, <1>6, DropKeeps
<1>7. ASSUME NEW m \in Unmarshal(type, b),
             Return(<<>>, NewError(m.error_code, m.error_msg))
      PROVE  IInv'
  <2>1. /\ Gets(type, ErrorResponse(answer), how.response, m)
        /\ how.response = "cut" =>
             ReadsFirst(type, ErrorResponse(answer), b, m)
    BY <1>3, <1>5, <1>7
  <2>2. Tells(how.response, b, answer.err, m.error_code, m.error_msg)
    BY <1>2, <2>1, ErrorGot
  <2>3. Returns(how.response, b, HeardOf(call.kind, answer), <<>>,
                NewError(m.error_code, m.error_msg))
    BY <1>2, <1>3, <2>2, ErrorTold
  <2>4. <<>> \in Seq(Byte)
    OBVIOUS
  <2>5. QED
    BY <1>2, <1>7, <2>3, <2>4, ReturnKeeps
<1>8. QED
  BY <1>4, <1>6, <1>7 DEF OnReEncryptResponse

\* The client of StorUploadResponse.
LEMMA UploadResponseKeeps ==
  ASSUME IInv, OnUploadResponse
  PROVE  IInv'
<1> DEFINE type == "StorUploadResponse"
           b == stream.bytes
           told(m) == IF m.error_code = Zero THEN NilError
                      ELSE NewError(m.error_code, m.error_msg)
<1>1. Arrived(type) /\ type \in Types /\ type \notin Requests
  BY DEF OnUploadResponse, Requests, Types
<1>2. /\ Responding /\ pc = "response" /\ answer \in Answers
      /\ IsPlain(type, stream.msg)
      /\ Responds(call.kind, answer, type, stream.msg)
      /\ Comes(type, stream.msg, how.response, b, stream.new)
      /\ how.response = "cut" => \E d \in DOMAIN how : how[d] = "cut"
  BY <1>1, ResponseArrived
<1>3. call.kind = "upload" /\ stream.msg = UploadResponse(answer)
  BY <1>2 DEF Responds
<1>4. StorUploadResponse_Unmarshal(b) = Unmarshal(type, b)
  BY DEF Unmarshal
<1>5. \/ how.response = "cut" /\ Unmarshal(type, b) = {}
      \/ \E m : /\ Unmarshal(type, b) = {m}
                /\ Gets(type, stream.msg, how.response, m)
                /\ how.response = "cut" =>
                     ReadsFirst(type, stream.msg, b, m)
  BY <1>1, <1>2, WhatIsGot
<1>6. CASE Unmarshal(type, b) = {} /\ Drop
  BY <1>2, <1>5, <1>6, DropKeeps
<1>7. ASSUME NEW m \in Unmarshal(type, b), Return(m.uploader, told(m))
      PROVE  IInv'
  <2>1. /\ Gets(type, UploadResponse(answer), how.response, m)
        /\ how.response = "cut" =>
             ReadsFirst(type, UploadResponse(answer), b, m)
    BY <1>3, <1>5, <1>7
  <2>2. /\ Tells(how.response, b, answer.err, m.error_code, m.error_msg)
        /\ m.uploader \in {answer.name, <<>>}
        /\ how.response # "cut" => m.uploader = answer.name
    BY <1>2, <2>1, UploadedGot
  <2>3. Returns(how.response, b, HeardOf(call.kind, answer), m.uploader,
                told(m))
    BY <1>2, <1>3, <2>2, NameTold
  <2>4. m.uploader \in Seq(Byte)
    <3>1. answer.name \in Texts
      BY <1>2, ValueAssumption
    <3>2. answer.name \in Seq(Byte) /\ <<>> \in Seq(Byte)
      BY <3>1 DEF Texts
    <3>3. QED
      BY <2>2, <3>2, Zenon
  <2> HIDE DEF told
  <2>5. QED
    BY <1>2, <1>7, <2>3, <2>4, ReturnKeeps
<1>8. QED
  BY <1>4, <1>6, <1>7 DEF OnUploadResponse

\* The client of StorDownloadResponse.
LEMMA DownloadResponseKeeps ==
  ASSUME IInv, OnDownloadResponse
  PROVE  IInv'
<1> DEFINE type == "StorDownloadResponse"
           b == stream.bytes
           told(m) == IF m.error_code = Zero THEN NilError
                      ELSE NewError(m.error_code, m.error_msg)
<1>1. Arrived(type) /\ type \in Types /\ type \notin Requests
  BY DEF OnDownloadResponse, Requests, Types
<1>2. /\ Responding /\ pc = "response" /\ answer \in Answers
      /\ IsPlain(type, stream.msg)
      /\ Responds(call.kind, answer, type, stream.msg)
      /\ Comes(type, stream.msg, how.response, b, stream.new)
      /\ how.response = "cut" => \E d \in DOMAIN how : how[d] = "cut"
  BY <1>1, ResponseArrived
<1>3. call.kind = "download" /\ stream.msg = DownloadResponse(answer)
  BY <1>2 DEF Responds
<1>4. StorDownloadResponse_Unmarshal(b) = Unmarshal(type, b)
  BY DEF Unmarshal
<1>5. \/ how.response = "cut" /\ Unmarshal(type, b) = {}
      \/ \E m : /\ Unmarshal(type, b) = {m}
                /\ Gets(type, stream.msg, how.response, m)
                /\ how.response = "cut" =>
                     ReadsFirst(type, stream.msg, b, m)
  BY <1>1, <1>2, WhatIsGot
<1>6. CASE Unmarshal(type, b) = {} /\ Drop
  BY <1>2, <1>5, <1>6, DropKeeps
<1>7. ASSUME NEW m \in Unmarshal(type, b), Return(m.downloader, told(m))
      PROVE  IInv'
  <2>1. /\ Gets(type, DownloadResponse(answer), how.response, m)
        /\ how.response = "cut" =>
             ReadsFirst(type, DownloadResponse(answer), b, m)
    BY <1>3, <1>5, <1>7
  <2>2. /\ Tells(how.response, b, answer.err, m.error_code, m.error_msg)
        /\ m.downloader \in {answer.name, <<>>}
        /\ how.response # "cut" => m.downloader = answer.name
    BY <1>2, <2>1, DownloadedGot
  <2>3. Returns(how.response, b, HeardOf(call.kind, answer), m.downloader,
                told(m))
    BY <1>2, <1>3, <2>2, NameTold
  <2>4. m.downloader \in Seq(Byte)
    <3>1. answer.name \in Texts
      BY <1>2, ValueAssumption
    <3>2. answer.name \in Seq(Byte) /\ <<>> \in Seq(Byte)
      BY <3>1 DEF Texts
    <3>3. QED
      BY <2>2, <3>2, Zenon
  <2> HIDE DEF told
  <2>5. QED
    BY <1>2, <1>7, <2>3, <2>4, ReturnKeeps
<1>8. QED
  BY <1>4, <1>6, <1>7 DEF OnDownloadResponse

\* The caller of a lost call gets an error that names the timeout.
LEMMA TimeOutKeeps ==
  ASSUME IInv, CallTimesOut
  PROVE  IInv'
<1> DEFINE err == IF call.kind \in {"choice", "reencrypt"}
                  THEN UnknownError(TimeoutText) ELSE PlainTimeout
<1>1. /\ pc = "lost" /\ pc' = "done" /\ call' = call /\ stream' = stream
      /\ how' = how /\ passed' = passed /\ answer' = answer
      /\ result' = [name |-> <<>>, err |-> err]
  BY DEF CallTimesOut, Return
<1>2. Lost
  BY <1>1 DEF IInv, Idle, Requesting, Responding, Done
<1>3. result' # None /\ result'.name = <<>> /\ result'.err = err
  BY <1>1 DEF None
<1>4. err = UnknownError(TimeoutText) \/ err = PlainTimeout
  OBVIOUS
<1> HIDE DEF err
<1>5. Done'
  BY <1>1, <1>2, <1>3 DEF Lost, Done
<1>6. AnswerExact'
  <2>1. SUFFICES ASSUME answer # None, err # PlainTimeout
                 PROVE  /\ how'.response = "cut"
                        /\ result'.err = UnknownError(TimeoutText)
    BY <1>1, <1>3 DEF AnswerExact
  <2>2. QED
    BY <1>1, <1>2, <1>3, <1>4, <2>1 DEF Lost
<1>7. DropsOnlyBroken' /\ NodeGetsArgs'
  BY <1>1 DEF IInv, DropsOnlyBroken, NodeGetsArgs
<1>8. (how = [request |-> how.request, response |-> how.response])'
  BY <1>1 DEF IInv
<1>9. QED
  BY <1>5, <1>6, <1>7, <1>8 DEF IInv

\* Every request is one of Asks.
LEMMA SendKeeps ==
  ASSUME IInv, Send
  PROVE  IInv'
<1>1. ASSUME NEW choice \in OtChoices, SendChoice(choice)
      PROVE  IInv'
  <2>1. Asks("choice", choice, "OtChoiceRequest", ChoiceRequest(choice))
    BY DEF Asks
  <2>2. Start("choice", choice, "OtChoiceRequest", ChoiceRequest(choice))
    BY <1>1 DEF SendChoice, ChoiceRequest
  <2>3. QED
    BY <2>1, <2>2, StartKeeps
<1>2. ASSUME NEW args \in PreArgs, SendReEncrypt(args)
      PROVE  IInv'
  <2>1. Asks("reencrypt", args, "PreReEncryptRequest", ReEncryptRequest(args))
    BY DEF Asks
  <2>2. Start("reencrypt", args, "PreReEncryptRequest", ReEncryptRequest(args))
    BY <1>2 DEF SendReEncrypt, ReEncryptRequest
  <2>3. QED
    BY <2>1, <2>2, StartKeeps
<1>3. ASSUME NEW ticket \in UploadTickets, SendUploadRequest(ticket)
      PROVE  IInv'
  <2>1. Asks("upload", ticket, "StorUploadRequest", UploadRequest(ticket))
    BY DEF Asks
  <2>2. Start("upload", ticket, "StorUploadRequest", UploadRequest(ticket))
    BY <1>3 DEF SendUploadRequest, UploadRequest
  <2>3. QED
    BY <2>1, <2>2, StartKeeps
<1>4. ASSUME NEW ticket \in DownloadTickets, SendDownloadRequest(ticket)
      PROVE  IInv'
  <2>1. Asks("download", ticket, "StorDownloadRequest",
             DownloadRequest(ticket))
    BY DEF Asks
  <2>2. Start("download", ticket, "StorDownloadRequest",
              DownloadRequest(ticket))
    BY <1>4 DEF SendDownloadRequest, DownloadRequest
  <2>3. QED
    BY <2>1, <2>2, StartKeeps
<1>5. QED
  BY <1>1, <1>2, <1>3, <1>4 DEF Send

\* A step that changes nothing.
LEMMA StutterKeeps ==
  ASSUME IInv, UNCHANGED vars
  PROVE  IInv'
<1>1. /\ pc' = pc /\ call' = call /\ stream' = stream /\ how' = how
      /\ passed' = passed /\ answer' = answer /\ result' = result
  BY DEF vars
<1>2. (Idle \/ Requesting \/ Responding \/ Lost \/ Done)'
  BY <1>1 DEF IInv, Idle, Requesting, Responding, Lost, Done, Carries
<1>3. (NodeGetsArgs /\ DropsOnlyBroken /\ AnswerExact)'
  BY <1>1 DEF IInv, NodeGetsArgs, DropsOnlyBroken, AnswerExact
<1>4. (how = [request |-> how.request, response |-> how.response])'
  BY <1>1 DEF IInv
<1>5. QED
  BY <1>2, <1>3, <1>4 DEF IInv

\* The invariant is inductive: it holds of every call of the protocol, whatever
\* its arguments, the node's answer and what becomes of its streams.
THEOREM HandlersInvariance == Spec => []IInv
<1>1. Init => IInv
  BY InitInv
<1>2. IInv /\ [Next]_vars => IInv'
  <2>1. SUFFICES ASSUME IInv, [Next]_vars
                 PROVE  IInv'
    OBVIOUS
  <2>2. CASE Send
    BY <2>1, <2>2, SendKeeps
  <2>3. CASE Disturbance
    BY <2>1, <2>3, DisturbanceKeeps
  <2>4. CASE OnChoiceRequest
    BY <2>1, <2>4, ChoiceRequestKeeps
  <2>5. CASE OnReEncryptRequest
    BY <2>1, <2>5, ReEncryptRequestKeeps
  <2>6. CASE OnUploadRequest
    BY <2>1, <2>6, UploadRequestKeeps
  <2>7. CASE OnDownloadRequest
    BY <2>1, <2>7, DownloadRequestKeeps
  <2>8. CASE OnChoiceResponse
    BY <2>1, <2>8, ChoiceResponseKeeps
  <2>9. CASE OnReEncryptResponse
    BY <2>1, <2>9, ReEncryptResponseKeeps
  <2>10. CASE OnUploadResponse
    BY <2>1, <2>10, UploadResponseKeeps
  <2>11. CASE OnDownloadResponse
    BY <2>1, <2>11, DownloadResponseKeeps
  <2>12. CASE CallTimesOut
    BY <2>1, <2>12, TimeOutKeeps
  <2>13. CASE Finished
    BY <2>1, <2>13, StutterKeeps DEF Finished
  <2>14. CASE UNCHANGED vars
    BY <2>1, <2>14, StutterKeeps
  <2>15. QED
    BY <2>1, <2>2, <2>3, <2>4, <2>5, <2>6, <2>7, <2>8, <2>9, <2>10, <2>11,
       <2>12, <2>13, <2>14 DEF Next
<1>3. QED
  BY <1>1, <1>2, PTL DEF Spec

----------------------------------------------------------------------------
(* What follows from it                                                    *)

\* Bytes are bytes, and a response exists only once the node has answered.
THEOREM TypeCorrect == Spec => []TypeOK
<1>1. IInv => TypeOK
  <2>1. SUFFICES ASSUME IInv
                 PROVE  TypeOK
    OBVIOUS
  <2>2. CASE Idle
    BY <2>2 DEF Idle, TypeOK
  <2>3. CASE Requesting
    BY <2>3 DEF Requesting, IsStream, TypeOK, Bytes
  <2>4. CASE Responding
    BY <2>4 DEF Responding, IsStream, TypeOK, Bytes
  <2>5. CASE Lost
    BY <2>5 DEF Lost, IsStream, TypeOK, Bytes
  <2>6. CASE Done
    BY <2>6 DEF Done, IsStream, TypeOK, Bytes
  <2>7. QED
    BY <2>1, <2>2, <2>3, <2>4, <2>5, <2>6 DEF IInv
<1>2. QED
  BY <1>1, HandlersInvariance, PTL

\* What is read of a stream is what was written, in any order of its fields and
\* with the fields of a later version, and of a stream that was cut the fields
\* before the cut, or nothing.
THEOREM ReadingIsExact == Spec => []ReadExact
<1>1. IInv => ReadExact
  <2> DEFINE read == Unmarshal(stream.type, stream.bytes)
             cutAfter(n) == FlattenSeq(SubSeq(Pieces, 1, n)) = stream.bytes
  <2>1. SUFFICES ASSUME IInv, pc \in {"request", "response"}
                 PROVE  CASE how[pc] \in {"whole", "reordered"} ->
                               read = {stream.msg}
                          [] how[pc] = "extended" ->
                               \E m \in read :
                                 /\ m = [stream.msg EXCEPT
                                           !.unknown = stream.new]
                                 /\ Written(stream.type, m) =
                                      Written(stream.type, stream.msg)
                                        \o stream.new
                          [] how[pc] = "cut" ->
                               \/ /\ read = {}
                                  /\ \A n \in 0..Len(Pieces) : ~cutAfter(n)
                               \/ \E n \in 0..Len(Pieces), m \in read :
                                    /\ cutAfter(n)
                                    /\ MarshalTo(stream.type, m) =
                                         SubSeq(Pieces, 1, n)
    BY DEF ReadExact, ReadAsWritten
  <2>2. /\ stream.type \in Types /\ IsPlain(stream.type, stream.msg)
        /\ Comes(stream.type, stream.msg, how[pc], stream.bytes, stream.new)
    BY <2>1, UnderWay DEF Carries
  <2> DEFINE h == how[pc]
             p == [stream.msg EXCEPT !.unknown = stream.new]
  <2>3. /\ h \in {"whole", "reordered", "extended", "cut"}
        /\ h \in {"whole", "reordered"} => read = {stream.msg}
        /\ h = "extended" =>
             ReadsNew(stream.type, stream.msg, stream.bytes, stream.new, p)
        /\ h = "cut" =>
             \/ ReadsNone(stream.type, stream.msg, stream.bytes)
             \/ \E m : ReadsFirst(stream.type, stream.msg, stream.bytes, m)
    <3> DEFINE type == stream.type
               msg == stream.msg
               b == stream.bytes
               new == stream.new
    <3>1. /\ type \in Types /\ IsPlain(type, msg)
          /\ Comes(type, msg, h, b, new)
      BY <2>2
    <3> HIDE DEF type, msg, b, new, h
    <3>2. /\ h \in {"whole", "reordered", "extended", "cut"}
          /\ h \in {"whole", "reordered"} => Unmarshal(type, b) = {msg}
          /\ h = "extended" =>
               ReadsNew(type, msg, b, new, [msg EXCEPT !.unknown = new])
          /\ h = "cut" => \/ ReadsNone(type, msg, b)
                          \/ \E m : ReadsFirst(type, msg, b, m)
      BY <3>1, WhatIsRead
    <3>3. QED
      BY <3>2, Zenon DEF type, msg, b, new
  <2>4. CASE h \in {"whole", "reordered"}
    BY <2>3, <2>4
  <2>5. CASE h = "extended"
    <3>1. ReadsNew(stream.type, stream.msg, stream.bytes, stream.new, p)
      BY <2>3, <2>5
    <3> HIDE DEF p
    <3>2. /\ p \in read
          /\ Written(stream.type, p) =
               Written(stream.type, stream.msg) \o stream.new
      BY <3>1 DEF ReadsNew
    <3>3. \E m \in read : /\ m = p
                          /\ Written(stream.type, m) =
                               Written(stream.type, stream.msg) \o stream.new
      BY <3>2
    <3> HIDE DEF read
    <3>4. QED
      BY <2>5, <3>3 DEF p
  <2>6. CASE h = "cut"
    <3>1. \/ ReadsNone(stream.type, stream.msg, stream.bytes)
          \/ \E m : ReadsFirst(stream.type, stream.msg, stream.bytes, m)
      BY <2>3, <2>6
    <3>2. \A n : EndsAfter(stream.type, stream.msg, stream.bytes, n)
                   <=> n \in 0..Len(Pieces) /\ cutAfter(n)
      BY DEF EndsAfter, Pieces
    <3>3. CASE ReadsNone(stream.type, stream.msg, stream.bytes)
      <4>1. read = {} /\ \A n \in 0..Len(Pieces) : ~cutAfter(n)
        BY <3>2, <3>3 DEF ReadsNone
      <4> HIDE DEF read, cutAfter
      <4>2. QED
        BY <2>6, <4>1
    <3>4. ASSUME NEW m,
                 ReadsFirst(stream.type, stream.msg, stream.bytes, m)
          PROVE  \E n \in 0..Len(Pieces), r \in read :
                   /\ cutAfter(n)
                   /\ MarshalTo(stream.type, r) = SubSeq(Pieces, 1, n)
      <4>1. PICK n : /\ EndsAfter(stream.type, stream.msg, stream.bytes, n)
                     /\ MarshalTo(stream.type, m) =
                          SubSeq(MarshalTo(stream.type, stream.msg), 1, n)
        BY <3>4 DEF ReadsFirst
      <4>2. m \in read
        BY <3>4 DEF ReadsFirst
      <4>3. QED
        BY <3>2, <4>1, <4>2 DEF Pieces
    <3> HIDE DEF read, cutAfter
    <3>5. QED
      BY <2>6, <3>1, <3>3, <3>4
  <2>7. QED
    BY <2>3, <2>4, <2>5, <2>6
<1>2. QED
  BY <1>1, HandlersInvariance, PTL

\* The node is called with what the client was called with, but for the size of
\* an upload whose request was cut.
THEOREM NodeGetsItsArgs == Spec => []NodeGetsArgs
<1>1. IInv => NodeGetsArgs
  BY DEF IInv
<1>2. QED
  BY <1>1, HandlersInvariance, PTL

\* Only a stream that was cut, or a download without a transaction, which the
\* handler drops against msg.proto:43, leaves the caller to its timeout.
THEOREM OnlyBrokenDrop == Spec => []DropsOnlyBroken
<1>1. IInv => DropsOnlyBroken
  BY DEF IInv
<1>2. QED
  BY <1>1, HandlersInvariance, PTL

\* The call returns what the node answered, but for the texts of the answer;
\* only nothing at all is taken for a success.
THEOREM AnswerIsExact == Spec => []AnswerExact
<1>1. IInv => AnswerExact
  BY DEF IInv
<1>2. QED
  BY <1>1, HandlersInvariance, PTL
=============================================================================
