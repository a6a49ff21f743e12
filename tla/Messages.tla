------------------------------ MODULE Messages --------------------------------
(***************************************************************************)
(* The eight messages of node/protocol/pb, as msg.pb.go writes and reads   *)
(* them.  Strings and byte slices are sequences of bytes; `unknown' stands *)
(* for XXX_unrecognized, the fields a reader does not know and keeps.      *)
(***************************************************************************)
EXTENDS Fields, SequencesExt

----------------------------------------------------------------------------
(* Writing: MarshalTo gives one piece of bytes for each field that is set  *)

RepeatedField(tag, ss) == [k \in DOMAIN ss |-> BytesPiece(tag, ss[k])]
UnknownFields(m) == IF m.unknown = <<>> THEN <<>> ELSE <<m.unknown>>

OtChoiceRequest_MarshalTo(m) ==
  BytesField(10, m.cid) \o BytesField(18, m.owner)
    \o BytesField(26, m.yp) \o BytesField(34, m.lp) \o UnknownFields(m)

OtChoiceResponse_MarshalTo(m) ==
  NumberField(8, m.error_code) \o BytesField(18, m.error_msg)
    \o UnknownFields(m)

PreReEncryptRequest_MarshalTo(m) ==
  BytesField(10, m.cid) \o BytesField(18, m.lpp)
    \o RepeatedField(26, m.re_keys) \o BytesField(34, m.txid)
    \o UnknownFields(m)

PreReEncryptResponse_MarshalTo(m) ==
  NumberField(8, m.error_code) \o BytesField(18, m.error_msg)
    \o UnknownFields(m)

StorUploadRequest_MarshalTo(m) ==
  BytesField(10, m.owner) \o BytesField(18, m.sig) \o NumberField(24, m.set)
    \o BytesField(34, m.cid) \o NumberField(40, m.file_size)
    \o UnknownFields(m)

StorUploadResponse_MarshalTo(m) ==
  NumberField(8, m.error_code) \o BytesField(18, m.error_msg)
    \o BytesField(26, m.uploader) \o UnknownFields(m)

StorDownloadRequest_MarshalTo(m) ==
  BytesField(10, m.owner) \o BytesField(18, m.cid) \o BytesField(26, m.txid)
    \o UnknownFields(m)

StorDownloadResponse_MarshalTo(m) ==
  NumberField(8, m.error_code) \o BytesField(18, m.error_msg)
    \o BytesField(26, m.downloader) \o UnknownFields(m)

MarshalTo(type, m) ==
  CASE type = "OtChoiceRequest" -> OtChoiceRequest_MarshalTo(m)
    [] type = "OtChoiceResponse" -> OtChoiceResponse_MarshalTo(m)
    [] type = "PreReEncryptRequest" -> PreReEncryptRequest_MarshalTo(m)
    [] type = "PreReEncryptResponse" -> PreReEncryptResponse_MarshalTo(m)
    [] type = "StorUploadRequest" -> StorUploadRequest_MarshalTo(m)
    [] type = "StorUploadResponse" -> StorUploadResponse_MarshalTo(m)
    [] type = "StorDownloadRequest" -> StorDownloadRequest_MarshalTo(m)
    [] type = "StorDownloadResponse" -> StorDownloadResponse_MarshalTo(m)

----------------------------------------------------------------------------
(* Size: computed apart from the writing, before the buffer is made        *)

RepeatedSize(ss) ==
  LET size[k \in 0..Len(ss)] ==
        IF k = 0 THEN 0 ELSE size[k - 1] + BytesPieceSize(ss[k])
  IN size[Len(ss)]

OtChoiceRequest_Size(m) ==
  BytesSize(m.cid) + BytesSize(m.owner) + BytesSize(m.yp) + BytesSize(m.lp)
    + Len(m.unknown)

OtChoiceResponse_Size(m) ==
  NumberSize(m.error_code) + BytesSize(m.error_msg) + Len(m.unknown)

\* (Faulty variant: the re-keys are counted once.)
PreReEncryptRequest_SizeOfOne(m) ==
  BytesSize(m.cid) + BytesSize(m.lpp) + BytesSize(m.txid) + Len(m.unknown)
    + RepeatedSize(IF m.re_keys = <<>> THEN <<>> ELSE <<m.re_keys[1]>>)

PreReEncryptRequest_Size(m) ==
  BytesSize(m.cid) + BytesSize(m.lpp) + RepeatedSize(m.re_keys)
    + BytesSize(m.txid) + Len(m.unknown)

PreReEncryptResponse_Size(m) ==
  NumberSize(m.error_code) + BytesSize(m.error_msg) + Len(m.unknown)

StorUploadRequest_Size(m) ==
  BytesSize(m.owner) + BytesSize(m.sig) + NumberSize(m.set)
    + BytesSize(m.cid) + NumberSize(m.file_size) + Len(m.unknown)

StorUploadResponse_Size(m) ==
  NumberSize(m.error_code) + BytesSize(m.error_msg) + BytesSize(m.uploader)
    + Len(m.unknown)

StorDownloadRequest_Size(m) ==
  BytesSize(m.owner) + BytesSize(m.cid) + BytesSize(m.txid) + Len(m.unknown)

StorDownloadResponse_Size(m) ==
  NumberSize(m.error_code) + BytesSize(m.error_msg) + BytesSize(m.downloader)
    + Len(m.unknown)

Size(type, m) ==
  CASE type = "OtChoiceRequest" -> OtChoiceRequest_Size(m)
    [] type = "OtChoiceResponse" -> OtChoiceResponse_Size(m)
    [] type = "PreReEncryptRequest" -> PreReEncryptRequest_Size(m)
    [] type = "PreReEncryptResponse" -> PreReEncryptResponse_Size(m)
    [] type = "StorUploadRequest" -> StorUploadRequest_Size(m)
    [] type = "StorUploadResponse" -> StorUploadResponse_Size(m)
    [] type = "StorDownloadRequest" -> StorDownloadRequest_Size(m)
    [] type = "StorDownloadResponse" -> StorDownloadResponse_Size(m)

\* What the writer of the stream sends: a buffer of the computed size, in which
\* MarshalTo has written.
Written(type, m) ==
  LET b == FlattenSeq(MarshalTo(type, m)) IN
  [k \in 1..Size(type, m) |-> IF k <= Len(b) THEN b[k] ELSE 0]

----------------------------------------------------------------------------
(* Reading                                                                 *)

\* Where the value behind a tag ends, by its wire type, 0 after an error.  len is
\* the varint behind the tag.
ValueEnd(b, skip, tag, len) ==
  LET wire == WireType(tag.digits)
  IN CASE wire = 0 -> len.next
       [] wire = 1 -> After(b, tag.next, <<8>>)
       [] wire = 2 -> IF len.next = 0 THEN 0
                      ELSE After(b, len.next, len.digits)
       [] wire = 3 -> skip[tag.next].group
       [] wire = 4 -> tag.next
       [] wire = 5 -> After(b, tag.next, <<4>>)
       [] OTHER -> 0

\* Where the group ends that goes on with a field that ends at `field'.
RestEnd(skip, tag, field) ==
  IF WireType(tag.digits) = 4 THEN tag.next
  ELSE IF field = 0 THEN 0 ELSE skip[field].group

\* At each position of b: where the field that starts there ends, whatever it
\* is, and where the group ends whose fields go on there; 0 after an error.
Skips(b) ==
  LET skip[i \in 1..(Len(b) + 1)] ==
        LET tag == ReadVarint(b, i)
            field == ValueEnd(b, skip, tag, ReadVarint(b, tag.next))
        IN IF tag.next = 0 THEN [field |-> 0, group |-> 0]
           ELSE [field |-> field, group |-> RestEnd(skip, tag, field)]
  IN skip

SkipMsg(b, i) == Skips(b)[i].field

\* The default of the switch: the field, which ends before next, is kept as it
\* is.
ReadUnknown(b, i, next, m) ==
  IF next = 0 THEN {}
  ELSE {[m |-> [m EXCEPT !.unknown = @ \o SubSeq(b, i, next - 1)],
         next |-> next]}

\* One turn of Unmarshal's loop: the message and the position after the field
\* that starts at i, none after an error.  `cases' lists the cases of the
\* switch in the order of the field numbers.
ReadField(cases, b, i, m) ==
  LET tag == ReadVarint(b, i)
      num == FieldNum(tag.digits)
      wire == WireType(tag.digits)
      name == cases[num][1]
      kind == cases[num][2]
  IN IF tag.next = 0 \/ wire = 4 \/ num <= 0 THEN {}
     ELSE IF num \notin DOMAIN cases THEN ReadUnknown(b, i, SkipMsg(b, i), m)
     ELSE IF wire # (IF kind \in {"uint32", "uint64"} THEN 0 ELSE 2) THEN {}
     ELSE CASE kind = "uint32" -> ReadNumber(b, tag.next, m, name, 32)
            [] kind = "uint64" -> ReadNumber(b, tag.next, m, name, 64)
            [] kind = "bytes" -> ReadBytes(b, tag.next, m, name, FALSE)
            [] kind = "repeated" -> ReadBytes(b, tag.next, m, name, TRUE)

\* What has been read after n turns, or fewer at the end of b.  proto.Unmarshal
\* has reset the message before.
Turns(cases, b) ==
  LET names == {cases[k][1] : k \in DOMAIN cases} \cup {"unknown"}
      turn[n \in Nat] ==
        IF n = 0 THEN {[m |-> [name \in names |-> <<>>], next |-> 1]}
        ELSE UNION {IF f.next > Len(b) THEN {f}
                    ELSE ReadField(cases, b, f.next, f.m) : f \in turn[n - 1]}
  IN turn

\* The first turn after which all of b has been read, or there was an error.
LastTurn(turn, b) ==
  CHOOSE n \in 0..Len(b) : \A f \in turn[n] : f.next > Len(b)

\* The message that has been read at the end, none after an error.
AtEnd(turn, b) == {f.m : f \in turn[LastTurn(turn, b)]}

\* The message that b decodes to, none if it does not decode.
Decode(cases, b) == AtEnd(Turns(cases, b), b)

OtChoiceRequest_Unmarshal(b) ==
  Decode(<< <<"cid", "bytes">>, <<"owner", "bytes">>, <<"yp", "bytes">>,
            <<"lp", "bytes">> >>, b)

OtChoiceResponse_Unmarshal(b) ==
  Decode(<< <<"error_code", "uint32">>, <<"error_msg", "bytes">> >>, b)

PreReEncryptRequest_Unmarshal(b) ==
  Decode(<< <<"cid", "bytes">>, <<"lpp", "bytes">>, <<"re_keys", "repeated">>,
            <<"txid", "bytes">> >>, b)

PreReEncryptResponse_Unmarshal(b) ==
  Decode(<< <<"error_code", "uint32">>, <<"error_msg", "bytes">> >>, b)

StorUploadRequest_Unmarshal(b) ==
  Decode(<< <<"owner", "bytes">>, <<"sig", "bytes">>, <<"set", "uint32">>,
            <<"cid", "bytes">>, <<"file_size", "uint64">> >>, b)

StorUploadResponse_Unmarshal(b) ==
  Decode(<< <<"error_code", "uint32">>, <<"error_msg", "bytes">>,
            <<"uploader", "bytes">> >>, b)

StorDownloadRequest_Unmarshal(b) ==
  Decode(<< <<"owner", "bytes">>, <<"cid", "bytes">>, <<"txid", "bytes">> >>, b)

StorDownloadResponse_Unmarshal(b) ==
  Decode(<< <<"error_code", "uint32">>, <<"error_msg", "bytes">>,
            <<"downloader", "bytes">> >>, b)

Unmarshal(type, b) ==
  CASE type = "OtChoiceRequest" -> OtChoiceRequest_Unmarshal(b)
    [] type = "OtChoiceResponse" -> OtChoiceResponse_Unmarshal(b)
    [] type = "PreReEncryptRequest" -> PreReEncryptRequest_Unmarshal(b)
    [] type = "PreReEncryptResponse" -> PreReEncryptResponse_Unmarshal(b)
    [] type = "StorUploadRequest" -> StorUploadRequest_Unmarshal(b)
    [] type = "StorUploadResponse" -> StorUploadResponse_Unmarshal(b)
    [] type = "StorDownloadRequest" -> StorDownloadRequest_Unmarshal(b)
    [] type = "StorDownloadResponse" -> StorDownloadResponse_Unmarshal(b)
=============================================================================
