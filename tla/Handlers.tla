------------------------------ MODULE Handlers --------------------------------
(***************************************************************************)
(* What one call of node/protocol carries: the client's arguments become a *)
(* message and the bytes of a stream (storage.go, pre.go, ot.go), the      *)
(* server's handler reads them, checks them field by field and calls its   *)
(* node, whose answer goes back the same way and becomes what the client's *)
(* call returns.  RequestReply models how calls overlap and time out; here *)
(* it is a single call, over streams that may end early and between peers  *)
(* that need not be of one version or one implementation.                  *)
(***************************************************************************)
EXTENDS Messages

CONSTANTS
  Cids,          \* the content identifiers in use
  UndefCid,      \* cid.Undef, which no string decodes to
  G1Points,      \* points of the two groups; points and identifiers are
  G2Points,      \*   represented by the byte that their encoding repeats
  OtChoices,       \* the arguments of each kind of call
  PreArgs,
  UploadTickets,
  DownloadTickets,
  Answers,       \* what the server's node may answer
  NewFields      \* fields that only a later version of the messages has

\* Texts are shorter than 128^4, up to which Digits counts.
Texts == {s \in Seq(Byte) : Len(s) < 128 * 128 * 128 * 128}

ASSUME ValueAssumption ==
  /\ Cids \cup G1Points \cup G2Points \subseteq Byte
  /\ UndefCid \notin Cids
  /\ OtChoices \subseteq
       [cid : Cids, owner : G1Points, y : G1Points, l : G1Points]
  /\ PreArgs \subseteq
       [cid : Cids, lprime : G1Points, rekeys : Seq(G2Points), txid : Cids]
  /\ UploadTickets \subseteq
       [owner : G1Points, set : Uints(32), cid : Cids, size : Uints(64)]
  /\ DownloadTickets \subseteq
       [owner : G1Points, cid : Cids, txid : Cids \cup {UndefCid}]
  /\ Answers \subseteq [name : Texts, err : [code : Uints(32), msg : Texts]]

\* A new field is a field, with a number that no message has today.
ASSUME NewFieldAssumption ==
  \A field \in NewFields :
    LET tag == ReadVarint(field, 1)
    IN /\ field \in Seq(Byte)
       /\ tag.next # 0 /\ WireType(tag.digits) # 4 /\ FieldNum(tag.digits) > 5
       /\ SkipMsg(field, 1) = Len(field) + 1

VARIABLES
  pc,       \* "idle", "request" (on its stream), "response", "lost", "done"
  call,     \* the client's call and its arguments
  stream,   \* the message under way and the bytes its reader gets
  how,      \* what became of the request's stream and of the response's
  passed,   \* the arguments the server's node was called with, if it was
  answer,   \* what the node answered
  result    \* what the client's call returned

vars == <<pc, call, stream, how, passed, answer, result>>

None == [nothing |-> TRUE]

----------------------------------------------------------------------------
(* Errors (protocol.go)                                                    *)

NewError(code, text) == [code |-> code, msg |-> text]
NilError == NewError(Zero, <<>>)
UnknownError(text) == NewError(<<1>>, text)
IsNil(err) == err.code = Zero

\* The error of MessagePool.Wait, and as an error of Go without a code.
TimeoutText == <<116>>
PlainTimeout == [plain |-> TimeoutText]

----------------------------------------------------------------------------
(* Encodings of the libraries                                              *)

G1Marshal(p) == [k \in 1..64 |-> p]
G2Marshal(p) == [k \in 1..129 |-> p]

\* The points that s decodes to: one, or none if s is too short or is no point.
\* Bytes after the point are left over.
G1Unmarshal(s) == {p \in G1Points : IsPrefix(G1Marshal(p), s)}
G2Unmarshal(s) == {p \in G2Points : IsPrefix(G2Marshal(p), s)}

CidString(c) == IF c = UndefCid THEN <<98>> ELSE [k \in 1..46 |-> c]
CidDecode(s) == {c \in Cids : s = CidString(c)}

----------------------------------------------------------------------------
Init ==
  /\ pc = "idle"
  /\ call = None /\ stream = None /\ passed = None
  /\ answer = None /\ result = None
  /\ how = [request |-> "whole", response |-> "whole"]

\* sendProtoMsg.
Carry(type, m) ==
  stream' = [type |-> type, msg |-> m, bytes |-> Written(type, m), new |-> <<>>]

(* The client's calls, up to sendProtoMsg                                  *)

Start(kind, args, type, m) ==
  /\ pc = "idle"
  /\ pc' = "request"
  /\ call' = [kind |-> kind, args |-> args]
  /\ Carry(type, m)
  /\ UNCHANGED <<how, passed, answer, result>>

SendChoice(choice) ==
  Start("choice", choice, "OtChoiceRequest",
        [cid |-> CidString(choice.cid), owner |-> G1Marshal(choice.owner),
         yp |-> G1Marshal(choice.y), lp |-> G1Marshal(choice.l),
         unknown |-> <<>>])

SendReEncrypt(args) ==
  Start("reencrypt", args, "PreReEncryptRequest",
        [cid |-> CidString(args.cid), lpp |-> G1Marshal(args.lprime),
         re_keys |-> [k \in DOMAIN args.rekeys |-> G2Marshal(args.rekeys[k])],
         txid |-> CidString(args.txid), unknown |-> <<>>])

\* The request is not signed.
SendUploadRequest(ticket) ==
  Start("upload", ticket, "StorUploadRequest",
        [owner |-> G1Marshal(ticket.owner), sig |-> <<>>, set |-> ticket.set,
         cid |-> CidString(ticket.cid), file_size |-> ticket.size,
         unknown |-> <<>>])

SendDownloadRequest(ticket) ==
  Start("download", ticket, "StorDownloadRequest",
        [owner |-> G1Marshal(ticket.owner), cid |-> CidString(ticket.cid),
         txid |-> CidString(ticket.txid), unknown |-> <<>>])

----------------------------------------------------------------------------
(* What may become of a stream.  Bound: one disturbed stream in a call.    *)

Pieces == MarshalTo(stream.type, stream.msg)

Disturb(kind, bytes, new) ==
  /\ \A d \in DOMAIN how : how[d] = "whole"
  /\ how' = [how EXCEPT ![pc] = kind]
  /\ stream' = [stream EXCEPT !.bytes = bytes, !.new = new]
  /\ UNCHANGED <<pc, call, passed, answer, result>>

\* The sender's version has a field more, after n of the others.
LaterVersion(field, n) ==
  Disturb("extended", FlattenSeq(InsertAt(Pieces, n + 1, field)), field)

\* The orders in which an implementation may write the fields with these tags:
\* any that leaves the elements of a repeated field in theirs.
Orders(tags) ==
  {order \in Bijection(DOMAIN tags, DOMAIN tags) :
     \A j, k \in DOMAIN tags :
       j < k /\ tags[order[j]] = tags[order[k]] => order[j] < order[k]}

\* The sender's implementation writes the fields in another order.
OtherOrder ==
  \E order \in Orders([k \in DOMAIN Pieces |-> Pieces[k][1]]) :
    Disturb("reordered",
            FlattenSeq([k \in DOMAIN Pieces |-> Pieces[order[k]]]), <<>>)

\* The stream ends after n bytes.
EndsEarly(n) == Disturb("cut", SubSeq(stream.bytes, 1, n), <<>>)

----------------------------------------------------------------------------
(* The server's handlers                                                   *)

\* What a request decodes to, field by field: one record, or none if a field
\* does not decode.
ReadChoice ==
  UNION {[cid : CidDecode(m.cid), owner : G1Unmarshal(m.owner),
          y : G1Unmarshal(m.yp), l : G1Unmarshal(m.lp)] :
           m \in OtChoiceRequest_Unmarshal(stream.bytes)}

ReadReKeys(keys) ==
  {ks \in [DOMAIN keys -> G2Points] :
     \A k \in DOMAIN keys : ks[k] \in G2Unmarshal(keys[k])}

\* (Faulty variant: the transaction is not looked at.)
ReadReEncryptionAnyTxid ==
  UNION {[cid : CidDecode(m.cid), lprime : G1Unmarshal(m.lpp),
          rekeys : ReadReKeys(m.re_keys), txid : Cids] :
           m \in PreReEncryptRequest_Unmarshal(stream.bytes)}

ReadReEncryption ==
  UNION {[cid : CidDecode(m.cid), lprime : G1Unmarshal(m.lpp),
          rekeys : ReadReKeys(m.re_keys), txid : CidDecode(m.txid)] :
           m \in PreReEncryptRequest_Unmarshal(stream.bytes)}

\* The set and the size are taken as they are, the signature not at all.
ReadUpload ==
  UNION {[owner : G1Unmarshal(m.owner), set : {m.set},
          cid : CidDecode(m.cid), size : {m.file_size}] :
           m \in StorUploadRequest_Unmarshal(stream.bytes)}

ReadDownload ==
  UNION {[owner : G1Unmarshal(m.owner), cid : CidDecode(m.cid),
          txid : CidDecode(m.txid)] :
           m \in StorDownloadRequest_Unmarshal(stream.bytes)}

\* "TODO: wrong cid": the handler returns, and no answer is on its way.
Drop ==
  /\ pc' = "lost"
  /\ UNCHANGED <<call, stream, how, passed, answer, result>>

\* (Faulty variant: the answer is sent before the node is called.)
ReplyFirst(args, a, type, m) ==
  /\ Carry(type, m)
  /\ pc' = "response"
  /\ UNCHANGED <<call, how, passed, answer, result>>

\* The node is called and its answer is sent.
Reply(args, a, type, m) ==
  /\ passed' = args
  /\ answer' = a
  /\ Carry(type, m)
  /\ pc' = "response"
  /\ UNCHANGED <<call, how, result>>

Arrived(type) ==
  /\ pc \in {"request", "response"}
  /\ stream.type = type

OnChoiceRequest ==
  /\ Arrived("OtChoiceRequest")
  /\ \/ ReadChoice = {} /\ Drop
     \/ \E choice \in ReadChoice, a \in Answers :
          Reply(choice, a, "OtChoiceResponse",
                [error_code |-> a.err.code, error_msg |-> a.err.msg,
                 unknown |-> <<>>])

OnReEncryptRequest ==
  /\ Arrived("PreReEncryptRequest")
  /\ \/ ReadReEncryption = {} /\ Drop
     \/ \E args \in ReadReEncryption, a \in Answers :
          Reply(args, a, "PreReEncryptResponse",
                [error_code |-> a.err.code, error_msg |-> a.err.msg,
                 unknown |-> <<>>])

OnUploadRequest ==
  /\ Arrived("StorUploadRequest")
  /\ \/ ReadUpload = {} /\ Drop
     \/ \E ticket \in ReadUpload, a \in Answers :
          Reply(ticket, a, "StorUploadResponse",
                [uploader |-> a.name, error_code |-> a.err.code,
                 error_msg |-> a.err.msg, unknown |-> <<>>])

OnDownloadRequest ==
  /\ Arrived("StorDownloadRequest")
  /\ \/ ReadDownload = {} /\ Drop
     \/ \E ticket \in ReadDownload, a \in Answers :
          Reply(ticket, a, "StorDownloadResponse",
                [downloader |-> a.name, error_code |-> a.err.code,
                 error_msg |-> a.err.msg, unknown |-> <<>>])

----------------------------------------------------------------------------
(* The client's handlers of responses, and what its calls return           *)

Return(name, err) ==
  /\ pc' = "done"
  /\ result' = [name |-> name, err |-> err]
  /\ UNCHANGED <<call, stream, how, passed, answer>>

OnChoiceResponse ==
  /\ Arrived("OtChoiceResponse")
  /\ LET resps == OtChoiceResponse_Unmarshal(stream.bytes) IN
     \/ resps = {} /\ Drop
     \/ \E resp \in resps :
          Return(<<>>, NewError(resp.error_code, resp.error_msg))

OnReEncryptResponse ==
  /\ Arrived("PreReEncryptResponse")
  /\ LET resps == PreReEncryptResponse_Unmarshal(stream.bytes) IN
     \/ resps = {} /\ Drop
     \/ \E resp \in resps :
          Return(<<>>, NewError(resp.error_code, resp.error_msg))

\* NilError stands for Go's nil error here.
OnUploadResponse ==
  /\ Arrived("StorUploadResponse")
  /\ LET resps == StorUploadResponse_Unmarshal(stream.bytes) IN
     \/ resps = {} /\ Drop
     \/ \E resp \in resps :
          Return(resp.uploader,
                 IF resp.error_code = Zero THEN NilError
                 ELSE NewError(resp.error_code, resp.error_msg))

\* (Faulty variant: the code is not looked at.)
OnDownloadResponseBlindly ==
  /\ Arrived("StorDownloadResponse")
  /\ LET resps == StorDownloadResponse_Unmarshal(stream.bytes) IN
     \/ resps = {} /\ Drop
     \/ \E resp \in resps : Return(resp.downloader, NilError)

OnDownloadResponse ==
  /\ Arrived("StorDownloadResponse")
  /\ LET resps == StorDownloadResponse_Unmarshal(stream.bytes) IN
     \/ resps = {} /\ Drop
     \/ \E resp \in resps :
          Return(resp.downloader,
                 IF resp.error_code = Zero THEN NilError
                 ELSE NewError(resp.error_code, resp.error_msg))

\* No answer comes and Wait times out.
CallTimesOut ==
  /\ pc = "lost"
  /\ Return(<<>>, IF call.kind \in {"choice", "reencrypt"}
                  THEN UnknownError(TimeoutText) ELSE PlainTimeout)

----------------------------------------------------------------------------
Send ==
  \/ \E choice \in OtChoices : SendChoice(choice)
  \/ \E args \in PreArgs : SendReEncrypt(args)
  \/ \E ticket \in UploadTickets : SendUploadRequest(ticket)
  \/ \E ticket \in DownloadTickets : SendDownloadRequest(ticket)

Disturbance ==
  /\ pc \in {"request", "response"}
  /\ \/ \E field \in NewFields, n \in 0..Len(Pieces) : LaterVersion(field, n)
     \/ OtherOrder
     \/ \E n \in 0..(Len(stream.bytes) - 1) : EndsEarly(n)

Finished == pc = "done" /\ UNCHANGED vars

Next ==
  \/ Send \/ Disturbance
  \/ OnChoiceRequest \/ OnReEncryptRequest
  \/ OnUploadRequest \/ OnDownloadRequest
  \/ OnChoiceResponse \/ OnReEncryptResponse
  \/ OnUploadResponse \/ OnDownloadResponse
  \/ CallTimesOut \/ Finished

Spec == Init /\ [][Next]_vars

----------------------------------------------------------------------------
(* Properties                                                              *)

Bytes == Seq(Byte)

\* The state is well formed: bytes are bytes also after a varint, and the node
\* has been called and has answered before a response exists.
TypeOK ==
  /\ pc \in {"idle", "request", "response", "lost", "done"}
  /\ pc = "idle" <=> call = None
  /\ pc = "idle" <=> stream = None
  /\ pc = "done" <=> result # None
  /\ passed = None <=> answer = None
  /\ stream # None => stream.bytes \in Bytes
  /\ pc = "response" => answer # None
  /\ pc = "done" => result.name \in Bytes

\* What is read from the stream, against what was written to it.
ReadAsWritten(read) ==
  LET cutAfter(n) == FlattenSeq(SubSeq(Pieces, 1, n)) = stream.bytes
  IN CASE how[pc] \in {"whole", "reordered"} -> read = {stream.msg}
       [] how[pc] = "extended" ->
            \E m \in read :
              /\ m = [stream.msg EXCEPT !.unknown = stream.new]
              /\ Written(stream.type, m) =
                   Written(stream.type, stream.msg) \o stream.new
       [] how[pc] = "cut" ->
            \/ read = {} /\ \A n \in 0..Len(Pieces) : ~cutAfter(n)
            \/ \E n \in 0..Len(Pieces), m \in read :
                 /\ cutAfter(n)
                 /\ MarshalTo(stream.type, m) = SubSeq(Pieces, 1, n)

ReadExact ==
  pc \in {"request", "response"} =>
    ReadAsWritten(Unmarshal(stream.type, stream.bytes))

\* A server's node is called with the arguments of the client (storage.go:76-83,
\* pre.go:81-87, ot.go:77-83): with every re-key, in its order, and with none
\* that was cut.  Only the size of an upload is not checked, and is zero if the
\* request ended before it.
NodeGetsArgs ==
  passed # None =>
    \/ passed = call.args
    \/ /\ how.request = "cut"
       /\ call.kind = "upload"
       /\ passed = [call.args EXCEPT !.size = Zero]

\* A request or an answer is dropped, and the caller left to its timeout, only
\* if its stream ended early, or if it is an owner's download without a
\* transaction: the handler wants one all the same (storage.go:117-121), against
\* msg.proto:43, as DownloadProceeds of RequestReply shows.
DropsOnlyBroken ==
  pc = "lost" =>
    \/ \E d \in DOMAIN how : how[d] = "cut"
    \/ call.kind = "download" /\ call.args.txid = UndefCid

\* A call returns the answer of the node (storage.go:196-200, pre.go:144-145,
\* ot.go:136-137), with at most its texts missing: an upload and a download
\* always lose that of a success.  An error turns into a success only on a
\* stream that ended before its first byte, which reads as a response of which
\* every field is zero.
AnswerExact ==
  pc = "done" /\ answer # None /\ result.err \notin {PlainTimeout} =>
    LET storage == call.kind \in {"upload", "download"}
        heard == [name |-> IF storage THEN answer.name ELSE <<>>,
                  err |-> IF storage /\ IsNil(answer.err) THEN NilError
                          ELSE answer.err]
    IN \/ result = heard
       \/ how.response = "cut" /\ result.err = UnknownError(TimeoutText)
       \/ /\ how.response = "cut"
          /\ result.name \in {heard.name, <<>>}
          /\ result.err.msg \in {heard.err.msg, <<>>}
          /\ \/ result.err.code = heard.err.code
             \/ IsNil(result.err) /\ stream.bytes = <<>>
=============================================================================
