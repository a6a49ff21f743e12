---------------------------- MODULE RequestReply -----------------------------
(***************************************************************************)
(* The calls one client of node/protocol makes to a server: SendUploadRe-  *)
(* quest and SendDownloadRequest (storage.go), SendReEncrypt (pre.go) or   *)
(* SendChoice (ot.go).  A call sends its request on a stream of its own,   *)
(* then waits in the client's MessagePool.  The server handles the request *)
(* and sends the answer back on a second stream, whose handler at the      *)
(* client pushes it into the pool.  Answers carry no reference to their    *)
(* request: the pool hands them to whichever call of the kind is waiting.  *)
(***************************************************************************)
CONSTANTS
  Calls,     \* the calls; a call also names its request and its answer
  Kind,      \* the kind of each call
  Fields,    \* the fields of each request that decode at the server
  None,      \* no call
  Serial,    \* a caller starts a call once no call of its kind is under way
  Patient,   \* a context outlives every answer that can still arrive
  Reliable   \* no stream fails

\* The fields each server handler decodes before it calls its node.
Required ==
  [ upload    |-> {"owner", "cid"},
    download  |-> {"owner", "cid", "txid"},
    reencrypt |-> {"cid", "lpp", "reKeys", "txid"},
    choice    |-> {"cid", "owner", "yp", "lp"} ]

Kinds == DOMAIN Required

ASSUME CallAssumption ==
  /\ Kind \in [Calls -> Kinds]
  /\ Fields \in [Calls -> SUBSET UNION {Required[k] : k \in Kinds}]
  /\ None \notin Calls
  /\ {Serial, Patient, Reliable} \subseteq BOOLEAN

VARIABLES
  call,      \* "new", "sending" (in sendProtoMsg), then "waiting" (in Wait)
  req,       \* the request: on its stream, at the server, or over and done
  rsp,       \* the answer: on its stream, read by the client, or lost
  handled,   \* the calls for which the server's node has done its work
  writer, readers, m, buf, closed, wpc, werr, got, ctxDone, ppc, target,
  panicked   \* the pool; `panicked' is the end of the client's process

streamVars == <<call, req, rsp, handled>>
poolVars == <<writer, readers, m, buf, closed, wpc, werr, got, ctxDone, ppc,
              target, panicked>>
vars == <<streamVars, poolVars>>

\* The kind under which the response handlers push.  (Faulty variant: every
\* answer is pushed as an upload.)
PushKindCopied == [c \in Calls |-> "upload"]
PushKind == [c \in Calls |-> Kind[c]]

Pool == INSTANCE MessagePool WITH
          Protocols <- Kinds, Waiters <- Calls, Pushers <- Calls,
          WaitOn <- Kind, PushTo <- PushKind

Init ==
  /\ call = [c \in Calls |-> "new"]
  /\ req = [c \in Calls |-> "none"]
  /\ rsp = [c \in Calls |-> "none"]
  /\ handled = {}
  /\ Pool!Init

Returned(c) == wpc[c] = "done"

----------------------------------------------------------------------------
(* The client: sendProtoMsg, whose result is ignored, then Wait            *)

MayStart(c) ==
  /\ call[c] = "new"
  /\ Serial => \A d \in Calls :
                 Kind[d] = Kind[c] => call[d] = "new" \/ Returned(d)

\* NewStream and WriteMsg.  The stream is now in FullClose.
Send(c) ==
  /\ MayStart(c)
  /\ call' = [call EXCEPT ![c] = "sending"]
  /\ req' = [req EXCEPT ![c] = "sent"]
  /\ UNCHANGED <<rsp, handled, poolVars>>

\* NewStream or WriteMsg fails.  The caller waits all the same.
SendFails(c) ==
  /\ ~Reliable
  /\ MayStart(c)
  /\ call' = [call EXCEPT ![c] = "waiting"]
  /\ req' = [req EXCEPT ![c] = "over"]
  /\ UNCHANGED <<rsp, handled, poolVars>>

\* FullClose sees the server close its half, which it does once it has read
\* the request and before it looks at it.
FullClose(c) ==
  /\ call[c] = "sending"
  /\ req[c] # "sent"
  /\ call' = [call EXCEPT ![c] = "waiting"]
  /\ UNCHANGED <<req, rsp, handled, poolVars>>

\* FullClose fails or times out and the stream is reset: a request the server
\* has not read is gone, one it has read takes its course.
FullCloseFails(c) ==
  /\ ~Reliable
  /\ call[c] = "sending"
  /\ call' = [call EXCEPT ![c] = "waiting"]
  /\ req' = [req EXCEPT ![c] = IF @ = "sent" THEN "over" ELSE @]
  /\ UNCHANGED <<rsp, handled, poolVars>>

WaitStep(c) ==
  /\ ~panicked
  /\ call[c] = "waiting"
  /\ Pool!WaitStep(c)
  /\ UNCHANGED streamVars

\* The answer to this very call can still reach the pool.
AnswerPending(c) ==
  \/ req[c] \in {"sent", "read", "done"}
  \/ rsp[c] = "sent"
  \/ rsp[c] = "read" /\ ppc[c] # "done"

\* The context is armed before the call: it can end at any time of it.
CtxDone(c) ==
  /\ ~panicked
  /\ call[c] # "new"
  /\ Patient => ~AnswerPending(c)
  /\ Pool!CtxDone(c)
  /\ UNCHANGED streamVars

----------------------------------------------------------------------------
(* The server: onUploadRequest and its like                                *)

\* readMsgFromStream, then s.Close().
ServerRead(c) ==
  /\ req[c] = "sent"
  /\ req' = [req EXCEPT ![c] = "read"]
  /\ UNCHANGED <<call, rsp, handled, poolVars>>

\* The read fails: s.Reset(), and nothing else happens.
ServerReadFails(c) ==
  /\ ~Reliable
  /\ req[c] = "sent"
  /\ req' = [req EXCEPT ![c] = "over"]
  /\ UNCHANGED <<call, rsp, handled, poolVars>>

WellFormed(c) == Required[Kind[c]] \subseteq Fields[c]

\* A field does not decode: the handler returns without an answer.
ServerReject(c) ==
  /\ req[c] = "read"
  /\ ~WellFormed(c)
  /\ req' = [req EXCEPT ![c] = "over"]
  /\ UNCHANGED <<call, rsp, handled, poolVars>>

\* The node's OnUploadRequest, OnDownloadRequest, OnReEncryptRequest or
\* OnChoiceRequest.
ServerHandle(c) ==
  /\ req[c] = "read"
  /\ WellFormed(c)
  /\ handled' = handled \cup {c}
  /\ req' = [req EXCEPT ![c] = "done"]
  /\ UNCHANGED <<call, rsp, poolVars>>

\* Faulty variant: the answer is sent before the node has done its work.
ServerReplyEarly(c) ==
  /\ req[c] \in {"read", "done"}
  /\ req' = [req EXCEPT ![c] = "over"]
  /\ rsp' = [rsp EXCEPT ![c] = "sent"]
  /\ UNCHANGED <<call, handled, poolVars>>

\* sendProtoMsg of the response, on a stream back to the client.
ServerReply(c) ==
  /\ req[c] = "done"
  /\ req' = [req EXCEPT ![c] = "over"]
  /\ rsp' = [rsp EXCEPT ![c] = "sent"]
  /\ UNCHANGED <<call, handled, poolVars>>

\* "TODO: response failed ?"
ServerReplyFails(c) ==
  /\ ~Reliable
  /\ req[c] = "done"
  /\ req' = [req EXCEPT ![c] = "over"]
  /\ rsp' = [rsp EXCEPT ![c] = "lost"]
  /\ UNCHANGED <<call, handled, poolVars>>

----------------------------------------------------------------------------
(* The client's stream handlers: onUploadResponse and its like             *)

ResponseRead(c) ==
  /\ ~panicked
  /\ rsp[c] = "sent"
  /\ rsp' = [rsp EXCEPT ![c] = "read"]
  /\ UNCHANGED <<call, req, handled, poolVars>>

\* The read fails, or the server has reset the stream in its FullClose.
ResponseReadFails(c) ==
  /\ ~Reliable
  /\ ~panicked
  /\ rsp[c] = "sent"
  /\ rsp' = [rsp EXCEPT ![c] = "lost"]
  /\ UNCHANGED <<call, req, handled, poolVars>>

PushStep(c) ==
  /\ ~panicked
  /\ rsp[c] = "read"
  /\ Pool!PushStep(c)
  /\ UNCHANGED streamVars

----------------------------------------------------------------------------
SendStep(c) ==
  ~panicked /\ (Send(c) \/ SendFails(c) \/ FullClose(c) \/ FullCloseFails(c))

\* The server is another process: it outlives the client's.
ServerStep(c) ==
  \/ ServerRead(c) \/ ServerReadFails(c)
  \/ ServerReject(c) \/ ServerHandle(c)
  \/ ServerReply(c) \/ ServerReplyFails(c)

ResponseStep(c) ==
  ResponseRead(c) \/ ResponseReadFails(c) \/ PushStep(c)

\* The client is over: every call has returned, or its process has panicked.
Stopped == (panicked \/ \A c \in Calls : Returned(c)) /\ UNCHANGED vars

Next ==
  \/ \E c \in Calls : SendStep(c) \/ WaitStep(c) \/ CtxDone(c)
  \/ \E c \in Calls : ServerStep(c) \/ ResponseStep(c)
  \/ Stopped

Spec == Init /\ [][Next]_vars

\* Runnable goroutines run, a context ends, and a stream that is read or
\* closed either succeeds or fails (FullClose gives up after a minute).
Fairness ==
  \A c \in Calls :
    /\ WF_vars(SendStep(c))
    /\ WF_vars(WaitStep(c))
    /\ WF_vars(CtxDone(c))
    /\ WF_vars(ServerStep(c))
    /\ WF_vars(ResponseStep(c))

FairSpec == Spec /\ Fairness

----------------------------------------------------------------------------
(* Properties of every client                                              *)

\* The state is well formed, and an answer exists only for a request the
\* server's node has worked on (storage.go:83-90, pre.go:88-94, ot.go:84-90).
StreamsOK ==
  /\ call \in [Calls -> {"new", "sending", "waiting"}]
  /\ req \in [Calls -> {"none", "sent", "read", "done", "over"}]
  /\ rsp \in [Calls -> {"none", "sent", "read", "lost"}]
  /\ handled \subseteq Calls
  /\ Pool!TypeOK
  /\ \A c \in Calls :
       /\ req[c] = "none" <=> call[c] = "new"
       /\ c \in handled => req[c] \in {"done", "over"}
       /\ req[c] = "done" => c \in handled
       /\ rsp[c] # "none" => c \in handled /\ req[c] = "over"
       /\ wpc[c] # "idle" => call[c] = "waiting"
       /\ ppc[c] # "idle" => rsp[c] = "read"

\* The type assertions on what Wait returns (storage.go:196, 214) do not
\* panic: a call receives an answer, and one of its own kind.
RightKind ==
  \A c \in Calls :
    Returned(c) /\ werr[c] = "nil" =>
      got[c] # None /\ Kind[got[c]] = Kind[c]

\* Every call returns, unless the client's process panics, though requests are
\* rejected without an answer and answers are lost or dropped (storage.go:65-73,
\* 91, protocol.go:98-114).
CallReturns == <>(panicked \/ \A c \in Calls : Returned(c))

----------------------------------------------------------------------------
(* Serial callers                                                          *)

\* Calls that do not overlap are not refused by the pool: a call that returned,
\* with an answer or without, leaves nothing behind in it.
NeverRefused == \A c \in Calls : werr[c] # "exists"

Stale(c) == got[c] \notin {None, c}
TimedOut(c) == werr[c] = "timeout"

\* Calls that do not overlap get the wrong answer, or end in a panic, only
\* after a call of the same kind has timed out.
TroubleNeedsTimeout ==
  /\ \A c \in Calls : Stale(c) =>
       \E d \in Calls \ {c} : Kind[d] = Kind[c] /\ Returned(d) /\ TimedOut(d)
  /\ panicked => \E d \in Calls : Returned(d) /\ TimedOut(d)

----------------------------------------------------------------------------
(* Serial and patient callers                                              *)

\* The process does not panic when calls of a kind do not overlap and no
\* context ends while the answer is on its way.
NoPanic == ~panicked

Status(c) ==
  CASE call[c] = "new" -> "new"
    [] call[c] # "new" /\ ~Returned(c) -> "open"
    [] Returned(c) /\ werr[c] = "nil" /\ got[c] = c -> "ok"
    [] Returned(c) /\ werr[c] = "nil" /\ got[c] # c -> "wrong"
    [] Returned(c) /\ werr[c] # "nil" -> "failed"

R == INSTANCE Rpc WITH
       status <- [c \in Calls |-> Status(c)], effect <- handled

\* The calls implement the remote call of Rpc: at most one execution, none
\* after the caller has given up, and success only with the own answer.
ImplementsRpc == R!Spec

----------------------------------------------------------------------------
(* The inductive strengthenings behind these properties                    *)

\* The pool's invariant, for the calls as its waiters and its pushers.
CallsInv == StreamsOK /\ Pool!IInv

\* Of the calls of a kind, at most one is under way.
OneAtATime ==
  \A c, d \in Calls :
    c # d /\ Kind[c] = Kind[d] /\ call[c] # "new" /\ call[d] # "new" =>
      Returned(c) \/ Returned(d)

\* The first answer that meets a call not its own has missed its own call,
\* which has timed out; every later one goes back to the first.
MisledNeedsTimeout ==
  \A c \in Calls : target[c] \notin {None, c} =>
    \E d \in Calls \ {target[c]} :
      Kind[d] = Kind[c] /\ Returned(d) /\ TimedOut(d)

SerialInv == CallsInv /\ OneAtATime /\ NeverRefused /\ MisledNeedsTimeout

\* A call that times out has no answer under way, now or later.
CtxPatient ==
  \A c \in Calls :
    /\ c \in ctxDone => call[c] # "new" /\ ~AnswerPending(c)
    /\ TimedOut(c) => c \in ctxDone

\* An answer meets its own call or none.
OwnAnswer == \A c \in Calls : target[c] \in {None, c}

PatientInv == SerialInv /\ CtxPatient /\ OwnAnswer

----------------------------------------------------------------------------
(* What the repository says of its calls                                   *)

\* node_test.go:495-497 and 311-313 take a call between well-behaved nodes to
\* return without an error.
CallsSucceed == \A c \in Calls : Returned(c) => werr[c] = "nil"

\* msg.proto:43-44: a download request is proceeded by its owner or, if that is
\* empty, by its txid.  Of a request with an owner alone and one with a txid
\* alone, the server does not drop both.
DownloadProceeds ==
  /\ Kind = [c \in Calls |-> "download"]
  /\ \A sole \in {"owner", "txid"} : \E c \in Calls : Fields[c] = {"cid", sole}
  /\ \A c \in Calls : req[c] = "over"
  => handled # {}
=============================================================================
