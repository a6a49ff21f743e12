------------------------- MODULE RequestReply_proofs --------------------------
(***************************************************************************)
(* Proofs about RequestReply, for any calls of any kinds.  The theorems of *)
(* MessagePool_proofs hold of the pool of the calls.  From them, and from  *)
(* what the streams do, follow the safety of calls in general, of serial   *)
(* calls, and of serial and patient calls; the last implement Rpc.         *)
(***************************************************************************)
EXTENDS RequestReply, TLAPS

PoolProofs == INSTANCE MessagePool_proofs WITH
                Protocols <- Kinds, Waiters <- Calls, Pushers <- Calls,
                WaitOn <- Kind, PushTo <- PushKind

----------------------------------------------------------------------------
(* The pool of the calls                                                   *)

\* The calls and their kinds are waiters, pushers and protocols of a pool.
LEMMA PoolOfCalls == PoolProofs!PoolAssumption
BY CallAssumption DEF PushKind, PoolProofs!PoolAssumption

\* The invariant of the pool is the one its proofs are about.
LEMMA SameInv == Pool!IInv <=> PoolProofs!IInv
BY DEF Pool!IInv, Pool!TypeOK, Pool!SlotExact, Pool!Registered,
       Pool!ChannelHeld, Pool!PushProgress, Pool!MessagesExact, Pool!Sent,
       Pool!ClosedExact, Pool!Closer, Pool!WaitProgress, Pool!NoNilMessage,
       Pool!PanicNeedsSurplus,
       PoolProofs!IInv, PoolProofs!TypeOK, PoolProofs!SlotExact,
       PoolProofs!Registered, PoolProofs!ChannelHeld,
       PoolProofs!PushProgress, PoolProofs!MessagesExact, PoolProofs!Sent,
       PoolProofs!ClosedExact, PoolProofs!Closer, PoolProofs!WaitProgress,
       PoolProofs!NoNilMessage, PoolProofs!PanicNeedsSurplus

\* Also after a step.
LEMMA SameInvPrimed == Pool!IInv' <=> PoolProofs!IInv'
BY SameInv, PTL

\* An empty pool has the invariant, and every step of the pool keeps it.
LEMMA PoolInit == Pool!Init => Pool!IInv
<1>1. Pool!Init => PoolProofs!Init
  BY DEF Pool!Init, PoolProofs!Init
<1>2. QED
  BY <1>1, SameInv, PoolOfCalls, PoolProofs!InitIInv

\* A step of Wait keeps the invariant of the pool.
LEMMA PoolWait ==
  ASSUME Pool!IInv, NEW c \in Calls, ~panicked, Pool!WaitStep(c)
  PROVE  Pool!IInv'
<1>1. PoolProofs!WaitStep(c)
  BY DEF Pool!WaitStep, Pool!WaitLock, Pool!WaitRefused, Pool!WaitRegister,
         Pool!SelectTimeout, Pool!SelectReceive, Pool!DeferLock,
         Pool!DeferDelete,
         Pool!AnnounceWriter, Pool!HoldsLock, Pool!Unlock, Pool!chanVars,
         Pool!waitVars, Pool!pushVars,
         PoolProofs!WaitStep, PoolProofs!WaitLock, PoolProofs!WaitRefused,
         PoolProofs!WaitRegister, PoolProofs!SelectTimeout,
         PoolProofs!SelectReceive, PoolProofs!DeferLock,
         PoolProofs!DeferDelete, PoolProofs!AnnounceWriter,
         PoolProofs!HoldsLock, PoolProofs!Unlock, PoolProofs!chanVars,
         PoolProofs!waitVars, PoolProofs!pushVars
<1>2. PoolProofs!Next
  BY <1>1 DEF PoolProofs!Next
<1>3. PoolProofs!IInv'
  BY <1>2, SameInv, PoolOfCalls, PoolProofs!NextIInv
<1>4. QED
  BY <1>3, SameInvPrimed

\* So does a step of Push.
LEMMA PoolPush ==
  ASSUME Pool!IInv, NEW c \in Calls, ~panicked, Pool!PushStep(c)
  PROVE  Pool!IInv'
<1>1. PoolProofs!PushStep(c)
  BY DEF Pool!PushStep, Pool!PushLookup, Pool!PushSend, Pool!PushClose,
         Pool!PushPanic, Pool!PushRUnlock, Pool!chanVars, Pool!waitVars,
         PoolProofs!PushStep, PoolProofs!PushLookup, PoolProofs!PushSend,
         PoolProofs!PushClose, PoolProofs!PushPanic, PoolProofs!PushRUnlock,
         PoolProofs!chanVars, PoolProofs!waitVars
<1>2. PoolProofs!Next
  BY <1>1 DEF PoolProofs!Next
<1>3. PoolProofs!IInv'
  BY <1>2, SameInv, PoolOfCalls, PoolProofs!NextIInv
<1>4. QED
  BY <1>3, SameInvPrimed

\* So does the end of a context.
LEMMA PoolCtxDone ==
  ASSUME Pool!IInv, NEW c \in Calls, ~panicked, Pool!CtxDone(c)
  PROVE  Pool!IInv'
<1>1. PoolProofs!CtxDone(c)
  BY DEF Pool!CtxDone, Pool!chanVars, Pool!pushVars, PoolProofs!CtxDone,
         PoolProofs!chanVars, PoolProofs!pushVars
<1>2. PoolProofs!Next
  BY <1>1 DEF PoolProofs!Next
<1>3. PoolProofs!IInv'
  BY <1>2, SameInv, PoolOfCalls, PoolProofs!NextIInv
<1>4. QED
  BY <1>3, SameInvPrimed

\* So does a step that leaves the pool alone.
LEMMA PoolIdle == Pool!IInv /\ UNCHANGED poolVars => Pool!IInv'
<1>1. UNCHANGED poolVars => UNCHANGED PoolProofs!vars
  BY DEF poolVars, PoolProofs!vars, PoolProofs!chanVars, PoolProofs!waitVars,
         PoolProofs!pushVars
<1>2. QED
  BY <1>1, SameInv, SameInvPrimed, PoolOfCalls, PoolProofs!StutterIInv

----------------------------------------------------------------------------
(* What a step of the pool does to the calls                               *)

\* A step of Wait concerns one call, which has not returned.  A call is refused
\* because its kind is taken, and times out after the end of its context.
LEMMA WaitEffect ==
  ASSUME Pool!TypeOK, NEW c \in Calls, Pool!WaitStep(c)
  PROVE  /\ UNCHANGED <<ctxDone, ppc, target, panicked>>
         /\ \A d \in Calls \ {c} :
              wpc'[d] = wpc[d] /\ werr'[d] = werr[d] /\ got'[d] = got[d]
         /\ wpc[c] # "done" /\ wpc'[c] # "idle"
         /\ werr'[c] \in {werr[c], "exists", "timeout"}
         /\ werr'[c] = "timeout" => werr[c] = "timeout" \/ c \in ctxDone
         /\ werr'[c] = "exists" =>
              werr[c] = "exists" \/ (wpc[c] = "locking" /\ m[Kind[c]] # None)
BY DEF Pool!TypeOK, Pool!WaitStep, Pool!WaitLock, Pool!WaitRefused,
       Pool!WaitRegister, Pool!SelectTimeout, Pool!SelectReceive,
       Pool!DeferLock, Pool!DeferDelete, Pool!chanVars, Pool!waitVars,
       Pool!pushVars

\* A step of Push concerns one answer, whose Push has not returned.  It finds a
\* call in its first step only.
LEMMA PushEffect ==
  ASSUME Pool!TypeOK, NEW c \in Calls, Pool!PushStep(c)
  PROVE  /\ UNCHANGED <<wpc, werr, got, ctxDone>>
         /\ \A d \in Calls \ {c} : ppc'[d] = ppc[d] /\ target'[d] = target[d]
         /\ ppc[c] # "done" /\ ppc'[c] # "idle"
         /\ ppc[c] = "unlock" => ppc'[c] = "done"
         /\ panicked' => panicked \/ ppc[c] \in {"send", "close"}
         /\ \/ target'[c] = target[c]
            \/ (ppc[c] = "idle" /\ target'[c] = m[Kind[c]])
BY DEF Pool!TypeOK, Pool!PushStep, Pool!PushLookup, Pool!PushSend,
       Pool!PushClose, Pool!PushPanic, Pool!PushRUnlock, Pool!chanVars,
       Pool!waitVars, PushKind

\* The end of a context is the only change to the contexts.
LEMMA CtxEffect ==
  ASSUME NEW c \in Calls, Pool!CtxDone(c)
  PROVE  /\ UNCHANGED <<wpc, werr, got, ppc, target, panicked>>
         /\ wpc[c] # "done"
         /\ ctxDone' = ctxDone \cup {c}
BY DEF Pool!CtxDone, Pool!pushVars

----------------------------------------------------------------------------
(* Any calls                                                               *)

\* Before the first call there is nothing on a stream or in the pool.
LEMMA InitCalls == Init => CallsInv
<1> SUFFICES ASSUME Init PROVE CallsInv
  OBVIOUS
<1>1. Pool!Init
  BY DEF Init
<1>2. Pool!IInv
  BY <1>1, PoolInit
<1>3. StreamsOK
  BY <1>1, <1>2 DEF Init, StreamsOK, Pool!Init, Pool!IInv
<1>4. QED
  BY <1>2, <1>3 DEF CallsInv

\* The client's own steps outside the pool, and the server's, touch one call's
\* streams and leave the pool alone.
StreamStep(c) ==
  \/ SendStep(c) \/ ServerStep(c) \/ ResponseRead(c) \/ ResponseReadFails(c)

\* A step of a stream keeps the streams and the pool in step.
LEMMA StreamStepCalls ==
  ASSUME CallsInv, NEW c \in Calls, StreamStep(c)
  PROVE  CallsInv'
<1>1. UNCHANGED poolVars
  BY DEF StreamStep, SendStep, Send, SendFails, FullClose, FullCloseFails,
         ServerStep, ServerRead, ServerReadFails, ServerReject, ServerHandle,
         ServerReply, ServerReplyFails, ResponseRead, ResponseReadFails
<1>2. Pool!IInv'
  BY <1>1, PoolIdle DEF CallsInv
<1>3. Pool!TypeOK' /\ wpc' = wpc /\ ppc' = ppc
  BY <1>1, <1>2 DEF Pool!IInv, poolVars
<1>4. StreamsOK'
  <2> USE <1>3 DEF CallsInv, StreamsOK
  <2>1. CASE SendStep(c)
    BY <2>1 DEF SendStep, Send, SendFails, FullClose, FullCloseFails, MayStart
  <2>2. CASE ServerStep(c)
    BY <2>2 DEF ServerStep, ServerRead, ServerReadFails, ServerReject,
                ServerHandle, ServerReply, ServerReplyFails
  <2>3. CASE ResponseRead(c) \/ ResponseReadFails(c)
    BY <2>3 DEF ResponseRead, ResponseReadFails
  <2>4. QED
    BY <2>1, <2>2, <2>3 DEF StreamStep
<1>5. QED
  BY <1>2, <1>4 DEF CallsInv

\* A step in the pool leaves the streams alone.
LEMMA PoolStepCalls ==
  ASSUME CallsInv, NEW c \in Calls, WaitStep(c) \/ CtxDone(c) \/ PushStep(c)
  PROVE  CallsInv'
<1>1. Pool!IInv' /\ Pool!TypeOK'
  BY PoolWait, PoolCtxDone, PoolPush
  DEF WaitStep, CtxDone, PushStep, CallsInv, Pool!IInv
<1>2. UNCHANGED streamVars
  BY DEF WaitStep, CtxDone, PushStep
<1>3. StreamsOK'
  <2> USE <1>1, <1>2 DEF CallsInv, StreamsOK, streamVars
  <2>1. CASE WaitStep(c)
    BY <2>1, WaitEffect DEF WaitStep
  <2>2. CASE CtxDone(c)
    BY <2>2, CtxEffect DEF CtxDone
  <2>3. CASE PushStep(c)
    BY <2>3, PushEffect DEF PushStep
  <2>4. QED
    BY <2>1, <2>2, <2>3
<1>4. QED
  BY <1>1, <1>3 DEF CallsInv

\* So does a step that changes nothing.
LEMMA IdleCalls == CallsInv /\ UNCHANGED vars => CallsInv'
<1> SUFFICES ASSUME CallsInv, UNCHANGED vars PROVE CallsInv'
  OBVIOUS
<1>1. Pool!IInv' /\ Pool!TypeOK'
  BY PoolIdle DEF vars, CallsInv, Pool!IInv
<1>2. QED
  BY <1>1 DEF CallsInv, StreamsOK, vars, streamVars, poolVars

\* The three kinds of steps there are.
LEMMA Steps ==
  ASSUME [Next]_vars
  PROVE  \/ \E c \in Calls : StreamStep(c)
         \/ \E c \in Calls : WaitStep(c) \/ CtxDone(c) \/ PushStep(c)
         \/ UNCHANGED vars
BY DEF Next, StreamStep, ResponseStep, Stopped

\* So does every step of the calls.
LEMMA NextCalls == CallsInv /\ [Next]_vars => CallsInv'
BY Steps, StreamStepCalls, PoolStepCalls, IdleCalls

\* The streams and the pool are in step in every state, whatever fails and
\* whichever calls overlap (protocol.go:120-151 and the handlers of storage.go,
\* pre.go and ot.go).
THEOREM CallsInvariance == Spec => []CallsInv
BY InitCalls, NextCalls, PTL DEF Spec

\* An answer exists only for a request the server's node has worked on
\* (storage.go:83-90, pre.go:88-94, ot.go:84-90).
THEOREM StreamsCorrect == Spec => []StreamsOK
<1>1. CallsInv => StreamsOK
  BY DEF CallsInv
<1>2. QED
  BY <1>1, CallsInvariance, PTL

\* What a call has received is an answer that found it, of its kind.
LEMMA GotFound ==
  ASSUME CallsInv, NEW c \in Calls, got[c] # None
  PROVE  /\ got[c] \in Calls /\ target[got[c]] = c /\ Kind[got[c]] = Kind[c]
         /\ ppc[got[c]] # "idle"
<1>1. got[c] \in Calls /\ target[got[c]] = c /\ ppc[got[c]] # "idle"
  BY DEF CallsInv, Pool!IInv, Pool!TypeOK, Pool!MessagesExact, Pool!Sent
<1>2. Kind[got[c]] = Kind[c]
  BY <1>1, CallAssumption DEF CallsInv, Pool!IInv, Pool!PushProgress, PushKind
<1>3. QED
  BY <1>1, <1>2

\* No call receives the nil of a closed channel or the answer to a call of
\* another kind, on which the type assertions of storage.go:196 and 214 would
\* panic, however many calls of however many kinds overlap in one pool.
THEOREM KindsMatch == Spec => []RightKind
<1>1. CallsInv => RightKind
  <2> SUFFICES ASSUME CallsInv, NEW c \in Calls, Returned(c), werr[c] = "nil"
               PROVE  got[c] # None /\ Kind[got[c]] = Kind[c]
    BY DEF RightKind
  <2>1. got[c] # None
    BY DEF CallsInv, Pool!IInv, Pool!NoNilMessage, Returned
  <2>2. QED
    BY <2>1, GotFound
<1>2. QED
  BY <1>1, CallsInvariance, PTL

----------------------------------------------------------------------------
(* Serial calls                                                            *)

\* A registered call is under way, and it is the one of its kind.
LEMMA RegisteredCall ==
  ASSUME CallsInv, NEW k \in Kinds, m[k] # None
  PROVE  /\ m[k] \in Calls /\ Kind[m[k]] = k /\ call[m[k]] # "new"
         /\ wpc[m[k]] \notin {"idle", "locking", "done"}
<1>1. m[k] \in Calls
  BY DEF CallsInv, Pool!IInv, Pool!TypeOK
<1>2. Kind[m[k]] = k /\ wpc[m[k]] \notin {"idle", "locking", "done"}
  BY <1>1 DEF CallsInv, Pool!IInv, Pool!SlotExact, Pool!Registered
<1>3. call[m[k]] # "new"
  BY <1>1, <1>2 DEF CallsInv, StreamsOK
<1>4. QED
  BY <1>1, <1>2, <1>3

\* A call that has returned has returned for good, with its error.
LEMMA StaysReturned ==
  ASSUME CallsInv, [Next]_vars, NEW c \in Calls, Returned(c)
  PROVE  Returned(c)' /\ werr'[c] = werr[c]
<1>1. CASE UNCHANGED <<wpc, werr>>
  BY <1>1 DEF Returned
<1>2. ASSUME NEW d \in Calls, StreamStep(d)
      PROVE  UNCHANGED poolVars
  BY <1>2 DEF StreamStep, SendStep, Send, SendFails, FullClose, FullCloseFails,
         ServerStep, ServerRead, ServerReadFails, ServerReject, ServerHandle,
         ServerReply, ServerReplyFails, ResponseRead, ResponseReadFails
<1>3. ASSUME NEW d \in Calls, WaitStep(d)
      PROVE  Returned(c)' /\ werr'[c] = werr[c]
  BY <1>3, WaitEffect DEF WaitStep, CallsInv, Pool!IInv, Returned
<1>4. ASSUME NEW d \in Calls, CtxDone(d) \/ PushStep(d)
      PROVE  UNCHANGED <<wpc, werr>>
  BY <1>4, CtxEffect, PushEffect DEF CtxDone, PushStep, CallsInv, Pool!IInv
<1>5. QED
  BY <1>1, <1>2, <1>3, <1>4, Steps DEF poolVars, vars

\* A call starts after the others of its kind have returned.
LEMMA SerialOne ==
  ASSUME Serial, CallsInv, OneAtATime, [Next]_vars
  PROVE  OneAtATime'
<1> SUFFICES ASSUME NEW c \in Calls, NEW d \in Calls, c # d,
                    Kind[c] = Kind[d], call'[c] # "new", call'[d] # "new"
             PROVE  Returned(c)' \/ Returned(d)'
  BY DEF OneAtATime
<1>1. ASSUME NEW e \in Calls, call[e] = "new", call'[e] # "new"
      PROVE  /\ MayStart(e)
             /\ \A f \in Calls \ {e} : call'[f] = call[f]
  <2>1. Send(e) \/ SendFails(e)
    BY <1>1, Steps
    DEF CallsInv, StreamsOK, vars, streamVars,
        StreamStep, SendStep, Send, SendFails, FullClose, FullCloseFails,
        ServerStep, ServerRead, ServerReadFails, ServerReject, ServerHandle,
        ServerReply, ServerReplyFails, ResponseRead, ResponseReadFails,
        WaitStep, CtxDone, PushStep
  <2>2. QED
    BY <2>1 DEF Send, SendFails, CallsInv, StreamsOK
<1>2. CASE call[c] # "new" /\ call[d] # "new"
  BY <1>2, StaysReturned DEF OneAtATime
<1>3. CASE call[c] = "new"
  BY <1>1, <1>3, StaysReturned DEF MayStart
<1>4. CASE call[d] = "new"
  BY <1>1, <1>4, StaysReturned DEF MayStart
<1>5. QED
  BY <1>2, <1>3, <1>4

\* A call is refused where it finds the slot of its kind taken.
LEMMA RefusedStep ==
  ASSUME CallsInv, [Next]_vars, NEW c \in Calls,
         werr[c] # "exists", werr'[c] = "exists"
  PROVE  wpc[c] = "locking" /\ m[Kind[c]] # None /\ call[c] = "waiting"
<1>1. WaitStep(c)
  <2>1. ASSUME NEW d \in Calls, WaitStep(d) PROVE d = c
    BY <2>1, WaitEffect DEF WaitStep, CallsInv, Pool!IInv
  <2>2. ASSUME NEW d \in Calls, StreamStep(d) \/ CtxDone(d) \/ PushStep(d)
        PROVE  werr' = werr
    BY <2>2, CtxEffect, PushEffect
    DEF CallsInv, Pool!IInv, poolVars, CtxDone, PushStep,
        StreamStep, SendStep, Send, SendFails, FullClose, FullCloseFails,
        ServerStep, ServerRead, ServerReadFails, ServerReject, ServerHandle,
        ServerReply, ServerReplyFails, ResponseRead, ResponseReadFails
  <2>3. QED
    BY <2>1, <2>2, Steps DEF vars, poolVars
<1>2. QED
  BY <1>1, WaitEffect DEF WaitStep, CallsInv, Pool!IInv

\* Nothing occupies the slot of a serial call.
LEMMA SerialNotRefused ==
  ASSUME CallsInv, OneAtATime, NeverRefused, [Next]_vars
  PROVE  NeverRefused'
<1> SUFFICES ASSUME NEW c \in Calls, werr'[c] = "exists" PROVE FALSE
  BY DEF NeverRefused
<1>1. wpc[c] = "locking" /\ m[Kind[c]] # None
  BY RefusedStep DEF NeverRefused
<1>2. Kind[c] \in Kinds /\ call[c] # "new"
  BY <1>1, CallAssumption DEF CallsInv, StreamsOK
<1>3. QED
  BY <1>1, <1>2, RegisteredCall DEF OneAtATime, Returned

\* A Push of a serial call that finds another call comes after a timeout.
LEMMA MisledFound ==
  ASSUME CallsInv, OneAtATime, NeverRefused, MisledNeedsTimeout,
         NEW c \in Calls, call[c] # "new", ppc[c] = "idle",
         m[Kind[c]] \notin {None, c}
  PROVE  \E d \in Calls \ {m[Kind[c]]} :
           Kind[d] = Kind[c] /\ Returned(d) /\ TimedOut(d)
<1> DEFINE w == m[Kind[c]]
<1>1. Kind[c] \in Kinds
  BY CallAssumption
<1>2. w \in Calls /\ Kind[w] = Kind[c] /\ call[w] # "new" /\ ~Returned(w)
  BY <1>1, RegisteredCall DEF Returned
<1>3. Returned(c)
  BY <1>2 DEF OneAtATime
<1>4. CASE TimedOut(c)
  BY <1>2, <1>3, <1>4
<1>5. CASE ~TimedOut(c)
  <2>1. werr[c] = "nil"
    BY <1>5 DEF TimedOut, NeverRefused, CallsInv, Pool!IInv, Pool!TypeOK
  <2>2. got[c] # None
    BY <1>3, <2>1 DEF CallsInv, Pool!IInv, Pool!NoNilMessage, Returned
  <2>3. PICK r \in Calls : target[r] = c /\ Kind[r] = Kind[c] /\ r # c
    BY <2>2, GotFound
  <2>4. PICK d \in Calls \ {c} :
          Kind[d] = Kind[c] /\ Returned(d) /\ TimedOut(d)
    BY <2>3, CallAssumption DEF MisledNeedsTimeout
  <2>5. QED
    BY <1>2, <2>4
<1>6. QED
  BY <1>4, <1>5

\* Only the lookup of a Push, of a call that has been made, sets its target.
LEMMA TargetStep ==
  ASSUME CallsInv, [Next]_vars, NEW c \in Calls
  PROVE  \/ target'[c] = target[c]
         \/ /\ target'[c] = m[Kind[c]]
            /\ ~panicked
            /\ ppc[c] = "idle" /\ rsp[c] = "read" /\ call[c] # "new"
            /\ UNCHANGED <<call, wpc, werr, ctxDone, m>>
<1>1. ASSUME NEW d \in Calls, StreamStep(d) \/ WaitStep(d) \/ CtxDone(d)
      PROVE  target' = target
  BY <1>1, WaitEffect, CtxEffect
  DEF CallsInv, Pool!IInv, poolVars, WaitStep, CtxDone,
      StreamStep, SendStep, Send, SendFails, FullClose, FullCloseFails,
      ServerStep, ServerRead, ServerReadFails, ServerReject, ServerHandle,
      ServerReply, ServerReplyFails, ResponseRead, ResponseReadFails
<1>2. ASSUME NEW d \in Calls, PushStep(d), target'[c] # target[c]
      PROVE  /\ target'[c] = m[Kind[c]] /\ ~panicked
             /\ ppc[c] = "idle" /\ rsp[c] = "read"
             /\ UNCHANGED <<call, wpc, werr, ctxDone, m>>
  <2>1. d = c
    BY <1>2, PushEffect DEF PushStep, CallsInv, Pool!IInv
  <2>2. m' = m
    BY <1>2 DEF PushStep, Pool!PushStep, Pool!PushLookup, Pool!PushSend,
                Pool!PushClose, Pool!PushPanic, Pool!PushRUnlock
  <2>3. QED
    BY <1>2, <2>1, <2>2, PushEffect
    DEF PushStep, CallsInv, Pool!IInv, streamVars
<1>3. rsp[c] = "read" => call[c] # "new"
  BY DEF CallsInv, StreamsOK
<1>4. QED
  BY <1>1, <1>2, <1>3, Steps DEF vars, poolVars

\* Of serial calls, an answer goes astray only after a timeout.
LEMMA SerialMisled ==
  ASSUME CallsInv, OneAtATime, NeverRefused, MisledNeedsTimeout, [Next]_vars
  PROVE  MisledNeedsTimeout'
<1> SUFFICES ASSUME NEW c \in Calls, target'[c] \notin {None, c}
             PROVE  \E d \in Calls \ {target'[c]} :
                      Kind[d] = Kind[c] /\ Returned(d)' /\ TimedOut(d)'
  BY DEF MisledNeedsTimeout
<1>1. \E d \in Calls \ {target'[c]} :
        Kind[d] = Kind[c] /\ Returned(d) /\ TimedOut(d)
  BY TargetStep, MisledFound DEF MisledNeedsTimeout
<1>2. QED
  BY <1>1, StaysReturned DEF TimedOut

\* What TroubleNeedsTimeout and NoPanic need of serial calls, in every state.
THEOREM SerialInvariance == ASSUME Serial PROVE Spec => []SerialInv
<1>1. Init => SerialInv
  BY InitCalls
  DEF SerialInv, Init, Pool!Init, OneAtATime, NeverRefused, MisledNeedsTimeout
<1>2. SerialInv /\ [Next]_vars => SerialInv'
  BY NextCalls, SerialOne, SerialNotRefused, SerialMisled DEF SerialInv
<1>3. QED
  BY <1>1, <1>2, PTL DEF Spec

\* Calls of which no two of a kind overlap are never refused with "message pool
\* msg should not exists" (protocol.go:76-79): a call that returned, with an
\* answer or at its timeout, has left nothing behind in the pool.
THEOREM SerialNeverRefused == ASSUME Serial PROVE Spec => []NeverRefused
<1>1. SerialInv => NeverRefused
  BY DEF SerialInv
<1>2. QED
  BY <1>1, SerialInvariance, PTL

\* Calls of which no two of a kind overlap receive the answer to another call,
\* or end in the panic of a second send or close (protocol.go:115-116), only
\* after a call of the kind has timed out.
THEOREM SerialTrouble == ASSUME Serial PROVE Spec => []TroubleNeedsTimeout
<1>1. SerialInv => TroubleNeedsTimeout
  <2> SUFFICES ASSUME SerialInv PROVE TroubleNeedsTimeout
    OBVIOUS
  <2>1. ASSUME NEW c \in Calls, Stale(c)
        PROVE  \E d \in Calls \ {c} :
                 Kind[d] = Kind[c] /\ Returned(d) /\ TimedOut(d)
    BY <2>1, GotFound, CallAssumption DEF SerialInv, MisledNeedsTimeout, Stale
  <2>2. ASSUME panicked PROVE \E d \in Calls : Returned(d) /\ TimedOut(d)
    <3>1. PICK p, q \in Calls :
            p # q /\ target[p] # None /\ target[p] = target[q]
      BY <2>2 DEF SerialInv, CallsInv, Pool!IInv, Pool!PanicNeedsSurplus
    <3>2. QED
      BY <3>1 DEF SerialInv, MisledNeedsTimeout
  <2>3. QED
    BY <2>1, <2>2 DEF TroubleNeedsTimeout
<1>2. QED
  BY <1>1, SerialInvariance, PTL

----------------------------------------------------------------------------
(* Patient calls                                                           *)

\* The request of a call is over for good, and its answer goes one way.
LEMMA StaysOver ==
  ASSUME CallsInv, [Next]_vars, NEW c \in Calls, req[c] = "over"
  PROVE  /\ call[c] # "new" /\ call'[c] # "new" /\ req'[c] = "over"
         /\ rsp[c] # "sent" => rsp'[c] = rsp[c]
         /\ ppc[c] = "done" => ppc'[c] = "done"
         /\ ppc[c] \in {"unlock", "done"} => ppc'[c] \in {"unlock", "done"}
<1>1. call[c] # "new"
  BY DEF CallsInv, StreamsOK
<1>2. ASSUME NEW d \in Calls, StreamStep(d)
      PROVE  /\ call'[c] # "new" /\ req'[c] = "over"
             /\ rsp[c] # "sent" => rsp'[c] = rsp[c]
             /\ ppc' = ppc
  BY <1>1, <1>2
  DEF CallsInv, StreamsOK, poolVars, MayStart,
      StreamStep, SendStep, Send, SendFails, FullClose, FullCloseFails,
      ServerStep, ServerRead, ServerReadFails, ServerReject, ServerHandle,
      ServerReply, ServerReplyFails, ResponseRead, ResponseReadFails
<1>3. ASSUME NEW d \in Calls, WaitStep(d) \/ CtxDone(d)
      PROVE  UNCHANGED <<call, req, rsp, ppc>>
  BY <1>3, WaitEffect, CtxEffect
  DEF WaitStep, CtxDone, CallsInv, Pool!IInv, streamVars
<1>4. ASSUME NEW d \in Calls, PushStep(d)
      PROVE  /\ UNCHANGED <<call, req, rsp>>
             /\ ppc[c] = "done" => ppc'[c] = "done"
             /\ ppc[c] = "unlock" => ppc'[c] \in {"unlock", "done"}
  BY <1>4, PushEffect DEF PushStep, CallsInv, Pool!IInv, streamVars
<1>5. QED
  BY <1>1, <1>2, <1>3, <1>4, Steps DEF vars, streamVars, poolVars

\* Once no answer to a call can arrive any more, none ever can.
LEMMA PendingIsOver ==
  ASSUME CallsInv, [Next]_vars, NEW c \in Calls,
         call[c] # "new", ~AnswerPending(c)
  PROVE  call'[c] # "new" /\ ~AnswerPending(c)'
<1>1. req[c] = "over" /\ rsp[c] # "sent"
  BY DEF CallsInv, StreamsOK, AnswerPending
<1>2. QED
  BY <1>1, StaysOver DEF AnswerPending

\* A panic is that of a Push at its send or its close, and is for good.
LEMMA PanicStep ==
  ASSUME CallsInv, [Next]_vars
  PROVE  /\ panicked => panicked'
         /\ panicked' /\ ~panicked =>
              /\ UNCHANGED <<call, req>>
              /\ \E c \in Calls :
                   rsp[c] = "read" /\ ppc[c] \in {"send", "close"}
<1>1. ASSUME NEW d \in Calls, StreamStep(d) \/ WaitStep(d) \/ CtxDone(d)
      PROVE  panicked' = panicked
  BY <1>1, WaitEffect, CtxEffect
  DEF CallsInv, Pool!IInv, poolVars, WaitStep, CtxDone,
      StreamStep, SendStep, Send, SendFails, FullClose, FullCloseFails,
      ServerStep, ServerRead, ServerReadFails, ServerReject, ServerHandle,
      ServerReply, ServerReplyFails, ResponseRead, ResponseReadFails
<1>2. ASSUME NEW d \in Calls, PushStep(d)
      PROVE  /\ ~panicked /\ UNCHANGED <<call, req>> /\ rsp[d] = "read"
             /\ panicked' => ppc[d] \in {"send", "close"}
  BY <1>2, PushEffect DEF PushStep, CallsInv, Pool!IInv, streamVars
<1>3. QED
  BY <1>1, <1>2, Steps DEF vars, poolVars

\* A context that ends has no answer under way, now or later.
LEMMA PatientCtx ==
  ASSUME Patient, CallsInv, CtxPatient, [Next]_vars,
         NEW c \in Calls, c \in ctxDone'
  PROVE  call'[c] # "new" /\ ~AnswerPending(c)'
<1>1. CASE c \in ctxDone
  BY <1>1, PendingIsOver DEF CtxPatient
<1>2. CASE c \notin ctxDone
  <2>1. ASSUME NEW d \in Calls, StreamStep(d) \/ WaitStep(d) \/ PushStep(d)
        PROVE  ctxDone' = ctxDone
    BY <2>1, WaitEffect, PushEffect
    DEF CallsInv, Pool!IInv, poolVars, WaitStep, PushStep,
        StreamStep, SendStep, Send, SendFails, FullClose, FullCloseFails,
        ServerStep, ServerRead, ServerReadFails, ServerReject, ServerHandle,
        ServerReply, ServerReplyFails, ResponseRead, ResponseReadFails
  <2>2. CtxDone(c)
    BY <1>2, <2>1, Steps, CtxEffect DEF CtxDone, vars, poolVars
  <2>3. QED
    BY <2>2, PendingIsOver DEF CtxDone
<1>3. QED
  BY <1>1, <1>2

\* A timeout follows the end of the context.
LEMMA TimeoutCtx ==
  ASSUME CallsInv, CtxPatient, [Next]_vars, NEW c \in Calls, TimedOut(c)'
  PROVE  c \in ctxDone'
<1>1. ASSUME NEW d \in Calls, StreamStep(d) \/ PushStep(d)
      PROVE  UNCHANGED <<werr, ctxDone>>
  BY <1>1, PushEffect
  DEF CallsInv, Pool!IInv, poolVars, PushStep,
      StreamStep, SendStep, Send, SendFails, FullClose, FullCloseFails,
      ServerStep, ServerRead, ServerReadFails, ServerReject, ServerHandle,
      ServerReply, ServerReplyFails, ResponseRead, ResponseReadFails
<1>2. ASSUME NEW d \in Calls, WaitStep(d)
      PROVE  c \in ctxDone'
  BY <1>2, WaitEffect DEF WaitStep, CallsInv, Pool!IInv, CtxPatient, TimedOut
<1>3. ASSUME NEW d \in Calls, CtxDone(d)
      PROVE  werr' = werr /\ ctxDone \subseteq ctxDone'
  BY <1>3, CtxEffect DEF CtxDone
<1>4. QED
  BY <1>1, <1>2, <1>3, Steps DEF CtxPatient, TimedOut, vars, poolVars

\* A call of a patient caller that has timed out will not be answered, whether
\* or not calls overlap.
THEOREM PatientContexts == ASSUME Patient PROVE Spec => []CtxPatient
<1>1. Init => CtxPatient
  BY DEF Init, Pool!Init, CtxPatient, TimedOut
<1>2. CallsInv /\ CtxPatient /\ [Next]_vars => CtxPatient'
  <2> SUFFICES ASSUME CallsInv, CtxPatient, [Next]_vars PROVE CtxPatient'
    OBVIOUS
  <2>1. ASSUME NEW c \in Calls
        PROVE  /\ c \in ctxDone' => call'[c] # "new" /\ ~AnswerPending(c)'
               /\ TimedOut(c)' => c \in ctxDone'
    BY PatientCtx, TimeoutCtx
  <2>2. QED
    BY <2>1 DEF CtxPatient
<1>3. QED
  BY <1>1, <1>2, CallsInvariance, PTL DEF Spec

----------------------------------------------------------------------------
(* Serial and patient calls                                                *)

\* A call that has returned has its own answer, or none is under way.
LEMMA ReturnedSettled ==
  ASSUME SerialInv, CtxPatient, OwnAnswer, NEW c \in Calls, Returned(c)
  PROVE  \/ werr[c] = "timeout" /\ ~AnswerPending(c)
         \/ /\ werr[c] = "nil" /\ got[c] = c
            /\ ppc[c] # "idle" /\ c \in handled /\ req[c] = "over"
<1>1. CASE werr[c] = "timeout"
  BY <1>1 DEF CtxPatient, TimedOut
<1>2. CASE werr[c] = "nil"
  <2>1. got[c] # None
    BY <1>2 DEF SerialInv, CallsInv, Pool!IInv, Pool!NoNilMessage, Returned
  <2>2. got[c] = c /\ ppc[c] # "idle"
    BY <2>1, GotFound, CallAssumption DEF SerialInv, OwnAnswer
  <2>3. c \in handled /\ req[c] = "over"
    BY <2>2 DEF SerialInv, CallsInv, StreamsOK
  <2>4. QED
    BY <1>2, <2>2, <2>3
<1>3. werr[c] \in {"nil", "timeout"}
  BY DEF SerialInv, CallsInv, Pool!IInv, Pool!TypeOK, NeverRefused
<1>4. QED
  BY <1>1, <1>2, <1>3

\* An answer about to be pushed finds its own call, which still waits.
LEMMA FindsOwn ==
  ASSUME SerialInv, CtxPatient, OwnAnswer, NEW c \in Calls,
         call[c] # "new", ppc[c] = "idle", rsp[c] = "read"
  PROVE  m[Kind[c]] \in {None, c}
<1>1. ~Returned(c)
  BY ReturnedSettled DEF AnswerPending
<1>2. ASSUME m[Kind[c]] # None PROVE m[Kind[c]] = c
  <2>1. Kind[c] \in Kinds
    BY CallAssumption
  <2>2. QED
    BY <1>1, <1>2, <2>1, RegisteredCall DEF SerialInv, OneAtATime, Returned
<1>3. QED
  BY <1>2

\* Patient serial calls keep getting their own answers.
LEMMA PatientOwn ==
  ASSUME SerialInv, CtxPatient, OwnAnswer, [Next]_vars
  PROVE  OwnAnswer'
<1>1. CallsInv
  BY DEF SerialInv
<1>2. ASSUME NEW c \in Calls PROVE target'[c] \in {None, c}
  BY <1>1, TargetStep, FindsOwn DEF OwnAnswer
<1>3. QED
  BY <1>2 DEF OwnAnswer

\* Every answer of a serial and patient call meets its own call or none.
THEOREM PatientInvariance == ASSUME Serial, Patient PROVE Spec => []PatientInv
<1>1. Init => OwnAnswer
  BY DEF Init, Pool!Init, OwnAnswer
<1>2. SerialInv /\ CtxPatient /\ OwnAnswer /\ [Next]_vars => OwnAnswer'
  BY PatientOwn
<1>3. Spec => []SerialInv
  BY SerialInvariance
<1>4. Spec => []CtxPatient
  BY PatientContexts
<1>5. QED
  BY <1>1, <1>2, <1>3, <1>4, PTL DEF Spec, PatientInv

\* The client's process does not end in a second send on a channel or a second
\* close of it (protocol.go:115-116) when calls of a kind do not overlap and no
\* context ends while the answer is on its way.
THEOREM PatientNoPanic == ASSUME Serial, Patient PROVE Spec => []NoPanic
<1>1. PatientInv => NoPanic
  BY DEF PatientInv, SerialInv, CallsInv, Pool!IInv, Pool!PanicNeedsSurplus,
         OwnAnswer, NoPanic
<1>2. QED
  BY <1>1, PatientInvariance, PTL

----------------------------------------------------------------------------
(* Serial and patient calls implement Rpc                                  *)

\* The status of a call, without the case distinction.
LEMMA StatusIs ==
  CallsInv => \A c \in Calls :
    /\ call[c] = "new" => Status(c) = "new"
    /\ call[c] # "new" /\ ~Returned(c) => Status(c) = "open"
    /\ Returned(c) /\ werr[c] = "nil" /\ got[c] = c => Status(c) = "ok"
    /\ Returned(c) /\ werr[c] # "nil" => Status(c) = "failed"
BY DEF CallsInv, StreamsOK, Status, Returned

\* The same after a step.
LEMMA StatusNext ==
  CallsInv' => \A c \in Calls :
    /\ call'[c] = "new" => Status(c)' = "new"
    /\ call'[c] # "new" /\ ~Returned(c)' => Status(c)' = "open"
    /\ Returned(c)' /\ werr'[c] = "nil" /\ got'[c] = c => Status(c)' = "ok"
    /\ Returned(c)' /\ werr'[c] # "nil" => Status(c)' = "failed"
BY DEF CallsInv, StreamsOK, Status, Returned

\* A call whose part of the state does not change keeps its status.
LEMMA StatusKept ==
  ASSUME NEW c \in Calls, call'[c] = call[c], wpc'[c] = wpc[c],
         werr'[c] = werr[c], got'[c] = got[c]
  PROVE  Status(c)' = Status(c)
BY DEF Status, Returned

\* A call that returns no error has its own answer, and the server has worked.
Settled ==
  \A c \in Calls :
    Returned(c) /\ werr[c] = "nil" => got[c] = c /\ c \in handled

\* A patient call that has returned without an error has settled.
LEMMA SettledNow == PatientInv => Settled
BY ReturnedSettled DEF PatientInv, Settled

\* Also after a step.
LEMMA SettledNext == PatientInv' => Settled'
BY SettledNow, PTL

\* The start of a call opens it.
LEMMA SendOpens ==
  ASSUME Serial, CallsInv, CallsInv', NEW c \in Calls, Send(c) \/ SendFails(c)
  PROVE  R!Open(c)
<1>1. MayStart(c) /\ call' = [call EXCEPT ![c] = call'[c]] /\ call'[c] # "new"
  BY DEF Send, SendFails, CallsInv, StreamsOK
<1>2. UNCHANGED <<handled, wpc, werr, got>>
  BY DEF Send, SendFails, poolVars
<1>3. ~Returned(c)'
  BY <1>1, <1>2 DEF MayStart, CallsInv, StreamsOK, Returned
<1>4. Status(c) = "new" /\ Status(c)' = "open"
  BY <1>1, <1>3, StatusIs, StatusNext DEF MayStart
<1>5. \A d \in Calls \ {c} : Status(d)' = Status(d)
  BY <1>1, <1>2, StatusKept DEF CallsInv, StreamsOK
<1>6. \A d \in Calls : Kind[d] = Kind[c] => Status(d) # "open"
  <2>1. ASSUME NEW d \in Calls, Kind[d] = Kind[c] PROVE Status(d) # "open"
    <3>1. CASE call[d] = "new"
      BY <3>1, StatusIs
    <3>2. CASE Returned(d)
      BY <3>2 DEF CallsInv, StreamsOK, Status, Returned
    <3>3. QED
      BY <1>1, <2>1, <3>1, <3>2 DEF MayStart
  <2>2. QED
    BY <2>1
<1>7. QED
  BY <1>2, <1>4, <1>5, <1>6 DEF R!Open

\* The work of the server's node is done once, with the caller still in its
\* call.
LEMMA HandleExecutes ==
  ASSUME PatientInv, NEW c \in Calls, ServerHandle(c)
  PROVE  R!Execute(c)
<1>1. SerialInv /\ CtxPatient /\ OwnAnswer /\ CallsInv
  BY DEF PatientInv, SerialInv
<1>2. req[c] = "read" /\ handled' = handled \cup {c}
  BY DEF ServerHandle
<1>3. UNCHANGED <<call, wpc, werr, got>>
  BY DEF ServerHandle, poolVars
<1>4. call[c] # "new" /\ c \notin handled
  BY <1>1, <1>2 DEF CallsInv, StreamsOK
<1>5. ~Returned(c)
  BY <1>1, <1>2, ReturnedSettled DEF AnswerPending
<1>6. Status(c) = "open"
  BY <1>1, <1>4, <1>5, StatusIs
<1>7. \A d \in Calls : Status(d)' = Status(d)
  BY <1>3, StatusKept
<1>8. QED
  BY <1>2, <1>4, <1>6, <1>7 DEF R!Execute

\* A step of Wait that returns ends the call, with its own answer or an error.
LEMMA WaitEnds ==
  ASSUME PatientInv, PatientInv', NEW c \in Calls, WaitStep(c)
  PROVE  R!Succeed(c) \/ R!Fail(c) \/ UNCHANGED R!vars
<1>1. CallsInv /\ CallsInv' /\ Pool!TypeOK
  BY DEF PatientInv, SerialInv, CallsInv, Pool!IInv
<1>2. UNCHANGED <<call, handled>> /\ call[c] = "waiting"
  BY DEF WaitStep, streamVars
<1>3. ~Returned(c)
  BY <1>1, WaitEffect DEF WaitStep, Returned
<1>4. \A d \in Calls \ {c} : Status(d)' = Status(d)
  BY <1>1, <1>2, WaitEffect, StatusKept DEF WaitStep
<1>5. Status(c) = "open"
  BY <1>1, <1>2, <1>3, StatusIs
<1>6. CASE ~Returned(c)'
  <2>1. Status(c)' = "open"
    BY <1>1, <1>2, <1>6, StatusNext
  <2>2. QED
    BY <1>2, <1>4, <1>5, <2>1 DEF R!vars
<1>7. CASE Returned(c)' /\ werr'[c] = "nil"
  <2>1. Status(c)' = "ok" /\ c \in handled
    BY <1>1, <1>2, <1>7, SettledNext, StatusNext DEF Settled
  <2>2. QED
    BY <1>2, <1>4, <1>5, <2>1 DEF R!Succeed
<1>8. CASE Returned(c)' /\ werr'[c] # "nil"
  <2>1. Status(c)' = "failed"
    BY <1>1, <1>8, StatusNext
  <2>2. QED
    BY <1>2, <1>4, <1>5, <2>1 DEF R!Fail
<1>9. QED
  BY <1>6, <1>7, <1>8

\* Nothing else shows.
LEMMA OthersStutter ==
  ASSUME CallsInv, CallsInv', NEW c \in Calls,
         \/ FullClose(c) \/ FullCloseFails(c)
         \/ ServerStep(c) /\ ~ServerHandle(c)
         \/ ResponseStep(c) \/ CtxDone(c)
  PROVE  UNCHANGED R!vars
<1>1. UNCHANGED <<handled, wpc, werr, got>>
  BY PushEffect, CtxEffect
  DEF CallsInv, Pool!IInv, poolVars, streamVars, FullClose, FullCloseFails,
      ServerStep, ServerRead, ServerReadFails, ServerReject, ServerReply,
      ServerReplyFails, ResponseStep, ResponseRead, ResponseReadFails,
      PushStep, CtxDone
<1>2. ASSUME NEW d \in Calls
      PROVE  call'[d] = call[d] \/ (call[d] # "new" /\ call'[d] # "new")
  BY DEF CallsInv, StreamsOK, streamVars, FullClose, FullCloseFails,
      ServerStep, ServerRead, ServerReadFails, ServerReject, ServerReply,
      ServerReplyFails, ResponseStep, ResponseRead, ResponseReadFails,
      PushStep, CtxDone
<1>3. ASSUME NEW d \in Calls PROVE Status(d)' = Status(d)
  BY <1>1, <1>2 DEF Status, Returned
<1>4. QED
  BY <1>1, <1>3 DEF R!vars

\* Serial and patient calls are remote calls as their callers take them to be:
\* the server's node works on a request at most once and not after the caller
\* has given up, and a call succeeds only with the answer to its own request
\* (storage.go:173-218, pre.go:121-149, ot.go:113-141).
THEOREM PatientImplementsRpc ==
  ASSUME Serial, Patient PROVE Spec => ImplementsRpc
<1>1. Init => R!Init
  BY InitCalls, StatusIs DEF Init, R!Init
<1>2. PatientInv /\ PatientInv' /\ [Next]_vars => [R!Next]_(R!vars)
  <2> SUFFICES ASSUME PatientInv, PatientInv', [Next]_vars
               PROVE  R!Next \/ UNCHANGED R!vars
    OBVIOUS
  <2>1. CallsInv /\ CallsInv'
    BY DEF PatientInv, SerialInv
  <2>2. ASSUME NEW c \in Calls, SendStep(c)
        PROVE  R!Next \/ UNCHANGED R!vars
    BY <2>1, <2>2, SendOpens, OthersStutter DEF SendStep, R!Next
  <2>3. ASSUME NEW c \in Calls, ServerStep(c)
        PROVE  R!Next \/ UNCHANGED R!vars
    BY <2>1, <2>3, HandleExecutes, OthersStutter DEF R!Next
  <2>4. ASSUME NEW c \in Calls, WaitStep(c)
        PROVE  R!Next \/ UNCHANGED R!vars
    BY <2>4, WaitEnds DEF R!Next
  <2>5. ASSUME NEW c \in Calls, CtxDone(c) \/ ResponseStep(c)
        PROVE  UNCHANGED R!vars
    BY <2>1, <2>5, OthersStutter
  <2>6. CASE UNCHANGED vars
    BY <2>6 DEF vars, streamVars, poolVars, R!vars, Status, Returned
  <2>7. QED
    BY <2>2, <2>3, <2>4, <2>5, <2>6 DEF Next, Stopped
<1>3. QED
  BY <1>1, <1>2, PatientInvariance, PTL DEF Spec, ImplementsRpc, R!Spec
==============================================================================
