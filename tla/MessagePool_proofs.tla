------------------------- MODULE MessagePool_proofs --------------------------
(***************************************************************************)
(* Proofs about MessagePool, for any sets of protocols, waiters and        *)
(* pushers.  IInv is inductive: one lemma per action, with one step per    *)
(* conjunct the action can disturb.  The safety properties of MessagePool  *)
(* follow from it.                                                         *)
(***************************************************************************)
EXTENDS MessagePool, TLAPS

----------------------------------------------------------------------------
(* Every step preserves IInv                                               *)

\* The context of a call ends: nothing IInv speaks of changes.
LEMMA CtxDoneStep ==
  ASSUME IInv, NEW w \in Waiters, ~panicked, CtxDone(w)
  PROVE  IInv'
<1> USE PoolAssumption DEF IInv, TypeOK, CtxDone, chanVars, waitVars, pushVars
<1>1. TypeOK'
  OBVIOUS
<1>2. QED
  BY <1>1
  DEF SlotExact, Registered, ChannelHeld, PushProgress, MessagesExact, Sent,
      ClosedExact, Closer, WaitProgress, NoNilMessage, PanicNeedsSurplus

\* A call of Wait reaches for the lock.
LEMMA WaitLockStep ==
  ASSUME IInv, NEW w \in Waiters, ~panicked, WaitLock(w)
  PROVE  IInv'
<1> USE PoolAssumption
      DEF IInv, TypeOK, WaitLock, chanVars, waitVars, pushVars,
          AnnounceWriter
<1>1. TypeOK'
  OBVIOUS
<1>2. SlotExact'
  BY DEF SlotExact, Registered
<1>3. PushProgress'
  BY DEF PushProgress
<1>4. WaitProgress'
  BY DEF WaitProgress
<1>5. NoNilMessage'
  BY DEF NoNilMessage
<1>6. QED
  BY <1>1, <1>2, <1>3, <1>4, <1>5
  DEF ChannelHeld, MessagesExact, Sent, ClosedExact, Closer,
      PanicNeedsSurplus

\* A refused call leaves the entry of the call it found alone.
LEMMA WaitRefusedStep ==
  ASSUME IInv, NEW w \in Waiters, ~panicked, WaitRefused(w)
  PROVE  IInv'
<1> USE PoolAssumption
      DEF IInv, TypeOK, WaitRefused, chanVars, waitVars, pushVars, HoldsLock,
          Unlock
<1>1. TypeOK'
  OBVIOUS
<1>2. SlotExact'
  BY DEF SlotExact, Registered
<1>3. PushProgress'
  BY DEF PushProgress
<1>4. WaitProgress'
  BY DEF WaitProgress
<1>5. NoNilMessage'
  BY DEF NoNilMessage
<1>6. QED
  BY <1>1, <1>2, <1>3, <1>4, <1>5
  DEF ChannelHeld, MessagesExact, Sent, ClosedExact, Closer,
      PanicNeedsSurplus

\* A registering call finds its slot empty, so the slot is its alone afterwards
\* and no Push is between lookup and return on that protocol.
LEMMA WaitRegisterStep ==
  ASSUME IInv, NEW w \in Waiters, ~panicked, WaitRegister(w)
  PROVE  IInv'
<1> USE PoolAssumption
      DEF IInv, TypeOK, WaitRegister, chanVars, waitVars, pushVars,
          HoldsLock, Unlock
<1>1. TypeOK'
  OBVIOUS
<1>2. SlotExact'
  BY DEF SlotExact, Registered
<1>3. ChannelHeld'
  BY DEF ChannelHeld
<1>4. PushProgress'
  BY DEF PushProgress
<1>5. WaitProgress'
  BY DEF WaitProgress
<1>6. NoNilMessage'
  BY DEF NoNilMessage
<1>7. QED
  BY <1>1, <1>2, <1>3, <1>4, <1>5, <1>6
  DEF MessagesExact, Sent, ClosedExact, Closer, PanicNeedsSurplus

\* The select takes ctx.Done(): an error, and no message, is returned.
LEMMA SelectTimeoutStep ==
  ASSUME IInv, NEW w \in Waiters, ~panicked, SelectTimeout(w)
  PROVE  IInv'
<1> USE PoolAssumption
      DEF IInv, TypeOK, SelectTimeout, chanVars, waitVars, pushVars
<1>1. TypeOK'
  OBVIOUS
<1>2. SlotExact'
  BY DEF SlotExact, Registered
<1>3. PushProgress'
  BY DEF PushProgress
<1>4. WaitProgress'
  BY DEF WaitProgress
<1>5. NoNilMessage'
  BY DEF NoNilMessage
<1>6. QED
  BY <1>1, <1>2, <1>3, <1>4, <1>5
  DEF ChannelHeld, MessagesExact, Sent, ClosedExact, Closer,
      PanicNeedsSurplus

\* The select takes the channel.  A closed channel still holds its message, for
\* the Push that closed it sent first, so what is received is not nil.
LEMMA SelectReceiveStep ==
  ASSUME IInv, NEW w \in Waiters, ~panicked, SelectReceive(w)
  PROVE  IInv'
<1> USE PoolAssumption
      DEF IInv, TypeOK, SelectReceive, chanVars, waitVars, pushVars
<1>1. TypeOK'
  OBVIOUS
<1>2. SlotExact'
  BY DEF SlotExact, Registered
<1>3. PushProgress'
  BY DEF PushProgress
<1>4. MessagesExact'
  BY DEF MessagesExact, Sent, WaitProgress
<1>5. WaitProgress'
  BY DEF WaitProgress
<1>6. NoNilMessage'
  BY DEF NoNilMessage, ClosedExact, MessagesExact, WaitProgress, Closer, Sent
<1>7. QED
  BY <1>1, <1>2, <1>3, <1>4, <1>5, <1>6
  DEF ChannelHeld, ClosedExact, Closer, PanicNeedsSurplus

\* The deferred function reaches for the lock.
LEMMA DeferLockStep ==
  ASSUME IInv, NEW w \in Waiters, ~panicked, DeferLock(w)
  PROVE  IInv'
<1> USE PoolAssumption
      DEF IInv, TypeOK, DeferLock, chanVars, waitVars, pushVars,
          AnnounceWriter
<1>1. TypeOK'
  OBVIOUS
<1>2. SlotExact'
  BY DEF SlotExact, Registered
<1>3. PushProgress'
  BY DEF PushProgress
<1>4. WaitProgress'
  BY DEF WaitProgress
<1>5. NoNilMessage'
  BY DEF NoNilMessage
<1>6. QED
  BY <1>1, <1>2, <1>3, <1>4, <1>5
  DEF ChannelHeld, MessagesExact, Sent, ClosedExact, Closer,
      PanicNeedsSurplus

\* The deferred delete empties the slot of this very call (SlotExact), and no
\* Push is in progress on its channel, for it would hold the read lock.
LEMMA DeferDeleteStep ==
  ASSUME IInv, NEW w \in Waiters, ~panicked, DeferDelete(w)
  PROVE  IInv'
<1> USE PoolAssumption
      DEF IInv, TypeOK, DeferDelete, chanVars, waitVars, pushVars, HoldsLock,
          Unlock
<1>1. TypeOK'
  OBVIOUS
<1>2. SlotExact'
  BY DEF SlotExact, Registered
<1>3. ChannelHeld'
  BY DEF ChannelHeld
<1>4. PushProgress'
  BY DEF PushProgress
<1>5. WaitProgress'
  BY DEF WaitProgress
<1>6. NoNilMessage'
  BY DEF NoNilMessage
<1>7. QED
  BY <1>1, <1>2, <1>3, <1>4, <1>5, <1>6
  DEF MessagesExact, Sent, ClosedExact, Closer, PanicNeedsSurplus

\* The lookup finds a registered call of the right protocol or nothing.
LEMMA PushLookupStep ==
  ASSUME IInv, NEW p \in Pushers, ~panicked, PushLookup(p)
  PROVE  IInv'
<1> USE PoolAssumption
      DEF IInv, TypeOK, PushLookup, chanVars, waitVars, pushVars
<1>1. TypeOK'
  OBVIOUS
<1>2. ChannelHeld'
  BY DEF ChannelHeld
<1>3. PushProgress'
  <2> DEFINE ch == m[PushTo[p]]
  <2>1. CASE ch = None
    BY <2>1 DEF PushProgress
  <2>2. CASE ch # None
    <3>1. PushTo[p] \in Protocols /\ ch \in Waiters
      BY <2>2
    <3>2. WaitOn[ch] = PushTo[p] /\ Registered(ch)
      BY <3>1 DEF SlotExact
    <3>3. wpc[ch] \notin {"idle", "locking"} /\ werr[ch] # "exists"
      BY <3>1, <3>2 DEF Registered, WaitProgress
    <3>4. QED
      BY <2>2, <3>1, <3>2, <3>3 DEF PushProgress
  <2>3. QED
    BY <2>1, <2>2
<1>4. MessagesExact'
  BY DEF MessagesExact, Sent
<1>5. ClosedExact'
  BY DEF ClosedExact, Closer
<1>6. PanicNeedsSurplus'
  BY DEF PanicNeedsSurplus
<1>7. QED
  BY <1>1, <1>2, <1>3, <1>4, <1>5, <1>6
  DEF SlotExact, Registered, WaitProgress, NoNilMessage

\* The send moves the message into an empty buffer.
LEMMA PushSendStep ==
  ASSUME IInv, NEW p \in Pushers, ~panicked, PushSend(p)
  PROVE  IInv'
<1> USE PoolAssumption DEF IInv, TypeOK, PushSend, chanVars, waitVars, pushVars
<1>1. TypeOK'
  OBVIOUS
<1>2. ChannelHeld'
  BY DEF ChannelHeld
<1>3. PushProgress'
  BY DEF PushProgress
<1>4. MessagesExact'
  BY DEF MessagesExact, Sent, ChannelHeld
<1>5. ClosedExact'
  BY DEF ClosedExact, Closer
<1>6. QED
  BY <1>1, <1>2, <1>3, <1>4, <1>5
  DEF SlotExact, Registered, WaitProgress, NoNilMessage, PanicNeedsSurplus

\* The close: no Push has closed the channel before, else it were closed.
LEMMA PushCloseStep ==
  ASSUME IInv, NEW p \in Pushers, ~panicked, PushClose(p)
  PROVE  IInv'
<1> USE PoolAssumption
      DEF IInv, TypeOK, PushClose, chanVars, waitVars, pushVars
<1>1. TypeOK'
  BY DEF ChannelHeld
<1>2. ChannelHeld'
  BY DEF ChannelHeld, ClosedExact, PushProgress
<1>3. PushProgress'
  BY DEF PushProgress, ChannelHeld
<1>4. MessagesExact'
  BY DEF MessagesExact, Sent
<1>5. ClosedExact'
  BY DEF ClosedExact, Closer, ChannelHeld
<1>6. QED
  BY <1>1, <1>2, <1>3, <1>4, <1>5
  DEF SlotExact, Registered, WaitProgress, NoNilMessage, PanicNeedsSurplus

\* A panic finds the channel closed, and the Push that closed it (ClosedExact)
\* is another one.
LEMMA PushPanicStep ==
  ASSUME IInv, NEW p \in Pushers, ~panicked, PushPanic(p)
  PROVE  IInv'
<1> USE PoolAssumption
      DEF IInv, TypeOK, PushPanic, chanVars, waitVars, pushVars
<1>1. TypeOK'
  OBVIOUS
<1>2. PanicNeedsSurplus'
  BY DEF PanicNeedsSurplus, ClosedExact, Closer, ChannelHeld
<1>3. QED
  BY <1>1, <1>2
  DEF SlotExact, Registered, ChannelHeld, PushProgress, MessagesExact, Sent,
      ClosedExact, Closer, WaitProgress, NoNilMessage

\* The read lock is given up by a Push that is past its close.
LEMMA PushRUnlockStep ==
  ASSUME IInv, NEW p \in Pushers, ~panicked, PushRUnlock(p)
  PROVE  IInv'
<1> USE PoolAssumption
      DEF IInv, TypeOK, PushRUnlock, chanVars, waitVars, pushVars
<1>1. TypeOK'
  OBVIOUS
<1>2. ChannelHeld'
  BY DEF ChannelHeld
<1>3. PushProgress'
  BY DEF PushProgress
<1>4. MessagesExact'
  BY DEF MessagesExact, Sent
<1>5. ClosedExact'
  BY DEF ClosedExact, Closer
<1>6. QED
  BY <1>1, <1>2, <1>3, <1>4, <1>5
  DEF SlotExact, Registered, WaitProgress, NoNilMessage, PanicNeedsSurplus
----------------------------------------------------------------------------
(* The induction                                                           *)

\* Before the first call the pool is empty and IInv holds.
LEMMA InitIInv == Init => IInv
<1> SUFFICES ASSUME Init PROVE IInv
  OBVIOUS
<1> USE PoolAssumption DEF Init
<1>1. TypeOK /\ WaitProgress /\ NoNilMessage /\ PanicNeedsSurplus
  BY DEF TypeOK, WaitProgress, NoNilMessage, PanicNeedsSurplus
<1>2. SlotExact /\ ChannelHeld /\ PushProgress
  BY DEF SlotExact, Registered, ChannelHeld, PushProgress
<1>3. MessagesExact /\ ClosedExact
  BY DEF MessagesExact, Sent, ClosedExact, Closer
<1>4. QED
  BY <1>1, <1>2, <1>3 DEF IInv

\* A step in which nothing changes keeps IInv.
LEMMA StutterIInv == IInv /\ UNCHANGED vars => IInv'
BY DEF IInv, vars, chanVars, waitVars, pushVars, TypeOK, SlotExact, Registered,
       ChannelHeld, PushProgress, MessagesExact, Sent, ClosedExact, Closer,
       WaitProgress, NoNilMessage, PanicNeedsSurplus

\* IInv is inductive.
LEMMA NextIInv == IInv /\ [Next]_vars => IInv'
<1> SUFFICES ASSUME IInv, [Next]_vars PROVE IInv'
  OBVIOUS
<1>1. ASSUME NEW w \in Waiters, ~panicked, CtxDone(w) \/ WaitStep(w)
      PROVE  IInv'
  BY <1>1, CtxDoneStep, WaitLockStep, WaitRefusedStep, WaitRegisterStep,
     SelectTimeoutStep, SelectReceiveStep, DeferLockStep, DeferDeleteStep
  DEF WaitStep
<1>2. ASSUME NEW p \in Pushers, ~panicked, PushStep(p)
      PROVE  IInv'
  BY <1>2, PushLookupStep, PushSendStep, PushCloseStep, PushPanicStep,
     PushRUnlockStep
  DEF PushStep
<1>3. CASE UNCHANGED vars
  BY <1>3, StutterIInv
<1>4. QED
  BY <1>1, <1>2, <1>3 DEF Next, Stopped

\* The inductive invariant holds in every state of the pool, whatever the
\* number of protocols and of concurrent calls (protocol.go:73-118).
THEOREM Invariance == Spec => []IInv
<1>1. QED
  BY InitIInv, NextIInv, PTL DEF Spec

----------------------------------------------------------------------------
(* What callers of the pool can rely on                                    *)

\* Type correctness of the pool (protocol.go:73-118).
THEOREM TypeCorrectness == Spec => []TypeOK
<1>1. IInv => TypeOK
  BY DEF IInv
<1>2. QED
  BY <1>1, Invariance, PTL

\* The deferred delete of protocol.go:92-96, which knows only the name of the
\* protocol, never unregisters another call.
THEOREM SlotExactness == Spec => []SlotExact
<1>1. IInv => SlotExact
  BY DEF IInv
<1>2. QED
  BY <1>1, Invariance, PTL

\* A successful Wait (protocol.go:98-104) never returns the nil message of a
\* channel closed at protocol.go:116.
THEOREM NeverNil == Spec => []NoNilMessage
<1>1. IInv => NoNilMessage
  BY DEF IInv
<1>2. QED
  BY <1>1, Invariance, PTL

\* The panics of protocol.go:115-116 need two pushes for one registration.
THEOREM PanicIsSurplus == Spec => []PanicNeedsSurplus
<1>1. IInv => PanicNeedsSurplus
  BY DEF IInv
<1>2. QED
  BY <1>1, Invariance, PTL

\* Once a Wait has returned, every Push that found its channel has closed it:
\* one still at its send or close would keep the slot occupied.
LEMMA ReturnedMeansClosed ==
  ASSUME IInv, NEW w \in Waiters, wpc[w] = "done",
         NEW p \in Pushers, target[p] = w
  PROVE  Closer(p)
<1>1. w # None
  BY PoolAssumption
<1>2. ppc[p] # "idle"
  BY <1>1 DEF IInv, PushProgress
<1>3. ppc[p] \notin {"send", "close"}
  <2> SUFFICES ASSUME ppc[p] \in {"send", "close"} PROVE FALSE
    OBVIOUS
  <2>1. m[PushTo[p]] = w
    BY DEF IInv, ChannelHeld
  <2>2. QED
    BY <2>1, PoolAssumption DEF IInv, SlotExact, Registered
<1>4. QED
  BY <1>1, <1>2, <1>3 DEF IInv, TypeOK, Closer

\* IInv settles where the message of a finished Push is.
LEMMA DeliveredFromIInv == IInv => DeliveredOrTimedOut
<1> SUFFICES ASSUME IInv,
                    NEW p \in Pushers, NEW w \in Waiters,
                    ppc[p] = "done", target[p] = w, wpc[w] = "done",
                    werr[w] # "timeout"
             PROVE  got[w] = p
  BY DEF DeliveredOrTimedOut
<1>1. Closer(p) /\ Sent(p)
  BY PoolAssumption DEF Closer, Sent
<1>2. werr[w] = "nil"
  BY PoolAssumption DEF IInv, TypeOK, PushProgress
<1>3. got[w] \in Pushers /\ target[got[w]] = w
  BY <1>2 DEF IInv, TypeOK, NoNilMessage, MessagesExact
<1>4. Closer(got[w])
  BY <1>3, ReturnedMeansClosed
<1>5. QED
  BY <1>1, <1>3, <1>4 DEF IInv, ClosedExact

\* A nil error from Push (protocol.go:117) means that the waiting call has the
\* message or has timed out: a message is not lost in between.
THEOREM Delivery == Spec => []DeliveredOrTimedOut
<1>1. QED
  BY DeliveredFromIInv, Invariance, PTL

\* No step sends on or closes the channel of a call that has returned.
LEMMA QuietAfterReturn ==
  ASSUME IInv, [Next]_vars, NEW w \in Waiters, wpc[w] = "done"
  PROVE  buf'[w] = buf[w] /\ (w \in closed' <=> w \in closed)
<1>1. ASSUME NEW p \in Pushers, ppc[p] \in {"send", "close"}
      PROVE  target[p] # w
  BY <1>1, ReturnedMeansClosed DEF Closer
<1>2. ASSUME NEW v \in Waiters, CtxDone(v) \/ WaitStep(v)
      PROVE  buf'[w] = buf[w] /\ closed' = closed
  <2>1. CASE SelectReceive(v)
    BY <2>1 DEF SelectReceive, IInv, TypeOK
  <2>2. CASE ~SelectReceive(v)
    BY <1>2, <2>2 DEF CtxDone, WaitStep, WaitLock, WaitRefused, WaitRegister,
       SelectTimeout, DeferLock, DeferDelete, chanVars
  <2>3. QED
    BY <2>1, <2>2
<1>3. ASSUME NEW p \in Pushers, PushStep(p)
      PROVE  buf'[w] = buf[w] /\ (w \in closed' <=> w \in closed)
  <2>1. CASE PushSend(p)
    BY <1>1, <2>1 DEF PushSend, IInv, TypeOK
  <2>2. CASE PushClose(p)
    BY <1>1, <2>2 DEF PushClose
  <2>3. CASE ~PushSend(p) /\ ~PushClose(p)
    BY <1>3, <2>3 DEF PushStep, PushLookup, PushPanic, PushRUnlock, chanVars
  <2>4. QED
    BY <2>1, <2>2, <2>3
<1>4. CASE UNCHANGED vars
  BY <1>4 DEF vars, chanVars
<1>5. QED
  BY <1>2, <1>3, <1>4 DEF Next, Stopped

\* A Push never touches the channel of a Wait that has returned
\* (protocol.go:92-96 and 115-116): the read lock keeps the two apart.
THEOREM Quiet == Spec => NothingAfterReturn
<1>1. IInv /\ [Next]_vars =>
        [\A w \in Waiters : wpc[w] = "done" =>
           buf'[w] = buf[w] /\ (w \in closed' <=> w \in closed)]_vars
  BY QuietAfterReturn
<1>2. QED
  BY <1>1, Invariance, PTL DEF Spec, NothingAfterReturn
=============================================================================
