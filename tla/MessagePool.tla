----------------------------- MODULE MessagePool -----------------------------
(***************************************************************************)
(* The MessagePool of node/protocol/protocol.go: the rendezvous between a  *)
(* client call, which blocks in Wait until the answer to its request       *)
(* arrives, and the stream handler of the answer, which hands it over with *)
(* Push.  Every call of Wait and every call of Push is a goroutine of its  *)
(* own.  They share the map mp.m from protocol IDs to channels, the        *)
(* RWMutex mp.l around it, and the channels, which have room for one       *)
(* message.                                                                *)
(*                                                                         *)
(* A step ends where another goroutine can interfere: at a lock, a channel *)
(* operation or a select.  The body of a critical section is one step.     *)
(***************************************************************************)
CONSTANTS
  Protocols,  \* the keys of mp.m: IDs of the response protocols
  Waiters,    \* the calls of Wait; a waiter also names the channel it makes
  Pushers,    \* the calls of Push; a pusher also names the message it carries
  WaitOn,     \* the protocol each waiter waits on
  PushTo,     \* the protocol each pusher pushes to
  None        \* no goroutine, no channel, no message

ASSUME PoolAssumption ==
  /\ WaitOn \in [Waiters -> Protocols]
  /\ PushTo \in [Pushers -> Protocols]
  /\ None \notin Waiters \cup Pushers

VARIABLES
  writer,    \* the waiter inside mp.l.Lock(), pending or holding it
  readers,   \* the pushers that hold mp.l.RLock()
  m,         \* mp.m: the channel registered for each protocol
  buf,       \* the message in each channel's buffer
  closed,    \* the channels that are closed
  wpc,       \* where each call of Wait is
  werr,      \* the error each call of Wait returns
  got,       \* the message each call of Wait received
  ctxDone,   \* the waiters whose context is done
  ppc,       \* where each call of Push is
  target,    \* the channel each call of Push found in mp.m
  panicked   \* a goroutine has panicked, which ends the whole process

waitVars == <<wpc, werr, got, ctxDone>>
pushVars == <<ppc, target, panicked>>
chanVars == <<buf, closed>>
vars == <<writer, readers, m, chanVars, waitVars, pushVars>>

Init ==
  /\ writer = None
  /\ readers = {}
  /\ m = [pr \in Protocols |-> None]
  /\ buf = [w \in Waiters |-> None]
  /\ closed = {}
  /\ wpc = [w \in Waiters |-> "idle"]
  /\ werr = [w \in Waiters |-> "nil"]
  /\ got = [w \in Waiters |-> None]
  /\ ctxDone = {}
  /\ ppc = [p \in Pushers |-> "idle"]
  /\ target = [p \in Pushers |-> None]
  /\ panicked = FALSE

(***************************************************************************)
(* sync.RWMutex.  Lock first excludes the other writers and announces      *)
(* itself, so that new readers queue behind it, then waits for the readers *)
(* inside to leave: `writer' is set from the announcement to Unlock.       *)
(***************************************************************************)
AnnounceWriter(w) == writer = None /\ writer' = w
HoldsLock(w) == writer = w /\ readers = {}
Unlock == writer' = None

----------------------------------------------------------------------------
(* Wait                                                                    *)

\* The caller's context ends: cancelled, or its deadline has passed.
CtxDone(w) ==
  /\ w \notin ctxDone
  /\ wpc[w] # "done"
  /\ ctxDone' = ctxDone \cup {w}
  /\ UNCHANGED <<writer, readers, m, chanVars, wpc, werr, got, pushVars>>

WaitLock(w) ==
  /\ wpc[w] = "idle"
  /\ AnnounceWriter(w)
  /\ wpc' = [wpc EXCEPT ![w] = "locking"]
  /\ UNCHANGED <<readers, m, chanVars, werr, got, ctxDone, pushVars>>

\* Faulty variant: the deferred delete runs for a refused call too.
WaitRefusedDeletes(w) ==
  /\ wpc[w] = "locking"
  /\ HoldsLock(w)
  /\ m[WaitOn[w]] # None
  /\ m' = [m EXCEPT ![WaitOn[w]] = None]
  /\ werr' = [werr EXCEPT ![w] = "exists"]
  /\ wpc' = [wpc EXCEPT ![w] = "done"]
  /\ Unlock
  /\ UNCHANGED <<readers, chanVars, got, ctxDone, pushVars>>

\* "message pool msg should not exists": the deferred delete is not reached.
WaitRefused(w) ==
  /\ wpc[w] = "locking"
  /\ HoldsLock(w)
  /\ m[WaitOn[w]] # None
  /\ werr' = [werr EXCEPT ![w] = "exists"]
  /\ wpc' = [wpc EXCEPT ![w] = "done"]
  /\ Unlock
  /\ UNCHANGED <<readers, m, chanVars, got, ctxDone, pushVars>>

\* Faulty variant: the entry is overwritten without looking.
WaitRegisterBlindly(w) ==
  /\ wpc[w] = "locking"
  /\ HoldsLock(w)
  /\ m' = [m EXCEPT ![WaitOn[w]] = w]
  /\ wpc' = [wpc EXCEPT ![w] = "select"]
  /\ Unlock
  /\ UNCHANGED <<readers, chanVars, werr, got, ctxDone, pushVars>>

WaitRegister(w) ==
  /\ wpc[w] = "locking"
  /\ HoldsLock(w)
  /\ m[WaitOn[w]] = None
  /\ m' = [m EXCEPT ![WaitOn[w]] = w]
  /\ wpc' = [wpc EXCEPT ![w] = "select"]
  /\ Unlock
  /\ UNCHANGED <<readers, chanVars, werr, got, ctxDone, pushVars>>

\* Faulty variant: a call that times out closes its channel.
SelectTimeoutCloses(w) ==
  /\ wpc[w] = "select"
  /\ w \in ctxDone
  /\ werr' = [werr EXCEPT ![w] = "timeout"]
  /\ closed' = closed \cup {w}
  /\ wpc' = [wpc EXCEPT ![w] = "returning"]
  /\ UNCHANGED <<writer, readers, m, buf, got, ctxDone, pushVars>>

\* The two branches of the select; when both are ready either is taken.
SelectTimeout(w) ==
  /\ wpc[w] = "select"
  /\ w \in ctxDone
  /\ werr' = [werr EXCEPT ![w] = "timeout"]
  /\ wpc' = [wpc EXCEPT ![w] = "returning"]
  /\ UNCHANGED <<writer, readers, m, chanVars, got, ctxDone, pushVars>>

\* Faulty variant: "return ch, nil" instead of "return msg, nil".
SelectReturnsChannel(w) ==
  /\ wpc[w] = "select"
  /\ buf[w] # None \/ w \in closed
  /\ got' = [got EXCEPT ![w] = w]
  /\ buf' = [buf EXCEPT ![w] = None]
  /\ wpc' = [wpc EXCEPT ![w] = "returning"]
  /\ UNCHANGED <<writer, readers, m, closed, werr, ctxDone, pushVars>>

\* A receive is ready when the buffer holds a message or, yielding nil, when
\* the channel is closed.
SelectReceive(w) ==
  /\ wpc[w] = "select"
  /\ buf[w] # None \/ w \in closed
  /\ got' = [got EXCEPT ![w] = buf[w]]
  /\ buf' = [buf EXCEPT ![w] = None]
  /\ wpc' = [wpc EXCEPT ![w] = "returning"]
  /\ UNCHANGED <<writer, readers, m, closed, werr, ctxDone, pushVars>>

\* The deferred function.
DeferLock(w) ==
  /\ wpc[w] = "returning"
  /\ AnnounceWriter(w)
  /\ wpc' = [wpc EXCEPT ![w] = "deleting"]
  /\ UNCHANGED <<readers, m, chanVars, werr, got, ctxDone, pushVars>>

\* Faulty variant: the entry stays in the map.
DeferDeleteForgotten(w) ==
  /\ wpc[w] = "deleting"
  /\ HoldsLock(w)
  /\ wpc' = [wpc EXCEPT ![w] = "done"]
  /\ Unlock
  /\ UNCHANGED <<readers, m, chanVars, werr, got, ctxDone, pushVars>>

DeferDelete(w) ==
  /\ wpc[w] = "deleting"
  /\ HoldsLock(w)
  /\ m' = [m EXCEPT ![WaitOn[w]] = None]
  /\ wpc' = [wpc EXCEPT ![w] = "done"]
  /\ Unlock
  /\ UNCHANGED <<readers, chanVars, werr, got, ctxDone, pushVars>>

----------------------------------------------------------------------------
(* Push                                                                    *)

\* Faulty variant: the read lock is released right after the lookup.
PushLookupUnlocked(p) ==
  /\ ppc[p] = "idle"
  /\ writer = None
  /\ target' = [target EXCEPT ![p] = m[PushTo[p]]]
  /\ ppc' = [ppc EXCEPT ![p] = IF m[PushTo[p]] = None THEN "unlock" ELSE "send"]
  /\ UNCHANGED <<writer, readers, m, chanVars, waitVars, panicked>>

\* RLock and the lookup; with no entry Push fails, "message pool no request".
PushLookup(p) ==
  /\ ppc[p] = "idle"
  /\ writer = None
  /\ readers' = readers \cup {p}
  /\ target' = [target EXCEPT ![p] = m[PushTo[p]]]
  /\ ppc' = [ppc EXCEPT ![p] = IF m[PushTo[p]] = None THEN "unlock" ELSE "send"]
  /\ UNCHANGED <<writer, m, chanVars, waitVars, panicked>>

\* Faulty variant: make(chan interface{}) without room for a message, so that
\* the send waits for the receiver.
PushSendUnbuffered(p) ==
  /\ ppc[p] = "send"
  /\ target[p] \notin closed
  /\ buf[target[p]] = None /\ wpc[target[p]] = "select"
  /\ buf' = [buf EXCEPT ![target[p]] = p]
  /\ ppc' = [ppc EXCEPT ![p] = "close"]
  /\ UNCHANGED <<writer, readers, m, closed, waitVars, target, panicked>>

\* ch <- msg: blocks while the buffer is full.
PushSend(p) ==
  /\ ppc[p] = "send"
  /\ target[p] \notin closed
  /\ buf[target[p]] = None
  /\ buf' = [buf EXCEPT ![target[p]] = p]
  /\ ppc' = [ppc EXCEPT ![p] = "close"]
  /\ UNCHANGED <<writer, readers, m, closed, waitVars, target, panicked>>

\* Faulty variant: the channel is closed without a send.
PushCloseEarly(p) ==
  /\ ppc[p] \in {"send", "close"}
  /\ target[p] \notin closed
  /\ closed' = closed \cup {target[p]}
  /\ ppc' = [ppc EXCEPT ![p] = "unlock"]
  /\ UNCHANGED <<writer, readers, m, buf, waitVars, target, panicked>>

\* Faulty variant: the channel is left open.
PushCloseForgotten(p) ==
  /\ ppc[p] = "close"
  /\ ppc' = [ppc EXCEPT ![p] = "unlock"]
  /\ UNCHANGED <<writer, readers, m, chanVars, waitVars, target, panicked>>

PushClose(p) ==
  /\ ppc[p] = "close"
  /\ target[p] \notin closed
  /\ closed' = closed \cup {target[p]}
  /\ ppc' = [ppc EXCEPT ![p] = "unlock"]
  /\ UNCHANGED <<writer, readers, m, buf, waitVars, target, panicked>>

\* "send on closed channel" (also of a send that blocks) and "close of closed
\* channel": nothing in the process recovers from either.
PushPanic(p) ==
  /\ ppc[p] \in {"send", "close"}
  /\ target[p] \in closed
  /\ panicked' = TRUE
  /\ UNCHANGED <<writer, readers, m, chanVars, waitVars, ppc, target>>

\* The deferred RUnlock, and the return.
PushRUnlock(p) ==
  /\ ppc[p] = "unlock"
  /\ readers' = readers \ {p}
  /\ ppc' = [ppc EXCEPT ![p] = "done"]
  /\ UNCHANGED <<writer, m, chanVars, waitVars, target, panicked>>

----------------------------------------------------------------------------
WaitStep(w) ==
  \/ WaitLock(w) \/ WaitRefused(w) \/ WaitRegister(w)
  \/ SelectTimeout(w) \/ SelectReceive(w)
  \/ DeferLock(w) \/ DeferDelete(w)

PushStep(p) ==
  \/ PushLookup(p) \/ PushSend(p) \/ PushClose(p)
  \/ PushPanic(p) \/ PushRUnlock(p)

AllDone ==
  /\ \A w \in Waiters : wpc[w] = "done"
  /\ \A p \in Pushers : ppc[p] = "done"

\* The process is over: nothing is left to run, or it has panicked.
Stopped == (panicked \/ AllDone) /\ UNCHANGED vars

Next ==
  \/ ~panicked /\ \E w \in Waiters : CtxDone(w) \/ WaitStep(w)
  \/ ~panicked /\ \E p \in Pushers : PushStep(p)
  \/ Stopped

Spec == Init /\ [][Next]_vars

\* Runnable goroutines run.  A context ends: every caller in the repository
\* arms time.AfterFunc(replyTimeout, cancel) before it waits.
Fairness ==
  /\ \A w \in Waiters : WF_vars(~panicked /\ WaitStep(w))
  /\ \A w \in Waiters : WF_vars(~panicked /\ CtxDone(w))
  /\ \A p \in Pushers : WF_vars(~panicked /\ PushStep(p))

FairSpec == Spec /\ Fairness

----------------------------------------------------------------------------
(* Properties                                                              *)

\* The state is well formed: program counters, errors, and the goroutines,
\* channels and messages of protocol.go:73-118 range over what they should.
TypeOK ==
  /\ writer \in Waiters \cup {None}
  /\ readers \subseteq Pushers
  /\ m \in [Protocols -> Waiters \cup {None}]
  /\ buf \in [Waiters -> Pushers \cup {None}]
  /\ closed \subseteq Waiters
  /\ wpc \in [Waiters ->
       {"idle", "locking", "select", "returning", "deleting", "done"}]
  /\ werr \in [Waiters -> {"nil", "exists", "timeout"}]
  /\ got \in [Waiters -> Pushers \cup {None}]
  /\ ctxDone \subseteq Waiters
  /\ ppc \in [Pushers -> {"idle", "send", "close", "unlock", "done"}]
  /\ target \in [Pushers -> Waiters \cup {None}]
  /\ panicked \in BOOLEAN

Registered(w) == wpc[w] \in {"select", "returning", "deleting"}

\* The map holds a waiter's channel exactly from its registration to its own
\* deferred delete.  Wait deletes by protocol and not by channel (line 94), so
\* this is what keeps it from unregistering a call other than itself.
SlotExact ==
  \A pr \in Protocols : \A w \in Waiters :
    m[pr] = w <=> WaitOn[w] = pr /\ Registered(w)

\* A Wait that returns no error returns a message, never the nil of a closed
\* channel, on which the callers' type assertions (storage.go:196, 214,
\* pre.go:144, ot.go:136) would panic.
NoNilMessage ==
  \A w \in Waiters :
    wpc[w] \in {"returning", "deleting", "done"} /\ werr[w] = "nil" =>
      got[w] # None

\* A Push that returned nil has handed its message over: once the Wait it
\* found has returned too, that Wait has the message or has timed out.
DeliveredOrTimedOut ==
  \A p \in Pushers : \A w \in Waiters :
    ppc[p] = "done" /\ target[p] = w /\ wpc[w] = "done" =>
      got[w] = p \/ werr[w] = "timeout"

\* The process panics only after two calls of Push have found the same
\* channel: a surplus message for one registered call.
PanicNeedsSurplus ==
  panicked =>
    \E p, q \in Pushers :
      p # q /\ target[p] # None /\ target[p] = target[q]

\* Once a Wait has returned, nothing is sent on its channel and nobody closes
\* it: a Push that found the channel has finished with it before.
NothingAfterReturn ==
  [][\A w \in Waiters : wpc[w] = "done" =>
       buf'[w] = buf[w] /\ (w \in closed' <=> w \in closed)]_vars

----------------------------------------------------------------------------
(* The inductive strengthening behind the safety properties                *)

\* While a Push is at its send or close it holds the read lock, and its channel
\* is still the registered one: Wait cannot return under a Push in progress.
ChannelHeld ==
  \A p \in Pushers : ppc[p] \in {"send", "close"} =>
    /\ p \in readers
    /\ target[p] # None
    /\ m[PushTo[p]] = target[p]

\* The read lock is held from the lookup to the RUnlock, and the lookup only
\* finds channels of the right protocol that a call had registered.
PushProgress ==
  \A p \in Pushers :
    /\ ppc[p] = "unlock" => p \in readers
    /\ ppc[p] = "idle" => target[p] = None
    /\ target[p] # None =>
         /\ WaitOn[target[p]] = PushTo[p]
         /\ wpc[target[p]] \notin {"idle", "locking"}
         /\ werr[target[p]] # "exists"

Sent(p) == target[p] # None /\ ppc[p] \in {"close", "unlock", "done"}
Closer(p) == target[p] # None /\ ppc[p] \in {"unlock", "done"}

\* A message that was sent is in the channel's buffer or with the waiter, and
\* what these hold was sent to them.
MessagesExact ==
  /\ \A p \in Pushers : Sent(p) => p \in {buf[target[p]], got[target[p]]}
  /\ \A w \in Waiters :
       /\ buf[w] # None => Sent(buf[w]) /\ target[buf[w]] = w
       /\ got[w] # None => Sent(got[w]) /\ target[got[w]] = w

\* A channel is closed by exactly one Push.
ClosedExact ==
  /\ \A w \in closed : \E p \in Pushers : Closer(p) /\ target[p] = w
  /\ \A p \in Pushers : Closer(p) => target[p] \in closed
  /\ \A p, q \in Pushers :
       Closer(p) /\ Closer(q) /\ target[p] = target[q] => p = q

\* Nothing is received before the select, no error is set before it, and a
\* refused call has nothing left to do.
WaitProgress ==
  \A w \in Waiters :
    /\ wpc[w] \in {"idle", "locking", "select"} => got[w] = None /\ werr[w] = "nil"
    /\ werr[w] = "exists" => wpc[w] = "done"

IInv ==
  /\ TypeOK
  /\ SlotExact
  /\ ChannelHeld
  /\ PushProgress
  /\ MessagesExact
  /\ ClosedExact
  /\ WaitProgress
  /\ NoNilMessage
  /\ PanicNeedsSurplus

----------------------------------------------------------------------------
(* Liveness                                                                *)

\* Every Wait returns, whatever the pushes do, unless the process panics.
WaitReturns == \A w \in Waiters : <>(panicked \/ wpc[w] = "done")

\* Every Push returns, although it sends while it holds the read lock that
\* the receiver needs free in order to return.
PushReturns == \A p \in Pushers : <>(panicked \/ ppc[p] = "done")

\* Two pushes that found the same channel always end the process: no order of
\* their sends, closes and the receive avoids the panic.
SurplusIsFatal ==
  \A p, q \in Pushers :
    (p # q /\ target[p] # None /\ target[p] = target[q]) ~> panicked
=============================================================================
