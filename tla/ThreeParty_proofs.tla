-------------------------- MODULE ThreeParty_proofs ---------------------------
(***************************************************************************)
(* Proofs about ThreeParty, for any number of Bobs.  Alice's nested calls  *)
(* are calls of RequestReply, so that the theorems of RequestReply_proofs  *)
(* hold of them.  From these follows what a Bob reads from the context:    *)
(* one exchange after the other, the pair of his own, until two exchanges  *)
(* have failed.                                                            *)
(***************************************************************************)
EXTENDS ThreeParty, TLAPS

CallProofs == INSTANCE RequestReply_proofs WITH
                Calls <- Bobs,
                Kind <- [b \in Bobs |-> "reencrypt"],
                Fields <- [b \in Bobs |-> {"cid", "lpp", "reKeys", "txid"}],
                Serial <- FALSE

----------------------------------------------------------------------------
(* Alice's calls                                                           *)

\* Alice's calls are calls as RequestReply assumes them.
LEMMA AlicesCalls == CallProofs!CallAssumption
<1>1. "reencrypt" \in CallProofs!Kinds
  BY DEF CallProofs!Kinds, CallProofs!Required
<1>2. {"cid", "lpp", "reKeys", "txid"}
        \subseteq UNION {CallProofs!Required[k] : k \in CallProofs!Kinds}
  BY <1>1 DEF CallProofs!Required
<1>3. QED
  BY <1>1, <1>2, PartiesAssumption DEF CallProofs!CallAssumption

\* Alice's calls start as those the theorems are about.
LEMMA CallsStart == Init => CallProofs!Init
BY DEF Init, Nested!Init, Nested!Pool!Init, CallProofs!Init,
       CallProofs!Pool!Init, Nested!Kinds, Nested!Required, CallProofs!Kinds,
       CallProofs!Required

\* The steps of Alice's calls are those of the calls the theorems are about.
LEMMA SameSend ==
  ASSUME NEW b \in Bobs,
         Nested!SendStep(b)
  PROVE  CallProofs!SendStep(b)
BY DEF Nested!SendStep, Nested!Send, Nested!SendFails, Nested!FullClose,
       Nested!FullCloseFails, Nested!MayStart, Nested!poolVars,
       CallProofs!SendStep, CallProofs!Send, CallProofs!SendFails,
       CallProofs!FullClose, CallProofs!FullCloseFails, CallProofs!MayStart,
       CallProofs!poolVars, Nested!Returned, CallProofs!Returned

\* The steps of a call's server are the same.
LEMMA SameServer ==
  ASSUME NEW b \in Bobs,
         \/ Nested!ServerRead(b) \/ Nested!ServerReadFails(b)
         \/ Nested!ServerHandle(b)
         \/ Nested!ServerReply(b) \/ Nested!ServerReplyFails(b)
  PROVE  CallProofs!ServerStep(b)
BY DEF Nested!ServerRead, Nested!ServerReadFails, Nested!ServerHandle,
       Nested!ServerReply, Nested!ServerReplyFails, Nested!poolVars,
       Nested!WellFormed, Nested!Required, CallProofs!WellFormed,
       CallProofs!Required, CallProofs!ServerStep, CallProofs!ServerRead,
       CallProofs!ServerReadFails, CallProofs!ServerHandle,
       CallProofs!ServerReply, CallProofs!ServerReplyFails,
       CallProofs!poolVars

\* So are those of its Wait.
LEMMA SameWait ==
  ASSUME NEW b \in Bobs,
         Nested!WaitStep(b)
  PROVE  CallProofs!WaitStep(b)
BY DEF Nested!WaitStep, Nested!streamVars, CallProofs!WaitStep,
       CallProofs!streamVars,
       Nested!Pool!WaitStep, Nested!Pool!WaitLock, Nested!Pool!WaitRefused,
       Nested!Pool!WaitRegister, Nested!Pool!SelectTimeout,
       Nested!Pool!SelectReceive, Nested!Pool!DeferLock,
       Nested!Pool!DeferDelete, Nested!Pool!AnnounceWriter,
       Nested!Pool!HoldsLock, Nested!Pool!Unlock, Nested!Pool!chanVars,
       Nested!Pool!waitVars, Nested!Pool!pushVars,
       CallProofs!Pool!WaitStep, CallProofs!Pool!WaitLock,
       CallProofs!Pool!WaitRefused, CallProofs!Pool!WaitRegister,
       CallProofs!Pool!SelectTimeout, CallProofs!Pool!SelectReceive,
       CallProofs!Pool!DeferLock, CallProofs!Pool!DeferDelete,
       CallProofs!Pool!AnnounceWriter, CallProofs!Pool!HoldsLock,
       CallProofs!Pool!Unlock, CallProofs!Pool!chanVars,
       CallProofs!Pool!waitVars, CallProofs!Pool!pushVars

\* So is the end of its context.
LEMMA SameCtx ==
  ASSUME NEW b \in Bobs,
         Nested!CtxDone(b)
  PROVE  CallProofs!CtxDone(b)
BY DEF Nested!CtxDone, Nested!streamVars, Nested!AnswerPending,
       CallProofs!CtxDone, CallProofs!streamVars, CallProofs!AnswerPending,
       Nested!Pool!CtxDone, Nested!Pool!chanVars, Nested!Pool!pushVars,
       CallProofs!Pool!CtxDone, CallProofs!Pool!chanVars,
       CallProofs!Pool!pushVars

\* So are those of the reader of its response.
LEMMA SameResponse ==
  ASSUME NEW b \in Bobs,
         Nested!ResponseStep(b)
  PROVE  CallProofs!ResponseStep(b)
BY DEF Nested!ResponseStep, Nested!ResponseRead, Nested!ResponseReadFails,
       Nested!PushStep, Nested!poolVars, Nested!streamVars,
       CallProofs!ResponseStep, CallProofs!ResponseRead,
       CallProofs!ResponseReadFails, CallProofs!PushStep,
       CallProofs!poolVars, CallProofs!streamVars,
       Nested!PushKind, CallProofs!PushKind,
       Nested!Pool!PushStep, Nested!Pool!PushLookup, Nested!Pool!PushSend,
       Nested!Pool!PushClose, Nested!Pool!PushPanic,
       Nested!Pool!PushRUnlock, Nested!Pool!chanVars, Nested!Pool!waitVars,
       CallProofs!Pool!PushStep, CallProofs!Pool!PushLookup,
       CallProofs!Pool!PushSend, CallProofs!Pool!PushClose,
       CallProofs!Pool!PushPanic, CallProofs!Pool!PushRUnlock,
       CallProofs!Pool!chanVars, CallProofs!Pool!waitVars

\* A step of the exchange is a step of Alice's calls, or leaves them alone.
LEMMA OtherSteps ==
  ASSUME NEW b \in Bobs,
         \/ BobStep(b) \/ AliceRefuses(b) \/ AliceHandles(b)
         \/ AliceAnswers(b) \/ StoreAPrimes(b)
  PROVE  UNCHANGED nestedVars
BY DEF BobStep, SealChoiceFails, SendChoice, ChoiceAnswered, ChoiceTimesOut,
       Download, ReadAPrimes, ReadLPrime, AliceReplies, AliceRefuses,
       AliceHandles, AliceAnswers, StoreAPrimes

\* Every step of the exchange is a step of Alice's calls, or leaves them alone.
LEMMA CallsStep == [Next]_vars => [CallProofs!Next]_(CallProofs!vars)
<1> SUFFICES ASSUME [Next]_vars
             PROVE  CallProofs!Next \/ UNCHANGED CallProofs!vars
  OBVIOUS
<1>1. UNCHANGED nestedVars => UNCHANGED CallProofs!vars
  BY DEF nestedVars, CallProofs!vars, CallProofs!streamVars,
         CallProofs!poolVars
<1>2. ASSUME NEW b \in Bobs, AliceCalls(b)
      PROVE  CallProofs!Next
  BY <1>2, SameSend, SameServer, SameWait, SameCtx, SameResponse
  DEF AliceCalls, CallProofs!Next
<1>3. ASSUME NEW b \in Bobs, StoreLPrime(b)
      PROVE  CallProofs!Next
  BY <1>3, SameServer DEF StoreLPrime, CallProofs!Next
<1>4. QED
  BY <1>1, <1>2, <1>3, OtherSteps
  DEF Next, AliceStep, ProxyStep, Finished, vars

\* What holds of calls in general holds of Alice's.
LEMMA CallsInvariant == Spec => []CallProofs!CallsInv
<1>1. Spec => CallProofs!Spec
  BY CallsStart, CallsStep, PTL DEF Spec, CallProofs!Spec
<1>2. QED
  BY <1>1, AlicesCalls, CallProofs!CallsInvariance, PTL

\* If nobody gives up early, no context of Alice's calls ends before its answer.
LEMMA ContextsInvariant == ASSUME Patient PROVE Spec => []CallProofs!CtxPatient
<1>1. Spec => CallProofs!Spec
  BY CallsStart, CallsStep, PTL DEF Spec, CallProofs!Spec
<1>2. QED
  BY <1>1, AlicesCalls, CallProofs!PatientContexts, PTL

----------------------------------------------------------------------------
(* Any Bobs and any contexts                                               *)

\* What Alice's calls may do to a call between other steps of the exchange: a
\* call starts from her handler, a request is worked on by the proxy alone.
LEMMA AliceEffect ==
  ASSUME CallProofs!CallsInv, NEW b \in Bobs, AliceCalls(b), NEW d \in Bobs
  PROVE  /\ UNCHANGED <<bobVars, proxyVars, handled>>
         /\ call[d] = "new" => call'[d] = "new" \/ choice[d] = "handling"
         /\ req[d] = "read" => req'[d] = "read"
<1>1. UNCHANGED <<bobVars, proxyVars>>
  BY DEF AliceCalls
<1>2. CASE choice[b] = "handling" /\ CallProofs!SendStep(b)
  BY <1>1, <1>2
  DEF CallProofs!CallsInv, CallProofs!StreamsOK, CallProofs!SendStep,
      CallProofs!Send, CallProofs!SendFails, CallProofs!FullClose,
      CallProofs!FullCloseFails, CallProofs!MayStart
<1>3. CASE \/ Nested!ServerRead(b) \/ Nested!ServerReadFails(b)
           \/ Nested!ServerReply(b) \/ Nested!ServerReplyFails(b)
  BY <1>1, <1>3
  DEF CallProofs!CallsInv, CallProofs!StreamsOK, Nested!ServerRead,
      Nested!ServerReadFails, Nested!ServerReply, Nested!ServerReplyFails
<1>4. CASE \/ CallProofs!WaitStep(b) \/ CallProofs!CtxDone(b)
           \/ CallProofs!ResponseStep(b)
  BY <1>1, <1>4
  DEF CallProofs!WaitStep, CallProofs!CtxDone, CallProofs!streamVars,
      CallProofs!ResponseStep, CallProofs!ResponseRead,
      CallProofs!ResponseReadFails, CallProofs!PushStep
<1>5. QED
  BY <1>2, <1>3, <1>4, SameSend, SameWait, SameCtx, SameResponse
  DEF AliceCalls

\* The work of the proxy's handler.
LEMMA ProxyEffect ==
  ASSUME NEW b \in Bobs, StoreLPrime(b)
  PROVE  /\ req[b] = "read" /\ handled' = handled \cup {b}
         /\ req' = [req EXCEPT ![b] = "done"]
         /\ UNCHANGED <<call, rsp, wpc, werr, got, ppc, target, panicked>>
BY DEF StoreLPrime, Nested!ServerHandle, Nested!poolVars

\* A call that has returned stays so.
LEMMA NestedReturned ==
  ASSUME CallProofs!CallsInv, [Next]_vars, NEW d \in Bobs, Nested!Returned(d)
  PROVE  Nested!Returned(d)' /\ werr'[d] = werr[d]
<1>1. CallProofs!Returned(d)
  BY DEF Nested!Returned, CallProofs!Returned
<1>2. CallProofs!Returned(d)' /\ werr'[d] = werr[d]
  BY <1>1, CallsStep, AlicesCalls, CallProofs!StaysReturned
<1>3. QED
  BY <1>2 DEF Nested!Returned, CallProofs!Returned

\* Initially nobody has begun.
LEMMA StagesInit == Init => StagesInv
BY DEF Init, Nested!Init, Nested!Pool!Init, StagesInv, TypeOK, StagesOK,
       Nested!Returned, Over

\* The steps that leave Alice's calls alone keep the stages.
LEMMA StagesOther ==
  ASSUME StagesInv, NEW b \in Bobs,
         \/ BobStep(b) \/ AliceRefuses(b) \/ AliceHandles(b)
         \/ AliceAnswers(b) \/ StoreAPrimes(b)
  PROVE  StagesInv'
<1> USE DEF StagesInv, TypeOK, StagesOK, Nested!Returned, nestedVars
<1>1. CASE SealChoiceFails(b) \/ SendChoice(b)
  BY <1>1 DEF SealChoiceFails, SendChoice, MayBegin, proxyVars, Over
<1>2. CASE ChoiceAnswered(b)
  BY <1>2 DEF ChoiceAnswered, ChoiceReturns, proxyVars, Over
<1>3. CASE ChoiceTimesOut(b)
  BY <1>3 DEF ChoiceTimesOut, ChoiceReturns, proxyVars, Over
<1>4. CASE Download(b)
  BY <1>4 DEF Download, proxyVars, Over
<1>5. CASE ReadAPrimes(b)
  <2>1. taken' \in [Bobs -> (Bobs \cup {None}) \X (Bobs \cup {None})]
    BY <1>5 DEF ReadAPrimes
  <2>2. QED
    BY <1>5, <2>1 DEF ReadAPrimes, proxyVars, Over
<1>6. CASE ReadLPrime(b)
  <2>1. taken' \in [Bobs -> (Bobs \cup {None}) \X (Bobs \cup {None})]
    BY <1>6 DEF ReadLPrime
  <2>2. bob' \in [Bobs -> {"start", "choosing", "downloading", "reading",
                           "halfread"} \cup Over]
    BY <1>6 DEF ReadLPrime, Over
  <2>3. bob'[b] \in Over \ {"unsent"} /\ \A d \in Bobs \ {b} : bob'[d] = bob[d]
    BY <1>6 DEF ReadLPrime, Over
  <2>4. \A d \in Bobs \ {b} : taken'[d] = taken[d]
    BY <1>6 DEF ReadLPrime
  <2>5. UNCHANGED <<choice, choiceErr, proxyVars, nestedVars>>
    BY <1>6 DEF ReadLPrime
  <2>6. bob[b] = "halfread"
    BY <1>6 DEF ReadLPrime
  <2>7. TypeOK'
    BY <2>1, <2>2, <2>5 DEF proxyVars
  <2>8. StagesOK'
    BY <2>3, <2>4, <2>5, <2>6 DEF proxyVars, Over
  <2>9. QED
    BY <2>7, <2>8
<1>7. CASE AliceHandles(b)
  BY <1>7 DEF AliceHandles, proxyVars
<1>8. CASE AliceRefuses(b) \/ AliceAnswers(b)
  BY <1>8 DEF AliceRefuses, AliceAnswers, AliceReplies, proxyVars
<1>9. CASE StoreAPrimes(b)
  BY <1>9, PartiesAssumption DEF StoreAPrimes, bobVars
<1>10. QED
  BY <1>1, <1>2, <1>3, <1>4, <1>5, <1>6, <1>7, <1>8, <1>9 DEF BobStep

\* So do the steps of Alice's calls.
LEMMA StagesNext ==
  ASSUME StagesInv, CallProofs!CallsInv, [Next]_vars
  PROVE  StagesInv'
<1>1. ASSUME NEW b \in Bobs, AliceCalls(b) PROVE StagesInv'
  <2>1. UNCHANGED <<bobVars, proxyVars, handled>>
    BY <1>1, AliceEffect
  <2>2. TypeOK'
    BY <2>1 DEF StagesInv, TypeOK, bobVars, proxyVars
  <2>3. StagesOK'
    BY <1>1, <2>1, AliceEffect, NestedReturned
    DEF StagesInv, StagesOK, TypeOK, bobVars, proxyVars
  <2>4. QED
    BY <2>2, <2>3 DEF StagesInv
<1>2. ASSUME NEW b \in Bobs, StoreLPrime(b) PROVE StagesInv'
  <2>1. /\ proxy[b] = "half" /\ proxy' = [proxy EXCEPT ![b] = "stored"]
        /\ lPrime' = b /\ UNCHANGED <<aPrimes, bobVars>>
    BY <1>2 DEF StoreLPrime
  <2>2. /\ handled' = handled \cup {b}
        /\ req' = [req EXCEPT ![b] = "done"]
        /\ UNCHANGED <<call, wpc, werr>>
    BY <1>2, ProxyEffect
  <2>3. TypeOK'
    BY <2>1, <2>2 DEF StagesInv, TypeOK, bobVars
  <2>4. \A d \in Bobs \ {b} : req'[d] = req[d]
    BY <2>2 DEF CallProofs!CallsInv, CallProofs!StreamsOK
  <2>5. StagesOK'
    BY <2>1, <2>2, <2>4, PartiesAssumption
    DEF StagesInv, TypeOK, StagesOK, bobVars, Nested!Returned
  <2>6. QED
    BY <2>3, <2>5 DEF StagesInv
<1>3. CASE UNCHANGED vars
  BY <1>3
  DEF StagesInv, TypeOK, StagesOK, vars, bobVars, proxyVars, nestedVars,
      Nested!Returned
<1>4. QED
  BY <1>1, <1>2, <1>3, StagesOther DEF Next, AliceStep, ProxyStep, Finished

\* Bob, Alice and the proxy are where the exchange has got to, however their
\* exchanges overlap and whatever is lost (node_test.go:257-260, 519).
THEOREM StagesInvariance == Spec => []StagesInv
BY StagesInit, StagesNext, CallsInvariant, PTL DEF Spec

\* The proxy answers a call exactly when it has stored both values, and a Bob
\* who was told of no error was told so by Alice (node_test.go:257-260, 519).
THEOREM PartiesTypeOK == Spec => []TypeOK
<1>1. StagesInv => TypeOK
  BY DEF StagesInv
<1>2. QED
  BY <1>1, StagesInvariance, PTL

\* For a Bob who was served there is a call whose answer he heard.
LEMMA ServedHeard ==
  ASSUME StagesInv, CallProofs!CallsInv, NEW b \in Bobs, choice[b] = "ok"
  PROVE  \E d \in Bobs : target[d] = b /\ d \in handled
<1>1. wpc[b] = "done" /\ werr[b] = "nil"
  BY DEF StagesInv, StagesOK, Nested!Returned
<1>2. got[b] # None
  BY <1>1
  DEF CallProofs!CallsInv, CallProofs!Pool!IInv, CallProofs!Pool!NoNilMessage
<1>3. PICK d \in Bobs : target[d] = b /\ ppc[d] # "idle"
  BY <1>2, AlicesCalls, CallProofs!GotFound
<1>4. d \in handled
  BY <1>3 DEF CallProofs!CallsInv, CallProofs!StreamsOK
<1>5. QED
  BY <1>3, <1>4

\* Once one Bob has been served no Bob ends in a failed type assertion on what
\* he reads (node_test.go:462-463): what the proxy has stored stays stored,
\* with exchanges that overlap and contexts that end at any time, too.
THEOREM NoCrash == Spec => NoCrashOnceServed
<1>1. StagesInv /\ CallProofs!CallsInv /\ [Next]_vars =>
        [(\E d \in Bobs : Served(d)) =>
           \A b \in Bobs : bob'[b] = "crashed" => bob[b] = "crashed"]_vars
  <2> SUFFICES ASSUME StagesInv, CallProofs!CallsInv, [Next]_vars,
                      NEW d \in Bobs, Served(d),
                      NEW b \in Bobs, bob'[b] = "crashed",
                      bob[b] # "crashed"
               PROVE  FALSE
    OBVIOUS
  <2>1. aPrimes # None /\ lPrime # None
    BY ServedHeard DEF StagesInv, TypeOK, StagesOK, Served
  <2>2. ASSUME NEW e \in Bobs, BobStep(e) PROVE FALSE
    <3>1. CASE ReadAPrimes(e)
      BY <2>1, <3>1 DEF ReadAPrimes, StagesInv, TypeOK
    <3>2. CASE ReadLPrime(e)
      BY <2>1, <3>2 DEF ReadLPrime, StagesInv, TypeOK
    <3>3. CASE \/ SealChoiceFails(e) \/ SendChoice(e)
               \/ ChoiceAnswered(e) \/ ChoiceTimesOut(e)
      BY <3>3 DEF SealChoiceFails, SendChoice, ChoiceAnswered, ChoiceTimesOut,
                  ChoiceReturns, StagesInv, TypeOK
    <3>4. CASE Download(e)
      BY <3>4 DEF Download, StagesInv, TypeOK
    <3>5. QED
      BY <2>2, <3>1, <3>2, <3>3, <3>4 DEF BobStep
  <2>3. ASSUME NEW e \in Bobs, AliceStep(e) \/ ProxyStep(e)
        PROVE  bob' = bob
    BY <2>3 DEF AliceStep, AliceRefuses, AliceHandles, AliceCalls,
                AliceAnswers, AliceReplies, ProxyStep, StoreAPrimes,
                StoreLPrime, bobVars
  <2>4. QED
    BY <2>2, <2>3 DEF Next, Finished, vars, bobVars
<1>2. QED
  BY <1>1, StagesInvariance, CallsInvariant, PTL DEF Spec, NoCrashOnceServed

----------------------------------------------------------------------------
(* One exchange after the other, with patient callers                      *)

\* What the proofs below need of the state of any exchange.
Ground == StagesInv /\ CallProofs!CallsInv /\ CallProofs!CtxPatient

\* Bobs who take turns keep to one exchange at a time.
LEMMA OneExchangeNext ==
  ASSUME OneByOne, StagesInv, OneExchange, [Next]_vars
  PROVE  OneExchange'
<1>1. ASSUME NEW e \in Bobs, SendChoice(e)
      PROVE  OneExchange'
  BY <1>1 DEF SendChoice, MayBegin, OneExchange, InExchange, StagesInv, TypeOK
<1>2. ASSUME NEW e \in Bobs, BobStep(e), ~SendChoice(e)
      PROVE  \A d \in Bobs : InExchange(d)' => InExchange(d)
  BY <1>2
  DEF BobStep, SealChoiceFails, ChoiceAnswered, ChoiceTimesOut,
      ChoiceReturns, Download, ReadAPrimes, ReadLPrime, InExchange, Over,
      StagesInv, TypeOK
<1>3. ASSUME NEW e \in Bobs, AliceStep(e) \/ ProxyStep(e)
      PROVE  bob' = bob
  BY <1>3 DEF AliceStep, AliceRefuses, AliceHandles, AliceCalls,
              AliceAnswers, AliceReplies, ProxyStep, StoreAPrimes,
              StoreLPrime, bobVars
<1>4. QED
  BY <1>1, <1>2, <1>3
  DEF Next, Finished, vars, bobVars, OneExchange, InExchange

\* The result of a choice is for good.
LEMMA ChoiceErrStays ==
  ASSUME StagesInv, [Next]_vars, NEW d \in Bobs, choiceErr[d] # "none"
  PROVE  choiceErr'[d] = choiceErr[d]
<1>1. ASSUME NEW e \in Bobs, BobStep(e)
      PROVE  choiceErr'[d] = choiceErr[d]
  BY <1>1
  DEF BobStep, SealChoiceFails, SendChoice, ChoiceAnswered, ChoiceTimesOut,
      ChoiceReturns, Download, ReadAPrimes, ReadLPrime, StagesInv, StagesOK,
      TypeOK
<1>2. ASSUME NEW e \in Bobs, AliceStep(e) \/ ProxyStep(e)
      PROVE  choiceErr' = choiceErr
  BY <1>2 DEF AliceStep, AliceRefuses, AliceHandles, AliceCalls,
              AliceAnswers, AliceReplies, ProxyStep, StoreAPrimes,
              StoreLPrime, bobVars
<1>3. QED
  BY <1>1, <1>2 DEF Next, Finished, vars, bobVars

\* So are two failures.
LEMMA FailuresStay ==
  ASSUME Ground, [Next]_vars, TwoFailures
  PROVE  TwoFailures'
<1>1. PICK d, e \in Bobs :
        d # e /\ werr[d] = "exists" /\ choiceErr[e] = "timeout"
  BY DEF TwoFailures, RefusedAfterTimeout
<1>2. Nested!Returned(d)
  BY <1>1
  DEF Ground, CallProofs!CallsInv, CallProofs!Pool!IInv,
      CallProofs!Pool!WaitProgress, Nested!Returned
<1>3. werr'[d] = "exists"
  BY <1>1, <1>2, NestedReturned DEF Ground
<1>4. choiceErr'[e] = "timeout"
  BY <1>1, ChoiceErrStays DEF Ground
<1>5. QED
  BY <1>1, <1>3, <1>4 DEF TwoFailures, RefusedAfterTimeout

\* A Bob is past his choice with his call open only if he has given up.
LEMMA GaveUp ==
  ASSUME StagesInv, NEW w \in Bobs, PastChoosing(w), call[w] # "new",
         ~Nested!Returned(w)
  PROVE  choiceErr[w] = "timeout"
BY DEF StagesInv, StagesOK, TypeOK, PastChoosing

\* The call that holds the slot is open, and that of another Bob than the one
\* who is choosing only if he has given up.
LEMMA SlotHolder ==
  ASSUME Ground, OneExchange, NEW b \in Bobs, bob[b] = "choosing",
         m["reencrypt"] \notin {None, b}
  PROVE  m["reencrypt"] \in Bobs /\ choiceErr[m["reencrypt"]] = "timeout"
<1> DEFINE w == m["reencrypt"]
<1>1. "reencrypt" \in CallProofs!Kinds
  BY DEF CallProofs!Kinds, CallProofs!Required
<1>2. w \in Bobs /\ call[w] # "new" /\ ~Nested!Returned(w)
  BY <1>1, AlicesCalls, CallProofs!RegisteredCall DEF Ground, Nested!Returned
<1>3. PastChoosing(w)
  BY <1>2
  DEF OneExchange, InExchange, PastChoosing, Over, Ground, StagesInv, StagesOK
<1>4. QED
  BY <1>2, <1>3, GaveUp DEF Ground

\* A request that the proxy can work on is that of the Bob who is choosing.
LEMMA ProxyServesChoosing ==
  ASSUME Ground, AllSettled, NEW b \in Bobs, req[b] = "read"
  PROVE  bob[b] = "choosing" /\ ~panicked
<1>1. ~panicked /\ ~PastChoosing(b) /\ call[b] # "new"
  BY DEF AllSettled, Settled, Ground, CallProofs!CallsInv,
         CallProofs!StreamsOK
<1>2. QED
  BY <1>1 DEF PastChoosing, Ground, StagesInv, StagesOK

\* An answer about to be pushed is that of the Bob who is choosing.
LEMMA PushServesChoosing ==
  ASSUME Ground, AllSettled, ~panicked, NEW b \in Bobs,
         rsp[b] = "read", ppc[b] \notin {"unlock", "done"}
  PROVE  bob[b] = "choosing"
<1>1. ~PastChoosing(b) /\ call[b] # "new"
  BY DEF AllSettled, Settled, Ground, CallProofs!CallsInv,
         CallProofs!StreamsOK
<1>2. QED
  BY <1>1 DEF PastChoosing, Ground, StagesInv, StagesOK

\* An answer and a refusal concern a Bob who has given up, or there have been
\* two failures.
LEMMA LateCallsNext ==
  ASSUME Ground, OneExchange, AllSettled, LateCalls, [Next]_vars
  PROVE  TwoFailures' \/ LateCalls'
<1> SUFFICES ASSUME ~TwoFailures' PROVE LateCalls'
  OBVIOUS
<1> USE DEF Ground
<1>1. ASSUME NEW b \in Bobs, target'[b] \notin {None, b}
      PROVE  choiceErr'[target'[b]] = "timeout"
  <2>1. CASE target'[b] = target[b]
    <3>1. target[b] \in Bobs /\ choiceErr[target[b]] = "timeout"
      BY <1>1, <2>1
      DEF LateCalls, CallProofs!CallsInv, CallProofs!StreamsOK,
          CallProofs!Pool!TypeOK
    <3>2. QED
      BY <2>1, <3>1, ChoiceErrStays
  <2>2. CASE target'[b] # target[b]
    <3>1. /\ target'[b] = m["reencrypt"] /\ ~panicked
          /\ ppc[b] = "idle" /\ rsp[b] = "read"
      BY <2>2, CallsStep, AlicesCalls, CallProofs!TargetStep
    <3>2. bob[b] = "choosing"
      BY <3>1, PushServesChoosing
    <3>3. target'[b] \in Bobs /\ choiceErr[target'[b]] = "timeout"
      BY <1>1, <3>1, <3>2, SlotHolder
    <3>4. QED
      BY <3>3, ChoiceErrStays
  <2>3. QED
    BY <2>1, <2>2
<1>2. ASSUME NEW b \in Bobs, werr'[b] = "exists"
      PROVE  choiceErr'[b] = "timeout"
  <2>1. CASE werr[b] = "exists"
    BY <2>1, ChoiceErrStays DEF LateCalls
  <2>2. CASE werr[b] # "exists"
    <3>1. wpc[b] = "locking" /\ m["reencrypt"] # None /\ call[b] # "new"
      BY <1>2, <2>2, CallsStep, AlicesCalls, CallProofs!RefusedStep
    <3>2. "reencrypt" \in CallProofs!Kinds
      BY DEF CallProofs!Kinds, CallProofs!Required
    <3>3. m["reencrypt"] # b
      BY <3>1, <3>2, AlicesCalls, CallProofs!RegisteredCall
    <3>4. bob[b] # "choosing"
      <4>1. SUFFICES ASSUME bob[b] = "choosing" PROVE TwoFailures'
        OBVIOUS
      <4>2. PICK w \in Bobs : w # b /\ choiceErr[w] = "timeout"
        BY <3>1, <3>3, <4>1, SlotHolder
      <4>3. choiceErr'[w] = "timeout"
        BY <4>2, ChoiceErrStays
      <4>4. QED
        BY <1>2, <4>2, <4>3 DEF TwoFailures, RefusedAfterTimeout
    <3>5. PastChoosing(b)
      BY <3>1, <3>4 DEF PastChoosing, StagesInv, StagesOK
    <3>6. choiceErr[b] = "timeout"
      BY <3>1, <3>5, GaveUp DEF Nested!Returned
    <3>7. QED
      BY <3>6, ChoiceErrStays
  <2>3. QED
    BY <2>1, <2>2
<1>3. QED
  BY <1>1, <1>2 DEF LateCalls

\* When Alice's call for the Bob who is choosing has returned, the answer to it
\* has been pushed, or none is to come.
LEMMA ReturnedIsSettled ==
  ASSUME Ground, LateCalls, NEW b \in Bobs, bob[b] = "choosing",
         Nested!Returned(b)
  PROVE  Settled(b)
<1> USE DEF Ground, Nested!Returned
<1>1. wpc[b] = "done" /\ call[b] # "new"
  BY DEF CallProofs!CallsInv, CallProofs!StreamsOK
<1>2. choiceErr[b] = "none"
  BY DEF StagesInv, StagesOK
<1>3. CASE werr[b] = "timeout"
  BY <1>1, <1>3
  DEF CallProofs!CtxPatient, CallProofs!TimedOut, CallProofs!AnswerPending,
      Settled, CallProofs!CallsInv, CallProofs!StreamsOK
<1>4. CASE werr[b] = "nil"
  <2>1. got[b] # None
    BY <1>1, <1>4
    DEF CallProofs!CallsInv, CallProofs!Pool!IInv,
        CallProofs!Pool!NoNilMessage
  <2>2. /\ got[b] \in Bobs /\ target[got[b]] = b
        /\ ppc[got[b]] # "idle"
    BY <2>1, AlicesCalls, CallProofs!GotFound
  <2>3. got[b] = b
    BY <1>2, <2>2, PartiesAssumption DEF LateCalls
  <2>4. rsp[b] = "read" /\ req[b] = "over"
    BY <2>2, <2>3 DEF CallProofs!CallsInv, CallProofs!StreamsOK
  <2>5. m["reencrypt"] # b
    <3>1. "reencrypt" \in CallProofs!Kinds
      BY DEF CallProofs!Kinds, CallProofs!Required
    <3>2. QED
      BY <1>1, <3>1, AlicesCalls, CallProofs!RegisteredCall,
         PartiesAssumption
  <2>6. ppc[b] \notin {"send", "close"}
    BY <2>2, <2>3, <2>5
    DEF CallProofs!CallsInv, CallProofs!Pool!IInv,
        CallProofs!Pool!ChannelHeld, CallProofs!PushKind
  <2>7. ppc[b] \in {"unlock", "done"}
    BY <2>2, <2>3, <2>6
    DEF CallProofs!CallsInv, CallProofs!StreamsOK, CallProofs!Pool!TypeOK
  <2>8. QED
    BY <1>1, <2>4, <2>7 DEF Settled
<1>5. werr[b] # "exists"
  BY <1>2 DEF LateCalls
<1>6. QED
  BY <1>3, <1>4, <1>5
  DEF CallProofs!CallsInv, CallProofs!StreamsOK, CallProofs!Pool!TypeOK

\* A Bob goes on when his exchange is settled.
LEMMA ChoiceSettles ==
  ASSUME Patient, Ground, LateCalls, ~panicked, NEW b \in Bobs,
         bob[b] = "choosing", ChoiceAnswered(b) \/ ChoiceTimesOut(b)
  PROVE  Settled(b)
<1>1. CASE Nested!Returned(b)
  BY <1>1, ReturnedIsSettled
<1>2. CASE ChoiceAnswered(b) /\ ~Nested!Returned(b)
  BY <1>2 DEF ChoiceAnswered, Settled, Ground, StagesInv, StagesOK
<1>3. CASE ChoiceTimesOut(b) /\ ~Nested!Returned(b)
  <2>1. ChoiceTimesOut(b)
    BY <1>3
  <2>2. ~AnswerInTime(b)
    BY <2>1 DEF ChoiceTimesOut
  <2>3. choice[b] \in {"handling", "lost"}
    BY <2>2 DEF AnswerInTime, Ground, StagesInv, StagesOK, TypeOK
  <2>4. CASE choice[b] = "lost"
    BY <1>3, <2>4 DEF Settled, Ground, StagesInv, StagesOK
  <2>5. CASE choice[b] = "handling"
    <3>1. call[b] # "new" /\ ~Nested!AnswerPending(b)
      BY <2>2, <2>5 DEF AnswerInTime
    <3>2. QED
      BY <3>1 DEF Nested!AnswerPending, Settled, Ground,
                  CallProofs!CallsInv, CallProofs!StreamsOK
  <2>6. QED
    BY <2>3, <2>4, <2>5
<1>4. QED
  BY <1>1, <1>2, <1>3

\* A settled exchange stays settled when Alice's calls take a step.
LEMMA StaysSettled ==
  ASSUME Ground, [Next]_vars, NEW d \in Bobs, Settled(d),
         call[d] = "new" => call'[d] = "new", choice'[d] = choice[d]
  PROVE  Settled(d)'
<1>1. CASE call[d] = "new"
  BY <1>1 DEF Settled
<1>2. CASE call[d] # "new"
  <2>1. /\ call'[d] # "new" /\ req'[d] = "over" /\ rsp'[d] = rsp[d]
        /\ ppc[d] \in {"unlock", "done"} => ppc'[d] \in {"unlock", "done"}
    BY <1>2, CallsStep, AlicesCalls, CallProofs!StaysOver DEF Settled, Ground
  <2>2. QED
    BY <1>2, <2>1 DEF Settled
<1>3. QED
  BY <1>1, <1>2

\* Exchanges past their choice are settled, until Alice's process panics.
LEMMA SettledWhileRunning ==
  ASSUME Patient, Ground, AllSettled, LateCalls, [Next]_vars, ~panicked',
         NEW d \in Bobs, PastChoosing(d)'
  PROVE  Settled(d)'
<1>1. ~panicked
  BY CallsStep, AlicesCalls, CallProofs!PanicStep DEF Ground
<1>2. PastChoosing(d) => Settled(d)
  BY <1>1 DEF AllSettled
<1>3. ASSUME NEW b \in Bobs, BobStep(b)
      PROVE  Settled(d)'
  <2>1. UNCHANGED nestedVars
    BY <1>3, OtherSteps
  <2>2. CASE PastChoosing(d)
    <3>1. choice'[d] = choice[d]
      BY <1>3, <2>2
      DEF BobStep, SealChoiceFails, SendChoice, MayBegin, ChoiceAnswered,
          ChoiceTimesOut, Download, ReadAPrimes, ReadLPrime, PastChoosing,
          Ground, StagesInv, TypeOK
    <3>2. QED
      BY <1>2, <2>1, <2>2, <3>1, StaysSettled DEF nestedVars
  <2>3. CASE ~PastChoosing(d)
    <3>1. /\ bob[d] = "choosing" /\ choice' = choice
          /\ ChoiceAnswered(d) \/ ChoiceTimesOut(d)
      BY <1>3, <2>3
      DEF BobStep, SealChoiceFails, SendChoice, MayBegin, ChoiceAnswered,
          ChoiceTimesOut, ChoiceReturns, Download, ReadAPrimes, ReadLPrime,
          PastChoosing, Ground, StagesInv, TypeOK
    <3>2. Settled(d)
      BY <1>1, <3>1, ChoiceSettles
    <3>3. QED
      BY <2>1, <3>1, <3>2, StaysSettled DEF nestedVars
  <2>4. QED
    BY <2>2, <2>3
<1>4. ASSUME bob' = bob, choice'[d] = choice[d],
             call[d] = "new" => call'[d] = "new" \/ choice[d] = "handling"
      PROVE  Settled(d)'
  BY <1>2, <1>4, StaysSettled DEF PastChoosing, Settled
<1>5. ASSUME NEW b \in Bobs,
             AliceRefuses(b) \/ AliceHandles(b) \/ AliceAnswers(b)
      PROVE  Settled(d)'
  <2>1. UNCHANGED nestedVars /\ bob' = bob
    BY <1>5, OtherSteps
    DEF AliceRefuses, AliceHandles, AliceAnswers, AliceReplies
  <2>2. CASE choice'[d] = choice[d]
    BY <1>4, <2>1, <2>2 DEF nestedVars
  <2>3. CASE choice'[d] # choice[d]
    <3>1. choice[d] = "asked" \/ (choice[d] = "handling" /\ Nested!Returned(d))
      BY <1>5, <2>3
      DEF AliceRefuses, AliceHandles, AliceAnswers, AliceReplies, Ground,
          StagesInv, TypeOK
    <3>2. Settled(d)
      BY <1>2, <2>1 DEF PastChoosing
    <3>3. call[d] # "new"
      BY <3>1, <3>2 DEF Settled
    <3>4. QED
      BY <2>1, <3>2, <3>3 DEF Settled, nestedVars
  <2>4. QED
    BY <2>2, <2>3
<1>6. ASSUME NEW b \in Bobs, AliceCalls(b)
      PROVE  Settled(d)'
  BY <1>4, <1>6, AliceEffect DEF Ground, bobVars
<1>7. ASSUME NEW b \in Bobs, ProxyStep(b)
      PROVE  Settled(d)'
  BY <1>4, <1>7, ProxyEffect
  DEF ProxyStep, StoreAPrimes, StoreLPrime, bobVars, nestedVars
<1>8. CASE UNCHANGED vars
  BY <1>4, <1>8 DEF vars, bobVars, nestedVars
<1>9. QED
  BY <1>3, <1>5, <1>6, <1>7, <1>8 DEF Next, AliceStep, Finished

\* When it panics no request is left, and none comes after.
LEMMA OverAfterPanic ==
  ASSUME Ground, OneExchange, AllSettled, [Next]_vars, panicked',
         NEW d \in Bobs
  PROVE  req'[d] \in {"none", "over"}
<1> USE DEF Ground
<1>1. CASE panicked
  <2>1. \A e \in Bobs : req[e] \in {"none", "over"}
    BY <1>1 DEF AllSettled
  <2>2. ASSUME NEW b \in Bobs, AliceCalls(b) PROVE req' = req
    BY <1>1, <2>1, <2>2
    DEF AliceCalls, Nested!SendStep, Nested!WaitStep, Nested!CtxDone,
        Nested!ServerRead, Nested!ServerReadFails, Nested!ServerReply,
        Nested!ServerReplyFails, Nested!ResponseStep, Nested!ResponseRead,
        Nested!ResponseReadFails, Nested!PushStep, Nested!streamVars
  <2>3. ASSUME NEW b \in Bobs, StoreLPrime(b) PROVE FALSE
    BY <2>1, <2>3, ProxyEffect
  <2>4. req' = req
    BY <2>2, <2>3, OtherSteps
    DEF Next, AliceStep, ProxyStep, Finished, vars, nestedVars
  <2>5. QED
    BY <2>1, <2>4
<1>2. CASE ~panicked
  <2>1. /\ UNCHANGED <<call, req>>
        /\ \E b \in Bobs : rsp[b] = "read" /\ ppc[b] \in {"send", "close"}
    BY <1>2, CallsStep, AlicesCalls, CallProofs!PanicStep
  <2>2. PICK b \in Bobs : rsp[b] = "read" /\ ppc[b] \in {"send", "close"}
    BY <2>1
  <2>3. bob[b] = "choosing"
    BY <1>2, <2>2, PushServesChoosing
  <2>4. CASE d = b
    BY <2>1, <2>2, <2>4 DEF CallProofs!CallsInv, CallProofs!StreamsOK
  <2>5. CASE PastChoosing(d)
    BY <1>2, <2>1, <2>5
    DEF AllSettled, Settled, CallProofs!CallsInv, CallProofs!StreamsOK
  <2>6. CASE bob[d] \in {"start", "unsent"}
    BY <2>1, <2>6
    DEF StagesInv, StagesOK, CallProofs!CallsInv, CallProofs!StreamsOK
  <2>7. QED
    BY <2>3, <2>4, <2>5, <2>6 DEF OneExchange, InExchange, Over, PastChoosing
<1>3. QED
  BY <1>1, <1>2

\* Of patient parties, every exchange that is over has settled.
LEMMA AllSettledNext ==
  ASSUME Patient, Ground, OneExchange, AllSettled, LateCalls, [Next]_vars
  PROVE  AllSettled'
BY SettledWhileRunning, OverAfterPanic DEF AllSettled

\* The proxy stores the pair of the Bob who is choosing, half by half.
LEMMA PairNext ==
  ASSUME Ground, Ground', OneExchange, OneExchange', AllSettled, PairOK,
         [Next]_vars
  PROVE  PairOK'
<1> USE DEF Ground
<1>1. ASSUME NEW b \in Bobs, StoreAPrimes(b) PROVE PairOK'
  <2>1. /\ req[b] = "read" /\ proxy[b] = "idle" /\ aPrimes' = b
        /\ proxy' = [proxy EXCEPT ![b] = "half"]
        /\ bob' = bob
    BY <1>1 DEF StoreAPrimes, bobVars
  <2>2. bob[b] = "choosing"
    BY <2>1, ProxyServesChoosing
  <2>3. ASSUME NEW d \in Bobs \ {b}
        PROVE  /\ proxy[d] # "half"
               /\ proxy[d] = "stored" => bob[d] \in Over
    <3>1. ~InExchange(d)
      BY <2>2 DEF OneExchange, InExchange, Over
    <3>2. bob[d] = "start" => proxy[d] = "idle"
      BY DEF StagesInv, TypeOK, StagesOK, CallProofs!CallsInv,
             CallProofs!StreamsOK
    <3>3. proxy[d] = "half" => bob[d] = "choosing"
      BY ProxyServesChoosing DEF StagesInv, StagesOK
    <3>4. QED
      BY <3>1, <3>2, <3>3 DEF InExchange, Over
  <2>4. proxy'[b] = "half" /\ \A d \in Bobs \ {b} : proxy'[d] = proxy[d]
    BY <2>1 DEF StagesInv, TypeOK
  <2>5. QED
    BY <2>1, <2>3, <2>4, PartiesAssumption DEF PairOK
<1>2. ASSUME NEW b \in Bobs, StoreLPrime(b) PROVE PairOK'
  <2>1. /\ proxy[b] = "half" /\ lPrime' = b /\ aPrimes' = aPrimes
        /\ proxy' = [proxy EXCEPT ![b] = "stored"] /\ bob' = bob
    BY <1>2 DEF StoreLPrime, bobVars
  <2>2. aPrimes = b
    BY <2>1 DEF PairOK
  <2>3. \A d \in Bobs \ {b} : proxy'[d] = proxy[d]
    BY <2>1 DEF StagesInv, TypeOK
  <2>4. QED
    BY <2>1, <2>2, <2>3 DEF PairOK
<1>3. ASSUME UNCHANGED proxyVars,
             \A d \in Bobs : bob[d] \in Over => bob'[d] \in Over
      PROVE  PairOK'
  BY <1>3 DEF PairOK, proxyVars
<1>4. ASSUME NEW b \in Bobs, BobStep(b)
      PROVE  /\ UNCHANGED proxyVars
             /\ \A d \in Bobs : bob[d] \in Over => bob'[d] \in Over
  BY <1>4
  DEF BobStep, SealChoiceFails, SendChoice, MayBegin, ChoiceAnswered,
      ChoiceTimesOut, ChoiceReturns, Download, ReadAPrimes, ReadLPrime,
      StagesInv, TypeOK, Over
<1>5. ASSUME NEW b \in Bobs, AliceStep(b)
      PROVE  UNCHANGED proxyVars /\ bob' = bob
  BY <1>5 DEF AliceStep, AliceRefuses, AliceHandles, AliceCalls,
              AliceAnswers, AliceReplies, bobVars
<1>6. QED
  BY <1>1, <1>2, <1>3, <1>4, <1>5
  DEF Next, ProxyStep, Finished, vars, bobVars, proxyVars

\* A Bob who was served heard the answer to Alice's call for him, which the
\* proxy gave once it had stored his pair.
LEMMA ServedStored ==
  ASSUME Ground, LateCalls, NEW b \in Bobs, Served(b)
  PROVE  proxy[b] = "stored"
<1>1. choice[b] = "ok"
  BY DEF Served, Ground, StagesInv, TypeOK
<1>2. PICK d \in Bobs : target[d] = b /\ d \in handled
  BY <1>1, ServedHeard DEF Ground
<1>3. d = b
  BY <1>2, PartiesAssumption DEF LateCalls, Served
<1>4. QED
  BY <1>2, <1>3 DEF Ground, StagesInv, TypeOK

\* While a Bob reads nothing is stored, and what he reads is one pair.
LEMMA TakenNext ==
  ASSUME Ground, OneExchange, AllSettled, LateCalls, PairOK, TakenOK,
         [Next]_vars
  PROVE  TakenOK'
<1> USE DEF Ground
<1>1. ASSUME NEW b \in Bobs,
             SealChoiceFails(b) \/ SendChoice(b) \/ Download(b)
      PROVE  TakenOK'
  <2>1. /\ UNCHANGED <<choiceErr, taken, aPrimes>>
        /\ \A d \in Bobs \ {b} : bob'[d] = bob[d]
        /\ bob[b] \in {"start", "downloading"}
        /\ bob'[b] \in {"unsent", "choosing", "reading", "failed"}
    BY <1>1 DEF SealChoiceFails, SendChoice, MayBegin, Download, proxyVars,
                StagesInv, TypeOK
  <2>2. QED
    BY <2>1 DEF TakenOK, Torn, Served, HasRead
<1>2. ASSUME NEW b \in Bobs, ChoiceAnswered(b) \/ ChoiceTimesOut(b)
      PROVE  TakenOK'
  <2>1. /\ UNCHANGED <<taken, aPrimes>>
        /\ \A d \in Bobs \ {b} :
             bob'[d] = bob[d] /\ choiceErr'[d] = choiceErr[d]
        /\ bob[b] = "choosing" /\ bob'[b] = "downloading"
    BY <1>2 DEF ChoiceAnswered, ChoiceTimesOut, ChoiceReturns, proxyVars,
                StagesInv, TypeOK
  <2>2. QED
    BY <2>1 DEF TakenOK, Torn, Served, HasRead
<1>3. ASSUME NEW b \in Bobs, ReadAPrimes(b)
      PROVE  TakenOK'
  <2>1. /\ UNCHANGED <<choiceErr, aPrimes>>
        /\ bob[b] = "reading"
        /\ \A d \in Bobs \ {b} : bob'[d] = bob[d] /\ taken'[d] = taken[d]
        /\ bob'[b] = IF aPrimes = None THEN "crashed" ELSE "halfread"
    BY <1>3 DEF ReadAPrimes, proxyVars, StagesInv, TypeOK
  <2>2. taken'[b] = <<aPrimes, None>>
    <3>1. taken[b] = <<None, None>>
      BY <2>1 DEF TakenOK
    <3>2. taken'[b] = [taken[b] EXCEPT ![1] = aPrimes]
      BY <1>3 DEF ReadAPrimes, StagesInv, TypeOK
    <3>3. QED
      BY <3>1, <3>2
  <2>3. Served(b) => aPrimes # None
    BY ServedStored DEF StagesInv, StagesOK
  <2>4. QED
    BY <2>1, <2>2, <2>3 DEF TakenOK, Torn, Served, HasRead
<1>4. ASSUME NEW b \in Bobs, ReadLPrime(b)
      PROVE  TakenOK'
  <2>1. /\ UNCHANGED <<choiceErr, aPrimes>>
        /\ bob[b] = "halfread"
        /\ \A d \in Bobs \ {b} : bob'[d] = bob[d] /\ taken'[d] = taken[d]
    BY <1>4 DEF ReadLPrime, proxyVars, StagesInv, TypeOK
  <2>2. lPrime = aPrimes
    <3>1. SUFFICES ASSUME lPrime # aPrimes PROVE FALSE
      OBVIOUS
    <3>2. aPrimes \in Bobs /\ req[aPrimes] = "read"
      BY <3>1 DEF PairOK, StagesInv, TypeOK, StagesOK
    <3>3. bob[aPrimes] = "choosing"
      BY <3>2, ProxyServesChoosing
    <3>4. QED
      BY <2>1, <3>2, <3>3 DEF OneExchange, InExchange, Over
  <2>3. taken[b] = <<aPrimes, None>>
    BY <2>1 DEF TakenOK
  <2>4. taken'[b] = <<aPrimes, aPrimes>>
    <3>1. taken'[b] = [taken[b] EXCEPT ![2] = lPrime]
      BY <1>4 DEF ReadLPrime, StagesInv, TypeOK
    <3>2. QED
      BY <2>2, <2>3, <3>1
  <2>5. aPrimes # None
    BY <2>1, <2>3 DEF StagesInv, StagesOK
  <2>6. bob'[b] = IF aPrimes = b THEN "decrypted" ELSE "failed"
    BY <1>4, <2>2, <2>3, <2>5 DEF ReadLPrime, StagesInv, TypeOK
  <2>7. Served(b) => aPrimes = b
    BY <2>1, ServedStored DEF PairOK, Over
  <2>8. QED
    BY <2>1, <2>4, <2>6, <2>7 DEF TakenOK, Torn, Served, HasRead
<1>5. ASSUME NEW b \in Bobs, StoreAPrimes(b)
      PROVE  TakenOK'
  <2>1. UNCHANGED bobVars /\ req[b] = "read"
    BY <1>5 DEF StoreAPrimes
  <2>2. bob[b] = "choosing"
    BY <2>1, ProxyServesChoosing
  <2>3. \A d \in Bobs : bob[d] # "halfread"
    BY <2>2 DEF OneExchange, InExchange, Over
  <2>4. QED
    BY <2>1, <2>3 DEF TakenOK, bobVars, Torn, Served, HasRead
<1>6. ASSUME UNCHANGED <<bob, choiceErr, taken, aPrimes>>
      PROVE  TakenOK'
  BY <1>6 DEF TakenOK, Torn, Served, HasRead
<1>7. ASSUME NEW b \in Bobs, AliceStep(b) \/ StoreLPrime(b)
      PROVE  TakenOK'
  BY <1>6, <1>7
  DEF AliceStep, AliceRefuses, AliceHandles, AliceCalls, AliceAnswers,
      AliceReplies, StoreLPrime, bobVars, proxyVars
<1>8. CASE UNCHANGED vars
  BY <1>6, <1>8 DEF vars, bobVars, proxyVars
<1>9. QED
  BY <1>1, <1>2, <1>3, <1>4, <1>5, <1>7, <1>8
  DEF Next, BobStep, ProxyStep, Finished

\* One exchange after the other, until two of them have failed.
THEOREM OneByOneInvariance ==
  ASSUME OneByOne, Patient PROVE Spec => []OneByOneInv
<1>1. Init => OneByOneInv
  BY DEF Init, Nested!Init, Nested!Pool!Init, OneByOneInv, OneExchange,
         InExchange, AllSettled, PastChoosing, LateCalls, PairOK, TakenOK,
         Torn, Served, HasRead, Over
<1>2. Ground /\ Ground' /\ OneByOneInv /\ [Next]_vars => OneByOneInv'
  BY OneExchangeNext, FailuresStay, AllSettledNext, LateCallsNext, PairNext,
     TakenNext
  DEF OneByOneInv, Ground
<1>3. Spec => []Ground
  BY StagesInvariance, CallsInvariant, ContextsInvariant, PTL DEF Ground
<1>4. QED
  BY <1>1, <1>2, <1>3, PTL DEF Spec

\* A Bob who was told of no error decrypts his file from what he reads in the
\* shared context (node_test.go:459-475), however many Bobs there are before
\* and after him, unless the exchanges of two other Bobs have failed.
THEOREM ServedBobDecrypts ==
  ASSUME OneByOne, Patient PROVE Spec => []ServedDecrypts
<1>1. StagesInv /\ OneByOneInv => ServedDecrypts
  <2> SUFFICES ASSUME StagesInv, OneByOneInv, NEW b \in Bobs, Served(b),
                      HasRead(b), bob[b] # "decrypted"
               PROVE  \E d \in Bobs \ {b} : RefusedAfterTimeout(d)
    BY DEF ServedDecrypts
  <2>1. PICK d \in Bobs : RefusedAfterTimeout(d)
    BY DEF OneByOneInv, TwoFailures, TakenOK
  <2>2. werr[b] = "nil" /\ werr[d] = "exists"
    BY <2>1 DEF StagesInv, TypeOK, StagesOK, Served, RefusedAfterTimeout
  <2>3. QED
    BY <2>1, <2>2
<1>2. QED
  BY <1>1, StagesInvariance, OneByOneInvariance, PTL

\* The pair a Bob reads in two steps is never made of the halves of two
\* exchanges, though they are stored in two steps (node_test.go:257-258, 462-
\* 463), until Alice's pool has refused the call for a Bob after another had
\* given up.
THEOREM TornAfterFailures ==
  ASSUME OneByOne, Patient PROVE Spec => []TornNeedsTwoFailures
<1>1. OneByOneInv => TornNeedsTwoFailures
  BY DEF OneByOneInv, TwoFailures, TakenOK, TornNeedsTwoFailures
<1>2. QED
  BY <1>1, OneByOneInvariance, PTL
==============================================================================
