----------------------------- MODULE ThreeParty ------------------------------
(***************************************************************************)
(* The exchange of node/node_test.go between Bob, Alice and the proxy,     *)
(* once Alice has encrypted and uploaded her files.  Bob sends his choice  *)
(* to Alice, whose handler makes a nested call to the proxy before it      *)
(* answers.  The proxy leaves what it computes in the context the parties  *)
(* share, APrimes first and LPrime second.  Bob takes both from there and  *)
(* decrypts.  Alice and the proxy serve every Bob; a Bob runs one exchange *)
(* and names it.  What OtPre computes is here the exchange it belongs to:  *)
(* Bob's decryption succeeds when both values are of his own exchange.     *)
(* The test makes new parties and a new context for each exchange: that is *)
(* the instance with one Bob.  With more, the parties and the context stay *)
(* in use.                                                                 *)
(***************************************************************************)
CONSTANTS
  Bobs,       \* the receivers
  None,       \* no exchange
  OneByOne,   \* a Bob starts once no other is in an exchange
  Patient,    \* a context outlives every answer that can still arrive
  Reliable    \* no stream fails

ASSUME PartiesAssumption ==
  None \notin Bobs /\ {OneByOne, Patient, Reliable} \subseteq BOOLEAN

VARIABLES
  bob,        \* where each Bob is
  choice,     \* Bob's choice: its request, Alice's handler, her answer
  choiceErr,  \* the error that SendChoice returns to Bob
  proxy,      \* the proxy's handler for each exchange
  aPrimes,    \* ctxAPrimePoints, by the exchange that stored it
  lPrime,     \* ctxLPrime, by the exchange that stored it
  taken,      \* the pair each Bob has read from the context
  call, req, rsp, handled, writer, readers, m, buf, closed, wpc, werr, got,
  ctxDone, ppc, target, panicked   \* Alice's calls to the proxy

bobVars == <<bob, choice, choiceErr, taken>>
proxyVars == <<proxy, aPrimes, lPrime>>
nestedVars == <<call, req, rsp, handled, writer, readers, m, buf, closed, wpc,
                werr, got, ctxDone, ppc, target, panicked>>
vars == <<bobVars, proxyVars, nestedVars>>

\* Alice's SendReEncrypt for each Bob, all through her one PreClient.
Nested == INSTANCE RequestReply WITH
            Calls <- Bobs,
            Kind <- [b \in Bobs |-> "reencrypt"],
            Fields <- [b \in Bobs |-> {"cid", "lpp", "reKeys", "txid"}],
            Serial <- FALSE

Init ==
  /\ bob = [b \in Bobs |-> "start"]
  /\ choice = [b \in Bobs |-> "none"]
  /\ choiceErr = [b \in Bobs |-> "none"]
  /\ taken = [b \in Bobs |-> <<None, None>>]
  /\ proxy = [b \in Bobs |-> "idle"]
  /\ aPrimes = None
  /\ lPrime = None
  /\ Nested!Init

\* An exchange is over; in "unsent" no choice was ever sent.
Over == {"decrypted", "failed", "crashed", "unsent"}

----------------------------------------------------------------------------
(* Bob sends his choice.  His is a lone call on his OtClient: it ends with *)
(* Alice's answer or with the end of its context.                          *)

MayBegin(b) ==
  /\ bob[b] = "start"
  /\ OneByOne => \A d \in Bobs : bob[d] \in {"start"} \cup Over

\* SealChoice gets no random scalar: sendChoice returns the error, and the
\* exchange ends.
SealChoiceFails(b) ==
  /\ MayBegin(b)
  /\ bob' = [bob EXCEPT ![b] = "unsent"]
  /\ UNCHANGED <<choice, choiceErr, taken, proxyVars, nestedVars>>

SendChoice(b) ==
  /\ MayBegin(b)
  /\ bob' = [bob EXCEPT ![b] = "choosing"]
  /\ \/ choice' = [choice EXCEPT ![b] = "asked"]
     \/ ~Reliable /\ choice' = [choice EXCEPT ![b] = "lost"]
  /\ UNCHANGED <<choiceErr, taken, proxyVars, nestedVars>>

\* sendChoice drops the error of the call and returns nil: Bob goes on.
ChoiceReturns(b, err) ==
  /\ bob[b] = "choosing"
  /\ choiceErr' = [choiceErr EXCEPT ![b] = err]
  /\ bob' = [bob EXCEPT ![b] = "downloading"]

ChoiceAnswered(b) ==
  /\ choice[b] \in {"ok", "refused"}
  /\ ChoiceReturns(b, IF choice[b] = "ok" THEN "nil" ELSE "refused")
  /\ UNCHANGED <<choice, taken, proxyVars, nestedVars>>

\* Alice can still answer.  Her own context is armed after Bob's and for as
\* long: when no answer comes to her nested call, his context ends first.
AnswerInTime(b) ==
  /\ ~panicked
  /\ \/ choice[b] \in {"asked", "ok", "refused"}
     \/ /\ choice[b] = "handling"
        /\ \/ call[b] = "new" \/ Nested!AnswerPending(b)
           \/ buf[b] # None \/ got[b] # None \/ Nested!Returned(b)

\* Faulty variant: the context has no timeout.
ChoiceTimesOutUnarmed(b) == FALSE /\ ChoiceReturns(b, "timeout")

ChoiceTimesOut(b) ==
  /\ Patient => ~AnswerInTime(b)
  /\ ChoiceReturns(b, "timeout")
  /\ UNCHANGED <<choice, taken, proxyVars, nestedVars>>

----------------------------------------------------------------------------
(* Alice: OnChoiceRequest                                                  *)

\* Her answer, whose stream may fail.
AliceReplies(b, answer) ==
  /\ \/ choice' = [choice EXCEPT ![b] = answer]
     \/ ~Reliable /\ choice' = [choice EXCEPT ![b] = "lost"]
  /\ UNCHANGED <<bob, choiceErr, taken, proxyVars, nestedVars>>

\* CalculateKeyPoints gets no random scalar: the handler returns the error and
\* calls nobody.
AliceRefuses(b) ==
  /\ ~panicked
  /\ choice[b] = "asked"
  /\ AliceReplies(b, "refused")

\* She computes the key points and the re-encryption keys.
AliceHandles(b) ==
  /\ ~panicked
  /\ choice[b] = "asked"
  /\ choice' = [choice EXCEPT ![b] = "handling"]
  /\ UNCHANGED <<bob, choiceErr, taken, proxyVars, nestedVars>>

\* SendReEncrypt and its answer, but for the work of the proxy's handler.  The
\* answer still arrives when the call is over.
AliceCalls(b) ==
  /\ \/ choice[b] = "handling" /\ Nested!SendStep(b)
     \/ Nested!WaitStep(b) \/ Nested!CtxDone(b)
     \/ Nested!ServerRead(b) \/ Nested!ServerReadFails(b)
     \/ Nested!ServerReply(b) \/ Nested!ServerReplyFails(b)
     \/ Nested!ResponseStep(b)
  /\ UNCHANGED <<bobVars, proxyVars>>

\* Faulty variant: the result of SendReEncrypt is not looked at.
AliceAnswersBlindly(b) ==
  /\ ~panicked
  /\ choice[b] = "handling"
  /\ Nested!Returned(b)
  /\ AliceReplies(b, "ok")

AliceAnswers(b) ==
  /\ ~panicked
  /\ choice[b] = "handling"
  /\ Nested!Returned(b)
  /\ AliceReplies(b, IF werr[b] = "nil" THEN "ok" ELSE "refused")

----------------------------------------------------------------------------
(* The proxy: OnReEncryptRequest                                           *)

\* Faulty variant: the handler returns without the second SetValue.
StoreAPrimesOnly(b) ==
  /\ proxy[b] = "idle"
  /\ proxy' = [proxy EXCEPT ![b] = "half"]
  /\ aPrimes' = b
  /\ Nested!ServerHandle(b)
  /\ UNCHANGED <<lPrime, bobVars>>

\* SetValue(ctxAPrimePoints, APrimes)
StoreAPrimes(b) ==
  /\ req[b] = "read"
  /\ proxy[b] = "idle"
  /\ proxy' = [proxy EXCEPT ![b] = "half"]
  /\ aPrimes' = b
  /\ UNCHANGED <<lPrime, bobVars, nestedVars>>

\* SetValue(ctxLPrime, args.LPrime), and the return to the request handler.
StoreLPrime(b) ==
  /\ proxy[b] = "half"
  /\ proxy' = [proxy EXCEPT ![b] = "stored"]
  /\ lPrime' = b
  /\ Nested!ServerHandle(b)
  /\ UNCHANGED <<aPrimes, bobVars>>

----------------------------------------------------------------------------
(* Bob downloads and decrypts                                              *)

\* SendDownloadRequest, a lone call that changes nothing at the proxy.
Download(b) ==
  /\ bob[b] = "downloading"
  /\ \E end \in {"reading", "failed"} : bob' = [bob EXCEPT ![b] = end]
  /\ UNCHANGED <<choice, choiceErr, taken, proxyVars, nestedVars>>

\* ctxAPrimePoints; the type assertion panics when nothing is stored.
ReadAPrimes(b) ==
  /\ bob[b] = "reading"
  /\ taken' = [taken EXCEPT ![b][1] = aPrimes]
  /\ bob' = [bob EXCEPT ![b] = IF aPrimes = None THEN "crashed" ELSE "halfread"]
  /\ UNCHANGED <<choice, choiceErr, proxyVars, nestedVars>>

\* ctxLPrime, likewise, and the decryption.
ReadLPrime(b) ==
  /\ bob[b] = "halfread"
  /\ taken' = [taken EXCEPT ![b][2] = lPrime]
  /\ bob' = [bob EXCEPT ![b] =
       CASE lPrime = None -> "crashed"
         [] lPrime = b /\ taken[b][1] = b -> "decrypted"
         [] OTHER -> "failed"]
  /\ UNCHANGED <<choice, choiceErr, proxyVars, nestedVars>>

----------------------------------------------------------------------------
BobStep(b) ==
  \/ SealChoiceFails(b) \/ SendChoice(b)
  \/ ChoiceAnswered(b) \/ ChoiceTimesOut(b)
  \/ Download(b) \/ ReadAPrimes(b) \/ ReadLPrime(b)

AliceStep(b) ==
  AliceRefuses(b) \/ AliceHandles(b) \/ AliceCalls(b) \/ AliceAnswers(b)

ProxyStep(b) == StoreAPrimes(b) \/ StoreLPrime(b)

\* Every Bob has got to the end of his exchange.
Finished == (\A b \in Bobs : bob[b] \in Over) /\ UNCHANGED vars

Next == \/ \E b \in Bobs : BobStep(b) \/ AliceStep(b) \/ ProxyStep(b)
        \/ Finished

Spec == Init /\ [][Next]_vars

\* Runnable goroutines run, contexts end, streams succeed or fail.
Fairness ==
  \A b \in Bobs :
    /\ WF_vars(BobStep(b))
    /\ WF_vars(AliceStep(b))
    /\ WF_vars(ProxyStep(b))

FairSpec == Spec /\ Fairness

----------------------------------------------------------------------------
(* Properties                                                              *)

\* The state is well formed, the proxy answers what it has stored, and a Bob
\* who was told of no error was told so by Alice (node_test.go:257-260, 519).
TypeOK ==
  /\ bob \in [Bobs -> {"start", "choosing", "downloading", "reading",
                        "halfread"} \cup Over]
  /\ choice \in [Bobs -> {"none", "asked", "handling", "ok", "refused", "lost"}]
  /\ choiceErr \in [Bobs -> {"none", "nil", "refused", "timeout"}]
  /\ proxy \in [Bobs -> {"idle", "half", "stored"}]
  /\ aPrimes \in Bobs \cup {None} /\ lPrime \in Bobs \cup {None}
  /\ taken \in [Bobs -> (Bobs \cup {None}) \X (Bobs \cup {None})]
  /\ \A b \in Bobs :
       /\ proxy[b] = "stored" <=> b \in handled
       /\ choiceErr[b] = "nil" => choice[b] = "ok"

Served(b) == choiceErr[b] = "nil"
HasRead(b) == bob[b] \in {"decrypted", "crashed"} \/ taken[b][2] # None

\* Alice's call for a Bob was refused by her pool, and another Bob has given up:
\* her call for one who had was still open.  The refused call's request runs on.
RefusedAfterTimeout(d) ==
  werr[d] = "exists" /\ \E e \in Bobs \ {d} : choiceErr[e] = "timeout"

\* A Bob whose choice returned no error decrypts his file, if he downloads it:
\* the pair he reads is the one computed for him (node_test.go:459-475).  Only
\* what two other Bobs' failed exchanges have left behind can get in his way.
ServedDecrypts ==
  \A b \in Bobs : Served(b) /\ HasRead(b) =>
    bob[b] = "decrypted" \/ \E d \in Bobs \ {b} : RefusedAfterTimeout(d)

Torn(b) == None \notin {taken[b][1], taken[b][2]} /\ taken[b][1] # taken[b][2]

\* The pair is stored in two steps and read in two (node_test.go:257-258 and
\* 462-463).  A Bob reads the halves of two exchanges only after two failures.
TornNeedsTwoFailures ==
  \A b \in Bobs : Torn(b) => \E d \in Bobs : RefusedAfterTimeout(d)

\* A Bob whose choice failed goes on, since the error is dropped (node_test.go:
\* 519-521).  Once one Bob has been served, he reads old values rather than
\* ending in a failed type assertion.
NoCrashOnceServed ==
  [][(\E d \in Bobs : Served(d)) =>
       \A b \in Bobs : bob'[b] = "crashed" => bob[b] = "crashed"]_vars

\* Every Bob gets to the end of his exchange (node_test.go:316-352), through a
\* nested call that may lose its request or its answer.
BobFinishes == \A b \in Bobs : <>(bob[b] \in Over)

----------------------------------------------------------------------------
(* The inductive invariants behind the safety properties                   *)

\* Where Bob, Alice and the proxy are agrees, for any parties and contexts.
StagesOK ==
  \A b \in Bobs :
    /\ choiceErr[b] = "none" <=> bob[b] \in {"start", "unsent", "choosing"}
    /\ choice[b] = "none" <=> bob[b] \in {"start", "unsent"}
    /\ choice[b] \in {"none", "asked"} => call[b] = "new"
    /\ choice[b] \in {"refused", "lost"} =>
         call[b] = "new" \/ Nested!Returned(b)
    /\ choice[b] = "ok" => Nested!Returned(b) /\ werr[b] = "nil"
    /\ choiceErr[b] = "refused" => choice[b] = "refused"
    /\ proxy[b] = "half" => req[b] = "read"
    /\ proxy[b] # "idle" => aPrimes # None
    /\ proxy[b] = "stored" => lPrime # None
    /\ bob[b] = "halfread" => taken[b][1] # None

StagesInv == TypeOK /\ StagesOK

TwoFailures == \E d \in Bobs : RefusedAfterTimeout(d)
PastChoosing(b) == bob[b] \notin {"start", "unsent", "choosing"}
InExchange(b) == bob[b] \notin {"start"} \cup Over

OneExchange ==
  \A b, d \in Bobs : InExchange(b) /\ InExchange(d) => b = d

\* When a Bob's choice has returned, his answer has found its call or will find
\* none, and when the client that is Alice has panicked there is no request
\* left: the proxy is done with both.
Settled(b) ==
  IF call[b] = "new" THEN choice[b] \in {"lost", "refused"}
  ELSE /\ req[b] = "over" /\ rsp[b] # "sent"
       /\ rsp[b] = "read" => ppc[b] \in {"unlock", "done"}

AllSettled ==
  /\ ~panicked => \A b \in Bobs : PastChoosing(b) => Settled(b)
  /\ panicked => \A b \in Bobs : req[b] \in {"none", "over"}

\* An answer meets its own call, or that of a Bob who has given up; and a call
\* that is refused is that of such a Bob.
LateCalls ==
  /\ \A b \in Bobs : target[b] \notin {None, b} =>
       choiceErr[target[b]] = "timeout"
  /\ \A b \in Bobs : werr[b] = "exists" => choiceErr[b] = "timeout"

\* The pair is of one exchange, but while the proxy is between its two halves;
\* and it is that of the Bob who is in an exchange, once he has been served.
PairOK ==
  /\ aPrimes # lPrime => aPrimes # None /\ proxy[aPrimes] = "half"
  /\ \A b \in Bobs :
       proxy[b] = "half" \/ (proxy[b] = "stored" /\ bob[b] \notin Over) =>
         aPrimes = b

\* What a Bob has read is of one exchange, his own if he has been served.
TakenOK ==
  \A b \in Bobs :
    /\ bob[b] \in {"start", "choosing", "downloading", "reading"} =>
         taken[b] = <<None, None>>
    /\ bob[b] = "halfread" => taken[b] = <<aPrimes, None>>
    /\ ~Torn(b)
    /\ Served(b) /\ HasRead(b) => bob[b] = "decrypted"

\* One exchange after the other, until two of them have failed.
OneByOneInv ==
  /\ OneExchange
  /\ TwoFailures \/ (AllSettled /\ LateCalls /\ PairOK /\ TakenOK)
=============================================================================
