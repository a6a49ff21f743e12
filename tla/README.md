# A TLA+ model of proxyot

proxyot lets Alice sell one of several encrypted files to Bob through a proxy:
Bob hides his choice from Alice (oblivious transfer), Alice derives re-encryption
keys from it, the proxy re-encrypts, and Bob can decrypt the file he chose and no
other. The program is a Go library of cryptographic packages (`ot`, `pre`,
`chash`, `merkle`, `curve`, `fileobj`), a libp2p request/response layer
(`node/protocol`) that carries the exchange between the three nodes, and tests
and benchmarks that put the parts together.

The modules here model the layer that has concurrency and failures,
`node/protocol`, the messages that it carries down to their bytes, the exchange of
the three parties over it, the algebra of the exchange (`ot`, `pre`), the ciphering of
the files, and the storage experiment (`fileobj`, `chash`, `merkle`). TLC checks them
on small instances. TLAPS proves for every instance every safety property that the passing
runs check: of the message pool, of the calls over it and the refinement of their
abstract specification, of what one call carries, of the three-party exchange and its
algebra, of the storage experiment and of the ciphering; and of the eight messages, of
any content and length, what a reader makes of their bytes. Three runs show where the
program disagrees with its own tests and comments.

## Inventory

| Component | State | Operations | Interacts with | What makes it correct |
|---|---|---|---|---|
| **Message pool** `node/protocol/protocol.go:73-118` | map from response protocol to a channel of capacity 1, under an RWMutex | `Wait`, `Push`, each in a goroutine of its own | client stubs call `Wait`, response handlers call `Push` | a message reaches the call it found; no nil message; no call touches another's slot; nobody hangs; no panic |
| **Clients and servers** `storage.go`, `pre.go`, `ot.go`, `protocol.go:120-151` | the streams of requests and answers, one pool per client | `Send*`, `on*Request`, `on*Response`, `sendProtoMsg`, `readMsgFromStream` | libp2p streams, the pool, the node's `On*Request` | a call returns; it succeeds only with its own answer after its own execution; at most one execution |
| **Protocol errors** `protocol.go:24-71` | none | constructors, `Code`, `Msg`, `IsNil` | carried in answers by code and text | the caller gets the code and the text of the server's node; no error turns into a success |
| **Base node** `node/node.go` | a libp2p host | `NewStream`, `SetStreamHandler` | the clients and servers | delegates only |
| **Messages** `node/protocol/pb` | none | `Size`, `MarshalTo`, `Unmarshal` of eight messages, `skipMsg` | `sendProtoMsg`, `readMsgFromStream` | what is read is what was written, at every length, in any order of fields, with unknown fields kept; what was cut is not taken for something else |
| **Three-party exchange** `node/node_test.go` | a context shared by the three nodes, three nodes with their clients and servers | `uploadFiles`, `sendChoice`, `OnChoiceRequest`, `OnReEncryptRequest`, download and `decryptFile` | every component | Bob decrypts the file he chose, also when exchanges overlap or fail half-way |
| **Oblivious transfer** `ot/ot.go` | none | `SealChoice`, `CalculateKeyPoints`, `RevealKeyPoint` | `curve` | exactly the chosen key point equals the revealed one |
| **Proxy re-encryption** `pre/pre.go` | none | `Encrypt`, `GenerateReKey`, `ReEncrypt`, `DecryptBy*` | `curve`, ciphering | both decryptions recover the key of the encryption |
| **Ciphering** `pre/ciphering.go` | the reader a closure has consumed | encrypt and decrypt closures, padding | `pre` | decryption inverts encryption; short or altered texts are refused |
| **Chameleon hash** `chash/chameleon.go` | none | `ComputeHash`, `Verify`, `ComputeCollision` | `curve` | a collision has the same hash, repeatedly |
| **Merkle tree** `merkle/merkle.go` | none | `NewTree` | | roots of different leaf sequences of a length differ |
| **File objects** `fileobj` | data, sizes, block count | `GetBlock`, `SetBlock` | `bench` | both implementations agree, also at a partial last block |
| **Curve** `curve` | none | group operations, random and derived field elements | a bn256 library | group laws (the library's) |
| **Benchmarks** `bench` | counters | sequential measurements | every package | none of their own |

The hard behaviours are in the first two rows and in the three-party exchange:
goroutines that interleave inside the pool, streams that fail with the work done
or undone, contexts that end while an answer is on its way, calls that overlap.
PROJECT.json lists them one by one under `hazards`, each at its line.

## Modules

| Module | What it is |
|---|---|
| `MessagePool` | the pool, at the grain of locks, channel operations and selects |
| `MessagePool_proofs` | the inductive invariant and the safety theorems |
| `MCMessagePool` | an instance for TLC |
| `Rpc` | what a caller hopes for: an at-most-once remote call (abstract) |
| `RequestReply` | a client's calls, the server's handlers and the streams between them, over an instance of `MessagePool` |
| `RequestReply_proofs` | the inductive invariants, the safety theorems for any, for serial and for patient calls, and the refinement of `Rpc` |
| `MCRequestReply` | instances for TLC |
| `Varint` | the integers of the wire: bytes of seven bits, their number, widths |
| `Fields` | a field on the wire: tag, number, string or bytes, and the reading of each |
| `Messages` | `MarshalTo`, `Size` and `Unmarshal` of the eight messages, and `skipMsg` |
| `Messages_proofs` | a message is read as it was written: whole, in any order, with a field of a later version, or up to where it was cut |
| `Handlers` | what one call carries: arguments, message, bytes, checks, answer, result |
| `Handlers_proofs` | the inductive invariant and the safety theorems, over those of `Messages_proofs` |
| `MCHandlers` | an instance for TLC |
| `ThreeParty` | Bob's choice, Alice's handler with its nested call, the proxy and the shared context, over an instance of `RequestReply` |
| `ThreeParty_proofs` | the inductive invariants and the safety theorems, over those of `RequestReply_proofs` |
| `MCThreeParty` | an instance for TLC |
| `Curve` | the points of `curve` by their discrete logarithms, over any field |
| `OtPre` | what `ot` and `pre` compute, and the exchange that puts them together |
| `OtPre_proofs` | the inductive invariant and the correctness theorems |
| `MCOtPre` | the integers modulo a small prime, for TLC |
| `Ciphering` | the closures of `pre/ciphering.go`: padding, lengths, MAC, calls again |
| `Ciphering_proofs` | the inductive invariant and the safety theorems |
| `MCCiphering` | an instance for TLC |
| `ChameleonHash`, `Merkle`, `FileObj` | the packages `chash`, `merkle` and `fileobj` as operators |
| `CloudStorage` | the storage experiment of `bench/bench_cs.go`, which puts these three together |
| `CloudStorage_proofs` | the inductive invariant and the theorems about hashes, files and the tree |
| `MCCloudStorage` | the integers modulo a small prime and small files, for TLC |

### MessagePool

Each call of `Wait` is a *waiter* `w`, which also names the channel it makes; each
call of `Push` is a *pusher* `p`, which also names the message it carries.

| Variable | Code |
|---|---|
| `writer`, `readers` | `mp.l`: the goroutine inside `Lock` (announced or holding it) and those that hold `RLock` |
| `m` | `mp.m` |
| `buf`, `closed` | the channels: the buffered message, and whether it was closed |
| `wpc`, `werr`, `got` | where a `Wait` is, the error and the message it returns |
| `ctxDone` | the contexts that have ended |
| `ppc`, `target` | where a `Push` is, and the channel it found |
| `panicked` | a send on, or close of, a closed channel has ended the process |

| Action | Code |
|---|---|
| `WaitLock`, then `WaitRefused` or `WaitRegister` | lines 83-90: the critical section is one step, begun when the lock is free of readers |
| `SelectTimeout`, `SelectReceive` | the two cases of the select, 98-104; a closed empty channel yields nil |
| `DeferLock`, `DeferDelete` | the deferred function, 92-96 |
| `PushLookup` | `RLock` and the map lookup, 108-114 |
| `PushSend`, `PushClose`, `PushPanic` | lines 115-116; a send blocks on a full buffer and panics, even when blocked, once the channel is closed |
| `PushRUnlock` | the deferred `RUnlock` and the return |

`Lock` is two steps: an announcement that excludes other writers and holds back
new readers, then the wait for the readers inside to leave, as in `sync.RWMutex`.
Reads and writes inside a critical section are one step with the lock's
acquisition, which no other goroutine can tell from separate steps.

### RequestReply

A call `c` also names its request and its answer. The module instantiates
`MessagePool` with the calls as waiters and as pushers: the pusher `c` is the
response handler that carries the answer to `c`. `WaitOn` and `PushTo` are the
kind of the call, that is the response protocol.

| Action | Code |
|---|---|
| `Send`, `SendFails` | `NewStream` and `WriteMsg` of `sendProtoMsg` (130-141); the result is ignored by every caller, so a failed send waits too |
| `FullClose`, `FullCloseFails` | line 143: waits for the server to close its half, which it does after reading and before handling; a failure resets the stream |
| `ServerRead`, `ServerReadFails` | `readMsgFromStream` and `s.Close()` or `s.Reset()` in the request handlers |
| `ServerReject` | the early returns of the field checks, without an answer |
| `ServerHandle` | the node's `On*Request` |
| `ServerReply`, `ServerReplyFails` | `sendProtoMsg` of the response; its result is ignored ("TODO: response failed ?") |
| `ResponseRead`, `ResponseReadFails` | `readMsgFromStream` in the response handlers |
| `WaitStep`, `PushStep`, `CtxDone` | the pool's steps; the context is armed before the send and may end during it |

`Required` lists, per kind of request, the fields the server's handler decodes
before it calls the node (storage.go:64-74 and 105-121, pre.go:56-80,
ot.go:55-76). For a download these are both the owner and the transaction, of which
msg.proto:43-44 asks for either (`DownloadProceeds`). What a field holds is left out, as is the error code of an answer.

Three constants state how the client is used: `Serial` (no call starts while one
of its kind is under way), `Patient` (a context does not end while the call's
answer can still arrive) and `Reliable` (no stream fails). No run but `lost_answer` and
`sole_downloads`, which document disagreements, assumes `Reliable`. The client's panic ends the
client; the server goes on.

`Rpc` is the abstract remote call. The refinement mapping takes the status of a
call from `call`, `wpc`, `werr` and `got` (a call that returned somebody else's
answer maps to no state of `Rpc`), and the executions from `handled`.

### Varint, Fields, Messages and Handlers

`RequestReply` leaves open what a request holds and what its answer says. `Handlers`
takes a single call, without the pool, and leaves nothing of that open. `Messages` has
for each of the eight messages its `MarshalTo`, `Size` and `Unmarshal`. The first gives
a piece of bytes per field (`Fields`); the last is `Decode` with the cases of the switch.
`ReadField` is one turn of the loop that all eight share: tag, checks, switch. `Turns`
says what has been read after each number of turns, `LastTurn` when the loop ends.
`skipMsg` and its groups, which call one another, are one function of the positions
(`Skips`). `Unmarshal` returns the set of messages that the bytes decode to, one or none, and so
do the decoders of the libraries. `Written` is the buffer that the writer of
`sendProtoMsg` sends: as long as `Size` says, with what `MarshalTo` wrote.

An integer is the sequence of its digits in base 128 (`Varint`), since a uint64 is more
than TLC's integers hold. `Low` cuts it to the bits of its Go type. Streams are shorter
than 128^4 bytes, so that a length of more than four digits always goes past the end;
`Texts` bounds the texts of a node's answers by that length.

| Variable | Code |
|---|---|
| `call`, `result` | the arguments of a client's `Send*`, and what it returns |
| `stream` | the message under way and the bytes that `ioutil.ReadAll` will give |
| `how` | what became of the stream of the request and of the response |
| `passed`, `answer` | the arguments and the result of the node's `On*Request` |
| `pc` | where the call is; `lost` when a handler has returned without an answer |

| Action | Code |
|---|---|
| `SendChoice`, `SendReEncrypt`, `SendUploadRequest`, `SendDownloadRequest` | the client's calls up to `sendProtoMsg` |
| `OnChoiceRequest` ... `OnDownloadRequest` | the server's handlers: `readMsgFromStream`, the checks, the node's answer, `sendProtoMsg`; or an early return |
| `OnChoiceResponse` ... `OnDownloadResponse` | the client's response handler, and the rest of the call, which turns code and text into an error |
| `CallTimesOut` | the call's return when no answer comes |
| `LaterVersion`, `OtherOrder`, `EndsEarly` | what may become of a stream |

Protocol buffers promise that a reader copes with fields in any order and with fields
that it does not know, and `skipMsg` and `XXX_unrecognized` are there for it; hence the
first two disturbances. The second takes any order that leaves the elements of a
repeated field in theirs (`Orders`). The third is what the program's framing rests on: a message has
no length of its own and ends where the stream does (`ioutil.ReadAll`, protocol.go:122),
so that a stream that is closed early gives the reader a shorter message, not an error.
This program's own sender resets a stream that it could not write, which its reader sees
as an error (`ServerReadFails` and `ResponseReadFails` of `RequestReply`); the cut is
for a peer, or a transport on a lost connection, that ends it instead.

The encodings of the libraries are external: a point of G1 is 64 bytes and one of G2
129, an identifier 46 characters, each kept apart from the others by the byte that is
repeated. `cid.Undef` encodes to a text that does not decode. A decoder of points
ignores bytes that follow the point, as bn256's does, and one of identifiers does not.
A nil slice and an empty one are the same here: no code tells them apart.

`SendUploadRequest` and `SendDownloadRequest` return a nil error for the code of a success
(storage.go:196-200, 214-218) and so lose its text, which `SendChoice` and
`SendReEncrypt` keep. `AnswerExact` says so.

### ThreeParty

The exchange of `performNodesInteraction` (node_test.go:316-352) for several Bobs.
A Bob names his exchange. `OtPre` says what is computed in one exchange. Here a
stored value is only the exchange that stored it, and a decryption succeeds when
both values Bob reads are of his own exchange.

| Action | Code |
|---|---|
| `SealChoiceFails` | the error of `SealChoice`, which `sendChoice` does return (504-507): the exchange is over and nothing was sent, `"unsent"` |
| `SendChoice`, `ChoiceAnswered`, `ChoiceTimesOut` | Bob's call of `SendChoice`, whole: each Bob makes one, so that only its outcome matters. `sendChoice` drops its error (519-521), so every outcome leads on |
| `AliceRefuses` | the error of `CalculateKeyPoints` (170-173): Alice answers without a nested call |
| `AliceHandles`, `AliceAnswers` | `OnChoiceRequest` before and after its nested call (170-203) |
| `AliceCalls` | the steps of `SendReEncrypt`, from the instance of `RequestReply` with the Bobs as calls of one kind: all go through Alice's one `PreClient` |
| `StoreAPrimes`, `StoreLPrime` | the two `SetValue` calls of `OnReEncryptRequest` (257-258); the second ends the handler, which is `ServerHandle` of the nested call |
| `Download` | `SendDownloadRequest`, which may fail (331-334) |
| `ReadAPrimes`, `ReadLPrime` | the two reads in `decryptFile` (462-463); the type assertion panics when nothing is stored |

`performNodesInteraction` makes three new nodes and a new context for each exchange
(`makeThreeParty`, line 289): of this module, that is the instance with one Bob. With
several, Alice, the proxy and the context stay in use from one exchange to the next,
which is what the nodes' handlers, clients and pools are written for and what no test
tries. `OneByOne` is the mildest such use: a Bob starts when no other Bob is in an
exchange. Alice and the proxy may still be at work for one who has given up, since
his context ends before Alice's. `Patient` makes a context outlive every answer that
can still come, to Bob as to Alice.

`ServedDecrypts` and `TornNeedsTwoFailures` have an exception, `RefusedAfterTimeout`. A
Bob gives up while Alice's call for him is open. Her call for a second Bob is then
refused by her pool, but its request is under way all the same, and she tells him of
the refusal. That request may store its pair at any later time, under a third Bob's
reads, although he was served. Two Bobs are not enough for a third to meet it: the
exception was found with three, while the invariant for the proof was sought.

### Curve and OtPre

G1, G2 and GT have the same prime order, so the point kG is the scalar k, the
addition of points is `Plus`, a multiplication by a scalar is `Times`, and so is the
pairing. `Curve` states the laws of a field as assumptions, which TLC evaluates for
the instance and from which the proofs start. `Derive` (the hash of a point) is any
function to non-zero scalars.

The stages of `OtPre` are the calls of `shareMessages` (bench/proxyot.go:301-331) and
of node_test.go: `EncryptFiles`, `SealChoice`, `CalculateKeyPoints`,
`GenerateReKeys`, `ReEncryptFiles`, `DecryptFiles`, and again from `SealChoice` with
the same ciphertexts and keys. Every random scalar and every choice, also of a file
that does not exist, is taken. The symmetric key under which a file is ciphered is
the point rGT, `FileKey`. The program decrypts one file; the model tries Bob's key
on all of them, to say what he cannot open.

What is left open: secrecy. `OneKeyPoint` and `OpensChosenOnly` say what the
computations of the exchange give, not what a party could compute otherwise.

### Ciphering

`EncryptCall` and `DecryptCall` are one call each of the closures of
`NewEncryptClosure` and `NewDecryptClosure`. Their state is what is left in the
reader they were given, which a call leaves at its end, and what they have written.
AES and HMAC are ideal: the bytes that a call writes are its own, and the MAC of a
text is right when a call wrote just this text under this key. Lengths, padding and
their checks are exact, with the block and MAC sizes of the code. `Receive` stands
for what is between the two closures, external to the code: the text arrives
whole, cut at either end, or altered in one byte. Failures of the reader, the writer
and the random source are left out; each ends the call before it writes.

The comment on `errInputTooShort` (ciphering.go:26-27) speaks of 134 bytes, while the
check is for the 64 of a vector, a block and a MAC (line 87). The run `short_text` shows
the difference. The code's bound is the right one: it is what a text of an empty
plaintext has.

### ChameleonHash, Merkle, FileObj and CloudStorage

`ChameleonHash` computes over the scalars of `Curve`; a SHA-256 of a point is any
function without collisions. `CollisionScalar` is lines 39-43. The scalar that the
program returns is not reduced (line 43); every use of it reduces it, and the model's
is reduced from the start. In `Merkle` a SHA-256 is the data that was hashed.
`ComputeLayer`, `Layers` and `NewTree` follow the loops of the code. `TreeOf` says by
position what the tree is to be: each row of nodes above the leaves has twice the span
of the row below, and a node stands for the leaves of its span, as many as there are.
`FileObj` has both implementations of `GetBlock` and the
`SetBlock` of `MemFileObj`.

| Action of `CloudStorage` | Code |
|---|---|
| `SetBlock`, `SetBlockRefused` | `MemFileObj.SetBlock` with any index and data up to a byte longer than a block, before the hashing: a write, or an error that writes nothing (file_mem.go:73-78) |
| `Setup` | the keys and the scalars of the blocks (bench_cs.go:82-95) |
| `HashBlock` | an iteration of the loop over the blocks (98-114) |
| `BuildTree` | 116-123 |
| `UpdateBlock` | an update, 125-133, repeated as in the second figure (222-236); `failed` is its error |

The first figure updates one block once, the second one block many times; the model
updates any block any number of times, always from the digest and scalar that were
hashed, as the second does. The benchmark's files are whole numbers of blocks; the
model's are of any size, for the sake of `fileobj`.

`FileObj.SetBlock` is not modelled. `NewFileObj` opens the file with `os.Open`, hence
read-only ("TODO: support readonly/readwrite mode", file.go:26), so that a write
always fails.

## Runs

| Run | Instance | What it shows |
|---|---|---|
| `pool` | 2 waits, 3 pushes on one protocol; every interleaving, every context may end | `SlotExact` (the deferred delete by name never unregisters another call), `NoNilMessage`, `DeliveredOrTimedOut`, `PanicNeedsSurplus`, `NothingAfterReturn`; `WaitReturns` and `PushReturns`: nobody hangs although a push blocks under the read lock; `SurplusIsFatal`: two pushes that found one channel always end in a panic; and that `IInv` is invariant |
| `calls_patient` | 4 calls of two kinds, `Serial`, `Patient`, failing streams, one malformed request | `ImplementsRpc`, `NoPanic`, `NeverRefused` |
| `calls_serial` | 3 calls of one kind, `Serial`, contexts end at any time | `TroubleNeedsTimeout`: a stale answer or a panic goes back to a timeout |
| `calls_overlap` | 3 overlapping calls of two kinds, one malformed request, nothing assumed | `StreamsOK`, `RightKind`; `CallReturns`: each call returns, also the one whose request is dropped, unless the process panics |
| `exchange` | 2 Bobs, `OneByOne`, `Patient`, failing streams | `ServedDecrypts`: a Bob who was told of no error decrypts, whatever is left over from the other exchange; `TornNeedsTwoFailures`: how the halves of two exchanges can meet; `NoCrashOnceServed`; `BobFinishes` through the nested call |
| `algebra` | scalars modulo 5, 2 files, all keys, choices and random scalars | `OneKeyPoint`, `OpensChosenOnly`, `OwnerOpens`, `TypeOK` |
| `storage` | files of 1 to 5 cells, blocks of 1 or 2, scalars modulo 3; any writes and updates | `ReadBack`: a block reads as it was last written, whatever else was; `FilesAgree`: the two implementations differ in a short last block only; `HashBinds`, `CollisionFound`; `RootBinds`: the tree is the reference tree, and only a collision leaves its root alone |
| `ciphering` | plaintexts of 0, 1, 15, 16, 17 and 32 bytes, 2 keys, up to 2 calls of each closure, a text cut or altered anywhere | `RoundTrip`, also that a second encryption makes the output worthless; `AllOrNothing`: nothing but the plaintext is ever written, and once |
| `messages` | 1 call of each kind with several arguments and answers, each of its two streams whole, cut at any byte, in another order, or with a field of a later version anywhere (at most one of the two) | `ReadExact`: what is read is what was written, and what was cut decodes only between two fields; `NodeGetsArgs`: no cut makes a node act on other arguments, but for an upload's size; `DropsOnlyBroken`: nothing is dropped that was not cut, but for an owner's download without a transaction, which `sole_downloads` shows to be against the comment of the message; `AnswerExact`: an error becomes a success on an empty stream only |
| `lost_answer` | 1 call, everything assumed | violation: a fast answer is dropped |
| `sole_downloads` | 2 downloads, one by its owner alone and one by its txid alone, everything assumed | violation: both are dropped in silence |
| `short_text` | the instance of `ciphering`, with one call of each closure | violation: a text of 64 bytes is decrypted |

**Bounds.** No counter is bounded: the number of goroutines or calls is the only
bound, and each makes one call. Two waiters on a protocol are enough for one to be
refused and for one to follow another; two pushers for a surplus message. Three
give a panic while the third is between its lookup and its send. Calls on two
protocols share the lock and nothing else: the run has one protocol, the proofs any
number, and `calls_overlap` two kinds in one pool. Three serial calls are enough for a stale answer
to be handed on from call to call. Model values are not declared symmetric: the
constants that give kinds to calls tell them apart, and liveness forbids it.
Two Bobs are enough for an exchange to meet what an earlier one left behind or has
under way; for three and more there are the theorems.
Modulo 5 there are four keys and four random scalars, choices that are
ordinals and choices that are not, and two scalars that `Derive` maps to one.
Files of up to five cells in blocks of one or two have one to five blocks, with and
without a short last one, and so trees with an odd node at none, one or two layers.
The digest of a block of two cells takes every scalar modulo 3 and maps two contents
to one. `MaxCalls` bounds the calls of a closure: the first finds a text,
every later one finds nothing. The plaintexts lie on both sides of each bound of a
block, with a last byte that could be a padding (1) and one that could not (200).
In `messages` at most one of a call's two streams is disturbed, and once. The texts have
0, 1, 15, 127 and 128 bytes, the lists up to three re-keys of 129, the numbers 0, 1, 127,
128 and the largest of 32 and 64 bits, so that every varint occurs with one byte, with
more, and with the most there are. The bytes that stand for points and identifiers are
also tags of the messages (10, 34, 81, 98, 129). The fields of a later version have
every wire type, a group in a group, and the largest field number.

**Fairness.** Weak fairness of each goroutine (the Go scheduler runs what is
runnable; the pool's writers are finitely many, so a reader is not locked out
for ever) and of the end of a context: every caller in the repository arms
`time.AfterFunc(replyTimeout, cancel)` before the call (node_test.go:196-197,
330-331, 493-494, 517-518). In `RequestReply` also of each step of a stream, which
succeeds or fails; `FullClose` gives up after a minute. The panics and the
refusals need no fairness. In `ThreeParty` each party's steps are taken together:
its goroutines only ever make progress, so fairness to the party is enough.

**What the runs say of the code.** Used by one caller at a time, with timeouts
longer than any answer takes, the layer is an at-most-once remote call. Outside
of this, three things go wrong, each visible in a counterexample when the
assumption is dropped:

1. An answer can be handed to a later call once a call has timed out, and from
   there on each call of the kind takes its predecessor's answer; two answers
   that meet one waiting call crash the process.
2. A call that overlaps another of its kind is refused after its request was
   sent, or the two swap their answers without an error.
3. Even a lone call over perfect streams can lose its answer (`lost_answer`),
   because `Wait` registers the channel after the request was sent.

The first two need an assumption to be dropped; the third is a finding. So are two
comments of the messages and the ciphering. A download request is promised to be served
by its owner or, if that is empty, by its txid (msg.proto:43-44), while the handler
decodes both and drops a request that lacks either (`sole_downloads`); and what counts
as too short a text is stated as 134 bytes and checked as 64 (`short_text`).

Of the messages, `messages` tells what the lack of a frame costs. A request whose stream
was cut is never acted on with other arguments, because an identifier or a point that is
cut does not decode and the handlers ask for the last field; only the size of an upload
is not asked for. An answer is not protected: one without a byte is a success, which is
what `OtChoice` and `PreReEncrypt` answers without a text are in any case.

In the exchange, the dropped error of `SendChoice` means that a Bob whose choice
failed goes on to decrypt. He may then panic (nothing stored yet), fail (another
exchange's values), or succeed (his own values, although the answer was lost).
With `TornNeedsTwoFailures` and `NoCrashOnceServed` the run tells when which can
happen. Without `OneByOne` or `Patient`, `ServedDecrypts` does not hold: another
exchange may store its pair between Bob's service and his reads.

## Proofs

`MessagePool_proofs` proves, for any protocols, waiters and pushers
(`PoolAssumption`), that the state is well formed and that the five safety properties
of `pool` hold. They are not inductive by themselves. `IInv` adds five facts:

- `ChannelHeld`: a push at its send or close holds the read lock and its channel
  is still the registered one. With `SlotExact`, this is why a `Wait` cannot
  return under a push: its deferred delete needs the write lock.
- `PushProgress`: a push holds the read lock from the lookup to the unlock, and has
  found a channel of its protocol that was registered.
- `MessagesExact`: a sent message is in its channel's buffer or with its waiter, and
  these hold nothing else.
- `ClosedExact`: a closed channel was closed by exactly one push that sent on it
  before. Hence a receive from a closed channel is not nil, and a panic means a
  second push.
- `WaitProgress`: nothing is received before the select.

One lemma per action shows that it preserves `IInv`, conjunct by conjunct
(`NextIInv` puts them together). `DeliveredOrTimedOut` follows from `IInv` because a
returned call's channel has been closed by every push that found it
(`ReturnedMeansClosed`), and by one only. The same lemma gives
`NothingAfterReturn`, the one action property.

`RequestReply_proofs` proves, for any calls of any kinds, every safety property of the
three runs `calls_*`. The pool of the calls is an instance of `MessagePool_proofs`, so
that `IInv` and its lemmas hold of it; only what a step of the pool does to the state
of a call is proved anew. There are three invariants, each for the callers it names,
and none of the properties behind them is inductive without the others.

- `CallsInv`, for all callers: `StreamsOK` and the pool's `IInv`. `RightKind` follows,
  as a call receives only what a push has found a channel for, and the push found it
  under the kind of its own answer.
- `SerialInv` (`Serial`): of a kind, at most one call is under way (`OneAtATime`), so the
  entry that a `Wait` could meet is of a call that has returned, which `SlotExact`
  excludes (`NeverRefused`). `MisledNeedsTimeout`: the first answer that finds a call
  not its own has missed its own call, which must have timed out; each later one finds
  a call whose own answer is still to come, and goes back to the first.
  `TroubleNeedsTimeout` follows.
- `PatientInv` (`Serial` and `Patient`): a call that timed out has no answer under way
  (`CtxPatient`), so no answer goes astray (`OwnAnswer`), so no channel is found twice
  (`NoPanic`).

`PatientImplementsRpc` is the refinement: `Init` maps to `Rpc!Init`, and each step to
one of `Rpc` or to none. A send opens (`SendOpens`: the slot is free), the server's
handler executes (`HandleExecutes`: the call is still open, as one that has returned is
settled, by `ReturnedSettled`), a return from `Wait` succeeds or fails (`WaitEnds`), and
the rest stutters (`OthersStutter`).

`ThreeParty_proofs` proves, for any number of Bobs, every safety property of the run
`exchange`. Alice's nested calls are an instance of `RequestReply_proofs`: not serial,
as Alice's handlers may overlap, so only `CallsInv` and `CtxPatient` are at hand.

- `StagesInv` says, for any exchanges, which stages of Bob, Alice, the nested call and
  the proxy go together. `TypeOK` is a part of it, and `NoCrashOnceServed` follows: when
  a Bob has been served, both halves of a pair have been stored, and are never cleared.
- `OneByOneInv` (`OneByOne`, `Patient`) holds until two exchanges have failed. Until
  then a Bob's call is over with his exchange, or only Alice's own context is still to
  end (`AllSettled`); an answer meets its own call, or that of a Bob who has given up
  (`LateCalls`); the pair is of one exchange but while the proxy is between its two
  stores, and of the Bob who is in an exchange once he has been served (`PairOK`); hence
  what he has read is his (`TakenOK`). `ServedDecrypts` speaks of the end of a Bob's
  reads, and needs all four from the moment his request is sent.

`OtPre_proofs` proves, for any field (`ScalarsClosed`, `PlusLaws`, `TimesLaws`,
`Distributes`), any set of ordinals and any `Derive` (`ExchangeAssumption`), the
properties of the run `algebra`. The argument has three layers:

- Scalars: cancellation of a factor and of a term.
- `KeyPointMatches`: a key point exceeds the revealed one by t(choice - i)pkA, which
  is zero only for i = choice, because t and the key are not zero.
  `ReEncryptedOpens`: a re-encrypted key decrypts, under k, to rGT exactly when k is
  the scalar of the re-encryption key. `OwnerDecrypts` for the owner.
- `ExchangeInv`: at each stage, what the variables hold in terms of those of the
  stages before. The properties speak of values several stages old, so they are
  not inductive without it. One step per action shows that it is preserved.

`CloudStorage_proofs` proves every property of the run `storage`, for any field, any
digest of blocks, any SHA-256 of points without collisions (`NoDigestCollision`), and
files, blocks and trees of any size (`StorageAssumption`).

- Hashes: `CollisionKeepsHash` computes mp + x(xr + m - mp)/x = m + xr, and
  `HashDeterminesDigest` cancels the term e(Y, R). `HashInv` says that every hash so far
  is that of the digest and the scalar with its index, and that there are as many as the
  stage says. Both `CollisionFound` and `HashBinds` need it, as a collision is computed
  long after its hash, and from these.
- Files: every position is in exactly one block (`BlocksCover`, `BlocksApart`). `FileInv`
  says cell by cell that the data is what was last written to the block of the cell;
  `SetFile` shows that a write keeps it, in a short last block too. `ReadBack` and
  `FilesAgree` follow by what the two `GetBlock` return (`BlockContent`).
- Tree: the layers above the leaves get shorter down to one node (`LayersShrink`,
  `TreeHeight`). A layer determines the one below it (`LayerDetermines`), an odd node
  at its end included, so the root determines the leaves (`RootDetermines`), among
  lists of a length. Each layer is a row of the reference tree, as long as spans fit into the
  leaves (`LayersAreRows`), and both end at the same height (`TreesAgree`). `RootBinds`
  follows with `RootInv`: the root is that of the hashes.

The layers are defined by recursion over their height. That such a definition has a
value at each height, and the one its equation says, is proved from the least element
of a set of numbers (`LeastElement`, `SetInduction`, `LayersAre`, `RowsAre`), which the
well-foundedness of the naturals gives.

`Ciphering_proofs` proves every property of the run `ciphering`, for plaintexts of any
length, any keys and any `MaxCalls`. A padding is between a byte and a block long and
fills the last block (`PaddingFills`), and the last byte of a padded text says how much
to remove (`PaddingRemoved`). `ClosuresInv` says that the first call sealed the plaintext
and each later one an empty text (`SealedInv`); that the text begins with what the first
call wrote, and is longer than that if there was another (`TextInv`); and that the first
call of the decrypt closure left nothing to read for the later ones (`ResultsInv`).
A text that the MAC lets pass is one call's whole output. The text as it was written
begins with the first call's bytes, so that it passes only if there was no other call,
and then decrypts to the plaintext (`WholeText`). Of a text that was cut, what passes
may also be a later call's, which decrypts to nothing (`Unsealed`).

`Messages_proofs` is about `msg.pb.go`: streams of every length (below 128^4) and
messages of any content. It has three layers.

- Numbers and bytes, anywhere in a stream and with anything around them. `SizeOfVarint`
  and `SizeOfBytes`: `Size` counts what `MarshalTo` writes, which indexes its buffer
  without a check. `VarintRoundTrip` and `BytesRoundTrip`: what was written is read, and
  the reader goes on behind it. `CutVarintUnread` and `CutBytesUnread`: without its end
  it is not read at all. All bytes of a number but the last are above 127, so the first
  byte below 128 is its last (`EncodedBytes`, `ReadUpTo`), and trimming and cutting to
  64 bits change nothing (`TrimCanonical`, `LowKeeps`).
- One reader for all messages, by the table of the switch's cases. A stream of pieces,
  each a field of the table or unknown, is read turn by turn: each turn reads one piece
  and puts it into its column (`AnyOrderDecodes`); the elements of a column stay in
  their order, so any order of the pieces that `Orders` allows gives one message. A
  field with a number outside the table is skipped to its end, groups in groups
  included, and kept (`NewFieldKept`). A stream that ends in a piece gives nothing, one
  that ends between two gives the columns up to there (`CutDecodes`).
- The eight types: what `MarshalTo` writes is a stream of pieces of the type's table,
  and `Size` is its length. Hence `SizeIsExact`, `MessageRoundTrip`,
  `MessageInAnyOrder`, `NewerMessage` and `CutMessage`, for every type.

`Turns` and `Skips` are functions defined by recursion, on the number of turns and,
downwards, on the position. That they have the values their equations say is proved as
for the layers of a tree, from the least element of a set of numbers.

`Handlers_proofs` proves every property of the run `messages`, for any arguments, answers
and fields of a later version (`ValueAssumption`, `NewFieldAssumption`). `IInv` says of
each stage of a call (`Idle`, `Requesting`, `Responding`, `Lost`, `Done`) what its
variables hold. `NodeGetsArgs`, `DropsOnlyBroken` and `AnswerExact` are parts of it; they
compare the two ends of a stream, so that they are not inductive without what the stream
carries: the message is that of the call or of the answer (`Asks`, `Responds`), and the
bytes are what may become of it (`Comes`). In `Lost`, an answer that exists was cut, as
otherwise a late answer could be taken for a dropped request.

- `WhatIsRead` turns the theorems on messages into what `Unmarshal` gives in each case
  of `Comes`: the message, or some first fields of it, or nothing.
- `ChoiceGot`, `ReEncryptGot`, `UploadGot` and `DownloadGot` are the server's checks:
  of some first fields all that is asked for decodes only if no field asked for is
  missing, as no point and no identifier decodes from an empty string. `ErrorGot`,
  `UploadedGot` and `DownloadedGot` are what is left of an answer.
- One lemma per action shows that it keeps `IInv`.

An earlier `AnswerExact` promised the text of every answer that was not cut. The proof
did not go through for the success of an upload, whose text the client drops.

The invariant of the run `pool` is among its properties. `ExchangeInv`, `StorageInv`,
`SerialInv`, `PatientInv`, `StagesInv`, `OneByOneInv`, `ClosuresInv` and the `IInv` of
`Handlers_proofs` are conjunctions of properties that the runs check and of parts that
TLC was asked on the same instances before they were proved; what a run would say of
them, their theorems say.

The assumptions are those on the constants (`PoolAssumption`, `CallAssumption`,
`PartiesAssumption`, the laws of a field, `ExchangeAssumption`, `NoDigestCollision`,
`StorageAssumption`, `CipheringAssumption`, `ValueAssumption`, `NewFieldAssumption`),
which TLC evaluates for each instance, and `Serial`, `Patient` and `OneByOne` where a
theorem names them, as the runs do.

Model-checked only:

- Liveness: `WaitReturns`, `PushReturns`, `SurplusIsFatal`, `CallReturns`, `BobFinishes`.
  They need fairness and `ENABLED`, which the provers do not reason about.
- The violations: `CallsSucceed`, `DownloadProceeds`, `ShortTextsRefused`.

## Plan

The modules were written in the order of the table: the pool, the calls over it, the
exchange over the calls, then what is computed in it, then storage and ciphering, and
last the messages and what the handlers make of them. The proofs follow the same order,
and those of the messages came last.
What remains is overlapping Bobs in `ThreeParty`, with what `ServedDecrypts` becomes for
them. The upload before the exchange is a sequence of calls that stops at the first error
(node_test.go:477-484), so `TroubleNeedsTimeout` covers it.

Not planned: the accessors and descriptors of the generated code, the elliptic-curve
arithmetic of the library, AES and HMAC (abstract functions), logging, the benchmarks' timing.
