------------------------------ MODULE Ciphering ------------------------------
(***************************************************************************)
(* The closures of pre/ciphering.go, which pre.go calls with the key that  *)
(* it computes.  An encrypt closure reads its input to the end, pads it to *)
(* whole blocks, and writes the vector, the ciphered blocks and their MAC. *)
(* A decrypt closure reads a text to the end, checks its length and its    *)
(* MAC, and writes what is left without the padding.  Nothing keeps a      *)
(* closure from being called again, with nothing left to read.  AES and    *)
(* HMAC are ideal: the j-th byte that call c writes is <<c, j>>, and the   *)
(* MAC of a text is right when one call has written just this text under   *)
(* the key.                                                                *)
(***************************************************************************)
EXTENDS Integers, Sequences

CONSTANTS
  Keys,
  Plaintexts,   \* what may be encrypted: sequences of bytes
  MaxCalls      \* bound: how often a closure is called

Bytes == 0..255
BlockSize == 16   \* aes.BlockSize
MacSize == 32     \* sha256.Size

ASSUME CipheringAssumption ==
  Plaintexts \subseteq Seq(Bytes) /\ MaxCalls \in Nat

VARIABLES
  stage,      \* "encrypting" or "decrypting"
  plain,      \* the plaintext
  input,      \* what the encrypt closure has yet to read
  sealed,     \* the key and the padded plaintext of each encryption
  text,       \* what the encrypt closure has written
  reader,     \* what the decrypt closure has yet to read
  results,    \* of the calls of the decrypt closure
  output      \* what it has written

vars == <<stage, plain, input, sealed, text, reader, results, output>>

----------------------------------------------------------------------------
(* Padding                                                                 *)

\* Faulty variant: whole blocks are not padded.
PaddingIfNeeded(n) == (BlockSize - (n % BlockSize)) % BlockSize
Padding(n) == BlockSize - (n % BlockSize)

AddPKCSPadding(src) == src \o [j \in 1..Padding(Len(src)) |-> Padding(Len(src))]

Done(out) == [err |-> "nil", out |-> out]
Failed(err) == [err |-> err, out |-> <<>>]

RemovePKCSPadding(src) ==
  LET padLength == src[Len(src)]
  IN  IF padLength > BlockSize \/ Len(src) < BlockSize
      THEN Failed("errInvalidPadding")
      ELSE Done(SubSeq(src, 1, Len(src) - padLength))

----------------------------------------------------------------------------
(* The closures                                                            *)

\* What call c writes when it ciphers the given blocks.
TextOf(c, padded) ==
  [j \in 1..(BlockSize + Len(padded) + MacSize) |-> <<c, j>>]

Authentic(t, key, c) ==
  sealed[c].key = key /\ t = TextOf(c, sealed[c].padded)

Decrypt(t, key) ==
  IF Len(t) < BlockSize + BlockSize + MacSize THEN Failed("errInputTooShort")
  ELSE IF (Len(t) - BlockSize - MacSize) % BlockSize # 0
       THEN Failed("errInvalidPadding")
  ELSE IF \A c \in DOMAIN sealed : ~Authentic(t, key, c)
       THEN Failed("errInvalidMAC")
  ELSE LET c == CHOOSE c \in DOMAIN sealed : Authentic(t, key, c)
       IN  RemovePKCSPadding(sealed[c].padded)

Init ==
  /\ stage = "encrypting"
  /\ plain \in Plaintexts
  /\ input = plain
  /\ sealed = <<>> /\ text = <<>>
  /\ reader = <<>> /\ results = <<>> /\ output = <<>>

EncryptCall(key) ==
  /\ stage = "encrypting"
  /\ Len(sealed) < MaxCalls
  /\ LET padded == AddPKCSPadding(input)
     IN  /\ sealed' = Append(sealed, [key |-> key, padded |-> padded])
         /\ text' = text \o TextOf(Len(sealed) + 1, padded)
  /\ input' = <<>>
  /\ UNCHANGED <<stage, plain, reader, results, output>>

\* The text reaches the decrypt closure: whole, cut short at either end, or with
\* a byte that nobody wrote.
Received ==
  {text} \cup {SubSeq(text, 1, n) : n \in 0..Len(text)}
         \cup {SubSeq(text, n, Len(text)) : n \in 1..Len(text)}
         \cup {[text EXCEPT ![n] = <<0, 0>>] : n \in 1..Len(text)}

Receive ==
  /\ stage = "encrypting"
  /\ sealed # <<>>
  /\ reader' \in Received
  /\ stage' = "decrypting"
  /\ UNCHANGED <<plain, input, sealed, text, results, output>>

\* Faulty variant: the text can be read again.
DecryptCallRewinds(key) ==
  LET d == Decrypt(reader, key)
  IN  /\ stage = "decrypting"
      /\ Len(results) < MaxCalls
      /\ results' =
           Append(results, [key |-> key, read |-> reader, err |-> d.err])
      /\ output' = output \o d.out
      /\ UNCHANGED <<stage, plain, input, sealed, text, reader>>

DecryptCall(key) ==
  LET d == Decrypt(reader, key)
  IN  /\ stage = "decrypting"
      /\ Len(results) < MaxCalls
      /\ results' =
           Append(results, [key |-> key, read |-> reader, err |-> d.err])
      /\ output' = output \o d.out
      /\ reader' = <<>>
      /\ UNCHANGED <<stage, plain, input, sealed, text>>

Next ==
  \/ \E key \in Keys : EncryptCall(key) \/ DecryptCall(key)
  \/ Receive

Spec == Init /\ [][Next]_vars

----------------------------------------------------------------------------
(* Properties                                                              *)

\* The state is well formed, the blocks that are ciphered are whole, and there
\* is at least one (ciphering.go:46-64, 140-144).
TypeOK ==
  /\ stage \in {"encrypting", "decrypting"}
  /\ plain \in Plaintexts /\ input \in {plain, <<>>}
  /\ sealed \in Seq([key : Keys, padded : Seq(Bytes)])
  /\ \A c \in DOMAIN sealed :
       /\ Len(sealed[c].padded) % BlockSize = 0
       /\ Len(sealed[c].padded) >= BlockSize
  /\ Len(sealed) <= MaxCalls /\ Len(results) <= MaxCalls

\* What an encrypt closure wrote, called once, decrypts with the key to the
\* whole plaintext, of any length.  Otherwise the MAC refuses it: a second
\* call, which encrypts an empty text, makes the output worthless
\* (ciphering.go:79-135).
RoundTrip ==
  \A i \in DOMAIN results :
    LET q == results[i]
    IN  q.read = text =>
          IF Len(sealed) = 1 /\ q.key = sealed[1].key
          THEN q.err = "nil" /\ output = plain
          ELSE q.err = "errInvalidMAC"

\* Whatever becomes of the text and however often the closures are called, the
\* decrypt closure writes the plaintext, once, or nothing.
AllOrNothing == output \in {<<>>, plain}

----------------------------------------------------------------------------
(* What the repository says of the decrypt closure                         *)

\* ciphering.go:26-27: errInputTooShort occurs when the text is less than 134
\* bytes long.  Hence no text as short as this is decrypted.
ShortTextsRefused ==
  \A i \in DOMAIN results :
    Len(results[i].read) < 134 => results[i].err # "nil"

----------------------------------------------------------------------------
(* An inductive invariant                                                  *)

\* The first call of the encrypt closure seals the plaintext, the later ones
\* what is left of the input: nothing.
SealedInv ==
  /\ input = IF sealed = <<>> THEN plain ELSE <<>>
  /\ \A c \in DOMAIN sealed :
       sealed[c].padded = AddPKCSPadding(IF c = 1 THEN plain ELSE <<>>)

\* The text begins with what the first call wrote, and goes on if there was
\* another.
TextInv ==
  /\ text \in Seq(Nat \X Nat)
  /\ Len(text) % BlockSize = 0
  /\ sealed = <<>> => text = <<>>
  /\ Len(sealed) = 1 => text = TextOf(1, sealed[1].padded)
  /\ Len(sealed) > 1 =>
       /\ text[1] = <<1, 1>>
       /\ Len(text) > BlockSize + Len(sealed[1].padded) + MacSize

Result ==
  [key : Keys, read : Seq(Nat \X Nat),
   err : {"nil", "errInputTooShort", "errInvalidPadding", "errInvalidMAC"}]

\* The first call of the decrypt closure leaves the later ones nothing to read.
ResultsInv ==
  /\ reader \in Seq(Nat \X Nat) /\ results \in Seq(Result)
  /\ stage = "encrypting" => results = <<>>
  /\ stage = "decrypting" => sealed # <<>>
  /\ results = <<>> => output = <<>>
  /\ results # <<>> =>
       LET first == results[1]
           d == Decrypt(first.read, first.key)
       IN  /\ reader = <<>>
           /\ first.err = d.err /\ output = d.out
           /\ \A i \in 2..Len(results) : results[i].read = <<>>

\* The inductive invariant: what the closures have read and written so far
\* (ciphering.go:79-135).
ClosuresInv == TypeOK /\ SealedInv /\ TextInv /\ ResultsInv
=============================================================================
