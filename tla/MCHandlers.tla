------------------------------ MODULE MCHandlers ------------------------------
(* An instance of Handlers for TLC, with the numbers and the lengths around  *)
(* which a varint grows by a byte, and the largest of each type.             *)
EXTENDS Handlers

MCCids == {81, 98}
MCUndefCid == 0
MCG1Points == {7, 129}
MCG2Points == {10, 34, 255}

One == <<1>>
OneByte == <<127>>
TwoBytes == <<0, 1>>
MaxUint32 == <<127, 127, 127, 127, 15>>
MaxUint64 == <<127, 127, 127, 127, 127, 127, 127, 127, 127, 1>>
Text(n) == [k \in 1..n |-> 65]

MCOtChoices ==
  { [cid |-> 81, owner |-> 7, y |-> 129, l |-> 7],
    [cid |-> 98, owner |-> 129, y |-> 7, l |-> 129] }

\* From no re-key to three, one of them twice.
MCPreArgs ==
  { [cid |-> 81, lprime |-> 7, rekeys |-> ks, txid |-> 98] :
      ks \in {<<>>, <<34>>, <<255, 10>>, <<10, 34, 10>>} }

MCUploadTickets ==
  { [owner |-> 7, set |-> set, cid |-> 98, size |-> size] :
      set \in {Zero, TwoBytes, MaxUint32},
      size \in {Zero, OneByte, MaxUint64} }

MCDownloadTickets ==
  { [owner |-> 129, cid |-> 81, txid |-> txid] : txid \in {81, 98, MCUndefCid} }

\* Successes with a name, one of them with a text, and errors with and without
\* a name and a text.
MCAnswers ==
  { [name |-> Text(15), err |-> NilError],
    [name |-> Text(128), err |-> NewError(Zero, Text(2))],
    [name |-> <<>>, err |-> UnknownError(Text(127))],
    [name |-> Text(1), err |-> NewError(TwoBytes, Text(128))],
    [name |-> <<>>, err |-> NewError(MaxUint32, <<>>)] }

\* A varint, a fixed64, bytes that look like fields, a group with a group in it,
\* a fixed32, and the largest field number there is.
MCNewFields ==
  { <<48, 129, 1>>,
    <<57, 1, 2, 3, 4, 5, 6, 7, 8>>,
    <<122, 3, 10, 34, 132>>,
    <<131, 1, 8, 5, 19, 26, 1, 20, 20, 132, 1>>,
    <<141, 1, 1, 2, 3, 4>>,
    <<248, 255, 255, 255, 15, 1>> }
=============================================================================
