--------------------------- MODULE MCRequestReply ----------------------------
(* Instances of RequestReply for TLC: a few calls of a StorageClient.        *)
EXTENDS RequestReply

CONSTANTS c1, c2, c3, c4

\* Two calls of one kind, and one of another kind in the same pool.
MCCalls == {c1, c2, c3}
MCKind == [c \in MCCalls |-> IF c = c3 THEN "download" ELSE "upload"]

\* Three calls of one kind, enough for a stale answer to be passed on.
MCOneKind == [c \in MCCalls |-> "upload"]

MCAllFields == UNION {Required[k] : k \in Kinds}
MCWellFormed == [c \in MCCalls |-> MCAllFields]

\* The second of two uploads does not decode at the server.
MCBroken == [c \in MCCalls |-> IF c = c2 THEN {"cid"} ELSE MCAllFields]

\* Two calls of each of the two kinds; the owner of c4's request does not decode.
MCFourCalls == {c1, c2, c3, c4}
MCTwoKinds ==
  [c \in MCFourCalls |-> IF c \in {c1, c2} THEN "upload" ELSE "download"]
MCOneMalformed ==
  [c \in MCFourCalls |-> IF c = c4 THEN {"cid", "txid"} ELSE MCAllFields]

\* Two downloads, one by its owner alone and one by its txid alone.
MCTwoCalls == {c1, c2}
MCTwoDownloads == [c \in MCTwoCalls |-> "download"]
MCOwnerOrTxid ==
  [c \in MCTwoCalls |-> {"cid", IF c = c1 THEN "owner" ELSE "txid"}]

\* A single call.
MCOneCall == {c1}
MCUpload == [c \in MCOneCall |-> "upload"]
MCOneWellFormed == [c \in MCOneCall |-> MCAllFields]
=============================================================================
