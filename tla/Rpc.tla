-------------------------------- MODULE Rpc ---------------------------------
(***************************************************************************)
(* What a caller of SendUploadRequest, SendDownloadRequest, SendReEncrypt  *)
(* or SendChoice hopes for: a remote call that runs the server's handler   *)
(* at most once, and only while the caller is in it; that succeeds only    *)
(* with the answer to its own request, after the handler has run; and one  *)
(* call of a kind at a time.  A failed call may have run the handler.      *)
(***************************************************************************)
CONSTANTS Calls, Kind

VARIABLES
  status,   \* where each call is
  effect    \* the calls whose handler has run

vars == <<status, effect>>

TypeOK ==
  /\ status \in [Calls -> {"new", "open", "ok", "failed"}]
  /\ effect \subseteq Calls

Init ==
  /\ status = [c \in Calls |-> "new"]
  /\ effect = {}

Open(c) ==
  /\ status[c] = "new"
  /\ \A d \in Calls : Kind[d] = Kind[c] => status[d] # "open"
  /\ status' = [status EXCEPT ![c] = "open"]
  /\ UNCHANGED effect

Execute(c) ==
  /\ status[c] = "open"
  /\ c \notin effect
  /\ effect' = effect \cup {c}
  /\ UNCHANGED status

Succeed(c) ==
  /\ status[c] = "open"
  /\ c \in effect
  /\ status' = [status EXCEPT ![c] = "ok"]
  /\ UNCHANGED effect

Fail(c) ==
  /\ status[c] = "open"
  /\ status' = [status EXCEPT ![c] = "failed"]
  /\ UNCHANGED effect

Next == \E c \in Calls : Open(c) \/ Execute(c) \/ Succeed(c) \/ Fail(c)

Spec == Init /\ [][Next]_vars
=============================================================================
