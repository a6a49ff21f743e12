---------------------------- MODULE MCMessagePool ----------------------------
(* An instance of MessagePool for TLC: two waits and three pushes that all    *)
(* collide on one protocol.                                                   *)
EXTENDS MessagePool

CONSTANTS upload, w1, w2, p1, p2, p3

MCProtocols == {upload}
MCWaiters == {w1, w2}
MCPushers == {p1, p2, p3}
MCWaitOn == [w \in MCWaiters |-> upload]
MCPushTo == [p \in MCPushers |-> upload]
=============================================================================
