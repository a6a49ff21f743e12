SPECIFICATION FairSpec
CONSTANTS
  upload = upload
  w1 = w1
  w2 = w2
  p1 = p1
  p2 = p2
  p3 = p3
  None = None
  Protocols <- MCProtocols
  Waiters <- MCWaiters
  Pushers <- MCPushers
  WaitOn <- MCWaitOn
  PushTo <- MCPushTo
INVARIANTS
  SlotExact
  NoNilMessage
  DeliveredOrTimedOut
  PanicNeedsSurplus
  IInv
PROPERTIES
  NothingAfterReturn
  WaitReturns
  PushReturns
  SurplusIsFatal
