SPECIFICATION FairSpec
CONSTANTS
  c1 = c1
  c2 = c2
  c3 = c3
  c4 = c4
  None = None
  Calls <- MCCalls
  Kind <- MCKind
  Fields <- MCBroken
  Serial = FALSE
  Patient = FALSE
  Reliable = FALSE
INVARIANTS
  StreamsOK
  RightKind
PROPERTY
  CallReturns
