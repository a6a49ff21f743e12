SPECIFICATION Spec
CONSTANTS
  c1 = c1
  c2 = c2
  c3 = c3
  c4 = c4
  None = None
  Calls <- MCFourCalls
  Kind <- MCTwoKinds
  Fields <- MCOneMalformed
  Serial = TRUE
  Patient = TRUE
  Reliable = FALSE
INVARIANTS
  NoPanic
  NeverRefused
PROPERTY
  ImplementsRpc
