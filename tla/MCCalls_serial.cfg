SPECIFICATION Spec
CONSTANTS
  c1 = c1
  c2 = c2
  c3 = c3
  c4 = c4
  None = None
  Calls <- MCCalls
  Kind <- MCOneKind
  Fields <- MCWellFormed
  Serial = TRUE
  Patient = FALSE
  Reliable = FALSE
INVARIANTS
  TroubleNeedsTimeout
