SPECIFICATION FairSpec
CONSTANTS
  c1 = c1
  c2 = c2
  c3 = c3
  c4 = c4
  None = None
  Calls <- MCOneCall
  Kind <- MCUpload
  Fields <- MCOneWellFormed
  Serial = TRUE
  Patient = TRUE
  Reliable = TRUE
INVARIANT
  CallsSucceed
