SPECIFICATION FairSpec
CONSTANTS
  b1 = b1
  b2 = b2
  None = None
  Bobs <- MCBobs
  OneByOne = TRUE
  Patient = TRUE
  Reliable = FALSE
INVARIANTS
  TypeOK
  ServedDecrypts
  TornNeedsTwoFailures
PROPERTIES
  NoCrashOnceServed
  BobFinishes
