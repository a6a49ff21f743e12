SPECIFICATION Spec
CONSTANTS
  k1 = k1
  k2 = k2
  Keys <- MCKeys
  Plaintexts <- MCPlaintexts
  MaxCalls = 1
CHECK_DEADLOCK FALSE
INVARIANT
  ShortTextsRefused
