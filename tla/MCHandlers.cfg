SPECIFICATION Spec
CONSTANTS
  Cids <- MCCids
  UndefCid <- MCUndefCid
  G1Points <- MCG1Points
  G2Points <- MCG2Points
  OtChoices <- MCOtChoices
  PreArgs <- MCPreArgs
  UploadTickets <- MCUploadTickets
  DownloadTickets <- MCDownloadTickets
  Answers <- MCAnswers
  NewFields <- MCNewFields
INVARIANTS
  TypeOK
  ReadExact
  NodeGetsArgs
  DropsOnlyBroken
  AnswerExact
