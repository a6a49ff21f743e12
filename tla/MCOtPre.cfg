SPECIFICATION Spec
CONSTANTS
  Order = 5
  Zero = 0
  One = 1
  Scalars <- MCScalars
  Plus <- MCPlus
  Times <- MCTimes
  Minus <- MCMinus
  ModInverse <- MCModInverse
  Files <- MCFiles
  Derive <- MCDerive
INVARIANTS
  TypeOK
  OneKeyPoint
  OpensChosenOnly
  OwnerOpens
