SPECIFICATION Spec
CONSTANTS
  Order = 3
  Zero = 0
  One = 1
  Scalars <- MCScalars
  Plus <- MCPlus
  Times <- MCTimes
  Minus <- MCMinus
  ModInverse <- MCModInverse
  Sum256 <- MCSum256
  Cells <- MCCells
  Sizes <- MCSizes
  BlockSizes <- MCBlockSizes
  Digest <- MCDigest
INVARIANTS
  TypeOK
  ReadBack
  FilesAgree
  HashBinds
  CollisionFound
  RootBinds
