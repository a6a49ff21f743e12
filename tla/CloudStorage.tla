----------------------------- MODULE CloudStorage ----------------------------
(***************************************************************************)
(* The storage experiment of bench/bench_cs.go: a file in blocks, a hash   *)
(* of each block that the owner can keep while the block changes, and a    *)
(* Merkle tree over the hashes, whose root therefore never changes.  It    *)
(* puts fileobj, chash and merkle together.                                *)
(***************************************************************************)
EXTENDS ChameleonHash, Merkle, FileObj

CONSTANTS
  Cells,        \* what a byte of the file can hold, with 0
  Sizes,        \* the sizes of the file
  BlockSizes,   \* the sizes of a block
  Digest(_)     \* a block's SHA-256 modulo the order

ASSUME StorageAssumption ==
  /\ 0 \in Cells
  /\ Sizes \subseteq Nat \ {0} /\ BlockSizes \subseteq Nat \ {0}
  /\ \A n \in BlockSizes :
       \A data \in [1..n -> Cells] : Digest(data) \in Scalars

VARIABLES
  stage,     \* "made", "setup" (hashing), "built", or "failed"
  mf,        \* the MemFileObj
  written,   \* the blocks as the caller knows them
  x, rs,     \* the owner's key, and the scalar of each block
  ms,        \* the digests of the blocks hashed so far
  cHashes,   \* their chameleon hashes
  root,      \* of the Merkle tree
  update     \* the last update: block, digest, hash and scalar

vars == <<stage, mf, written, x, rs, ms, cHashes, root, update>>

Y == ScalarBaseMult(x)
Blocks == 0..(mf.blockCount - 1)
AllBlocks == [1..mf.blockSize -> Cells]

\* What a caller may pass as a block: up to a byte more than one.
AnyData == UNION {[1..n -> Cells] : n \in 0..(mf.blockSize + 1)}

None == [block |-> 0, m |-> Zero, hash |-> Sum256(Zero), r |-> Zero]

\* The file holds random bytes.
Init ==
  /\ stage = "made"
  /\ \E n \in Sizes, size \in BlockSizes : \E data \in [1..n -> Cells] :
       mf = NewMemFileObj(data, size)
  /\ written = [b \in Blocks |-> MemGetBlock(mf, b).data]
  /\ x = Zero /\ rs = <<>>
  /\ ms = <<>> /\ cHashes = <<>> /\ root = <<>>
  /\ update = None

SetBlock(b, data) ==
  /\ stage = "made"
  /\ SetBlockError(mf, b, data) = "none"
  /\ mf' = MemSetBlock(mf, b, data)
  /\ written' = [written EXCEPT ![b] = data]
  /\ UNCHANGED <<stage, x, rs, ms, cHashes, root, update>>

\* ErrOutOfBlockIndex or ErrWrongBlockSize: nothing is written.
SetBlockRefused(b, data) ==
  /\ stage = "made"
  /\ SetBlockError(mf, b, data) # "none"
  /\ UNCHANGED vars

Setup ==
  /\ stage = "made"
  /\ x' \in FieldElements
  /\ rs' \in [1..mf.blockCount -> FieldElements]
  /\ stage' = "setup"
  /\ UNCHANGED <<mf, written, ms, cHashes, root, update>>

\* Faulty variant: only the first digest is kept.
HashBlockForgets ==
  LET i == Len(cHashes)
      m == Digest(MemGetBlock(mf, i).data)
  IN  /\ stage = "setup"
      /\ MemGetBlock(mf, i).err = "none"
      /\ ms' = IF ms = <<>> THEN <<m>> ELSE ms
      /\ cHashes' = Append(cHashes, ComputeHash(Y, RandomPoint(rs[i + 1]), m))
      /\ UNCHANGED <<stage, mf, written, x, rs, root, update>>

\* An iteration of the loop over the blocks.
HashBlock ==
  LET i == Len(cHashes)
      m == Digest(MemGetBlock(mf, i).data)
  IN  /\ stage = "setup"
      /\ MemGetBlock(mf, i).err = "none"
      /\ ms' = Append(ms, m)
      /\ cHashes' = Append(cHashes, ComputeHash(Y, RandomPoint(rs[i + 1]), m))
      /\ UNCHANGED <<stage, mf, written, x, rs, root, update>>

BuildTree ==
  /\ stage = "setup"
  /\ Len(cHashes) = mf.blockCount
  /\ root' = NewTree(cHashes)
  /\ stage' = "built"
  /\ UNCHANGED <<mf, written, x, rs, ms, cHashes, update>>

\* A collision for a new content of a block, always from the scalar and digest
\* the block was hashed with.  The run ends if the hash is not the block's.
UpdateBlock(b, data) ==
  LET mp == Digest(data)
      c == ComputeCollision(Y, x, rs[b + 1], ms[b + 1], mp)
  IN  /\ stage = "built"
      /\ update' = [block |-> b, m |-> mp, hash |-> c.hash, r |-> c.r]
      /\ stage' = IF c.hash = cHashes[b + 1] THEN "built" ELSE "failed"
      /\ UNCHANGED <<mf, written, x, rs, ms, cHashes, root>>

Next ==
  \/ \E b \in 0..mf.blockCount, data \in AnyData :
       SetBlock(b, data) \/ SetBlockRefused(b, data)
  \/ Setup
  \/ HashBlock
  \/ BuildTree
  \/ \E b \in Blocks, data \in AllBlocks : UpdateBlock(b, data)

Spec == Init /\ [][Next]_vars

----------------------------------------------------------------------------
(* Properties                                                              *)

\* The state is well formed, and as much is hashed as the stage says
\* (bench_cs.go:68-136).
TypeOK ==
  /\ stage \in {"made", "setup", "built", "failed"}
  /\ mf.fileSize = Len(mf.data)
  /\ mf.data \in Seq(Cells)
  /\ written \in [Blocks -> AllBlocks]
  /\ x \in Scalars /\ rs \in Seq(FieldElements)
  /\ ms \in Seq(Scalars)
  /\ Len(ms) = Len(cHashes) /\ Len(ms) <= mf.blockCount
  /\ stage \in {"built", "failed"} => Len(ms) = mf.blockCount
  /\ stage # "made" => x \in FieldElements /\ Len(rs) = mf.blockCount

\* The blocks cover the file.  Reading one gives what was last written to it,
\* whatever else has been written, but for the cells beyond the end of the file,
\* which are zero (file_mem.go:55-83).
ReadBack ==
  /\ mf.blockSize * mf.blockCount >= mf.fileSize
  /\ \A b \in Blocks :
       MemGetBlock(mf, b) = Done([j \in 1..mf.blockSize |->
         IF mf.blockSize * b + j <= mf.fileSize THEN written[b][j] ELSE 0])

\* The two implementations read the same blocks from the same data, but for a
\* short last block, which FileObj refuses (file.go:80-89, file_mem.go:63-70).
FilesAgree ==
  \A b \in 0..mf.blockCount :
    \/ FileGetBlock(mf, b) = MemGetBlock(mf, b)
    \/ /\ b = mf.blockCount - 1 /\ mf.fileSize % mf.blockSize # 0
       /\ FileGetBlock(mf, b) = Failed("EOF")

\* A block's hash verifies the block's digest and no other (chameleon.go:31-35).
HashBinds ==
  \A i \in DOMAIN cHashes : \A m \in Scalars :
    Verify(cHashes[i], Y, RandomPoint(rs[i]), m) <=> m = ms[i]

\* Every update finds a collision: the new digest verifies against the old hash
\* (chameleon.go:37-47, bench_cs.go:129-133 and 227-231).
CollisionFound ==
  /\ stage # "failed"
  /\ update # None =>
       Verify(cHashes[update.block + 1], Y, RandomPoint(update.r), update.m)

\* The root is that of the reference tree, and no leaf can be replaced without
\* changing it, except by the hash of an update (merkle.go:36-67).
RootBinds ==
  stage = "built" =>
    /\ root = TreeOf(cHashes)
    /\ \A i \in DOMAIN cHashes, p \in Scalars :
         NewTree([cHashes EXCEPT ![i] = Sum256(p)]) = root
           <=> cHashes[i] = Sum256(p)
    /\ update # None =>
         NewTree([cHashes EXCEPT ![update.block + 1] = update.hash]) = root

----------------------------------------------------------------------------
(* An inductive invariant                                                  *)

\* The file is well formed, and each of its cells is that of its block as the
\* caller knows it.
FileInv ==
  /\ mf.data \in Seq(Cells) /\ mf.data # <<>> /\ mf.fileSize = Len(mf.data)
  /\ mf.blockSize \in BlockSizes
  /\ mf.blockCount \in Nat
  /\ mf.blockCount = BlockCount(mf.fileSize, mf.blockSize)
  /\ written \in [Blocks -> AllBlocks]
  /\ \A b \in Blocks : \A j \in 1..mf.blockSize :
       LET at == mf.blockSize * b + j
       IN  at <= Len(mf.data) => mf.data[at] = written[b][j]

\* Every hash is that of the digest and the scalar with its index.
HashInv ==
  /\ stage \in {"made", "setup", "built", "failed"}
  /\ stage # "made" =>
       x \in FieldElements /\ rs \in [1..mf.blockCount -> FieldElements]
  /\ stage = "made" => x = Zero /\ rs = <<>> /\ cHashes = <<>> /\ ms = <<>>
  /\ stage \in {"made", "setup"} => update = None
  /\ stage \in {"built", "failed"} => Len(cHashes) = mf.blockCount
  /\ ms \in Seq(Scalars)
  /\ cHashes \in Seq({Sum256(p) : p \in Scalars})
  /\ DOMAIN cHashes = 1..Len(cHashes) /\ Len(cHashes) = Len(ms)
  /\ stage # "made" => DOMAIN cHashes \subseteq 1..mf.blockCount
  /\ \A i \in DOMAIN cHashes :
       cHashes[i] = ComputeHash(Y, RandomPoint(rs[i]), ms[i])

\* The root is that of the tree that was built, and the hash of an update that
\* of its block.
RootInv ==
  /\ stage \in {"built", "failed"} => root = NewTree(cHashes)
  /\ update # None =>
       /\ update.block + 1 \in DOMAIN cHashes
       /\ update.hash = cHashes[update.block + 1]

\* The inductive invariant: what a later stage needs of the earlier ones, the
\* hash of every block from its own digest and scalar (bench_cs.go:98-136).
StorageInv == FileInv /\ HashInv /\ RootInv /\ CollisionFound
=============================================================================
