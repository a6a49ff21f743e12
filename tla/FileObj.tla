------------------------------- MODULE FileObj -------------------------------
(***************************************************************************)
(* Package fileobj: a file as a sequence of blocks, counted from 0, in its *)
(* two implementations.  MemFileObj keeps the data in memory; FileObj      *)
(* reads a file that it opens with os.Open, hence read-only.  The last     *)
(* block of a file may be short.                                           *)
(***************************************************************************)
EXTENDS Integers, Sequences

Done(data) == [err |-> "none", data |-> data]
Failed(err) == [err |-> err, data |-> <<>>]

\* Faulty variant: a remainder is ignored.
BlockCountDown(fileSize, blockSize) == fileSize \div blockSize

\* updateBlockCount
BlockCount(fileSize, blockSize) ==
  fileSize \div blockSize + (IF fileSize % blockSize > 0 THEN 1 ELSE 0)

NewMemFileObj(data, blockSize) ==
  [ data |-> data,
    fileSize |-> Len(data),
    blockSize |-> blockSize,
    blockCount |-> BlockCount(Len(data), blockSize) ]

\* make, then copy from the block's offset: what the file lacks is zero.
MemGetBlock(obj, blk) ==
  IF obj.blockCount <= blk THEN Failed("index")
  ELSE Done([j \in 1..obj.blockSize |->
               LET at == obj.blockSize * blk + j
               IN  IF at <= Len(obj.data) THEN obj.data[at] ELSE 0])

\* Faulty variant: a block that ends with the file counts as short.
FileGetBlockStrict(obj, blk) ==
  IF obj.blockCount <= blk THEN Failed("index")
  ELSE IF obj.blockSize * (blk + 1) >= Len(obj.data) THEN Failed("EOF")
  ELSE Done(SubSeq(obj.data, obj.blockSize * blk + 1,
                             obj.blockSize * (blk + 1)))

\* ReadAt reports the end of the file unless it fills the whole block.
FileGetBlock(obj, blk) ==
  IF obj.blockCount <= blk THEN Failed("index")
  ELSE IF obj.blockSize * (blk + 1) > Len(obj.data) THEN Failed("EOF")
  ELSE Done(SubSeq(obj.data, obj.blockSize * blk + 1,
                             obj.blockSize * (blk + 1)))

SetBlockError(obj, blk, data) ==
  CASE obj.blockCount <= blk -> "index"
    [] obj.blockCount > blk /\ Len(data) # obj.blockSize -> "size"
    [] OTHER -> "none"

\* Faulty variant: the block is written one cell too far.
MemSetBlockShifted(obj, blk, data) ==
  LET at(j) == j - obj.blockSize * blk - 1
      cell(j) == IF at(j) \in DOMAIN data THEN data[at(j)] ELSE obj.data[j]
  IN  NewMemFileObj([j \in DOMAIN obj.data |-> cell(j)], obj.blockSize)

\* copy, which ends with the shorter of the two, and updateMeta.
MemSetBlock(obj, blk, data) ==
  LET at(j) == j - obj.blockSize * blk
      cell(j) == IF at(j) \in DOMAIN data THEN data[at(j)] ELSE obj.data[j]
  IN  NewMemFileObj([j \in DOMAIN obj.data |-> cell(j)], obj.blockSize)
=============================================================================
