------------------------------- MODULE Merkle --------------------------------
(***************************************************************************)
(* Package merkle.  A node is the hash of its two children, or of its only *)
(* child at the end of a layer of odd length; the root hashes the top node *)
(* once more.  SHA-256 is represented by the data it was applied to.       *)
(***************************************************************************)
EXTENDS Naturals, Sequences

SHA256(data) == [sha |-> data]

ComputePair(left, right) == SHA256(<<left, right>>)

\* Faulty variant: an odd node is dropped.
ComputeLayerEven(nodes) ==
  [i \in 1..(Len(nodes) \div 2) |-> ComputePair(nodes[2 * i - 1], nodes[2 * i])]

ComputeLayer(nodes) ==
  LET count == Len(nodes) \div 2
      pairs == [i \in 1..count |-> ComputePair(nodes[2 * i - 1], nodes[2 * i])]
      odd == IF Len(nodes) % 2 = 1 THEN <<SHA256(<<nodes[2 * count + 1]>>)>>
                                   ELSE <<>>
  IN  pairs \o odd

\* The leaves, and above them one layer after the other.
Layers(leaves) ==
  LET layer[d \in Nat] == IF d = 0 THEN leaves ELSE ComputeLayer(layer[d - 1])
  IN  layer

\* The root of a tree with at least one leaf: the first layer of one node.
NewTree(leaves) ==
  LET layer == Layers(leaves)
      top == CHOOSE d \in 0..Len(leaves) :
               /\ Len(layer[d]) = 1
               /\ \A e \in 0..(d - 1) : Len(layer[e]) > 1
  IN  SHA256(<<layer[top][1]>>)

----------------------------------------------------------------------------
(* A reference definition, by position: at depth d above the leaves, a     *)
(* node spans 2^d leaves, and node i, counted from 0, stands for those     *)
(* from i*2^d on, as many as there are.                                    *)

RowAbove(leaves, below) ==
  [ span |-> 2 * below.span,
    node |-> [i \in Nat |->
      IF (2 * i + 1) * below.span < Len(leaves)
      THEN SHA256(<<below.node[2 * i], below.node[2 * i + 1]>>)
      ELSE SHA256(<<below.node[2 * i]>>)] ]

Rows(leaves) ==
  LET row[d \in Nat] ==
        IF d = 0 THEN [span |-> 1, node |-> [i \in Nat |-> leaves[i + 1]]]
        ELSE RowAbove(leaves, row[d - 1])
  IN  row

TreeOf(leaves) ==
  LET row == Rows(leaves)
      depth == CHOOSE d \in 0..Len(leaves) :
                 /\ row[d].span >= Len(leaves)
                 /\ \A e \in 0..(d - 1) : row[e].span < Len(leaves)
  IN  SHA256(<<row[depth].node[0]>>)
=============================================================================
