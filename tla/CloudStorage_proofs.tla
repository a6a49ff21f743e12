-------------------------- MODULE CloudStorage_proofs -------------------------
(***************************************************************************)
(* Proofs about CloudStorage, for any field of scalars, any digest of      *)
(* blocks and files of any size: a block reads as it was last written, its *)
(* hash binds its digest, its owner can move it to any other digest, as    *)
(* often as she likes, and the root of the tree binds all hashes.          *)
(***************************************************************************)
EXTENDS CloudStorage, WellFoundedInduction, TLAPS

----------------------------------------------------------------------------
(* Package chash                                                           *)

\* Dividing by a factor undoes the multiplication by it.
LEMMA Divide ==
  ASSUME NEW factor \in FieldElements, NEW term \in Scalars
  PROVE  Times(Times(factor, term), ModInverse(factor)) = term
<1>1. factor \in Scalars /\ ModInverse(factor) \in Scalars
  BY ScalarsClosed DEF FieldElements
<1>2. Times(Times(factor, term), ModInverse(factor))
        = Times(Times(term, factor), ModInverse(factor))
  BY <1>1, TimesLaws
<1>3. Times(Times(term, factor), ModInverse(factor))
        = Times(term, Times(factor, ModInverse(factor)))
  BY <1>1, TimesLaws
<1>4. QED
  BY <1>2, <1>3, TimesLaws

\* A hash determines the digest it was computed from, under a given key and R.
LEMMA HashDeterminesDigest ==
  ASSUME NEW key \in Scalars, NEW R \in Scalars,
         NEW m1 \in Scalars, NEW m2 \in Scalars,
         ComputeHash(key, R, m1) = ComputeHash(key, R, m2)
  PROVE  m1 = m2
<1> DEFINE k == Times(key, R)
<1>1. /\ k \in Scalars /\ Minus(k) \in Scalars
      /\ Plus(m1, k) \in Scalars /\ Plus(m2, k) \in Scalars
  BY ScalarsClosed
<1>2. Plus(m1, k) = Plus(m2, k)
  BY <1>1, NoDigestCollision DEF ComputeHash, AddPoints, ScalarBaseMult, Pair
<1>3. ASSUME NEW m \in Scalars PROVE Plus(Plus(m, k), Minus(k)) = m
  BY <1>1, PlusLaws
<1>4. QED
  BY <1>2, <1>3

\* It is the digest of a point.
LEMMA HashIsDigest ==
  ASSUME NEW key \in Scalars, NEW R \in Scalars, NEW m \in Scalars
  PROVE  ComputeHash(key, R, m) \in {Sum256(p) : p \in Scalars}
<1>1. Plus(m, Times(key, R)) \in Scalars
  BY ScalarsClosed
<1>2. QED
  BY <1>1 DEF ComputeHash, AddPoints, ScalarBaseMult, Pair

\* The scalar of a collision gives the new digest the hash of the old one.
LEMMA CollisionKeepsHash ==
  ASSUME NEW key \in FieldElements, NEW r \in FieldElements,
         NEW m \in Scalars, NEW mp \in Scalars
  PROVE  ComputeHash(ScalarBaseMult(key),
                     RandomPoint(CollisionScalar(key, r, m, mp)), mp)
           = ComputeHash(ScalarBaseMult(key), RandomPoint(r), m)
<1> DEFINE ik == ModInverse(key)
           kr == Times(key, r)
           sum == Plus(kr, m)
           diff == Plus(sum, Minus(mp))
<1>1. /\ key \in Scalars /\ r \in Scalars /\ ik \in Scalars
      /\ kr \in Scalars /\ sum \in Scalars /\ Minus(mp) \in Scalars
      /\ diff \in Scalars
  BY ScalarsClosed DEF FieldElements
<1>2. Times(key, Times(diff, ik)) = diff
  <2>1. Times(key, Times(diff, ik)) = Times(Times(key, diff), ik)
    BY <1>1, TimesLaws
  <2>2. QED
    BY <1>1, <2>1, Divide
<1>3. Plus(mp, diff) = Plus(m, kr)
  <2>1. Plus(mp, diff) = Plus(sum, Plus(Minus(mp), mp))
    BY <1>1, PlusLaws
  <2>2. Plus(Minus(mp), mp) = Zero
    BY <1>1, PlusLaws
  <2>3. Plus(sum, Zero) = sum /\ sum = Plus(m, kr)
    BY <1>1, PlusLaws
  <2>4. QED
    BY <2>1, <2>2, <2>3
<1>4. QED
  BY <1>2, <1>3 DEF ComputeHash, CollisionScalar, RandomPoint, ScalarBaseMult,
                    AddPoints, Pair

----------------------------------------------------------------------------
(* Package merkle                                                          *)

\* Sets of natural numbers have a least element.
LEMMA LeastElement ==
  ASSUME NEW T, T \subseteq Nat, T # {}
  PROVE  \E m \in T : \A k \in T : m <= k
<1> DEFINE R == OpToRel(<, Nat)
<1>1. IsWellFoundedOn(R, Nat)
  BY NatLessThanWellFounded
<1>2. \A m, k \in Nat : <<k, m>> \in R <=> k < m
  BY DEF OpToRel
<1> HIDE DEF R
<1>3. PICK m \in T : \A k \in T : ~ (<<k, m>> \in R)
  BY <1>1, WFMin
<1>4. ASSUME NEW k \in T PROVE m <= k
  <2>1. k \in Nat /\ m \in Nat
    OBVIOUS
  <2>2. ~(k < m)
    BY <1>2, <1>3, <2>1
  <2>3. QED
    BY <2>1, <2>2
<1>5. QED
  BY <1>4

\* Induction, for a set of natural numbers.
LEMMA SetInduction ==
  ASSUME NEW T, 0 \in T, \A n \in Nat : n \in T => n + 1 \in T
  PROVE  Nat \subseteq T
<1> DEFINE U == {n \in Nat : n \notin T}
<1> SUFFICES ASSUME U # {} PROVE FALSE
  OBVIOUS
<1>1. PICK m \in U : \A k \in U : m <= k
  BY LeastElement
<1>2. m # 0 /\ m - 1 \in Nat
  BY <1>1
<1>3. m - 1 \in T
  BY <1>1, <1>2
<1>4. QED
  BY <1>1, <1>2, <1>3

\* g is the first n + 1 layers above the leaves.
LayersUpTo(leaves, n, g) ==
  /\ g[0] = leaves
  /\ \A d \in 1..n : g[d] = ComputeLayer(g[d - 1])

\* There are such layers, and they are the same wherever they end.
LEMMA LayersExist ==
  ASSUME NEW leaves, NEW n \in Nat
  PROVE  \E g : LayersUpTo(leaves, n, g)
<1> DEFINE T == {k \in Nat : \E g : LayersUpTo(leaves, k, g)}
<1>1. 0 \in T
  <2>1. LayersUpTo(leaves, 0, [d \in 0..0 |-> leaves])
    BY DEF LayersUpTo
  <2>2. QED
    BY <2>1
<1>2. ASSUME NEW k \in Nat, k \in T PROVE k + 1 \in T
  <2>1. PICK g : LayersUpTo(leaves, k, g)
    BY <1>2
  <2> DEFINE h == [d \in 0..(k + 1) |-> IF d = k + 1 THEN ComputeLayer(g[k])
                                                   ELSE g[d]]
  <2>2. LayersUpTo(leaves, k + 1, h)
    BY <2>1 DEF LayersUpTo
  <2>3. QED
    BY <2>2
<1> HIDE DEF T
<1>3. n \in T
  BY <1>1, <1>2, SetInduction
<1>4. QED
  BY <1>3 DEF T

\* The layers of a tree are determined one after the other.
LEMMA LayersUnique ==
  ASSUME NEW leaves, NEW n \in Nat, NEW m \in Nat, n <= m, NEW g, NEW h,
         LayersUpTo(leaves, n, g), LayersUpTo(leaves, m, h)
  PROVE  \A d \in 0..n : g[d] = h[d]
<1> DEFINE T == {d \in Nat : d <= n => g[d] = h[d]}
<1>1. 0 \in T
  BY DEF LayersUpTo
<1>2. ASSUME NEW d \in Nat, d \in T PROVE d + 1 \in T
  BY <1>2 DEF LayersUpTo
<1> HIDE DEF T
<1>3. Nat \subseteq T
  BY <1>1, <1>2, SetInduction
<1>4. QED
  BY <1>3 DEF T

\* The layers, one by one.
LEMMA LayersAre ==
  ASSUME NEW leaves
  PROVE  /\ Layers(leaves)[0] = leaves
         /\ \A d \in Nat :
              Layers(leaves)[d + 1] = ComputeLayer(Layers(leaves)[d])
<1> DEFINE Def(f) == [d \in Nat |-> IF d = 0 THEN leaves
                                   ELSE ComputeLayer(f[d - 1])]
           g(n) == CHOOSE g : LayersUpTo(leaves, n, g)
           f == [d \in Nat |-> g(d)[d]]
<1>1. \A n \in Nat : LayersUpTo(leaves, n, g(n))
  BY LayersExist
<1> HIDE DEF g
<1>2. ASSUME NEW d \in Nat
      PROVE  f[d] = IF d = 0 THEN leaves ELSE ComputeLayer(f[d - 1])
  <2>1. CASE d = 0
    BY <1>1, <2>1 DEF LayersUpTo
  <2>2. CASE d # 0
    <3>1. d - 1 \in Nat /\ d - 1 <= d /\ d \in 1..d
      BY <2>2
    <3>2. g(d)[d] = ComputeLayer(g(d)[d - 1])
      BY <1>1, <3>1 DEF LayersUpTo
    <3>3. g(d - 1)[d - 1] = g(d)[d - 1]
      BY <1>1, <3>1, LayersUnique
    <3>4. QED
      BY <2>2, <3>1, <3>2, <3>3
  <2>3. QED
    BY <2>1, <2>2
<1> HIDE DEF f
<1>3. f = Def(f)
  BY <1>2 DEF f
<1>4. Layers(leaves) = Def(Layers(leaves))
  BY <1>3 DEF Layers
<1>5. QED
  BY <1>4

IsSequence(s) == \E S : s \in Seq(S)

\* A layer has a node for each pair of nodes below it, and one for the last node
\* of an odd layer.
LEMMA LayerNodes ==
  ASSUME NEW nodes, IsSequence(nodes)
  PROVE  LET n == Len(nodes)
             layer == ComputeLayer(nodes)
         IN  /\ n \in Nat /\ IsSequence(layer)
             /\ Len(layer) = (n + 1) \div 2
             /\ \A i \in 1..(n \div 2) :
                  layer[i] = SHA256(<<nodes[2 * i - 1], nodes[2 * i]>>)
             /\ n % 2 = 1 => layer[n \div 2 + 1] = SHA256(<<nodes[n]>>)
<1> DEFINE n == Len(nodes)
           count == n \div 2
           pair(i) == ComputePair(nodes[2 * i - 1], nodes[2 * i])
           pairs == [i \in 1..count |-> pair(i)]
           last == SHA256(<<nodes[2 * count + 1]>>)
           T == {pair(i) : i \in 1..count} \cup {last}
           layer == ComputeLayer(nodes)
<1>1. n \in Nat
  BY DEF IsSequence
<1>2. /\ count \in Nat
      /\ (n % 2 = 1 => n = 2 * count + 1 /\ count + 1 = (n + 1) \div 2)
      /\ (n % 2 # 1 => n = 2 * count /\ count = (n + 1) \div 2)
  BY <1>1
<1> HIDE DEF n, count
<1>3. /\ pairs \in Seq(T) /\ Len(pairs) = count /\ last \in T
      /\ \A i \in 1..count : pairs[i] = pair(i)
  <2>1. \A i \in 1..count : pair(i) \in T
    OBVIOUS
  <2>2. last \in T
    OBVIOUS
  <2> HIDE DEF T, pair, last
  <2>3. QED
    BY <1>2, <2>1, <2>2
<1>4. layer = pairs \o (IF n % 2 = 1 THEN <<last>> ELSE <<>>)
  BY DEF ComputeLayer, n, count
<1> HIDE DEF pairs, last, T, layer
<1>5. CASE n % 2 = 1
  <2>1. layer = pairs \o <<last>> /\ <<last>> \in Seq(T) /\ Len(<<last>>) = 1
    BY <1>3, <1>4, <1>5
  <2>2. /\ layer \in Seq(T) /\ Len(layer) = count + 1
        /\ \A i \in 1..count : layer[i] = pair(i)
        /\ layer[count + 1] = last
    BY <1>2, <1>3, <2>1
  <2>3. QED
    BY <1>1, <1>2, <1>5, <2>2 DEF IsSequence, ComputePair, last, n, count, layer
<1>6. CASE n % 2 # 1
  <2>1. layer = pairs
    BY <1>3, <1>4, <1>6
  <2>2. QED
    BY <1>1, <1>2, <1>3, <1>6, <2>1
    DEF IsSequence, ComputePair, n, count, layer
<1>7. QED
  BY <1>5, <1>6

\* Sequences with the same elements are the same.
LEMMA SameElements ==
  ASSUME NEW s, NEW t, IsSequence(s), IsSequence(t), Len(s) = Len(t),
         \A k \in 1..Len(s) : s[k] = t[k]
  PROVE  s = t
<1>1. PICK S : s \in Seq(S)
  BY DEF IsSequence
<1>2. PICK T : t \in Seq(T)
  BY DEF IsSequence
<1>3. QED
  BY <1>1, <1>2

\* A hash determines the nodes below it.
LEMMA PairDetermines ==
  ASSUME NEW p, NEW q, NEW r, NEW s, SHA256(<<p, q>>) = SHA256(<<r, s>>)
  PROVE  p = r /\ q = s
<1>1. <<p, q>> = <<r, s>>
  BY DEF SHA256
<1>2. QED
  BY <1>1

\* Also of a single part.
LEMMA SingleDetermines ==
  ASSUME NEW p, NEW r, SHA256(<<p>>) = SHA256(<<r>>)
  PROVE  p = r
<1>1. <<p>> = <<r>>
  BY DEF SHA256
<1>2. QED
  BY <1>1

\* No two layers of a length have the same layer above them.
LEMMA LayerDetermines ==
  ASSUME NEW a, NEW b, IsSequence(a), IsSequence(b), Len(a) = Len(b),
         ComputeLayer(a) = ComputeLayer(b)
  PROVE  \A k \in 1..Len(a) : a[k] = b[k]
<1> DEFINE n == Len(a)
           layer == ComputeLayer(a)
<1>1. /\ n \in Nat
      /\ \A i \in 1..(n \div 2) :
           layer[i] = SHA256(<<a[2 * i - 1], a[2 * i]>>)
      /\ n % 2 = 1 => layer[n \div 2 + 1] = SHA256(<<a[n]>>)
  BY LayerNodes
<1>2. /\ \A i \in 1..(n \div 2) :
           layer[i] = SHA256(<<b[2 * i - 1], b[2 * i]>>)
      /\ n % 2 = 1 => layer[n \div 2 + 1] = SHA256(<<b[n]>>)
  BY LayerNodes
<1> HIDE DEF n, layer
<1>3. ASSUME NEW i \in 1..(n \div 2)
      PROVE  a[2 * i - 1] = b[2 * i - 1] /\ a[2 * i] = b[2 * i]
  <2>1. SHA256(<<a[2 * i - 1], a[2 * i]>>) = SHA256(<<b[2 * i - 1], b[2 * i]>>)
    BY <1>1, <1>2
  <2>2. QED
    BY <2>1, PairDetermines
<1>4. n % 2 = 1 => a[n] = b[n]
  BY <1>1, <1>2, SingleDetermines
<1>5. ASSUME NEW k \in 1..n PROVE a[k] = b[k]
  <2>1. \/ k = n /\ n % 2 = 1
        \/ \E i \in 1..(n \div 2) : k = 2 * i - 1 \/ k = 2 * i
    <3> DEFINE i == (k + 1) \div 2
    <3>1. (k = 2 * i - 1 \/ k = 2 * i) /\ i \in Nat /\ i >= 1
      BY <1>1
    <3>2. (i <= n \div 2) \/ (k = n /\ n % 2 = 1)
      BY <1>1
    <3>3. n \div 2 \in Nat
      BY <1>1
    <3> HIDE DEF i
    <3>4. QED
      BY <3>1, <3>2, <3>3
  <2>2. QED
    BY <1>3, <1>4, <2>1
<1>6. QED
  BY <1>5 DEF n

\* Every layer is a sequence, with at least one node, and one node at the height
\* of the number of the leaves at the latest.
LEMMA LayersShrink ==
  ASSUME NEW leaves, IsSequence(leaves), Len(leaves) >= 1
  PROVE  \A d \in Nat :
           LET layer == Layers(leaves)[d]
           IN  /\ IsSequence(layer)
               /\ Len(layer) \in Nat /\ Len(layer) >= 1
               /\ (Len(layer) = 1 \/ Len(layer) + d <= Len(leaves))
<1> DEFINE n == Len(leaves)
           layer(d) == Layers(leaves)[d]
           Fine(d) == /\ IsSequence(layer(d))
                      /\ Len(layer(d)) \in Nat /\ Len(layer(d)) >= 1
                      /\ (Len(layer(d)) = 1 \/ Len(layer(d)) + d <= n)
           T == {d \in Nat : Fine(d)}
<1>1. n \in Nat
  BY DEF IsSequence
<1>2. Fine(0)
  BY <1>1, LayersAre
<1>3. ASSUME NEW d \in Nat, Fine(d) PROVE Fine(d + 1)
  <2>1. layer(d + 1) = ComputeLayer(layer(d))
    BY LayersAre
  <2>2. /\ IsSequence(layer(d + 1))
        /\ Len(layer(d + 1)) = (Len(layer(d)) + 1) \div 2
    BY <1>3, <2>1, LayerNodes
  <2> HIDE DEF layer
  <2>3. PICK w \in Nat : w = Len(layer(d))
    BY <1>3
  <2>4. w >= 1 /\ (w = 1 \/ w + d <= n)
    BY <1>3, <2>3
  <2>5. /\ (w + 1) \div 2 \in Nat /\ (w + 1) \div 2 >= 1
        /\ ((w + 1) \div 2 = 1 \/ ((w + 1) \div 2) + (d + 1) <= n)
    BY <1>1, <2>4
  <2>6. QED
    BY <2>2, <2>3, <2>5
<1> HIDE DEF Fine
<1>4. Nat \subseteq T
  <2>1. 0 \in T /\ \A d \in Nat : d \in T => d + 1 \in T
    BY <1>2, <1>3
  <2> HIDE DEF T
  <2>2. QED
    BY <2>1, SetInduction
<1>5. QED
  BY <1>4 DEF Fine

\* The height of a tree: the first layer of one node.
IsTop(leaves, d) ==
  /\ d \in 0..Len(leaves)
  /\ Len(Layers(leaves)[d]) = 1
  /\ \A e \in 0..(d - 1) : Len(Layers(leaves)[e]) > 1

\* A tree has one top: the layer of a single hash, the first such.
LEMMA TreeHeight ==
  ASSUME NEW leaves, IsSequence(leaves), Len(leaves) >= 1
  PROVE  \E d \in Nat :
           /\ IsTop(leaves, d)
           /\ \A e \in Nat : IsTop(leaves, e) => e = d
           /\ NewTree(leaves) = SHA256(<<Layers(leaves)[d][1]>>)
<1> DEFINE n == Len(leaves)
           w(d) == Len(Layers(leaves)[d])
           T == {d \in Nat : w(d) = 1}
<1>1. /\ n \in Nat
      /\ \A d \in Nat : /\ w(d) \in Nat /\ w(d) >= 1
                       /\ (w(d) = 1 \/ w(d) + d <= n)
  <2>1. n \in Nat
    BY DEF IsSequence
  <2>2. \A d \in Nat : /\ w(d) \in Nat /\ w(d) >= 1
                      /\ (w(d) = 1 \/ w(d) + d <= n)
    BY LayersShrink
  <2>3. QED
    BY <2>1, <2>2
<1> HIDE DEF w
<1>2. w(n) = 1
  <2>1. w(n) \in Nat /\ w(n) >= 1 /\ (w(n) = 1 \/ w(n) + n <= n)
    BY <1>1
  <2>2. QED
    BY <1>1, <2>1
<1>3. PICK d \in T : \A e \in T : d <= e
  <2>1. T \subseteq Nat /\ T # {}
    BY <1>1, <1>2
  <2> HIDE DEF T
  <2>2. QED
    BY <2>1, LeastElement
<1>4. d \in 0..n /\ w(d) = 1
  BY <1>1, <1>2, <1>3
<1>5. ASSUME NEW e \in 0..(d - 1) PROVE w(e) > 1
  <2>1. e \in Nat /\ e < d
    BY <1>4
  <2>2. e \notin T
    <3>1. ~(d <= e)
      BY <1>4, <2>1
    <3>2. QED
      BY <1>3, <3>1
  <2>3. QED
    BY <1>1, <2>1, <2>2
<1>6. IsTop(leaves, d)
  BY <1>4, <1>5 DEF IsTop, w
<1>7. ASSUME NEW e \in Nat, IsTop(leaves, e) PROVE e = d
  <2>1. w(e) = 1 /\ \A c \in 0..(e - 1) : w(c) > 1
    BY <1>7 DEF IsTop, w
  <2>2. ~(e < d)
    BY <1>5, <2>1, <1>4
  <2>3. ~(d < e)
    BY <1>4, <2>1
  <2>4. QED
    BY <1>4, <2>2, <2>3
<1>8. NewTree(leaves) = SHA256(<<Layers(leaves)[d][1]>>)
  <2> DEFINE Top(e) == /\ Len(Layers(leaves)[e]) = 1
                       /\ \A c \in 0..(e - 1) : Len(Layers(leaves)[c]) > 1
             top == CHOOSE e \in 0..n : Top(e)
  <2>1. IsTop(leaves, top)
    <3>1. \E e \in 0..n : Top(e)
      BY <1>6 DEF IsTop
    <3>2. top \in 0..n /\ Top(top)
      <4> HIDE DEF Top
      <4>1. QED
        BY <3>1
    <3> HIDE DEF top
    <3>3. QED
      BY <3>2 DEF IsTop
  <2>2. top = d
    <3> HIDE DEF top
    <3>1. top \in Nat
      BY <1>1, <2>1 DEF IsTop
    <3>2. QED
      BY <1>7, <2>1, <3>1
  <2>3. NewTree(leaves) = SHA256(<<Layers(leaves)[top][1]>>)
    BY DEF NewTree
  <2>4. QED
    BY <2>2, <2>3
<1>9. QED
  BY <1>4, <1>6, <1>7, <1>8

\* Layers over leaves of one number have one length.
LEMMA LayersAlike ==
  ASSUME NEW a, NEW b, IsSequence(a), IsSequence(b),
         Len(a) = Len(b), Len(a) >= 1
  PROVE  /\ \A d \in Nat : Len(Layers(a)[d]) = Len(Layers(b)[d])
         /\ \A d \in Nat : IsTop(a, d) <=> IsTop(b, d)
<1> DEFINE Same(d) == Len(Layers(a)[d]) = Len(Layers(b)[d])
           T == {d \in Nat : Same(d)}
<1>1. Same(0)
  BY LayersAre
<1>2. ASSUME NEW d \in Nat, Same(d) PROVE Same(d + 1)
  <2>1. IsSequence(Layers(a)[d]) /\ IsSequence(Layers(b)[d])
    BY LayersShrink
  <2>2. /\ Layers(a)[d + 1] = ComputeLayer(Layers(a)[d])
        /\ Layers(b)[d + 1] = ComputeLayer(Layers(b)[d])
    BY LayersAre
  <2>3. /\ Len(Layers(a)[d + 1]) = (Len(Layers(a)[d]) + 1) \div 2
        /\ Len(Layers(b)[d + 1]) = (Len(Layers(b)[d]) + 1) \div 2
    BY <2>1, <2>2, LayerNodes
  <2>4. QED
    BY <1>2, <2>3
<1>3. Nat \subseteq T
  <2>1. 0 \in T /\ \A d \in Nat : d \in T => d + 1 \in T
    BY <1>1, <1>2
  <2> HIDE DEF T
  <2>2. QED
    BY <2>1, SetInduction
<1>4. \A d \in Nat : Same(d)
  <2> HIDE DEF Same
  <2>1. QED
    BY <1>3
<1>5. ASSUME NEW d \in Nat PROVE IsTop(a, d) <=> IsTop(b, d)
  <2>1. \A e \in 0..(d - 1) : Same(e)
    BY <1>4
  <2>2. QED
    BY <1>4, <2>1 DEF IsTop
<1>6. QED
  BY <1>4, <1>5

\* No two sequences of leaves of one length have the same root.
LEMMA RootDetermines ==
  ASSUME NEW a, NEW b, IsSequence(a), IsSequence(b),
         Len(a) = Len(b), Len(a) >= 1, NewTree(a) = NewTree(b)
  PROVE  \A k \in 1..Len(a) : a[k] = b[k]
<1> DEFINE Equal(d) == \A k \in 1..Len(Layers(a)[d]) :
                         Layers(a)[d][k] = Layers(b)[d][k]
<1>1. PICK top \in Nat : IsTop(a, top)
                         /\ NewTree(a) = SHA256(<<Layers(a)[top][1]>>)
  BY TreeHeight
<1>2. NewTree(b) = SHA256(<<Layers(b)[top][1]>>)
  <2>1. PICK d \in Nat : /\ \A e \in Nat : IsTop(b, e) => e = d
                         /\ NewTree(b) = SHA256(<<Layers(b)[d][1]>>)
    BY TreeHeight
  <2>2. IsTop(b, top)
    BY <1>1, LayersAlike
  <2>3. QED
    BY <1>1, <2>1, <2>2
<1>3. Equal(top)
  <2>1. Layers(a)[top][1] = Layers(b)[top][1]
    <3>1. SHA256(<<Layers(a)[top][1]>>) = SHA256(<<Layers(b)[top][1]>>)
      BY <1>1, <1>2
    <3>2. QED
      BY <3>1, SingleDetermines
  <2>2. Len(Layers(a)[top]) = 1
    BY <1>1 DEF IsTop
  <2>3. QED
    BY <2>1, <2>2
<1>4. ASSUME NEW d \in Nat, Equal(d + 1) PROVE Equal(d)
  <2> DEFINE la == Layers(a)[d]
             lb == Layers(b)[d]
  <2>1. IsSequence(la) /\ IsSequence(lb) /\ Len(la) = Len(lb)
    BY LayersShrink, LayersAlike
  <2>2. /\ Layers(a)[d + 1] = ComputeLayer(la)
        /\ Layers(b)[d + 1] = ComputeLayer(lb)
    BY LayersAre
  <2>3. ComputeLayer(la) = ComputeLayer(lb)
    <3> DEFINE u == ComputeLayer(la)
               v == ComputeLayer(lb)
    <3>1. IsSequence(u) /\ IsSequence(v) /\ Len(u) = Len(v)
      BY <2>1, LayerNodes
    <3>2. \A k \in 1..Len(u) : u[k] = v[k]
      BY <1>4, <2>2
    <3> HIDE DEF u, v
    <3>3. QED
      BY <3>1, <3>2, SameElements DEF u, v
  <2> HIDE DEF la, lb
  <2>4. \A k \in 1..Len(la) : la[k] = lb[k]
    BY <2>1, <2>3, LayerDetermines
  <2>5. QED
    BY <2>4 DEF la, lb
<1>5. Equal(0)
  <2> DEFINE T == {h \in Nat : h <= top => Equal(top - h)}
  <2> HIDE DEF Equal
  <2>1. 0 \in T
    BY <1>1, <1>3
  <2>2. ASSUME NEW h \in Nat, h \in T PROVE h + 1 \in T
    <3> SUFFICES ASSUME h + 1 <= top PROVE Equal(top - (h + 1))
      OBVIOUS
    <3>1. PICK d \in Nat : d = top - (h + 1)
      BY <1>1
    <3>2. d + 1 = top - h /\ h <= top
      BY <1>1, <3>1
    <3>3. Equal(d + 1)
      BY <2>2, <3>2
    <3>4. QED
      BY <1>4, <3>1, <3>3
  <2> HIDE DEF T
  <2>3. Nat \subseteq T
    BY <2>1, <2>2, SetInduction
  <2>4. top \in T
    BY <1>1, <2>3
  <2>5. Equal(top - top)
    BY <1>1, <2>4 DEF T
  <2>6. QED
    BY <1>1, <2>5
<1>6. QED
  BY <1>5, LayersAre

\* The same for the rows of the reference definition.
Row0(leaves) == [span |-> 1, node |-> [i \in Nat |-> leaves[i + 1]]]

RowsUpTo(leaves, n, g) ==
  /\ g[0] = Row0(leaves)
  /\ \A d \in 1..n : g[d] = RowAbove(leaves, g[d - 1])

\* The rows of a tree up to a height exist.
LEMMA RowsExist ==
  ASSUME NEW leaves, NEW n \in Nat
  PROVE  \E g : RowsUpTo(leaves, n, g)
<1> DEFINE T == {k \in Nat : \E g : RowsUpTo(leaves, k, g)}
<1>1. 0 \in T
  <2>1. RowsUpTo(leaves, 0, [d \in 0..0 |-> Row0(leaves)])
    BY DEF RowsUpTo
  <2>2. QED
    BY <2>1
<1>2. ASSUME NEW k \in Nat, k \in T PROVE k + 1 \in T
  <2>1. PICK g : RowsUpTo(leaves, k, g)
    BY <1>2
  <2> DEFINE h == [d \in 0..(k + 1) |->
                    IF d = k + 1 THEN RowAbove(leaves, g[k]) ELSE g[d]]
  <2>2. RowsUpTo(leaves, k + 1, h)
    BY <2>1 DEF RowsUpTo
  <2>3. QED
    BY <2>2
<1> HIDE DEF T
<1>3. n \in T
  BY <1>1, <1>2, SetInduction
<1>4. QED
  BY <1>3 DEF T

\* They are determined one after the other.
LEMMA RowsUnique ==
  ASSUME NEW leaves, NEW n \in Nat, NEW m \in Nat, n <= m, NEW g, NEW h,
         RowsUpTo(leaves, n, g), RowsUpTo(leaves, m, h)
  PROVE  \A d \in 0..n : g[d] = h[d]
<1> DEFINE T == {d \in Nat : d <= n => g[d] = h[d]}
<1>1. 0 \in T
  BY DEF RowsUpTo
<1>2. ASSUME NEW d \in Nat, d \in T PROVE d + 1 \in T
  BY <1>2 DEF RowsUpTo
<1> HIDE DEF T
<1>3. Nat \subseteq T
  BY <1>1, <1>2, SetInduction
<1>4. QED
  BY <1>3 DEF T

\* So the rows are what their recursion says.
LEMMA RowsAre ==
  ASSUME NEW leaves
  PROVE  /\ Rows(leaves)[0] = Row0(leaves)
         /\ \A d \in Nat :
              Rows(leaves)[d + 1] = RowAbove(leaves, Rows(leaves)[d])
<1> DEFINE Def(f) == [d \in Nat |-> IF d = 0 THEN Row0(leaves)
                                   ELSE RowAbove(leaves, f[d - 1])]
           g(n) == CHOOSE g : RowsUpTo(leaves, n, g)
           f == [d \in Nat |-> g(d)[d]]
<1>1. \A n \in Nat : RowsUpTo(leaves, n, g(n))
  BY RowsExist
<1> HIDE DEF g
<1>2. ASSUME NEW d \in Nat
      PROVE  f[d] = IF d = 0 THEN Row0(leaves) ELSE RowAbove(leaves, f[d - 1])
  <2>1. CASE d = 0
    BY <1>1, <2>1 DEF RowsUpTo
  <2>2. CASE d # 0
    <3>1. d - 1 \in Nat /\ d - 1 <= d /\ d \in 1..d
      BY <2>2
    <3>2. g(d)[d] = RowAbove(leaves, g(d)[d - 1])
      BY <1>1, <3>1 DEF RowsUpTo
    <3>3. g(d - 1)[d - 1] = g(d)[d - 1]
      BY <1>1, <3>1, RowsUnique
    <3>4. QED
      BY <2>2, <3>1, <3>2, <3>3
  <2>3. QED
    BY <2>1, <2>2
<1> HIDE DEF f
<1>3. f = Def(f)
  BY <1>2 DEF f
<1>4. Rows(leaves) = Def(Rows(leaves))
  BY <1>3 DEF Rows, Row0
<1>5. QED
  BY <1>4

\* A node is where it is in the layer it is in, and spans the leaves below it.
LayerIsRow(leaves, d) ==
  LET layer == Layers(leaves)[d]
      row == Rows(leaves)[d]
  IN  /\ row.span \in Nat
      /\ \A i \in Nat : i < Len(layer) <=> i * row.span < Len(leaves)
      /\ \A i \in Nat : i < Len(layer) => layer[i + 1] = row.node[i]

\* The width of a layer in pairs, and in leaves.
LEMMA HalfWidth ==
  ASSUME NEW w \in Nat, NEW i \in Nat
  PROVE  /\ i < (w + 1) \div 2 <=> 2 * i < w
         /\ 2 * i + 1 < w => i + 1 \in 1..(w \div 2)
         /\ 2 * i < w /\ ~(2 * i + 1 < w) =>
              w % 2 = 1 /\ w = 2 * i + 1 /\ w \div 2 = i
OBVIOUS

\* The left child of a node spans half of its leaves.
LEMMA DoubleSpan ==
  ASSUME NEW i \in Nat, NEW span \in Nat
  PROVE  (2 * i) * span = i * (2 * span)
OBVIOUS

\* Every layer of the tree is the row at its height.
LEMMA LayersAreRows ==
  ASSUME NEW leaves, IsSequence(leaves), Len(leaves) >= 1
  PROVE  \A d \in Nat : LayerIsRow(leaves, d)
<1> DEFINE n == Len(leaves)
           T == {d \in Nat : LayerIsRow(leaves, d)}
<1>1. n \in Nat
  BY DEF IsSequence
<1>2. LayerIsRow(leaves, 0)
  <2>1. Layers(leaves)[0] = leaves /\ Rows(leaves)[0] = Row0(leaves)
    BY LayersAre, RowsAre
  <2>2. /\ Row0(leaves).span = 1
        /\ \A i \in Nat : Row0(leaves).node[i] = leaves[i + 1]
    BY DEF Row0
  <2>3. QED
    BY <1>1, <2>1, <2>2 DEF LayerIsRow
<1>3. ASSUME NEW d \in Nat, LayerIsRow(leaves, d)
      PROVE  LayerIsRow(leaves, d + 1)
  <2> DEFINE below == Layers(leaves)[d]
             layer == Layers(leaves)[d + 1]
             w == Len(below)
             span == Rows(leaves)[d].span
             node == Rows(leaves)[d].node
             row == Rows(leaves)[d + 1]
  <2>1. /\ w \in Nat /\ Len(layer) = (w + 1) \div 2
        /\ \A i \in 1..(w \div 2) :
             layer[i] = SHA256(<<below[2 * i - 1], below[2 * i]>>)
        /\ w % 2 = 1 => layer[w \div 2 + 1] = SHA256(<<below[w]>>)
    <3>1. IsSequence(below) /\ layer = ComputeLayer(below)
      BY LayersAre, LayersShrink
    <3>2. QED
      BY <3>1, LayerNodes
  <2>2. /\ row.span = 2 * span
        /\ \A i \in Nat : row.node[i] =
             IF (2 * i + 1) * span < n
             THEN SHA256(<<node[2 * i], node[2 * i + 1]>>)
             ELSE SHA256(<<node[2 * i]>>)
    <3>1. row = RowAbove(leaves, Rows(leaves)[d])
      BY RowsAre
    <3>2. QED
      BY <3>1 DEF RowAbove
  <2>3. /\ span \in Nat
        /\ \A i \in Nat : i < w <=> i * span < n
        /\ \A i \in Nat : i < w => below[i + 1] = node[i]
    BY <1>3 DEF LayerIsRow
  <2> HIDE DEF below, layer, w, span, node, row, n
  <2>4. ASSUME NEW i \in Nat
        PROVE  i < Len(layer) <=> i * row.span < n
    <3>1. i < Len(layer) <=> 2 * i < w
      BY <2>1, HalfWidth
    <3>2. 2 * i < w <=> (2 * i) * span < n
      <4>1. 2 * i \in Nat
        OBVIOUS
      <4>2. QED
        BY <2>3, <4>1
    <3>3. (2 * i) * span = i * row.span
      BY <2>2, <2>3, DoubleSpan
    <3>4. QED
      BY <3>1, <3>2, <3>3
  <2>5. ASSUME NEW i \in Nat, i < Len(layer)
        PROVE  layer[i + 1] = row.node[i]
    <3>1. 2 * i \in Nat /\ 2 * i + 1 \in Nat /\ 2 * i < w
      BY <2>1, <2>5, HalfWidth
    <3>2. 2 * i + 1 < w <=> (2 * i + 1) * span < n
      BY <2>3, <3>1
    <3>3. below[2 * i + 1] = node[2 * i]
      BY <2>3, <3>1
    <3>4. CASE 2 * i + 1 < w
      <4>1. i + 1 \in 1..(w \div 2)
        BY <2>1, <3>4, HalfWidth
      <4>2. 2 * (i + 1) - 1 = 2 * i + 1 /\ 2 * (i + 1) = (2 * i + 1) + 1
        OBVIOUS
      <4>3. layer[i + 1] = SHA256(<<below[2 * i + 1], below[(2 * i + 1) + 1]>>)
        BY <2>1, <4>1, <4>2
      <4>4. below[(2 * i + 1) + 1] = node[2 * i + 1]
        BY <2>3, <3>1, <3>4
      <4>5. row.node[i] = SHA256(<<node[2 * i], node[2 * i + 1]>>)
        BY <2>2, <3>2, <3>4
      <4>6. QED
        BY <3>3, <4>3, <4>4, <4>5
    <3>5. CASE ~(2 * i + 1 < w)
      <4>1. w % 2 = 1 /\ w = 2 * i + 1 /\ w \div 2 = i
        BY <2>1, <3>1, <3>5, HalfWidth
      <4>2. layer[i + 1] = SHA256(<<below[2 * i + 1]>>)
        BY <2>1, <4>1
      <4>3. row.node[i] = SHA256(<<node[2 * i]>>)
        BY <2>2, <3>2, <3>5
      <4>4. QED
        BY <3>3, <4>2, <4>3
    <3>6. QED
      BY <3>4, <3>5
  <2>6. row.span \in Nat
    BY <2>2, <2>3
  <2>7. QED
    BY <2>4, <2>5, <2>6 DEF LayerIsRow, layer, row, n
<1>4. Nat \subseteq T
  <2>1. 0 \in T /\ \A d \in Nat : d \in T => d + 1 \in T
    BY <1>2, <1>3
  <2> HIDE DEF T
  <2>2. QED
    BY <2>1, SetInduction
<1>5. QED
  BY <1>4

\* The tree that is built is the reference tree.
LEMMA TreesAgree ==
  ASSUME NEW leaves, IsSequence(leaves), Len(leaves) >= 1
  PROVE  NewTree(leaves) = TreeOf(leaves)
<1> DEFINE n == Len(leaves)
           row == Rows(leaves)
           High(d) == /\ row[d].span >= n
                      /\ \A e \in 0..(d - 1) : row[e].span < n
           depth == CHOOSE d \in 0..n : High(d)
<1>1. n \in Nat
  BY DEF IsSequence
<1>2. ASSUME NEW d \in Nat
      PROVE  /\ row[d].span >= n <=> Len(Layers(leaves)[d]) = 1
             /\ row[d].span < n <=> Len(Layers(leaves)[d]) > 1
             /\ Layers(leaves)[d][1] = row[d].node[0]
  <2> DEFINE span == row[d].span
             w == Len(Layers(leaves)[d])
  <2>1. w \in Nat /\ w >= 1
    BY LayersShrink
  <2>2. /\ span \in Nat
        /\ \A i \in Nat : i < w <=> i * span < n
        /\ \A i \in Nat : i < w => Layers(leaves)[d][i + 1] = row[d].node[i]
    BY LayersAreRows DEF LayerIsRow
  <2> HIDE DEF span, w, n
  <2>3. 1 < w <=> span < n
    <3>1. 1 \in Nat /\ 1 * span = span
      BY <2>2
    <3>2. QED
      BY <2>2, <3>1
  <2>4. Layers(leaves)[d][1] = row[d].node[0]
    <3>1. 0 \in Nat /\ 0 < w /\ 0 + 1 = 1
      BY <2>1
    <3>2. Layers(leaves)[d][0 + 1] = row[d].node[0]
      BY <2>2, <3>1
    <3>3. QED
      BY <3>2
  <2>5. (span >= n <=> w = 1) /\ (span < n <=> w > 1)
    BY <1>1, <2>1, <2>2, <2>3
  <2>6. QED
    BY <2>4, <2>5 DEF span, w
<1>3. PICK top \in Nat :
        /\ IsTop(leaves, top)
        /\ \A e \in Nat : IsTop(leaves, e) => e = top
        /\ NewTree(leaves) = SHA256(<<Layers(leaves)[top][1]>>)
  BY TreeHeight
<1>4. ASSUME NEW d \in 0..n PROVE High(d) <=> IsTop(leaves, d)
  <2>1. d \in Nat /\ \A e \in 0..(d - 1) : e \in Nat
    BY <1>1
  <2> HIDE DEF row, n
  <2>2. QED
    BY <1>2, <1>4, <2>1 DEF IsTop, n
<1> HIDE DEF High
<1>5. depth \in 0..n /\ High(depth)
  BY <1>3, <1>4 DEF IsTop
<1>6. TreeOf(leaves) = SHA256(<<row[depth].node[0]>>)
  BY DEF TreeOf, High
<1> HIDE DEF depth
<1>7. depth = top
  <2>1. depth \in Nat
    BY <1>1, <1>5
  <2>2. QED
    BY <1>3, <1>4, <1>5, <2>1
<1>8. QED
  BY <1>2, <1>3, <1>6, <1>7

----------------------------------------------------------------------------
(* The experiment                                                          *)

\* Division with remainder.
LEMMA DivMod ==
  ASSUME NEW n \in Nat, NEW size \in Nat \ {0}
  PROVE  /\ n \div size \in Nat /\ n % size \in 0..(size - 1)
         /\ n = size * (n \div size) + (n % size)
<1>1. size \in Nat /\ size > 0
  OBVIOUS
<1>2. n \div size \in Int /\ n \div size >= 0
  BY <1>1, SMT
<1>3. n % size \in 0..(size - 1)
  BY <1>1, SMT
<1>4. n = size * (n \div size) + (n % size)
  BY <1>1, SMT
<1>5. QED
  BY <1>2, <1>3, <1>4

\* The blocks cover the file, and all but the last lie in it.
LEMMA BlocksCover ==
  ASSUME NEW n \in Nat, NEW size \in Nat \ {0}
  PROVE  /\ BlockCount(n, size) \in Nat
         /\ size * BlockCount(n, size) >= n
         /\ \A b \in Nat :
              b < BlockCount(n, size) /\ size * (b + 1) > n =>
                b = BlockCount(n, size) - 1 /\ n % size # 0
<1> DEFINE q == n \div size
           r == n % size
<1>1. q \in Nat /\ r \in 0..(size - 1) /\ n = size * q + r
  BY DivMod
<1>2. BlockCount(n, size) = IF r > 0 THEN q + 1 ELSE q
  BY <1>1 DEF BlockCount
<1> HIDE DEF q, r
<1>3. size * (q + 1) = size * q + size
  BY <1>1
<1>4. ASSUME NEW b \in Nat, b < q PROVE size * (b + 1) <= size * q
  BY <1>1, <1>4
<1>5. BlockCount(n, size) \in Nat /\ size * BlockCount(n, size) >= n
  BY <1>1, <1>2, <1>3
<1>6. ASSUME NEW b \in Nat, b < BlockCount(n, size), size * (b + 1) > n
      PROVE  b = BlockCount(n, size) - 1 /\ r # 0
  <2>1. size * q \in Nat /\ size * (b + 1) \in Nat
    BY <1>1
  <2>2. ~(b < q)
    BY <1>1, <1>4, <1>6, <2>1
  <2>3. QED
    BY <1>1, <1>2, <1>6, <2>2
<1>7. QED
  BY <1>5, <1>6 DEF r

\* A cell lies in one block.
LEMMA BlocksApart ==
  ASSUME NEW size \in Nat \ {0}, NEW b \in Nat, NEW c \in Nat,
         NEW j \in 1..size, (size * c + j) - size * b \in 1..size
  PROVE  b = c
<1>1. ASSUME NEW d \in Nat, NEW e \in Nat, d < e
      PROVE  size * e >= size * d + size
  BY <1>1
<1>2. size * b \in Nat /\ size * c \in Nat
  OBVIOUS
<1>3. CASE b < c
  BY <1>1, <1>2, <1>3
<1>4. CASE c < b
  BY <1>1, <1>2, <1>4
<1>5. QED
  BY <1>3, <1>4

\* A block that lies in the file, as a part of it.
LEMMA WholeBlock ==
  ASSUME NEW data \in Seq(Cells), NEW size \in Nat \ {0}, NEW b \in Nat,
         size * (b + 1) <= Len(data)
  PROVE  /\ \A j \in 1..size : size * b + j <= Len(data)
         /\ SubSeq(data, size * b + 1, size * (b + 1))
              = [j \in 1..size |-> data[size * b + j]]
<1>1. PICK at \in Nat : at = size * b
  OBVIOUS
<1>2. size * (b + 1) = at + size /\ Len(data) \in Nat
  BY <1>1
<1>3. \A j \in 1..size : at + j <= Len(data)
  BY <1>2
<1>4. SubSeq(data, at + 1, at + size) = [j \in 1..size |-> data[at + j]]
  <2>1. (at + size) - (at + 1) + 1 = size
    OBVIOUS
  <2>2. \A j \in 1..size : (at + 1) + j - 1 = at + j
    OBVIOUS
  <2>3. SubSeq(data, at + 1, at + size) =
          [j \in 1..((at + size) - (at + 1) + 1) |-> data[(at + 1) + j - 1]]
    BY <1>2
  <2>4. QED
    BY <2>1, <2>2, <2>3
<1>5. QED
  BY <1>1, <1>2, <1>3, <1>4

\* A new file is well formed.
LEMMA NewFile ==
  ASSUME NEW data \in Seq(Cells), NEW size \in BlockSizes
  PROVE  LET obj == NewMemFileObj(data, size)
         IN  /\ obj.data = data /\ obj.fileSize = Len(data)
             /\ obj.blockSize = size
             /\ obj.blockCount \in Nat
             /\ obj.blockCount = BlockCount(Len(data), size)
<1>1. size \in Nat \ {0} /\ Len(data) \in Nat
  BY StorageAssumption
<1>2. QED
  BY <1>1, BlocksCover DEF NewMemFileObj

\* What a block of the file holds.
Content(obj, b) ==
  [j \in 1..obj.blockSize |-> IF obj.blockSize * b + j <= Len(obj.data)
                             THEN obj.data[obj.blockSize * b + j] ELSE 0]

\* A block that is in the file can be read, and its cells are cells.
LEMMA BlockContent ==
  ASSUME NEW obj, obj.data \in Seq(Cells), obj.blockSize \in Nat \ {0},
         obj.blockCount \in Nat, NEW b \in Nat, b < obj.blockCount
  PROVE  /\ MemGetBlock(obj, b) = Done(Content(obj, b))
         /\ Content(obj, b) \in [1..obj.blockSize -> Cells]
<1>1. MemGetBlock(obj, b) = Done(Content(obj, b))
  BY DEF MemGetBlock, Content
<1>2. ASSUME NEW j \in 1..obj.blockSize,
             obj.blockSize * b + j <= Len(obj.data)
      PROVE  obj.data[obj.blockSize * b + j] \in Cells
  <2>1. obj.blockSize * b \in Nat
    OBVIOUS
  <2>2. obj.blockSize * b + j \in 1..Len(obj.data)
    BY <1>2, <2>1
  <2>3. QED
    BY <2>2
<1>3. Content(obj, b) \in [1..obj.blockSize -> Cells]
  BY <1>2, StorageAssumption DEF Content
<1>4. QED
  BY <1>1, <1>3

\* The sizes of the file.
LEMMA FileSizes ==
  ASSUME FileInv
  PROVE  /\ mf.data \in Seq(Cells) /\ mf.fileSize = Len(mf.data)
         /\ Len(mf.data) \in Nat \ {0} /\ mf.data \in [1..Len(mf.data) -> Cells]
         /\ mf.blockSize \in BlockSizes /\ mf.blockSize \in Nat \ {0}
         /\ mf.blockCount \in Nat
         /\ mf.blockCount = BlockCount(Len(mf.data), mf.blockSize)
<1>1. mf.data \in Seq(Cells) /\ mf.fileSize = Len(mf.data)
  BY DEF FileInv
<1>2. Len(mf.data) \in Nat \ {0} /\ mf.data \in [1..Len(mf.data) -> Cells]
  <2>1. mf.data # <<>>
    BY DEF FileInv
  <2>2. QED
    BY <1>1, <2>1
<1>3. mf.blockSize \in BlockSizes /\ mf.blockSize \in Nat \ {0}
  BY StorageAssumption DEF FileInv
<1>4. /\ mf.blockCount \in Nat
      /\ mf.blockCount = BlockCount(Len(mf.data), mf.blockSize)
  BY <1>1 DEF FileInv
<1>5. QED
  BY <1>1, <1>2, <1>3, <1>4

\* The digest of a block that can be read is a scalar.
LEMMA BlockDigest ==
  ASSUME FileInv, NEW b \in Nat, b < mf.blockCount
  PROVE  Digest(MemGetBlock(mf, b).data) \in Scalars
<1>1. mf.blockSize \in Nat \ {0} /\ mf.blockSize \in BlockSizes
  BY StorageAssumption DEF FileInv
<1>2. /\ MemGetBlock(mf, b) = Done(Content(mf, b))
      /\ Content(mf, b) \in [1..mf.blockSize -> Cells]
  BY <1>1, BlockContent DEF FileInv
<1>3. MemGetBlock(mf, b).data = Content(mf, b)
  BY <1>2 DEF Done
<1>4. QED
  BY <1>1, <1>2, <1>3, StorageAssumption

\* A collision for any block is one: the update verifies against its hash.
LEMMA UpdateCollides ==
  ASSUME HashInv, stage = "built", NEW b \in Blocks, NEW mp \in Scalars,
         FileInv
  PROVE  /\ b + 1 \in DOMAIN cHashes
         /\ ComputeCollision(Y, x, rs[b + 1], ms[b + 1], mp).hash
              = cHashes[b + 1]
<1>1. /\ b + 1 \in 1..mf.blockCount /\ b + 1 \in DOMAIN cHashes
      /\ x \in FieldElements
  BY DEF HashInv, FileInv, Blocks
<1>2. rs[b + 1] \in FieldElements /\ ms[b + 1] \in Scalars
  BY <1>1 DEF HashInv
<1>3. cHashes[b + 1] = ComputeHash(Y, RandomPoint(rs[b + 1]), ms[b + 1])
  BY <1>1 DEF HashInv
<1>4. QED
  BY <1>1, <1>2, <1>3, CollisionKeepsHash DEF ComputeCollision, Y

\* A step that leaves the file alone.
LEMMA SameFile ==
  ASSUME FileInv, UNCHANGED <<mf, written>>
  PROVE  FileInv'
BY DEF FileInv, Blocks, AllBlocks

\* A block that is set is the caller's, and no other block changes.
LEMMA SetFile ==
  ASSUME FileInv, NEW b \in 0..mf.blockCount, NEW data \in AnyData,
         SetBlock(b, data)
  PROVE  /\ mf'.blockCount = mf.blockCount
         /\ FileInv'
<1> DEFINE n == Len(mf.data)
           size == mf.blockSize
           at(j) == j - size * b
           cell(j) == IF at(j) \in DOMAIN data THEN data[at(j)]
                                               ELSE mf.data[j]
           after == [j \in DOMAIN mf.data |-> cell(j)]
<1>1. /\ n \in Nat \ {0} /\ size \in Nat \ {0} /\ size \in BlockSizes
      /\ mf.data \in [1..n -> Cells]
      /\ mf.fileSize = n
      /\ mf.blockCount \in Nat /\ mf.blockCount = BlockCount(n, size)
  BY FileSizes
<1>2. data \in [1..size -> Cells] /\ DOMAIN data = 1..size
  <2>1. PICK k \in 0..(size + 1) : data \in [1..k -> Cells]
    BY <1>1 DEF AnyData
  <2>2. Len(data) = k
    BY <2>1
  <2>3. Len(data) = size
    BY <1>1 DEF SetBlock, SetBlockError
  <2>4. QED
    BY <2>1, <2>2, <2>3
<1>3. b \in Blocks /\ b \in Nat
  BY <1>1 DEF SetBlock, SetBlockError, Blocks
<1>4. after \in [1..n -> Cells]
  <2>1. ASSUME NEW j \in 1..n PROVE cell(j) \in Cells
    BY <1>1, <1>2
  <2>2. DOMAIN mf.data = 1..n
    BY <1>1
  <2> HIDE DEF cell
  <2>3. QED
    BY <2>1, <2>2
<1>5. after \in Seq(Cells) /\ Len(after) = n /\ after # <<>>
  <2> HIDE DEF after, n
  <2>1. after \in Seq(Cells) /\ Len(after) = n
    BY <1>1, <1>4
  <2>2. QED
    BY <1>1, <2>1
<1>6. /\ mf' = NewMemFileObj(after, size)
      /\ written' = [written EXCEPT ![b] = data]
  BY DEF SetBlock, MemSetBlock
<1>7. /\ mf'.data = after /\ mf'.fileSize = n /\ mf'.blockSize = size
      /\ mf'.blockCount = mf.blockCount
  BY <1>1, <1>5, <1>6, NewFile
<1>8. Blocks' = Blocks /\ AllBlocks' = AllBlocks
  BY <1>7 DEF Blocks, AllBlocks
<1>9. written \in [Blocks -> AllBlocks] /\ written' \in [Blocks -> AllBlocks]
  BY <1>2, <1>6 DEF FileInv, AllBlocks
<1>10. ASSUME NEW c \in Blocks, NEW j \in 1..size, size * c + j <= n
       PROVE  after[size * c + j] = written'[c][j]
  <2> DEFINE k == size * c + j
  <2>1. c \in Nat /\ size * c \in Nat /\ size * b \in Nat
    BY <1>1, <1>3 DEF Blocks
  <2>2. k \in 1..n
    BY <1>1, <1>10, <2>1
  <2>3. after[k] = cell(k)
    BY <1>1, <2>2
  <2>4. CASE c = b
    <3>1. at(k) = j
      BY <1>1, <2>1, <2>4
    <3>2. QED
      BY <1>2, <1>6, <1>9, <2>3, <2>4, <3>1
  <2>5. CASE c # b
    <3>1. at(k) \notin 1..size
      BY <1>1, <1>3, <2>1, <2>5, BlocksApart
    <3>2. mf.data[k] = written[c][j]
      BY <1>1, <1>10 DEF FileInv
    <3>3. QED
      BY <1>2, <1>6, <1>9, <2>3, <2>5, <3>1, <3>2
  <2>6. QED
    BY <2>4, <2>5
<1> HIDE DEF after
<1>11. QED
  BY <1>1, <1>5, <1>7, <1>8, <1>9, <1>10 DEF FileInv

\* The invariant holds of a file that was just made.
LEMMA InitStorage == Init => StorageInv
<1> SUFFICES ASSUME Init PROVE StorageInv
  OBVIOUS
<1>1. FileInv
  <2>1. PICK n \in Sizes, size \in BlockSizes : \E data \in [1..n -> Cells] :
          mf = NewMemFileObj(data, size)
    BY DEF Init
  <2>2. PICK data \in [1..n -> Cells] : mf = NewMemFileObj(data, size)
    BY <2>1
  <2>3. data \in Seq(Cells) /\ data # <<>>
    BY StorageAssumption
  <2>4. /\ mf.data = data /\ mf.fileSize = Len(data) /\ mf.blockSize = size
        /\ mf.blockCount \in Nat
        /\ mf.blockCount = BlockCount(Len(data), size)
    BY <2>2, <2>3, NewFile
  <2>5. size \in Nat \ {0} /\ size \in BlockSizes
    BY StorageAssumption
  <2>6. written = [b \in Blocks |-> MemGetBlock(mf, b).data]
    BY DEF Init
  <2>7. ASSUME NEW b \in Blocks
        PROVE  /\ written[b] \in AllBlocks
               /\ \A j \in 1..size : size * b + j <= Len(data) =>
                    data[size * b + j] = written[b][j]
    <3>1. b \in Nat /\ b < mf.blockCount
      BY <2>4 DEF Blocks
    <3>2. /\ MemGetBlock(mf, b) = Done(Content(mf, b))
          /\ Content(mf, b) \in [1..size -> Cells]
      BY <2>3, <2>4, <2>5, <3>1, BlockContent
    <3>3. written[b] = Content(mf, b)
      BY <2>6, <3>2 DEF Done
    <3>4. QED
      BY <2>4, <3>2, <3>3 DEF AllBlocks, Content
  <2>8. written \in [Blocks -> AllBlocks]
    BY <2>6, <2>7
  <2>9. QED
    BY <2>3, <2>4, <2>5, <2>7, <2>8 DEF FileInv
<1>2. HashInv
  BY DEF Init, HashInv
<1>3. RootInv /\ CollisionFound
  BY DEF Init, RootInv, CollisionFound
<1>4. QED
  BY <1>1, <1>2, <1>3 DEF StorageInv

\* Every step of the experiment preserves it.
LEMMA NextStorage == StorageInv /\ [Next]_vars => StorageInv'
<1> SUFFICES ASSUME StorageInv, [Next]_vars PROVE StorageInv'
  OBVIOUS
<1>1. FileInv /\ HashInv /\ RootInv /\ CollisionFound
  BY DEF StorageInv
<1>2. ASSUME NEW b \in 0..mf.blockCount, NEW data \in AnyData,
             SetBlock(b, data)
      PROVE  StorageInv'
  <2>1. FileInv' /\ mf'.blockCount = mf.blockCount
    BY <1>1, <1>2, SetFile
  <2>2. HashInv' /\ RootInv' /\ CollisionFound'
    BY <1>1, <1>2, <2>1 DEF SetBlock, HashInv, RootInv, CollisionFound, None
  <2>3. QED
    BY <2>1, <2>2 DEF StorageInv
<1>3. CASE Setup
  <2>1. FileInv'
    BY <1>1, <1>3, SameFile DEF Setup
  <2>2. HashInv'
    BY <1>1, <1>3 DEF Setup, HashInv, FileInv
  <2>3. RootInv' /\ CollisionFound'
    BY <1>1, <1>3 DEF Setup, HashInv, RootInv, CollisionFound, None
  <2>4. QED
    BY <2>1, <2>2, <2>3 DEF StorageInv
<1>4. CASE HashBlock
  <2> DEFINE i == Len(cHashes)
             m == Digest(MemGetBlock(mf, i).data)
  <2>1. i \in Nat /\ i < mf.blockCount
    <3>1. i \in Nat
      BY <1>1, <1>4 DEF HashInv, HashBlock, FileInv
    <3>2. QED
      BY <1>1, <1>4, <3>1 DEF HashBlock, MemGetBlock, Failed, FileInv
  <2>2. m \in Scalars
    BY <1>1, <2>1, BlockDigest
  <2>3. FileInv'
    BY <1>1, <1>4, SameFile DEF HashBlock
  <2>4. HashInv'
    <3> DEFINE S == {Sum256(p) : p \in Scalars}
               hash == ComputeHash(Y, RandomPoint(rs[i + 1]), m)
    <3>1. /\ stage = "setup" /\ x \in FieldElements
          /\ rs \in [1..mf.blockCount -> FieldElements]
          /\ mf.blockCount \in Nat
      BY <1>1, <1>4 DEF HashBlock, HashInv, FileInv
    <3>2. hash \in S
      <4>1. rs[i + 1] \in FieldElements
        BY <2>1, <3>1
      <4>2. Y \in Scalars /\ RandomPoint(rs[i + 1]) \in Scalars
        BY <3>1, <4>1 DEF Y, RandomPoint, ScalarBaseMult, FieldElements
      <4>3. QED
        BY <2>2, <4>2, HashIsDigest
    <3>3. /\ ms' = Append(ms, m) /\ cHashes' = Append(cHashes, hash)
          /\ UNCHANGED <<stage, mf, written, x, rs, root, update>>
      BY <1>4 DEF HashBlock
    <3>4. /\ ms \in Seq(Scalars) /\ cHashes \in Seq(S)
          /\ Len(cHashes) = Len(ms) /\ Len(ms) = i /\ update = None
          /\ \A k \in 1..i :
               cHashes[k] = ComputeHash(Y, RandomPoint(rs[k]), ms[k])
      BY <1>1, <3>1 DEF HashInv
    <3> HIDE DEF hash, S, m
    <3>5. /\ ms' \in Seq(Scalars) /\ cHashes' \in Seq(S)
          /\ Len(ms') = i + 1 /\ Len(cHashes') = i + 1
          /\ DOMAIN cHashes' = 1..(i + 1)
          /\ ms'[i + 1] = m /\ cHashes'[i + 1] = hash
          /\ \A k \in 1..i : ms'[k] = ms[k] /\ cHashes'[k] = cHashes[k]
      BY <2>1, <2>2, <3>2, <3>3, <3>4
    <3>6. ASSUME NEW k \in 1..(i + 1)
          PROVE  cHashes'[k] = ComputeHash(Y, RandomPoint(rs[k]), ms'[k])
      <4>1. k \in 1..i \/ k = i + 1
        BY <2>1
      <4>2. QED
        BY <3>4, <3>5, <4>1 DEF hash
    <3>7. Y' = Y
      BY <3>3 DEF Y
    <3>8. 1..(i + 1) \subseteq 1..mf.blockCount
      BY <2>1, <3>1
    <3>9. QED
      BY <3>1, <3>3, <3>4, <3>5, <3>6, <3>7, <3>8 DEF HashInv, S, None
  <2>5. RootInv' /\ CollisionFound'
    BY <1>1, <1>4 DEF HashBlock, HashInv, RootInv, CollisionFound, None
  <2>6. QED
    BY <2>3, <2>4, <2>5 DEF StorageInv
<1>5. CASE BuildTree
  <2>1. FileInv'
    BY <1>1, <1>5, SameFile DEF BuildTree
  <2>2. HashInv'
    BY <1>1, <1>5 DEF BuildTree, HashInv, Y
  <2>3. RootInv' /\ CollisionFound'
    BY <1>1, <1>5 DEF BuildTree, HashInv, RootInv, CollisionFound, None
  <2>4. QED
    BY <2>1, <2>2, <2>3 DEF StorageInv
<1>6. ASSUME NEW b \in Blocks, NEW data \in AllBlocks, UpdateBlock(b, data)
      PROVE  StorageInv'
  <2> DEFINE mp == Digest(data)
             c == ComputeCollision(Y, x, rs[b + 1], ms[b + 1], mp)
  <2>1. mp \in Scalars
    BY <1>1, StorageAssumption DEF FileInv, AllBlocks
  <2>2. stage = "built" /\ b + 1 \in DOMAIN cHashes /\ c.hash = cHashes[b + 1]
    BY <1>1, <1>6, <2>1, UpdateCollides DEF UpdateBlock
  <2>3. stage' = "built"
    BY <1>6, <2>2 DEF UpdateBlock
  <2>4. FileInv'
    BY <1>1, <1>6, SameFile DEF UpdateBlock
  <2>5. HashInv'
    BY <1>1, <1>6, <2>2, <2>3 DEF UpdateBlock, HashInv, Y
  <2>6. CollisionFound'
    <3>1. update' = [block |-> b, m |-> mp, hash |-> c.hash, r |-> c.r]
      BY <1>6 DEF UpdateBlock
    <3>2. Verify(cHashes[b + 1], Y, RandomPoint(c.r), mp)
      BY <2>2 DEF Verify, ComputeCollision
    <3>3. QED
      BY <1>6, <2>3, <3>1, <3>2 DEF UpdateBlock, CollisionFound, Y
  <2>7. RootInv'
    <3>1. update' = [block |-> b, m |-> mp, hash |-> c.hash, r |-> c.r]
      BY <1>6 DEF UpdateBlock
    <3> HIDE DEF c, mp
    <3>2. QED
      BY <1>1, <1>6, <2>2, <2>3, <3>1 DEF UpdateBlock, RootInv
  <2>8. QED
    BY <2>4, <2>5, <2>6, <2>7 DEF StorageInv
<1>7. CASE UNCHANGED vars
  <2>1. FileInv'
    BY <1>1, <1>7, SameFile DEF vars
  <2>2. QED
    BY <1>1, <1>7, <2>1
    DEF vars, StorageInv, HashInv, RootInv, CollisionFound, Y, None
<1>8. QED
  BY <1>2, <1>3, <1>4, <1>5, <1>6, <1>7 DEF Next, SetBlockRefused

\* The invariant holds in every reachable state (bench_cs.go:68-136).
LEMMA StorageInvariance == Spec => []StorageInv
<1>1. Init => StorageInv
  BY InitStorage
<1>2. StorageInv /\ [Next]_vars => StorageInv'
  BY NextStorage
<1>3. QED
  BY <1>1, <1>2, PTL DEF Spec

\* Every update of a block finds a collision with its hash, for any key, scalar
\* and contents, however many updates there have been (chameleon.go:37-47).
THEOREM CollisionsFound == Spec => []CollisionFound
<1>1. StorageInv => CollisionFound
  BY DEF StorageInv
<1>2. QED
  BY <1>1, StorageInvariance, PTL

\* The hash of a block verifies its digest and no other (chameleon.go:31-35).
THEOREM HashesBind == Spec => []HashBinds
<1>1. StorageInv => HashBinds
  <2> SUFFICES ASSUME StorageInv, NEW i \in DOMAIN cHashes, NEW m \in Scalars
               PROVE  Verify(cHashes[i], Y, RandomPoint(rs[i]), m) <=> m = ms[i]
    BY DEF HashBinds
  <2>1. /\ i \in 1..mf.blockCount /\ ms[i] \in Scalars
        /\ x \in FieldElements /\ rs[i] \in FieldElements
        /\ cHashes[i] = ComputeHash(Y, RandomPoint(rs[i]), ms[i])
    BY DEF StorageInv, HashInv, FileInv
  <2>2. Y \in Scalars /\ RandomPoint(rs[i]) \in Scalars
    BY <2>1 DEF Y, RandomPoint, ScalarBaseMult, FieldElements
  <2>3. QED
    BY <2>1, <2>2, HashDeterminesDigest DEF Verify
<1>2. QED
  BY <1>1, StorageInvariance, PTL

\* The state is always well formed (bench_cs.go:68-136).
THEOREM StorageTypeOK == Spec => []TypeOK
<1>1. StorageInv => TypeOK
  <2> SUFFICES ASSUME StorageInv PROVE TypeOK
    OBVIOUS
  <2>1. FileInv /\ HashInv
    BY DEF StorageInv
  <2>2. mf.blockCount \in Nat
    BY <2>1 DEF FileInv
  <2>3. x \in Scalars /\ rs \in Seq(FieldElements)
    <3>1. CASE stage = "made"
      BY <2>1, <3>1, ScalarsClosed DEF HashInv
    <3>2. CASE stage # "made"
      BY <2>1, <2>2, <3>2 DEF HashInv, FieldElements
    <3>3. QED
      BY <3>1, <3>2
  <2>4. stage # "made" => x \in FieldElements /\ Len(rs) = mf.blockCount
    BY <2>1, <2>2 DEF HashInv
  <2>5. /\ ms \in Seq(Scalars) /\ Len(ms) = Len(cHashes)
        /\ Len(ms) <= mf.blockCount
        /\ stage \in {"built", "failed"} => Len(ms) = mf.blockCount
    <3>1. ms \in Seq(Scalars) /\ Len(ms) \in Nat /\ Len(ms) = Len(cHashes)
      BY <2>1 DEF HashInv
    <3>2. CASE stage = "made"
      BY <2>1, <2>2, <3>1, <3>2 DEF HashInv
    <3>3. CASE stage # "made"
      BY <2>1, <2>2, <3>1, <3>3 DEF HashInv
    <3>4. QED
      BY <3>2, <3>3, <3>1
  <2>6. QED
    BY <2>1, <2>3, <2>4, <2>5 DEF TypeOK, FileInv, HashInv
<1>2. QED
  BY <1>1, StorageInvariance, PTL

\* Reading a block gives what was last written to it, whatever blocks have been
\* written before, and the blocks cover the file, for files and blocks of any
\* size (file_mem.go:55-83).
THEOREM ReadsBack == Spec => []ReadBack
<1>1. StorageInv => ReadBack
  <2> SUFFICES ASSUME StorageInv PROVE ReadBack
    OBVIOUS
  <2> DEFINE n == Len(mf.data)
             size == mf.blockSize
  <2>1. FileInv
    BY DEF StorageInv
  <2>2. /\ mf.data \in Seq(Cells) /\ mf.fileSize = n
        /\ size \in BlockSizes /\ mf.blockCount \in Nat
        /\ mf.blockCount = BlockCount(n, size)
    BY <2>1, FileSizes
  <2>3. n \in Nat /\ size \in Nat \ {0}
    BY <2>1, FileSizes
  <2>4. size * mf.blockCount >= mf.fileSize
    BY <2>2, <2>3, BlocksCover
  <2>5. ASSUME NEW b \in Blocks
        PROVE  MemGetBlock(mf, b) = Done([j \in 1..size |->
                 IF size * b + j <= mf.fileSize THEN written[b][j] ELSE 0])
    <3>1. b \in Nat /\ b < mf.blockCount
      BY <2>2 DEF Blocks
    <3>2. MemGetBlock(mf, b) = Done(Content(mf, b))
      BY <2>2, <2>3, <3>1, BlockContent
    <3>3. \A j \in 1..size : size * b + j <= n =>
            mf.data[size * b + j] = written[b][j]
      BY <2>1 DEF FileInv
    <3>4. Content(mf, b) = [j \in 1..size |->
            IF size * b + j <= mf.fileSize THEN written[b][j] ELSE 0]
      BY <2>2, <3>3 DEF Content
    <3>5. QED
      BY <3>2, <3>4
  <2>6. QED
    BY <2>4, <2>5 DEF ReadBack
<1>2. QED
  BY <1>1, StorageInvariance, PTL

\* The two implementations of a file read the same blocks, but for a short last
\* one, which only MemFileObj can read (file.go:80-89, file_mem.go:63-70).
THEOREM ImplementationsAgree == Spec => []FilesAgree
<1>1. StorageInv => FilesAgree
  <2> SUFFICES ASSUME StorageInv, NEW b \in 0..mf.blockCount,
                      FileGetBlock(mf, b) # MemGetBlock(mf, b)
               PROVE  /\ b = mf.blockCount - 1
                      /\ mf.fileSize % mf.blockSize # 0
                      /\ FileGetBlock(mf, b) = Failed("EOF")
    BY DEF FilesAgree
  <2> DEFINE n == Len(mf.data)
             size == mf.blockSize
             first == size * b + 1
             past == size * (b + 1)
  <2>1. /\ mf.data \in Seq(Cells) /\ mf.fileSize = n
        /\ size \in BlockSizes /\ mf.blockCount \in Nat
        /\ mf.blockCount = BlockCount(n, size)
    BY FileSizes DEF StorageInv
  <2>2. n \in Nat /\ size \in Nat \ {0} /\ b \in Nat
    BY FileSizes DEF StorageInv
  <2>3. b < mf.blockCount
    BY <2>1, <2>2 DEF FileGetBlock, MemGetBlock
  <2>4. past \in Nat
    BY <2>2
  <2>5. ASSUME past <= n PROVE FALSE
    <3>1. /\ \A j \in 1..size : size * b + j <= n
          /\ SubSeq(mf.data, first, past) =
               [j \in 1..size |-> mf.data[size * b + j]]
      BY <2>1, <2>2, <2>5, WholeBlock
    <3>2. Content(mf, b) = [j \in 1..size |-> mf.data[size * b + j]]
      BY <3>1 DEF Content
    <3>3. MemGetBlock(mf, b) = Done(Content(mf, b))
      BY <2>1, <2>2, <2>3, BlockContent
    <3>4. FileGetBlock(mf, b) = Done(SubSeq(mf.data, first, past))
      BY <2>1, <2>2, <2>3, <2>4, <2>5 DEF FileGetBlock
    <3>5. QED
      BY <3>1, <3>2, <3>3, <3>4
  <2>6. size * (b + 1) > n
    BY <2>2, <2>4, <2>5
  <2>7. FileGetBlock(mf, b) = Failed("EOF")
    BY <2>1, <2>2, <2>3, <2>6 DEF FileGetBlock
  <2>8. b = BlockCount(n, size) - 1 /\ n % size # 0
    <3> HIDE DEF n, size
    <3>1. QED
      BY <2>1, <2>2, <2>3, <2>6, BlocksCover
  <2>9. QED
    BY <2>1, <2>7, <2>8
<1>2. QED
  BY <1>1, StorageInvariance, PTL

\* The root that is built is that of the reference tree; no leaf can be replaced
\* by another without changing it, except by the hash of an update, which leaves
\* it as it is (merkle.go:36-67, bench_cs.go:120-133).
THEOREM RootsBind == Spec => []RootBinds
<1>1. StorageInv => RootBinds
  <2> SUFFICES ASSUME StorageInv, stage = "built" PROVE RootBinds
    BY DEF RootBinds
  <2>1. FileInv /\ HashInv /\ RootInv
    BY DEF StorageInv
  <2>2. /\ root = NewTree(cHashes)
        /\ update # None => /\ update.block + 1 \in DOMAIN cHashes
                            /\ update.hash = cHashes[update.block + 1]
    BY <2>1 DEF RootInv
  <2>3. Len(cHashes) = mf.blockCount /\ DOMAIN cHashes = 1..Len(cHashes)
    BY <2>1 DEF HashInv
  <2> DEFINE S == {Sum256(p) : p \in Scalars}
  <2>4. cHashes \in Seq(S)
    BY <2>1 DEF HashInv
  <2> HIDE DEF S
  <2>5. Len(cHashes) \in Nat /\ Len(cHashes) >= 1 /\ IsSequence(cHashes)
    <3> DEFINE n == Len(mf.data)
               size == mf.blockSize
               count == mf.blockCount
    <3>1. /\ n \in Nat \ {0} /\ size \in Nat \ {0} /\ count \in Nat
          /\ count = BlockCount(n, size)
      BY <2>1, FileSizes
    <3>2. size * count >= n
      BY <3>1, BlocksCover
    <3> HIDE DEF n, size, count
    <3>3. count # 0
      BY <3>1, <3>2
    <3>4. QED
      BY <2>3, <2>4, <3>1, <3>3 DEF count, IsSequence
  <2>6. root = TreeOf(cHashes)
    BY <2>2, <2>5, TreesAgree
  <2>7. ASSUME NEW i \in DOMAIN cHashes
        PROVE  [cHashes EXCEPT ![i] = cHashes[i]] = cHashes
    BY <2>4
  <2>8. ASSUME NEW i \in DOMAIN cHashes, NEW p \in Scalars,
               NewTree([cHashes EXCEPT ![i] = Sum256(p)]) = root
        PROVE  cHashes[i] = Sum256(p)
    <3> DEFINE new == [cHashes EXCEPT ![i] = Sum256(p)]
    <3>1. PICK hash \in S : hash = Sum256(p)
      BY DEF S
    <3>2. new = [cHashes EXCEPT ![i] = hash]
      BY <3>1
    <3>3. /\ new \in Seq(S) /\ Len(new) = Len(cHashes)
          /\ new[i] = hash /\ i \in 1..Len(cHashes)
      BY <2>4, <3>2
    <3>4. NewTree(cHashes) = NewTree(new)
      BY <2>2, <2>8
    <3> HIDE DEF new
    <3>5. \A k \in 1..Len(cHashes) : cHashes[k] = new[k]
      BY <2>5, <3>3, <3>4, RootDetermines DEF IsSequence
    <3>6. QED
      BY <3>1, <3>3, <3>5
  <2>9. update # None =>
          NewTree([cHashes EXCEPT ![update.block + 1] = update.hash]) = root
    BY <2>2, <2>7
  <2>10. QED
    BY <2>2, <2>6, <2>7, <2>8, <2>9 DEF RootBinds
<1>2. QED
  BY <1>1, StorageInvariance, PTL
=============================================================================
