--------------------------- MODULE NetworkProofs ---------------------------
(***************************************************************************)
(* What is exchanged with peers, for any number of coins, transactions,    *)
(* nodes and threads.  State sync: the sparse Merkle root binds the set,   *)
(* the proofs of it verify, and applying a peer's diff is the atomic       *)
(* transfer of StateTransfer.  Graphene: a sketch rebuilds to the fruit it *)
(* was announced for.  Sync between nodes: the order of the locks excludes *)
(* a ring of waiting threads, and what sync_from copies is one state of    *)
(* the other node.  Data availability sampling: what a light node accepts  *)
(* was committed to and gives back the payload.  Turbine: the relay tree   *)
(* reaches the peers whose path is up, and chunks decode to the payload or *)
(* are refused.                                                            *)
(***************************************************************************)
EXTENDS StateSync, Graphene, NodeSync, DAS, Turbine, FoldProofs, SequenceTheorems, TLAPS

-----------------------------------------------------------------------------
(* The tree of state/utxo.py *)

\* What an outpoint hashes to.
Keys == [1..Depth -> {0, 1}]

\* The depth of the tree is a number.
LEMMA DepthNat == Depth \in Nat
BY UtxoAssumption

\* The nodes on the path of a key.
LEMMA PathNodes ==
  ASSUME NEW k \in Keys, NEW d \in 0..Depth
  PROVE  NodeOn(k, d) \in TreeNodes /\ NodeOn(k, d)[1] = d
<1>1. [i \in 1..d |-> k[i]] \in [1..d -> {0, 1}]
  BY DepthNat DEF Keys
<1> QED BY <1>1 DEF NodeOn, TreeNodes

\* A node is its depth and a prefix of that length.
LEMMA NodeShape ==
  ASSUME NEW n \in TreeNodes
  PROVE  n[1] \in 0..Depth /\ n[2] \in [1..n[1] -> {0, 1}] /\ n = <<n[1], n[2]>>
BY DEF TreeNodes

\* The children of a node are nodes one level down.
LEMMA ChildNode ==
  ASSUME NEW n \in TreeNodes, n[1] # Depth, NEW b \in {0, 1}
  PROVE  Child(n, b) \in TreeNodes /\ Child(n, b)[1] = n[1] + 1
<1>1. n[1] + 1 \in 0..Depth
  BY NodeShape, DepthNat
<1>2. [i \in 1..(n[1] + 1) |-> IF i <= n[1] THEN n[2][i] ELSE b] \in [1..(n[1] + 1) -> {0, 1}]
  BY NodeShape, DepthNat
<1> QED BY <1>1, <1>2 DEF Child, TreeNodes

\* A key passes through a child just when it passes through the node and has
\* the child's bit.
LEMMA ThroughChild ==
  ASSUME NEW k \in Keys, NEW n \in TreeNodes, n[1] # Depth, NEW b \in {0, 1}
  PROVE  NodeOn(k, n[1] + 1) = Child(n, b) <=> NodeOn(k, n[1]) = n /\ k[n[1] + 1] = b
<1> DEFINE d == n[1]
<1>1. d \in Nat /\ d \in 0..Depth /\ d + 1 \in 1..Depth /\ n[2] \in [1..d -> {0, 1}] /\ n = <<d, n[2]>>
  BY NodeShape, DepthNat
<1>2. NodeOn(k, d) = n <=> \A i \in 1..d : k[i] = n[2][i]
  BY <1>1 DEF NodeOn
<1>3. NodeOn(k, d + 1) = Child(n, b)
        <=> \A i \in 1..(d + 1) : k[i] = IF i <= d THEN n[2][i] ELSE b
  <2> DEFINE f == [i \in 1..(d + 1) |-> k[i]]
             g == [i \in 1..(d + 1) |-> IF i <= d THEN n[2][i] ELSE b]
  <2>1. NodeOn(k, d + 1) = <<d + 1, f>> /\ Child(n, b) = <<d + 1, g>>
    BY Zenon DEF NodeOn, Child
  <2>2. f = g <=> \A i \in 1..(d + 1) : f[i] = g[i]
    OBVIOUS
  <2>3. \A i \in 1..(d + 1) : f[i] = k[i] /\ g[i] = IF i <= d THEN n[2][i] ELSE b
    OBVIOUS
  <2> HIDE DEF f, g
  <2> QED BY <2>1, <2>2, <2>3
<1> HIDE DEF d
<1>4. (\A i \in 1..(d + 1) : k[i] = IF i <= d THEN n[2][i] ELSE b)
        <=> (\A i \in 1..d : k[i] = n[2][i]) /\ k[d + 1] = b
  BY <1>1
<1> QED BY <1>2, <1>3, <1>4 DEF d

\* The root of a node's subtree, from those of its children.
LEMMA RootUnfold ==
  ASSUME NEW items, NEW cache, NEW n \in TreeNodes
  PROVE  SubtreeRoot(items, cache, n) =
           IF n \in DOMAIN cache THEN cache[n]
           ELSE IF Under(items, n) = {} THEN EmptyHash(n[1])
           ELSE IF n[1] = Depth
           THEN LET it == CHOOSE it \in Under(items, n) : TRUE IN LeafHash(it[1], it[2])
           ELSE NodeHash(n[1], SubtreeRoot(items, cache, Child(n, 0)),
                               SubtreeRoot(items, cache, Child(n, 1)))
<1> DEFINE Val(g, m) == IF m \in DOMAIN cache THEN cache[m]
           ELSE IF Under(items, m) = {} THEN EmptyHash(m[1])
           ELSE IF m[1] = Depth
           THEN LET it == CHOOSE it \in Under(items, m) : TRUE IN LeafHash(it[1], it[2])
           ELSE NodeHash(m[1], g[Child(m, 0)], g[Child(m, 1)])
           Low(j) == {m \in TreeNodes : m[1] + j >= Depth}
           Closes(g, S) == g = [m \in S |-> Val(g, m)]
           Reached(j) == \E g : Closes(g, Low(j))
           Fails == {j \in Nat : ~ Reached(j)}
<1>0. \A m \in TreeNodes : m[1] \in Nat /\ m[1] <= Depth
  BY NodeShape, DepthNat
<1>1. Reached(0)
  <2> DEFINE g == [m \in Low(0) |-> Val([x \in {} |-> 0], m)]
  <2>1. \A m \in Low(0) : m[1] = Depth
    BY <1>0, DepthNat
  <2>2. \A m \in Low(0) : Val([x \in {} |-> 0], m) = Val(g, m)
    BY <2>1
  <2>3. Closes(g, Low(0))
    <3> HIDE DEF Low, Val
    <3> QED BY <2>2, Zenon
  <2> QED BY <2>3
<1>2. ASSUME NEW j \in Nat, Reached(j) PROVE Reached(j + 1)
  <2>1. PICK g : Closes(g, Low(j))
    BY <1>2
  <2> DEFINE h == [m \in Low(j + 1) |-> Val(g, m)]
  <2>2. \A m \in Low(j) : m \in Low(j + 1)
    BY <1>0, DepthNat
  <2>3. \A m \in Low(j) : g[m] = Val(g, m)
    <3> HIDE DEF Low, Val
    <3> QED BY <2>1, Zenon
  <2>4. \A m \in Low(j) : h[m] = g[m]
    <3> HIDE DEF Low, Val
    <3> QED BY <2>2, <2>3, Zenon
  <2>5. \A m \in Low(j + 1) : m[1] # Depth => Child(m, 0) \in Low(j) /\ Child(m, 1) \in Low(j)
    BY <1>0, DepthNat, ChildNode
  <2>6. \A m \in Low(j + 1) : Val(g, m) = Val(h, m)
    <3> HIDE DEF h, Low
    <3> QED BY <2>4, <2>5
  <2>7. Closes(h, Low(j + 1))
    <3> HIDE DEF Low, Val
    <3> QED BY <2>6, Zenon
  <2> HIDE DEF h
  <2> QED BY <2>7
<1>3. Fails = {}
  <2> HIDE DEF Reached
  <2>1. ASSUME Fails # {} PROVE FALSE
    <3>1. PICK j \in Fails : \A m \in Fails : j <= m
      BY <2>1, LeastNat
    <3>2. j # 0 /\ j - 1 \in Nat /\ j - 1 \notin Fails
      BY <3>1, <1>1
    <3> QED BY <3>1, <3>2, <1>2
  <2> QED BY <2>1
<1>4. Low(Depth) = TreeNodes
  BY <1>0, DepthNat
<1>5. \E g : Closes(g, TreeNodes)
  <2>1. Reached(Depth)
    <3> HIDE DEF Reached
    <3> QED BY <1>3, DepthNat
  <2> QED BY <1>4, <2>1, Zenon
<1> DEFINE R == CHOOSE g : Closes(g, TreeNodes)
<1>6. Closes(R, TreeNodes)
  BY <1>5, Zenon
<1>7. \A m : SubtreeRoot(items, cache, m) = R[m]
  BY Zenon DEF SubtreeRoot
<1> HIDE DEF R
<1>8. R[n] = Val(R, n)
  <2> HIDE DEF Val
  <2> QED BY <1>6, Zenon
<1> QED BY <1>7, <1>8

\* Items as ItemsOf makes them: a key and a value, one value per key.
IsItems(items) ==
  /\ \A it \in items : it[1] \in Keys /\ it = <<it[1], it[2]>>
  /\ \A it, jt \in items : it[1] = jt[1] => it = jt

\* The root of a subtree computed from the items alone.
TreeRoot(items, n) == SubtreeRoot(items, NoCache, n)

\* An item under an inner node is under one of its children.
LEMMA UnderSplit ==
  ASSUME NEW items, IsItems(items), NEW n \in TreeNodes, n[1] # Depth
  PROVE  Under(items, n) = Under(items, Child(n, 0)) \cup Under(items, Child(n, 1))
<1>1. \A b \in {0, 1} : Child(n, b)[1] = n[1] + 1
  BY ChildNode
<1>2. \A it \in items : \A b \in {0, 1} :
        NodeOn(it[1], n[1] + 1) = Child(n, b) <=> NodeOn(it[1], n[1]) = n /\ it[1][n[1] + 1] = b
  BY ThroughChild DEF IsItems
<1>3. n[1] + 1 \in 1..Depth
  BY NodeShape, DepthNat
<1>4. \A it \in items : it[1][n[1] + 1] \in {0, 1}
  BY <1>3 DEF IsItems, Keys
<1>5. \A it \in items : it \in Under(items, n) <=> NodeOn(it[1], n[1]) = n
  BY DEF Under
<1>6. \A it \in items : \A b \in {0, 1} :
        it \in Under(items, Child(n, b)) <=> NodeOn(it[1], n[1] + 1) = Child(n, b)
  BY <1>1 DEF Under
<1>7. Under(items, n) \subseteq items /\ \A b \in {0, 1} : Under(items, Child(n, b)) \subseteq items
  BY DEF Under
<1>8. \A it \in items : it \in Under(items, n)
        <=> it \in Under(items, Child(n, 0)) \/ it \in Under(items, Child(n, 1))
  BY <1>2, <1>4, <1>5, <1>6
<1> QED BY <1>7, <1>8

\* A leaf holds the one item with its key.
LEMMA UnderLeaf ==
  ASSUME NEW items, IsItems(items), NEW n \in TreeNodes, n[1] = Depth, NEW it \in Under(items, n)
  PROVE  it \in items /\ it[1] = n[2] /\ Under(items, n) = {it}
<1>1. \A jt \in Under(items, n) : jt \in items /\ NodeOn(jt[1], Depth) = n
  BY DEF Under
<1>2. \A jt \in Under(items, n) : jt[1] = n[2]
  <2> SUFFICES ASSUME NEW jt \in Under(items, n) PROVE jt[1] = n[2]
    OBVIOUS
  <2>1. jt[1] \in [1..Depth -> {0, 1}]
    BY <1>1 DEF IsItems, Keys
  <2>2. [i \in 1..Depth |-> jt[1][i]] = n[2]
    <3>1. NodeOn(jt[1], Depth) = n
      BY <1>1
    <3>2. NodeOn(jt[1], Depth)[2] = [i \in 1..Depth |-> jt[1][i]]
      BY DEF NodeOn
    <3> QED BY <3>1, <3>2
  <2> QED BY <2>1, <2>2
<1> QED BY <1>1, <1>2 DEF IsItems

\* Every item lies under the top node.
LEMMA UnderTop ==
  ASSUME NEW items, IsItems(items)
  PROVE  TopNode \in TreeNodes /\ TopNode[1] = 0 /\ Under(items, TopNode) = items
<1>1. [i \in 1..0 |-> 0] \in [1..0 -> {0, 1}]
  OBVIOUS
<1>2. TopNode \in TreeNodes
  <2>1. 0 \in 0..Depth
    BY DepthNat
  <2>2. TopNode \in {0} \X [1..0 -> {0, 1}]
    BY <1>1 DEF TopNode
  <2> QED BY <2>1, <2>2 DEF TreeNodes
<1>3. \A k : NodeOn(k, 0) = TopNode
  <2> TAKE k
  <2>1. [i \in 1..0 |-> k[i]] = [i \in 1..0 |-> 0]
    OBVIOUS
  <2> QED BY <2>1 DEF NodeOn, TopNode
<1>4. TopNode[1] = 0
  BY DEF TopNode
<1> QED BY <1>2, <1>3, <1>4 DEF Under

\* Hashes of different kinds or inputs differ.
LEMMA Hashes ==
  /\ \A d, k, v : EmptyHash(d) # LeafHash(k, v)
  /\ \A d, e, l, r : EmptyHash(d) # NodeHash(e, l, r)
  /\ \A k, v, e, l, r : LeafHash(k, v) # NodeHash(e, l, r)
  /\ \A d, e : EmptyHash(d) = EmptyHash(e) => d = e
  /\ \A k, v, j, w : LeafHash(k, v) = LeafHash(j, w) => k = j /\ v = w
  /\ \A d, l, r, e, m, s : NodeHash(d, l, r) = NodeHash(e, m, s) => d = e /\ l = m /\ r = s
  /\ \A c, e : ValueHash(c) = ValueHash(e) => c = e
BY DEF EmptyHash, LeafHash, NodeHash, ValueHash

\* One level of the root computation, without a cache: the empty node, the
\* leaf, and the inner node of its two children.
LEMMA TreeUnfold ==
  ASSUME NEW items, IsItems(items), NEW n \in TreeNodes
  PROVE  /\ Under(items, n) = {} => TreeRoot(items, n) = EmptyHash(n[1])
         /\ n[1] = Depth => \A it \in Under(items, n) : TreeRoot(items, n) = LeafHash(it[1], it[2])
         /\ n[1] # Depth /\ Under(items, n) # {} =>
              TreeRoot(items, n) = NodeHash(n[1], TreeRoot(items, Child(n, 0)),
                                                  TreeRoot(items, Child(n, 1)))
<1>1. DOMAIN NoCache = {}
  BY DEF NoCache
<1>2. TreeRoot(items, n) =
        IF Under(items, n) = {} THEN EmptyHash(n[1])
        ELSE IF n[1] = Depth
        THEN LET it == CHOOSE it \in Under(items, n) : TRUE IN LeafHash(it[1], it[2])
        ELSE NodeHash(n[1], TreeRoot(items, Child(n, 0)), TreeRoot(items, Child(n, 1)))
  <2>1. n \notin DOMAIN NoCache
    BY <1>1
  <2> QED BY <2>1, RootUnfold DEF TreeRoot
<1>3. ASSUME n[1] = Depth, NEW it \in Under(items, n)
      PROVE  TreeRoot(items, n) = LeafHash(it[1], it[2])
  <2>1. Under(items, n) = {it}
    BY <1>3, UnderLeaf
  <2>2. (CHOOSE jt \in Under(items, n) : TRUE) = it
    BY <2>1
  <2> QED BY <1>2, <1>3, <2>1, <2>2
<1> QED BY <1>2, <1>3

\* Computing through a cache that says what the items say changes nothing.
LEMMA CacheCoherent ==
  ASSUME NEW items, NEW cache,
         \A m \in DOMAIN cache : cache[m] = TreeRoot(items, m),
         NEW n \in TreeNodes
  PROVE  SubtreeRoot(items, cache, n) = TreeRoot(items, n)
<1> DEFINE Bad == {j \in Nat : \E m \in TreeNodes : /\ m[1] + j = Depth
                                                    /\ SubtreeRoot(items, cache, m) # TreeRoot(items, m)}
<1>0. \A m \in TreeNodes : m[1] \in Nat /\ m[1] <= Depth /\ Depth - m[1] \in Nat
  BY NodeShape, DepthNat
<1>1. ASSUME Bad # {} PROVE FALSE
  <2>1. PICK j \in Bad : \A i \in Bad : j <= i
    BY <1>1, LeastNat
  <2>2. PICK m \in TreeNodes : m[1] + j = Depth /\ SubtreeRoot(items, cache, m) # TreeRoot(items, m)
    BY <2>1
  <2>3. m \notin DOMAIN cache
    BY <2>2, RootUnfold
  <2>4. m \notin DOMAIN NoCache
    BY DEF NoCache
  <2>5. m[1] # Depth
    <3>1. m[1] = Depth => SubtreeRoot(items, cache, m) =
            IF Under(items, m) = {} THEN EmptyHash(m[1])
            ELSE LET it == CHOOSE it \in Under(items, m) : TRUE IN LeafHash(it[1], it[2])
      BY <2>3, RootUnfold
    <3>2. m[1] = Depth => SubtreeRoot(items, NoCache, m) =
            IF Under(items, m) = {} THEN EmptyHash(m[1])
            ELSE LET it == CHOOSE it \in Under(items, m) : TRUE IN LeafHash(it[1], it[2])
      BY <2>4, RootUnfold
    <3> QED BY <2>2, <3>1, <3>2 DEF TreeRoot
  <2>6. \A b \in {0, 1} : SubtreeRoot(items, cache, Child(m, b)) = TreeRoot(items, Child(m, b))
    <3> SUFFICES ASSUME NEW b \in {0, 1},
                        SubtreeRoot(items, cache, Child(m, b)) # TreeRoot(items, Child(m, b))
                 PROVE  FALSE
      OBVIOUS
    <3>1. Child(m, b) \in TreeNodes /\ Child(m, b)[1] = m[1] + 1
      BY <2>5, ChildNode
    <3>2. j - 1 \in Nat /\ m[1] + 1 + (j - 1) = Depth
      BY <1>0, <2>2, <2>5, DepthNat
    <3>3. j - 1 \in Bad
      BY <3>1, <3>2
    <3>4. j \in Nat /\ ~ (j <= j - 1)
      BY <2>1
    <3> HIDE DEF Bad
    <3> QED BY <2>1, <3>3, <3>4
  <2>7. SubtreeRoot(items, cache, m) =
          IF Under(items, m) = {} THEN EmptyHash(m[1])
          ELSE NodeHash(m[1], SubtreeRoot(items, cache, Child(m, 0)),
                              SubtreeRoot(items, cache, Child(m, 1)))
    BY <2>3, <2>5, RootUnfold
  <2>8. SubtreeRoot(items, NoCache, m) =
          IF Under(items, m) = {} THEN EmptyHash(m[1])
          ELSE NodeHash(m[1], SubtreeRoot(items, NoCache, Child(m, 0)),
                              SubtreeRoot(items, NoCache, Child(m, 1)))
    BY <2>4, <2>5, RootUnfold
  <2>9. /\ SubtreeRoot(items, cache, Child(m, 0)) = SubtreeRoot(items, NoCache, Child(m, 0))
        /\ SubtreeRoot(items, cache, Child(m, 1)) = SubtreeRoot(items, NoCache, Child(m, 1))
    BY <2>6 DEF TreeRoot
  <2>10. SubtreeRoot(items, cache, m) = SubtreeRoot(items, NoCache, m)
    BY <2>7, <2>8, <2>9
  <2> QED BY <2>2, <2>10 DEF TreeRoot
<1>2. CASE Bad = {}
  BY <1>0, <1>2, DepthNat
<1> QED BY <1>1, <1>2

\* A root speaks for the items under it: equal roots, equal items.
LEMMA RootBinds ==
  ASSUME NEW I, NEW J, IsItems(I), IsItems(J), NEW n \in TreeNodes,
         TreeRoot(I, n) = TreeRoot(J, n)
  PROVE  Under(I, n) = Under(J, n)
<1> DEFINE Bad == {j \in Nat : \E m \in TreeNodes : /\ m[1] + j = Depth
                                                    /\ TreeRoot(I, m) = TreeRoot(J, m)
                                                    /\ Under(I, m) # Under(J, m)}
<1>0. \A m \in TreeNodes : m[1] \in Nat /\ m[1] <= Depth /\ Depth - m[1] \in Nat
  BY NodeShape, DepthNat
<1>1. ASSUME Bad # {} PROVE FALSE
  <2>1. PICK j \in Bad : \A i \in Bad : j <= i
    BY <1>1, LeastNat
  <2>2. PICK m \in TreeNodes : m[1] + j = Depth /\ TreeRoot(I, m) = TreeRoot(J, m)
                               /\ Under(I, m) # Under(J, m)
    BY <2>1
  <2>3. CASE m[1] = Depth
    <3>1. Under(I, m) # {} /\ Under(J, m) # {}
      BY <2>2, <2>3, TreeUnfold, Hashes
    <3>2. PICK x \in Under(I, m), y \in Under(J, m) : TRUE
      BY <3>1
    <3>3. LeafHash(x[1], x[2]) = LeafHash(y[1], y[2])
      BY <2>2, <2>3, <3>2, TreeUnfold
    <3>4. x[1] = y[1] /\ x[2] = y[2]
      BY <3>3, Hashes
    <3>5. x \in I /\ y \in J /\ Under(I, m) = {x} /\ Under(J, m) = {y}
      BY <2>3, UnderLeaf
    <3>6. x = y
      BY <3>4, <3>5 DEF IsItems
    <3> QED BY <2>2, <3>5, <3>6
  <2>4. CASE m[1] # Depth
    <3>1. Under(I, m) # {} /\ Under(J, m) # {}
      <4>1. \A it, jt : it \in {I, J} /\ jt \in {I, J} /\ Under(it, m) = {} /\ Under(jt, m) # {}
              => TreeRoot(it, m) # TreeRoot(jt, m)
        <5> SUFFICES ASSUME NEW it \in {I, J}, NEW jt \in {I, J},
                            Under(it, m) = {}, Under(jt, m) # {}
                     PROVE  TreeRoot(it, m) # TreeRoot(jt, m)
          OBVIOUS
        <5>1. TreeRoot(it, m) = EmptyHash(m[1])
          BY TreeUnfold
        <5>2. TreeRoot(jt, m) = NodeHash(m[1], TreeRoot(jt, Child(m, 0)), TreeRoot(jt, Child(m, 1)))
          BY <2>4, TreeUnfold
        <5> QED BY <5>1, <5>2, Hashes
      <4> QED BY <2>2, <4>1
    <3>2. NodeHash(m[1], TreeRoot(I, Child(m, 0)), TreeRoot(I, Child(m, 1)))
            = NodeHash(m[1], TreeRoot(J, Child(m, 0)), TreeRoot(J, Child(m, 1)))
      BY <2>2, <2>4, <3>1, TreeUnfold
    <3>3. \A b \in {0, 1} : TreeRoot(I, Child(m, b)) = TreeRoot(J, Child(m, b))
      BY <3>2, Hashes
    <3>4. \A b \in {0, 1} : Under(I, Child(m, b)) = Under(J, Child(m, b))
      <4> SUFFICES ASSUME NEW b \in {0, 1}, Under(I, Child(m, b)) # Under(J, Child(m, b))
                   PROVE  FALSE
        OBVIOUS
      <4>1. Child(m, b) \in TreeNodes /\ Child(m, b)[1] = m[1] + 1
        BY <2>4, ChildNode
      <4>2. j - 1 \in Nat /\ m[1] + 1 + (j - 1) = Depth
        BY <1>0, <2>2, <2>4, DepthNat
      <4>3. j - 1 \in Bad
        BY <3>3, <4>1, <4>2
      <4> QED BY <2>1, <4>2, <4>3
    <3>5. Under(I, m) = Under(I, Child(m, 0)) \cup Under(I, Child(m, 1))
      BY <2>4, UnderSplit
    <3>6. Under(J, m) = Under(J, Child(m, 0)) \cup Under(J, Child(m, 1))
      BY <2>4, UnderSplit
    <3> QED BY <2>2, <3>4, <3>5, <3>6
  <2> QED BY <2>3, <2>4
<1>2. CASE Bad = {}
  BY <1>0, <1>2, DepthNat
<1> QED BY <1>1, <1>2

\* A set of coins is a function on outpoints.
LEMMA SetShape ==
  ASSUME NEW s \in Sets
  PROVE  /\ s \in [DOMAIN s -> Coins] /\ DOMAIN s \subseteq Outpoints
         /\ \A o \in DOMAIN s : s[o].outpoint = o
BY DEF Sets

\* What a set of coins has to be.
LEMMA SetIs ==
  ASSUME NEW s, s = [o \in DOMAIN s |-> s[o]], \A o \in DOMAIN s : s[o] \in Coins /\ s[o].outpoint = o
  PROVE  s \in Sets
<1>1. DOMAIN s \subseteq Outpoints
  BY DEF Outpoints
<1>2. s \in [DOMAIN s -> Coins]
  BY Zenon
<1>3. \A o, q \in DOMAIN s : KeyOf(o) = KeyOf(q) => o = q
  BY <1>1, UtxoAssumption
<1> QED BY <1>1, <1>2, <1>3 DEF Sets

\* The items of a set have one value per key.
LEMMA SetItems ==
  ASSUME NEW s \in Sets
  PROVE  IsItems(ItemsOf(s))
<1>1. \A o \in DOMAIN s : KeyOf(o) \in Keys
  BY SetShape, UtxoAssumption DEF Keys
<1>2. \A it \in ItemsOf(s) : \E o \in DOMAIN s : it = <<KeyOf(o), ValueHash(s[o])>>
  BY DEF ItemsOf
<1>3. \A o, q \in DOMAIN s : KeyOf(o) = KeyOf(q) => o = q
  BY DEF Sets
<1>4. ASSUME NEW it \in ItemsOf(s), NEW jt \in ItemsOf(s), it[1] = jt[1]
      PROVE  it = jt
  <2>1. PICK o \in DOMAIN s : it = <<KeyOf(o), ValueHash(s[o])>>
    BY <1>2
  <2>2. PICK q \in DOMAIN s : jt = <<KeyOf(q), ValueHash(s[q])>>
    BY <1>2
  <2>3. KeyOf(o) = KeyOf(q)
    BY <1>4, <2>1, <2>2
  <2> QED BY <1>3, <2>1, <2>2, <2>3
<1>5. \A it \in ItemsOf(s) : it[1] \in Keys /\ it = <<it[1], it[2]>>
  <2> SUFFICES ASSUME NEW it \in ItemsOf(s) PROVE it[1] \in Keys /\ it = <<it[1], it[2]>>
    OBVIOUS
  <2>1. PICK o \in DOMAIN s : it = <<KeyOf(o), ValueHash(s[o])>>
    BY <1>2
  <2> QED BY <1>1, <2>1
<1> QED BY <1>4, <1>5 DEF IsItems

\* The root of a set is that of the tree over its items.
LEMMA RootOfSet ==
  ASSUME NEW s \in Sets
  PROVE  RootOf[s] = TreeRoot(ItemsOf(s), TopNode)
<1>1. RootOf[s] = FreshRoot(s)
  BY DEF RootOf
<1> QED BY <1>1 DEF FreshRoot, TreeRoot

\* No two sets have the same root.
LEMMA RootsDiffer ==
  ASSUME NEW s \in Sets, NEW t \in Sets, RootOf[s] = RootOf[t]
  PROVE  s = t
<1>1. IsItems(ItemsOf(s)) /\ IsItems(ItemsOf(t))
  BY SetItems
<1>2. ItemsOf(s) = ItemsOf(t)
  <2>1. TreeRoot(ItemsOf(s), TopNode) = TreeRoot(ItemsOf(t), TopNode)
    BY RootOfSet
  <2>2. Under(ItemsOf(s), TopNode) = Under(ItemsOf(t), TopNode)
    BY <1>1, <2>1, RootBinds, UnderTop
  <2> QED BY <1>1, <2>2, UnderTop
<1>3. ASSUME NEW a \in {s, t}, NEW b \in {s, t}, ItemsOf(a) = ItemsOf(b), NEW o \in DOMAIN a
      PROVE  o \in DOMAIN b /\ b[o] = a[o]
  <2>1. <<KeyOf(o), ValueHash(a[o])>> \in ItemsOf(b)
    BY <1>3 DEF ItemsOf
  <2>2. PICK q \in DOMAIN b : <<KeyOf(o), ValueHash(a[o])>> = <<KeyOf(q), ValueHash(b[q])>>
    BY <2>1 DEF ItemsOf
  <2>3. KeyOf(o) = KeyOf(q) /\ ValueHash(a[o]) = ValueHash(b[q])
    BY <2>2
  <2>4. o = q
    BY <2>3, SetShape, UtxoAssumption
  <2> QED BY <2>3, <2>4, Hashes
<1>4. DOMAIN s = DOMAIN t /\ \A o \in DOMAIN s : s[o] = t[o]
  BY <1>2, <1>3
<1> QED BY <1>4, SetShape

\* Roots of nodes at different depths differ, so no proof lists one hash twice.
LEMMA DepthsDiffer ==
  ASSUME NEW items, IsItems(items), NEW m \in TreeNodes, NEW n \in TreeNodes, m[1] # n[1]
  PROVE  TreeRoot(items, m) # TreeRoot(items, n)
<1> DEFINE Kind(x) == \/ TreeRoot(items, x) = EmptyHash(x[1])
                      \/ x[1] = Depth /\ \E k, v : TreeRoot(items, x) = LeafHash(k, v)
                      \/ \E l, r : TreeRoot(items, x) = NodeHash(x[1], l, r)
<1>1. ASSUME NEW x \in TreeNodes PROVE Kind(x)
  BY TreeUnfold
<1>2. Kind(m) /\ Kind(n)
  BY <1>1
<1> QED BY <1>2, Hashes

\* The path of a key, one level down.
LEMMA PathStep ==
  ASSUME NEW k \in Keys, NEW d \in 0..Depth, d # Depth
  PROVE  /\ k[d + 1] \in {0, 1} /\ 1 - k[d + 1] \in {0, 1}
         /\ NodeOn(k, d + 1) = Child(NodeOn(k, d), k[d + 1])
         /\ SiblingNode(k, d) = Child(NodeOn(k, d), 1 - k[d + 1])
         /\ SiblingNode(k, d) \in TreeNodes /\ SiblingNode(k, d)[1] = d + 1
<1>1. d \in Nat /\ d + 1 \in 1..Depth
  BY DepthNat
<1>2. k[d + 1] \in {0, 1}
  BY <1>1 DEF Keys
<1>3. 1 - k[d + 1] \in {0, 1}
  BY <1>2
<1>4. NodeOn(k, d) \in TreeNodes /\ NodeOn(k, d)[1] = d
  BY PathNodes
<1>5. NodeOn(k, d + 1) = Child(NodeOn(k, d), k[d + 1])
  BY <1>2, <1>4, ThroughChild
<1> QED BY <1>2, <1>3, <1>4, <1>5, ChildNode DEF SiblingNode

\* Hashing up the path of a key with the siblings of the tree gives its root.
LEMMA ClimbsToRoot ==
  ASSUME NEW items, IsItems(items), NEW k \in Keys, NEW depth \in 0..Depth, NEW sibs,
         sibs = [i \in 1..depth |-> TreeRoot(items, SiblingNode(k, i - 1))],
         \A e \in 0..(depth - 1) : Under(items, NodeOn(k, e)) # {}
  PROVE  Climb(k, sibs, depth, TreeRoot(items, NodeOn(k, depth))) = TreeRoot(items, TopNode)
<1> DEFINE start == TreeRoot(items, NodeOn(k, depth))
           Val(h, j) == IF j = 0 THEN start
                        ELSE IF k[depth - j + 1] = 0
                        THEN NodeHash(depth - j, h[j - 1], sibs[depth - j + 1])
                        ELSE NodeHash(depth - j, sibs[depth - j + 1], h[j - 1])
           IsHash(h) == h = [j \in 0..depth |-> Val(h, j)]
           g == [j \in 0..depth |-> TreeRoot(items, NodeOn(k, depth - j))]
<1>0. depth \in Nat
  BY DepthNat
<1>1. \A j \in 0..depth : g[j] = Val(g, j)
  <2> SUFFICES ASSUME NEW j \in 0..depth PROVE g[j] = Val(g, j)
    OBVIOUS
  <2>1. CASE j = 0
    BY <1>0, <2>1
  <2>2. CASE j # 0
    <3> DEFINE d == depth - j
               n == NodeOn(k, d)
    <3>1. d \in 0..Depth /\ d # Depth /\ d \in 0..(depth - 1) /\ d + 1 \in 1..depth /\ j - 1 \in 0..depth
          /\ depth - (j - 1) = d + 1 /\ (d + 1) - 1 = d
      BY <1>0, <2>2, DepthNat
    <3>2. g[j] = TreeRoot(items, n) /\ g[j - 1] = TreeRoot(items, NodeOn(k, d + 1))
      BY <3>1
    <3>3. sibs[d + 1] = TreeRoot(items, SiblingNode(k, d))
      BY <3>1
    <3> HIDE DEF d, g
    <3>4. n \in TreeNodes /\ n[1] = d /\ Under(items, n) # {}
      BY <3>1, PathNodes
    <3> HIDE DEF n
    <3>5. TreeRoot(items, n) = NodeHash(d, TreeRoot(items, Child(n, 0)), TreeRoot(items, Child(n, 1)))
      BY <3>1, <3>4, TreeUnfold
    <3>6. /\ k[d + 1] \in {0, 1}
          /\ NodeOn(k, d + 1) = Child(n, k[d + 1]) /\ SiblingNode(k, d) = Child(n, 1 - k[d + 1])
      BY <3>1, PathStep DEF n
    <3>7. CASE k[d + 1] = 0
      BY <2>2, <3>1, <3>2, <3>3, <3>5, <3>6, <3>7 DEF d
    <3>8. CASE k[d + 1] = 1
      BY <2>2, <3>1, <3>2, <3>3, <3>5, <3>6, <3>8 DEF d
    <3> QED BY <3>6, <3>7, <3>8
  <2> QED BY <2>1, <2>2
<1>2. IsHash(g)
  <2> HIDE DEF Val
  <2> QED BY <1>1
<1> DEFINE H == CHOOSE h : IsHash(h)
<1>3. IsHash(H)
  <2> HIDE DEF IsHash
  <2> QED BY <1>2, Zenon
<1>4. Climb(k, sibs, depth, start) = H[depth]
  BY Zenon DEF Climb
<1> HIDE DEF H
<1>5. \A j \in 0..depth : H[j] = Val(H, j)
  <2> HIDE DEF Val
  <2> QED BY <1>3, Zenon
<1> DEFINE Bad == {j \in 0..depth : H[j] # g[j]}
<1>6. Bad = {}
  <2>1. ASSUME Bad # {} PROVE FALSE
    <3>1. PICK j \in Bad : \A i \in Bad : j <= i
      <4>1. Bad \subseteq Nat
        BY <1>0
      <4> HIDE DEF Bad
      <4> QED BY <2>1, <4>1, LeastNat
    <3> HIDE DEF g
    <3>2. j # 0
      BY <1>1, <1>5, <3>1
    <3>3. j - 1 \in 0..depth /\ H[j - 1] = g[j - 1]
      BY <1>0, <3>1, <3>2
    <3>4. H[j] = Val(H, j) /\ g[j] = Val(g, j)
      BY <1>1, <1>5, <3>1
    <3> QED BY <3>1, <3>3, <3>4
  <2> QED BY <2>1
<1>7. H[depth] = TreeRoot(items, NodeOn(k, 0))
  <2>1. depth \in 0..depth /\ depth - depth = 0
    BY <1>0
  <2>2. H[depth] = g[depth]
    <3> HIDE DEF g
    <3> QED BY <1>6, <2>1
  <2> QED BY <2>1, <2>2
<1>8. NodeOn(k, 0) = TopNode
  <2>1. [i \in 1..0 |-> k[i]] = [i \in 1..0 |-> 0]
    OBVIOUS
  <2> QED BY <2>1 DEF NodeOn, TopNode
<1> QED BY <1>4, <1>7, <1>8

\* The siblings a proof lists: one hash per level, no two the same.
LEMMA Siblings ==
  ASSUME NEW items, IsItems(items), NEW cache,
         \A m \in DOMAIN cache : cache[m] = TreeRoot(items, m),
         NEW k \in Keys, NEW limit \in 0..Depth
  PROVE  /\ ProofSiblings(items, cache, k, limit)
              = [i \in 1..limit |-> TreeRoot(items, SiblingNode(k, i - 1))]
         /\ Len(ProofSiblings(items, cache, k, limit)) = limit
         /\ IsInjective(ProofSiblings(items, cache, k, limit))
<1> DEFINE sibs == ProofSiblings(items, cache, k, limit)
<1>0. limit \in Nat
  BY DepthNat
<1>1. \A i \in 1..limit : i - 1 \in 0..Depth /\ i - 1 # Depth /\ i = (i - 1) + 1
  BY DepthNat
<1>2. \A i \in 1..limit : SiblingNode(k, i - 1) \in TreeNodes /\ SiblingNode(k, i - 1)[1] = i
  BY <1>1, PathStep
<1>3. \A i \in 1..limit : SubtreeRoot(items, cache, SiblingNode(k, i - 1)) = TreeRoot(items, SiblingNode(k, i - 1))
  BY <1>2, CacheCoherent
<1>4. sibs = [i \in 1..limit |-> TreeRoot(items, SiblingNode(k, i - 1))]
  BY <1>3 DEF ProofSiblings
<1>5. Len(sibs) = limit
  <2>1. DOMAIN sibs = 1..limit
    BY <1>4
  <2> QED BY <1>0, <2>1, <1>4
<1>6. \A i, j \in 1..limit : sibs[i] = sibs[j] => i = j
  <2> SUFFICES ASSUME NEW i \in 1..limit, NEW j \in 1..limit, sibs[i] = sibs[j], i # j
               PROVE  FALSE
    OBVIOUS
  <2>1. sibs[i] = TreeRoot(items, SiblingNode(k, i - 1)) /\ sibs[j] = TreeRoot(items, SiblingNode(k, j - 1))
    BY <1>4
  <2> QED BY <1>2, <2>1, DepthsDiffer
<1>7. IsInjective(sibs)
  BY <1>4, <1>6 DEF IsInjective
<1> QED BY <1>4, <1>5, <1>7

\* The way to a key that is not in the tree ends at its first empty node.
LEMMA FirstEmpty ==
  ASSUME NEW items, IsItems(items), NEW k \in Keys, \A it \in items : it[1] # k
  PROVE  /\ FirstEmptyDepth(items, k) \in 0..Depth
         /\ Under(items, NodeOn(k, FirstEmptyDepth(items, k))) = {}
         /\ \A e \in 0..(FirstEmptyDepth(items, k) - 1) : Under(items, NodeOn(k, e)) # {}
<1> DEFINE Ends == {d \in 0..Depth : Under(items, NodeOn(k, d)) = {}}
<1>1. Depth \in Ends
  <2>1. NodeOn(k, Depth) \in TreeNodes /\ NodeOn(k, Depth)[1] = Depth
    BY PathNodes, DepthNat
  <2>2. NodeOn(k, Depth)[2] = k
    BY DEF NodeOn, Keys
  <2>3. Under(items, NodeOn(k, Depth)) = {}
    BY <2>1, <2>2, UnderLeaf
  <2> QED BY <2>3, DepthNat
<1>2. PICK d \in Ends : \A e \in Ends : d <= e
  <2>1. Ends \subseteq Nat
    BY DepthNat
  <2> HIDE DEF Ends
  <2> QED BY <1>1, <2>1, LeastNat
<1>3. /\ d \in 0..Depth /\ Under(items, NodeOn(k, d)) = {}
      /\ \A e \in 0..(d - 1) : Under(items, NodeOn(k, e)) # {}
  <2>1. \A e \in 0..(d - 1) : e \in 0..Depth /\ ~ (d <= e)
    BY DepthNat
  <2> QED BY <1>2, <2>1
<1>4. \E x \in 0..Depth : /\ Under(items, NodeOn(k, x)) = {}
                          /\ \A e \in 0..(x - 1) : Under(items, NodeOn(k, e)) # {}
  BY <1>3
<1> QED BY <1>4, Zenon DEF FirstEmptyDepth

\* Every proof, of a coin or of its absence, verifies against the root.
LEMMA ProofVerifies ==
  ASSUME NEW s \in Sets, NEW cache, NEW o \in Outpoints,
         \A m \in DOMAIN cache : cache[m] = TreeRoot(ItemsOf(s), m)
  PROVE  VerifyProof(o, ProofThrough(s, ItemsOf(s), cache, o), RootOf[s])
<1> DEFINE items == ItemsOf(s)
           k == KeyOf(o)
           p == ProofThrough(s, items, cache, o)
<1>1. IsItems(items) /\ k \in Keys
  BY SetItems, UtxoAssumption DEF Keys
<1>2. RootOf[s] = TreeRoot(items, TopNode)
  BY RootOfSet
<1>3. CASE o \in DOMAIN s
  <2>0. Depth \in 0..Depth
    BY DepthNat
  <2>1. /\ p.outpoint = o /\ p.coin = <<s[o]>> /\ p.depth = Depth
        /\ p.siblings = ProofSiblings(items, cache, k, Depth)
    BY <1>3 DEF ProofThrough
  <2> DEFINE it == <<k, ValueHash(s[o])>>
  <2>2. it \in items /\ it[1] = k /\ it[2] = ValueHash(s[o])
    BY <1>3 DEF ItemsOf
  <2> HIDE DEF items, it, p, k
  <2>3. \A e \in 0..Depth : it \in Under(items, NodeOn(k, e))
    <3>1. \A e \in 0..Depth : NodeOn(k, e)[1] = e
      BY <1>1, PathNodes
    <3> QED BY <2>2, <3>1 DEF Under
  <2>4. TreeRoot(items, NodeOn(k, Depth)) = LeafHash(k, ValueHash(s[o]))
    <3>1. NodeOn(k, Depth) \in TreeNodes /\ NodeOn(k, Depth)[1] = Depth
      BY <1>1, <2>0, PathNodes
    <3> QED BY <1>1, <2>0, <2>2, <2>3, <3>1, TreeUnfold
  <2>5. /\ p.siblings = [i \in 1..Depth |-> TreeRoot(items, SiblingNode(k, i - 1))]
        /\ Len(p.siblings) = Depth /\ IsInjective(p.siblings)
    BY <1>1, <2>0, <2>1, Siblings DEF items
  <2>6. \A e \in 0..(Depth - 1) : Under(items, NodeOn(k, e)) # {}
    <3>1. \A e \in 0..(Depth - 1) : e \in 0..Depth
      BY DepthNat
    <3> QED BY <2>3, <3>1
  <2>7. Climb(k, p.siblings, Depth, LeafHash(k, ValueHash(s[o]))) = TreeRoot(items, TopNode)
    <3>1. Climb(k, p.siblings, Depth, TreeRoot(items, NodeOn(k, Depth))) = TreeRoot(items, TopNode)
      <4> DEFINE sibs == p.siblings
      <4>1. sibs = [i \in 1..Depth |-> TreeRoot(items, SiblingNode(k, i - 1))]
        BY <2>5
      <4> HIDE DEF sibs
      <4>2. Climb(k, sibs, Depth, TreeRoot(items, NodeOn(k, Depth))) = TreeRoot(items, TopNode)
        BY <1>1, <2>0, <2>6, <4>1, ClimbsToRoot
      <4> QED BY <4>2 DEF sibs
    <3> QED BY <2>4, <3>1
  <2>8. p.coin # <<>> /\ p.coin[1] = s[o] /\ s[o].outpoint = o
    BY <1>3, <2>1, SetShape
  <2>9. VerifyProof(o, p, RootOf[s])
    BY <1>2, <2>1, <2>5, <2>7, <2>8 DEF VerifyProof, k
  <2> QED BY <2>9 DEF p, items
<1>4. CASE o \notin DOMAIN s
  <2> DEFINE d == FirstEmptyDepth(items, k)
  <2>1. p.outpoint = o /\ p.coin = <<>> /\ p.depth = d /\ p.siblings = ProofSiblings(items, cache, k, d)
    BY <1>4 DEF ProofThrough
  <2>2. \A it \in items : it[1] # k
    <3> SUFFICES ASSUME NEW it \in items, it[1] = k PROVE FALSE
      OBVIOUS
    <3>1. PICK q \in DOMAIN s : it = <<KeyOf(q), ValueHash(s[q])>>
      BY DEF ItemsOf
    <3>2. KeyOf(q) = k
      BY <3>1
    <3> QED BY <1>4, <3>2, SetShape, UtxoAssumption
  <2> HIDE DEF items, p, k
  <2>3. /\ d \in 0..Depth /\ Under(items, NodeOn(k, d)) = {}
        /\ \A e \in 0..(d - 1) : Under(items, NodeOn(k, e)) # {}
    BY <1>1, <2>2, FirstEmpty
  <2> HIDE DEF d
  <2>4. TreeRoot(items, NodeOn(k, d)) = EmptyHash(d)
    <3>1. NodeOn(k, d) \in TreeNodes /\ NodeOn(k, d)[1] = d
      BY <1>1, <2>3, PathNodes
    <3> QED BY <1>1, <2>3, <3>1, TreeUnfold
  <2>5. /\ p.siblings = [i \in 1..d |-> TreeRoot(items, SiblingNode(k, i - 1))]
        /\ Len(p.siblings) = d /\ IsInjective(p.siblings)
    BY <1>1, <2>1, <2>3, Siblings DEF items
  <2>7. Climb(k, p.siblings, d, EmptyHash(d)) = TreeRoot(items, TopNode)
    <3> DEFINE sibs == p.siblings
    <3>1. sibs = [i \in 1..d |-> TreeRoot(items, SiblingNode(k, i - 1))]
      BY <2>5
    <3> HIDE DEF sibs
    <3>2. Climb(k, sibs, d, TreeRoot(items, NodeOn(k, d))) = TreeRoot(items, TopNode)
      BY <1>1, <2>3, <3>1, ClimbsToRoot
    <3> QED BY <2>4, <3>2 DEF sibs
  <2>9. VerifyProof(o, p, RootOf[s])
    BY <1>2, <2>1, <2>5, <2>7 DEF VerifyProof, k
  <2> QED BY <2>9 DEF p, items
<1> QED BY <1>3, <1>4

\* A proof built from one set speaks for no other.
LEMMA ProofsSound ==
  ASSUME NEW s \in Sets
  PROVE  SoundFor[s]
<1>1. \A t \in Sets : \A o \in Outpoints :
        VerifyProof(o, ProofsOf[<<t, o>>], RootOf[s])
          => IF o \in DOMAIN t THEN o \in DOMAIN s /\ s[o] = t[o] ELSE o \notin DOMAIN s
  <2> SUFFICES ASSUME NEW t \in Sets, NEW o \in Outpoints, VerifyProof(o, ProofsOf[<<t, o>>], RootOf[s])
               PROVE  IF o \in DOMAIN t THEN o \in DOMAIN s /\ s[o] = t[o] ELSE o \notin DOMAIN s
    OBVIOUS
  <2>1. ProofsOf[<<t, o>>] = ProofThrough(t, ItemsOf(t), NoCache, o)
    BY DEF ProofsOf
  <2>2. VerifyProof(o, ProofsOf[<<t, o>>], RootOf[t])
    BY <2>1, ProofVerifies DEF NoCache
  <2>3. RootOf[s] = RootOf[t]
    BY <2>2 DEF VerifyProof
  <2>4. s = t
    BY <2>3, RootsDiffer
  <2> QED BY <2>4
<1> QED BY <1>1 DEF SoundFor

-----------------------------------------------------------------------------
(* The set and what is kept beside it *)

\* The two indexes, computed from the set.
IndexByKey(s) == [k \in {KeyOf(o) : o \in DOMAIN s} |-> CHOOSE o \in DOMAIN s : KeyOf(o) = k]

IndexByOwner(s) == [w \in {s[o].owner : o \in DOMAIN s} |-> {o \in DOMAIN s : s[o].owner = w}]

\* The key index leads from the key of an outpoint back to it.
LEMMA KeyIndexed ==
  ASSUME NEW s \in Sets
  PROVE  \A o \in DOMAIN s : KeyOf(o) \in DOMAIN IndexByKey(s) /\ IndexByKey(s)[KeyOf(o)] = o
<1> SUFFICES ASSUME NEW o \in DOMAIN s
             PROVE  KeyOf(o) \in DOMAIN IndexByKey(s) /\ IndexByKey(s)[KeyOf(o)] = o
  OBVIOUS
<1>1. \A q \in DOMAIN s : KeyOf(q) = KeyOf(o) => q = o
  BY SetShape, UtxoAssumption
<1>2. (CHOOSE q \in DOMAIN s : KeyOf(q) = KeyOf(o)) = o
  BY <1>1
<1> QED BY <1>2 DEF IndexByKey

\* No other function over those keys does.
LEMMA IsKeyIndex ==
  ASSUME NEW s \in Sets, NEW ki, ki = [k \in DOMAIN ki |-> ki[k]],
         DOMAIN ki = {KeyOf(o) : o \in DOMAIN s}, \A o \in DOMAIN s : ki[KeyOf(o)] = o
  PROVE  ki = IndexByKey(s)
<1>1. DOMAIN IndexByKey(s) = DOMAIN ki
  BY DEF IndexByKey
<1>2. \A k \in DOMAIN ki : IndexByKey(s)[k] = ki[k]
  BY KeyIndexed
<1>3. IndexByKey(s) = [k \in DOMAIN ki |-> IndexByKey(s)[k]]
  BY <1>1 DEF IndexByKey
<1> HIDE DEF IndexByKey
<1> QED BY <1>2, <1>3, Zenon

\* Adding a coin.
LEMMA AddViews ==
  ASSUME NEW s \in Sets, NEW c \in Coins, c.outpoint \notin DOMAIN s
  PROVE  /\ With(s, c.outpoint, c) \in Sets
         /\ With(IndexByKey(s), KeyOf(c.outpoint), c.outpoint) = IndexByKey(With(s, c.outpoint, c))
         /\ With(IndexByOwner(s), c.owner,
                 {c.outpoint} \union IF c.owner \in DOMAIN IndexByOwner(s)
                                     THEN IndexByOwner(s)[c.owner] ELSE {})
              = IndexByOwner(With(s, c.outpoint, c))
<1> DEFINE o == c.outpoint
           t == With(s, o, c)
           ki == With(IndexByKey(s), KeyOf(o), o)
           oi == With(IndexByOwner(s), c.owner,
                      {o} \union IF c.owner \in DOMAIN IndexByOwner(s) THEN IndexByOwner(s)[c.owner] ELSE {})
<1>1. DOMAIN t = DOMAIN s \cup {o} /\ t[o] = c /\ \A q \in DOMAIN s : t[q] = s[q]
  BY DEF With
<1>2. t = [q \in DOMAIN t |-> t[q]]
  BY DEF With
<1>3. t \in Sets
  <2>1. \A q \in DOMAIN t : t[q] \in Coins /\ t[q].outpoint = q
    BY <1>1, SetShape
  <2> HIDE DEF t
  <2> QED BY <1>2, <2>1, SetIs
<1>4. DOMAIN IndexByKey(s) = {KeyOf(q) : q \in DOMAIN s}
  BY DEF IndexByKey
<1>5. ki = [k \in DOMAIN ki |-> ki[k]] /\ DOMAIN ki = {KeyOf(q) : q \in DOMAIN t}
  BY <1>1, <1>4 DEF With
<1>6. \A q \in DOMAIN t : ki[KeyOf(q)] = q
  <2> SUFFICES ASSUME NEW q \in DOMAIN t PROVE ki[KeyOf(q)] = q
    OBVIOUS
  <2>1. CASE q = o
    BY <2>1 DEF With
  <2>2. CASE q # o
    <3>1. q \in DOMAIN s /\ KeyOf(q) # KeyOf(o)
      BY <1>1, <1>3, <2>2, SetShape, UtxoAssumption
    <3>2. KeyOf(q) \in DOMAIN IndexByKey(s) /\ IndexByKey(s)[KeyOf(q)] = q
      BY <3>1, KeyIndexed
    <3> QED BY <3>1, <3>2 DEF With
  <2> QED BY <2>1, <2>2
<1>7. ki = IndexByKey(t)
  <2> HIDE DEF ki, t
  <2> QED BY <1>3, <1>5, <1>6, IsKeyIndex
<1>8. oi = IndexByOwner(t)
  <2>1. DOMAIN IndexByOwner(s) = {s[q].owner : q \in DOMAIN s}
    BY DEF IndexByOwner
  <2>2. \A w \in DOMAIN IndexByOwner(s) : IndexByOwner(s)[w] = {q \in DOMAIN s : s[q].owner = w}
    BY DEF IndexByOwner
  <2>3. DOMAIN oi = {t[q].owner : q \in DOMAIN t}
    BY <1>1, <2>1 DEF With
  <2>4. \A w \in DOMAIN oi : oi[w] = {q \in DOMAIN t : t[q].owner = w}
    <3> SUFFICES ASSUME NEW w \in DOMAIN oi PROVE oi[w] = {q \in DOMAIN t : t[q].owner = w}
      OBVIOUS
    <3>1. CASE w = c.owner
      <4>1. oi[w] = {o} \union IF w \in DOMAIN IndexByOwner(s) THEN IndexByOwner(s)[w] ELSE {}
        BY <3>1 DEF With
      <4>2. (IF w \in DOMAIN IndexByOwner(s) THEN IndexByOwner(s)[w] ELSE {}) = {q \in DOMAIN s : s[q].owner = w}
        BY <2>1, <2>2
      <4> HIDE DEF t, oi
      <4> QED BY <1>1, <3>1, <4>1, <4>2
    <3>2. CASE w # c.owner
      <4>1. w \in DOMAIN IndexByOwner(s) /\ oi[w] = IndexByOwner(s)[w]
        BY <3>2 DEF With
      <4> HIDE DEF t, oi
      <4> QED BY <1>1, <2>2, <3>2, <4>1
    <3> QED BY <3>1, <3>2
  <2>5. oi = [w \in DOMAIN oi |-> oi[w]]
    BY DEF With
  <2> HIDE DEF oi, t
  <2> QED BY <2>3, <2>4, <2>5 DEF IndexByOwner
<1> QED BY <1>3, <1>7, <1>8

\* Removing one.
LEMMA RemoveViews ==
  ASSUME NEW s \in Sets, NEW o \in DOMAIN s
  PROVE  /\ Without(s, o) \in Sets
         /\ Without(IndexByKey(s), KeyOf(o)) = IndexByKey(Without(s, o))
         /\ LET left == IndexByOwner(s)[s[o].owner] \ {o}
            IN  (IF left = {} THEN Without(IndexByOwner(s), s[o].owner)
                 ELSE With(IndexByOwner(s), s[o].owner, left)) = IndexByOwner(Without(s, o))
<1> DEFINE t == Without(s, o)
           ki == Without(IndexByKey(s), KeyOf(o))
           left == IndexByOwner(s)[s[o].owner] \ {o}
           oi == IF left = {} THEN Without(IndexByOwner(s), s[o].owner)
                 ELSE With(IndexByOwner(s), s[o].owner, left)
<1>1. DOMAIN t = DOMAIN s \ {o} /\ \A q \in DOMAIN t : t[q] = s[q]
  BY DEF Without
<1>2. t = [q \in DOMAIN t |-> t[q]]
  BY DEF Without
<1>3. t \in Sets
  <2>1. \A q \in DOMAIN t : t[q] \in Coins /\ t[q].outpoint = q
    BY <1>1, SetShape
  <2> HIDE DEF t
  <2> QED BY <1>2, <2>1, SetIs
<1>4. DOMAIN IndexByKey(s) = {KeyOf(q) : q \in DOMAIN s}
  BY DEF IndexByKey
<1>5. \A q \in DOMAIN t : KeyOf(q) # KeyOf(o)
  BY <1>1, SetShape, UtxoAssumption
<1>6. ki = [k \in DOMAIN ki |-> ki[k]] /\ DOMAIN ki = {KeyOf(q) : q \in DOMAIN t}
  <2>1. DOMAIN ki = DOMAIN IndexByKey(s) \ {KeyOf(o)} /\ ki = [k \in DOMAIN ki |-> ki[k]]
    BY DEF Without
  <2> HIDE DEF ki, t
  <2> QED BY <1>1, <1>4, <1>5, <2>1
<1>7. \A q \in DOMAIN t : ki[KeyOf(q)] = q
  <2> SUFFICES ASSUME NEW q \in DOMAIN t PROVE ki[KeyOf(q)] = q
    OBVIOUS
  <2>1. KeyOf(q) \in DOMAIN IndexByKey(s) /\ IndexByKey(s)[KeyOf(q)] = q /\ KeyOf(q) # KeyOf(o)
    BY <1>1, <1>5, KeyIndexed
  <2> QED BY <2>1 DEF Without
<1>8. ki = IndexByKey(t)
  <2> HIDE DEF ki, t
  <2> QED BY <1>3, <1>6, <1>7, IsKeyIndex
<1>9. oi = IndexByOwner(t)
  <2>1. DOMAIN IndexByOwner(s) = {s[q].owner : q \in DOMAIN s}
    BY DEF IndexByOwner
  <2>2. \A w \in DOMAIN IndexByOwner(s) : IndexByOwner(s)[w] = {q \in DOMAIN s : s[q].owner = w}
    BY DEF IndexByOwner
  <2>3. left = {q \in DOMAIN t : t[q].owner = s[o].owner}
    <3>1. s[o].owner \in DOMAIN IndexByOwner(s)
      BY <2>1
    <3> HIDE DEF t
    <3> QED BY <1>1, <2>2, <3>1
  <2>4. DOMAIN oi = {t[q].owner : q \in DOMAIN t}
    <3>1. CASE left = {}
      <4>1. DOMAIN oi = DOMAIN IndexByOwner(s) \ {s[o].owner}
        BY <3>1 DEF Without
      <4> HIDE DEF t, oi, left
      <4> QED BY <1>1, <2>1, <2>3, <3>1, <4>1
    <3>2. CASE left # {}
      <4>1. DOMAIN oi = DOMAIN IndexByOwner(s) \cup {s[o].owner}
        BY <3>2 DEF With
      <4> HIDE DEF t, oi, left
      <4> QED BY <1>1, <2>1, <2>3, <3>2, <4>1
    <3> QED BY <3>1, <3>2
  <2>5. \A w \in DOMAIN oi : oi[w] = {q \in DOMAIN t : t[q].owner = w}
    <3> SUFFICES ASSUME NEW w \in DOMAIN oi PROVE oi[w] = {q \in DOMAIN t : t[q].owner = w}
      OBVIOUS
    <3>1. CASE w = s[o].owner
      <4>1. left # {}
        BY <3>1 DEF Without
      <4>2. oi[w] = left
        BY <3>1, <4>1 DEF With
      <4> QED BY <2>3, <3>1, <4>2
    <3>2. CASE w # s[o].owner
      <4>1. w \in DOMAIN IndexByOwner(s) /\ oi[w] = IndexByOwner(s)[w]
        BY <3>2 DEF With, Without
      <4> HIDE DEF t, oi, left
      <4> QED BY <1>1, <2>2, <3>2, <4>1
    <3> QED BY <3>1, <3>2
  <2>6. oi = [w \in DOMAIN oi |-> oi[w]]
    BY DEF With, Without
  <2> HIDE DEF oi, t
  <2> QED BY <2>4, <2>5, <2>6 DEF IndexByOwner
<1> QED BY <1>3, <1>8, <1>9

\* Reading nodes through a coherent cache leaves it coherent.
LEMMA FilledCoherent ==
  ASSUME NEW items, IsItems(items), NEW cache, DOMAIN cache \subseteq TreeNodes,
         \A m \in DOMAIN cache : cache[m] = TreeRoot(items, m),
         NEW nodes, nodes \subseteq TreeNodes
  PROVE  /\ DOMAIN Filled(items, cache, nodes) \subseteq TreeNodes
         /\ \A m \in DOMAIN Filled(items, cache, nodes) :
              Filled(items, cache, nodes)[m] = TreeRoot(items, m)
<1> DEFINE new == UNION {Visited(items, cache, n) : n \in nodes}
<1>1. new \subseteq TreeNodes
  <2>1. ASSUME NEW n \in nodes PROVE Visited(items, cache, n) \subseteq TreeNodes
    <3>1. n[1] \in 0..Depth
      BY NodeShape
    <3>2. \A e \in n[1]..Depth : e \in 0..Depth
      BY <3>1, DepthNat
    <3>3. \A it \in Under(items, n) : it[1] \in Keys
      BY DEF Under, IsItems
    <3>4. \A it \in Under(items, n) : \A e \in n[1]..Depth : NodeOn(it[1], e) \in TreeNodes
      BY <3>2, <3>3, PathNodes
    <3> QED BY <3>4 DEF Visited
  <2> QED BY <2>1
<1>2. Filled(items, cache, nodes) = [n \in DOMAIN cache \union new |-> SubtreeRoot(items, cache, n)]
  BY DEF Filled
<1> HIDE DEF new
<1>3. \A n \in DOMAIN cache \union new : SubtreeRoot(items, cache, n) = TreeRoot(items, n)
  BY <1>1, CacheCoherent
<1> QED BY <1>1, <1>2, <1>3

\* What a diff held by the node carries: roots of sets, and coins.
DiffOk(d) ==
  /\ \E s \in Sets : d.base = RootOf[s]
  /\ \E t \in Sets : d.target = RootOf[t]
  /\ d.additions \in Seq(Coins)

\* The inductive invariant: the set is one of the sets, everything kept beside
\* it says the same, and the diffs held are of the kind peers can send.
SyncInv ==
  /\ utxos \in Sets
  /\ ViewsAgree
  /\ DOMAIN subtreeCache \subseteq TreeNodes
  /\ \A d \in diffs : DiffOk(d)

\* The records of a set, in order: a sequence of its elements.
LEMMA InOrderSeq ==
  ASSUME NEW S \in SUBSET Coins, \A x, y \in S : x.outpoint = y.outpoint => x = y
  PROVE  InOrder(S) \in Seq(Coins)
<1> DEFINE R == {p \in S \X S : p[1].outpoint < p[2].outpoint}
<1>1. IsFiniteSet(S) /\ Cardinality(S) \in Nat
  BY UtxoAssumption, FS_Subset, FS_CardinalityType
<1>2. \A x \in S : x.outpoint \in Nat
  BY UtxoAssumption DEF Outpoints
<1>3. IsStrictOrder(R, S)
  BY <1>2 DEF IsStrictOrder
<1>4. \A x \in S : RankIn(S, R, x) = Cardinality({y \in S : y.outpoint < x.outpoint})
  <2> TAKE x \in S
  <2>1. {y \in S : <<y, x>> \in R} = {y \in S : y.outpoint < x.outpoint}
    OBVIOUS
  <2> QED BY <2>1 DEF RankIn
<1> HIDE DEF R
<1>5. \A i \in 1..Cardinality(S) : \E x \in S : Cardinality({y \in S : y.outpoint < x.outpoint}) = i - 1
  BY <1>1, <1>3, <1>4, RanksFill
<1>6. \A i \in 1..Cardinality(S) : InOrder(S)[i] \in S
  <2> TAKE i \in 1..Cardinality(S)
  <2>1. InOrder(S)[i] = CHOOSE x \in S : Cardinality({y \in S : y.outpoint < x.outpoint}) = i - 1
    BY DEF InOrder
  <2> QED BY <1>5, <2>1, Zenon
<1>7. InOrder(S) \in [1..Cardinality(S) -> Coins]
  BY <1>6 DEF InOrder
<1> QED BY <1>1, <1>7

\* What peers answer.
LEMMA BuiltOk ==
  ASSUME NEW s \in Sets, NEW t \in Sets, NEW d \in BuildDiff(s, t)
  PROVE  /\ DiffOk(d)
         /\ d.base = RootOf[s] /\ d.target = RootOf[t]
         /\ DOMAIN d = {"base", "target", "removals", "additions", "full", "sketch", "sumOk"}
         /\ d = [x \in DOMAIN d |-> d[x]]
<1>1. InOrder(Added(s, t)) \in Seq(Coins)
  <2>1. Added(s, t) \in SUBSET Coins
    BY SetShape DEF Added
  <2>2. \A x, y \in Added(s, t) : x.outpoint = y.outpoint => x = y
    BY SetShape DEF Added
  <2> QED BY <2>1, <2>2, InOrderSeq
<1>2. InOrder(Range(t)) \in Seq(Coins)
  <2>1. Range(t) \in SUBSET Coins
    BY SetShape DEF Range
  <2>2. \A x, y \in Range(t) : x.outpoint = y.outpoint => x = y
    BY SetShape DEF Range
  <2> QED BY <2>1, <2>2, InOrderSeq
<1>3. \/ d = CompactDiff(RootOf[s], RootOf[t], InOrder(Removed(s, t)), InOrder(Added(s, t)))
      \/ d = FullDiff(RootOf[s], RootOf[t], InOrder(Range(t)))
  BY Zenon DEF BuildDiff, EncodedDiff
<1>4. d.base = RootOf[s] /\ d.target = RootOf[t] /\ d.additions \in Seq(Coins)
  BY <1>1, <1>2, <1>3 DEF CompactDiff, FullDiff
<1>5. /\ DOMAIN d = {"base", "target", "removals", "additions", "full", "sketch", "sumOk"}
      /\ d = [x \in DOMAIN d |-> d[x]]
  BY <1>3 DEF CompactDiff, FullDiff
<1> QED BY <1>4, <1>5 DEF DiffOk

\* So does what a peer makes of its records: cut, reordered, under another
\* target or damaged.
LEMMA AnswerOk ==
  ASSUME NEW s \in Sets, NEW d \in AnswersFor[s]
  PROVE  DiffOk(d)
<1>1. PICK t \in Sets : d \in Answers(s, t)
  BY DEF AnswersFor
<1> DEFINE honest == BuildDiff(s, t)
           short == {<<Front(h.removals), h.additions>> : h \in {h \in honest : h.removals # <<>>}}
                    \union {<<h.removals, Front(h.additions)>> : h \in {h \in honest : h.additions # <<>>}}
<1>2. \A h \in honest : DiffOk(h) /\ h.additions \in Seq(Coins)
  BY BuiltOk DEF DiffOk
<1>3. \A r \in short : r[2] \in Seq(Coins)
  <2>1. \A q \in Seq(Coins) : q # <<>> => Front(q) \in Seq(Coins)
    BY DEF Front
  <2> HIDE DEF honest
  <2> QED BY <1>2, <2>1
<1>4. \/ d \in honest
      \/ \E r \in short : d = CompactDiff(RootOf[s], RootOf[t], r[1], r[2])
      \/ \E h \in honest, r \in short : d = [h EXCEPT !.removals = r[1], !.additions = r[2]]
      \/ \E h \in honest : d = [h EXCEPT !.additions = Reverse(@)]
      \/ \E h \in honest : d = [h EXCEPT !.target = RootOf[s]]
      \/ \E h \in honest : d = [h EXCEPT !.sumOk = FALSE]
  <2> DEFINE B == {CompactDiff(RootOf[s], RootOf[t], r[1], r[2]) : r \in short}
             W(h, r) == [h EXCEPT !.removals = r[1], !.additions = r[2]]
             C == {W(h, r) : h \in honest, r \in short}
             D == {[h EXCEPT !.additions = Reverse(@)] : h \in honest}
             M == {[h EXCEPT !.target = RootOf[s]] : h \in honest}
             E == {[h EXCEPT !.sumOk = FALSE] : h \in honest}
  <2>1. Answers(s, t) = honest \union B \union C \union D \union M \union E
    BY DEF Answers
  <2> HIDE DEF honest, short
  <2>2. d \in B => \E r \in short : d = CompactDiff(RootOf[s], RootOf[t], r[1], r[2])
    OBVIOUS
  <2>3. d \in C => \E h \in honest, r \in short : d = [h EXCEPT !.removals = r[1], !.additions = r[2]]
    <3>1. d \in C => \E h \in honest, r \in short : d = W(h, r)
      <4> HIDE DEF W
      <4> QED OBVIOUS
    <3> HIDE DEF C
    <3> QED BY <3>1, Zenon
  <2>4. d \in D => \E h \in honest : d = [h EXCEPT !.additions = Reverse(@)]
    OBVIOUS
  <2>5. d \in E => \E h \in honest : d = [h EXCEPT !.sumOk = FALSE]
    OBVIOUS
  <2>6. d \in M => \E h \in honest : d = [h EXCEPT !.target = RootOf[s]]
    OBVIOUS
  <2>7. d \in honest \/ d \in B \/ d \in C \/ d \in D \/ d \in M \/ d \in E
    <3> HIDE DEF B, C, D, M, E
    <3> QED BY <1>1, <2>1
  <2> HIDE DEF B, C, D, M, E
  <2> QED BY <2>2, <2>3, <2>4, <2>5, <2>6, <2>7, Zenon
<1>0. \A h \in honest : /\ h = [x \in DOMAIN h |-> h[x]]
                        /\ DOMAIN h = {"base", "target", "removals", "additions", "full", "sketch", "sumOk"}
  BY BuiltOk
<1> HIDE DEF honest, short
<1>5. CASE d \in honest
  BY <1>2, <1>5
<1>6. ASSUME NEW r \in short, d = CompactDiff(RootOf[s], RootOf[t], r[1], r[2]) PROVE DiffOk(d)
  BY <1>3, <1>6 DEF DiffOk, CompactDiff
<1>7. ASSUME NEW h \in honest, NEW r \in short, d = [h EXCEPT !.removals = r[1], !.additions = r[2]]
      PROVE  DiffOk(d)
  <2>1. d.base = h.base /\ d.target = h.target /\ d.additions = r[2]
    BY <1>0, <1>7
  <2> QED BY <1>2, <1>3, <2>1 DEF DiffOk
<1>8. ASSUME NEW h \in honest, d = [h EXCEPT !.additions = Reverse(@)] PROVE DiffOk(d)
  <2>1. d.base = h.base /\ d.target = h.target /\ d.additions = Reverse(h.additions)
    BY <1>0, <1>8
  <2>2. \A q \in Seq(Coins) : Reverse(q) \in Seq(Coins)
    BY DEF Reverse
  <2> QED BY <1>2, <2>1, <2>2 DEF DiffOk
<1>9. ASSUME NEW h \in honest, d = [h EXCEPT !.sumOk = FALSE] PROVE DiffOk(d)
  <2>1. d.base = h.base /\ d.target = h.target /\ d.additions = h.additions
    BY <1>0, <1>9
  <2> QED BY <1>2, <2>1 DEF DiffOk
<1>10. ASSUME NEW h \in honest, d = [h EXCEPT !.target = RootOf[s]] PROVE DiffOk(d)
  <2>1. d.base = h.base /\ d.target = RootOf[s] /\ d.additions = h.additions
    BY <1>0, <1>10
  <2> QED BY <1>2, <2>1 DEF DiffOk
<1> QED BY <1>4, <1>5, <1>6, <1>7, <1>8, <1>9, <1>10

\* What a diff makes of a set is a set.
LEMMA ReconciledSet ==
  ASSUME utxos \in Sets, NEW d, DiffOk(d)
  PROVE  Reconciled(d) \in Sets
<1> DEFINE base == IF d.full THEN [o \in {} |-> <<>>] ELSE utxos
           gone == {d.removals[i].outpoint : i \in DOMAIN d.removals}
           coming == Range(d.additions)
           r == Reconciled(d)
<1>1. coming \subseteq Coins
  BY DEF DiffOk, Range
<1>2. \A o \in DOMAIN base : base[o] \in Coins /\ base[o].outpoint = o
  BY SetShape
<1>3. r = [o \in (DOMAIN base \ gone) \union {c.outpoint : c \in coming} |->
              IF \E c \in coming : c.outpoint = o
              THEN CHOOSE c \in coming : c.outpoint = o ELSE base[o]]
  BY DEF Reconciled
<1> HIDE DEF base, gone, coming, r
<1>4. DOMAIN r = (DOMAIN base \ gone) \union {c.outpoint : c \in coming}
  BY <1>3
<1>5. \A o \in DOMAIN r : r[o] \in Coins /\ r[o].outpoint = o
  <2> SUFFICES ASSUME NEW o \in DOMAIN r PROVE r[o] \in Coins /\ r[o].outpoint = o
    OBVIOUS
  <2>1. CASE \E c \in coming : c.outpoint = o
    <3>1. r[o] = CHOOSE c \in coming : c.outpoint = o
      BY <1>3, <1>4, <2>1
    <3>2. r[o] \in coming /\ r[o].outpoint = o
      BY <2>1, <3>1, Zenon
    <3> QED BY <1>1, <3>2
  <2>2. CASE ~ \E c \in coming : c.outpoint = o
    <3>1. r[o] = base[o] /\ o \in DOMAIN base
      BY <1>3, <1>4, <2>2
    <3> QED BY <1>2, <3>1
  <2> QED BY <2>1, <2>2
<1>6. r = [o \in DOMAIN r |-> r[o]]
  BY <1>3
<1>7. r \in Sets
  BY <1>5, <1>6, SetIs
<1> QED BY <1>7 DEF r

\* A new set, its indexes, and caches that say what it says.
LEMMA Agreeing ==
  ASSUME utxos' \in Sets,
         keyIndex' = IndexByKey(utxos'), ownerIndex' = IndexByOwner(utxos'),
         itemsCache' \in {<<>>, <<ItemsOf(utxos')>>},
         DOMAIN (subtreeCache') \subseteq TreeNodes,
         \A m \in DOMAIN (subtreeCache') : subtreeCache'[m] = TreeRoot(ItemsOf(utxos'), m),
         \A d \in diffs' : DiffOk(d)
  PROVE  SyncInv'
<1>1. ItemsOf(utxos)' = ItemsOf(utxos')
  BY DEF ItemsOf
<1>2. \A m : SubtreeRoot(ItemsOf(utxos), NoCache, m)' = TreeRoot(ItemsOf(utxos'), m)
  BY <1>1 DEF TreeRoot
<1>3. \A d : DiffOk(d)' = DiffOk(d)
  BY DEF DiffOk
<1>4. ViewsAgree'
  BY <1>1, <1>2 DEF ViewsAgree, IndexByKey, IndexByOwner
<1> QED BY <1>3, <1>4 DEF SyncInv

\* The invariant, in the terms the steps use.
LEMMA SyncFacts ==
  ASSUME SyncInv
  PROVE  /\ utxos \in Sets /\ keyIndex = IndexByKey(utxos) /\ ownerIndex = IndexByOwner(utxos)
         /\ itemsCache \in {<<>>, <<ItemsOf(utxos)>>} /\ Items = ItemsOf(utxos)
         /\ DOMAIN subtreeCache \subseteq TreeNodes
         /\ \A m \in DOMAIN subtreeCache : subtreeCache[m] = TreeRoot(ItemsOf(utxos), m)
         /\ \A d \in diffs : DiffOk(d)
<1>1. Items = ItemsOf(utxos)
  BY DEF SyncInv, ViewsAgree, Items
<1> QED BY <1>1 DEF SyncInv, ViewsAgree, IndexByKey, IndexByOwner, TreeRoot

\* It holds of the empty set,
LEMMA SyncInitInv == SyncInit => SyncInv
<1> SUFFICES ASSUME SyncInit PROVE SyncInv
  OBVIOUS
<1>1. utxos = <<>> /\ keyIndex = <<>> /\ ownerIndex = <<>> /\ itemsCache = <<>>
      /\ subtreeCache = NoCache /\ diffs = {}
  BY DEF SyncInit, UtxoInit
<1>2. DOMAIN utxos = {}
  BY <1>1
<1>3. utxos \in Sets
  <2> DEFINE e == [o \in {} |-> 0]
  <2>1. utxos = e
    BY <1>1
  <2>2. e = [o \in DOMAIN e |-> e[o]] /\ DOMAIN e = {}
    OBVIOUS
  <2> HIDE DEF e
  <2> QED BY <2>1, <2>2, SetIs
<1>4. IndexByKey(utxos) = <<>> /\ IndexByOwner(utxos) = <<>>
  BY <1>2 DEF IndexByKey, IndexByOwner
<1>5. ViewsAgree
  BY <1>1, <1>4 DEF ViewsAgree, IndexByKey, IndexByOwner, NoCache
<1> QED BY <1>1, <1>3, <1>5 DEF SyncInv, NoCache

\* A call that reads nodes.
LEMMA ReadKeeps ==
  ASSUME SyncInv, NEW nodes, nodes \subseteq TreeNodes, ReadNodes(nodes), UNCHANGED diffs
  PROVE  SyncInv'
<1>1. UNCHANGED <<utxos, keyIndex, ownerIndex, diffs>> /\ itemsCache' = <<ItemsOf(utxos)>>
      /\ subtreeCache' = Filled(ItemsOf(utxos), subtreeCache, nodes)
  BY SyncFacts DEF ReadNodes
<1>2. IsItems(ItemsOf(utxos))
  BY SyncFacts, SetItems
<1>3. /\ DOMAIN (subtreeCache') \subseteq TreeNodes
      /\ \A m \in DOMAIN (subtreeCache') : subtreeCache'[m] = TreeRoot(ItemsOf(utxos), m)
  BY <1>1, <1>2, SyncFacts, FilledCoherent
<1> QED BY <1>1, <1>3, SyncFacts, Agreeing

\* The depth of a proof.
LEMMA ProofDepth ==
  ASSUME NEW s \in Sets, NEW cache, NEW o \in Outpoints
  PROVE  ProofThrough(s, ItemsOf(s), cache, o).depth \in 0..Depth
<1>1. IsItems(ItemsOf(s)) /\ KeyOf(o) \in Keys
  BY SetItems, UtxoAssumption DEF Keys
<1>2. CASE o \in DOMAIN s
  BY <1>2, DepthNat DEF ProofThrough
<1>3. CASE o \notin DOMAIN s
  <2>1. \A it \in ItemsOf(s) : it[1] # KeyOf(o)
    <3> SUFFICES ASSUME NEW it \in ItemsOf(s), it[1] = KeyOf(o) PROVE FALSE
      OBVIOUS
    <3>1. PICK q \in DOMAIN s : it = <<KeyOf(q), ValueHash(s[q])>>
      BY DEF ItemsOf
    <3>2. KeyOf(q) = KeyOf(o)
      BY <3>1
    <3> QED BY <1>3, <3>2, SetShape, UtxoAssumption
  <2>2. FirstEmptyDepth(ItemsOf(s), KeyOf(o)) \in 0..Depth
    BY <1>1, <2>1, FirstEmpty
  <2> QED BY <1>3, <2>2 DEF ProofThrough
<1> QED BY <1>2, <1>3

\* and every operation keeps it.
LEMMA SyncStep ==
  ASSUME SyncInv, [SyncNext]_syncVars
  PROVE  SyncInv'
<1>0. \A m : m \notin DOMAIN NoCache
  BY DEF NoCache
<1>1. ASSUME NEW c \in Coins, AddCoin(c), UNCHANGED diffs PROVE SyncInv'
  <2>1. /\ c.outpoint \notin DOMAIN utxos /\ utxos' = With(utxos, c.outpoint, c)
        /\ keyIndex' = With(keyIndex, KeyOf(c.outpoint), c.outpoint)
        /\ itemsCache' = <<>> /\ subtreeCache' = NoCache
    BY <1>1 DEF AddCoin, InvalidateMerkleCache
  <2>2. ownerIndex' = With(ownerIndex, c.owner,
                           {c.outpoint} \union IF c.owner \in DOMAIN ownerIndex
                                               THEN ownerIndex[c.owner] ELSE {})
    BY <1>1 DEF AddCoin
  <2>3. utxos' \in Sets /\ keyIndex' = IndexByKey(utxos')
    BY <2>1, SyncFacts, AddViews
  <2>4. ownerIndex' = IndexByOwner(utxos')
    BY <2>1, <2>2, SyncFacts, AddViews
  <2> QED BY <1>0, <1>1, <2>1, <2>3, <2>4, SyncFacts, Agreeing
<1>2. ASSUME NEW o \in DOMAIN utxos, RemoveCoin(o), UNCHANGED diffs PROVE SyncInv'
  <2>1. /\ utxos' = Without(utxos, o) /\ keyIndex' = Without(keyIndex, KeyOf(o))
        /\ itemsCache' = <<>> /\ subtreeCache' = NoCache
    BY <1>2 DEF RemoveCoin, InvalidateMerkleCache
  <2> DEFINE left == ownerIndex[utxos[o].owner] \ {o}
  <2>2. ownerIndex' = IF left = {} THEN Without(ownerIndex, utxos[o].owner)
                      ELSE With(ownerIndex, utxos[o].owner, left)
    BY <1>2 DEF RemoveCoin
  <2>3. utxos' \in Sets /\ keyIndex' = IndexByKey(utxos')
    BY <2>1, SyncFacts, RemoveViews
  <2>4. ownerIndex' = IndexByOwner(utxos')
    BY <2>1, <2>2, SyncFacts, RemoveViews
  <2> QED BY <1>0, <1>2, <2>1, <2>3, <2>4, SyncFacts, Agreeing
<1>3. CASE ReadRoot /\ UNCHANGED diffs
  <2>1. {TopNode} \subseteq TreeNodes
    BY SyncFacts, SetItems, UnderTop
  <2> QED BY <1>3, <2>1, ReadKeeps DEF ReadRoot
<1>4. ASSUME NEW o \in Outpoints, ReadProof(o), UNCHANGED diffs PROVE SyncInv'
  <2> DEFINE depth == ProofThrough(utxos, Items, subtreeCache, o).depth
             nodes == {SiblingNode(KeyOf(o), i) : i \in 0..(depth - 1)}
  <2>1. depth \in 0..Depth
    BY SyncFacts, ProofDepth
  <2>2. KeyOf(o) \in Keys
    BY UtxoAssumption DEF Keys
  <2>3. ReadNodes(nodes)
    BY <1>4 DEF ReadProof
  <2> HIDE DEF depth
  <2>4. nodes \subseteq TreeNodes
    <3>1. \A i \in 0..(depth - 1) : i \in 0..Depth /\ i # Depth
      BY <2>1, DepthNat
    <3> QED BY <2>2, <3>1, PathStep
  <2> HIDE DEF nodes
  <2> QED BY <1>4, <2>3, <2>4, ReadKeeps
<1>5. ASSUME NEW d \in AnswersFor[utxos], Request(d) PROVE SyncInv'
  <2>1. UNCHANGED utxoVars /\ diffs' = diffs \union {d} /\ DiffOk(d)
    BY <1>5, SyncFacts, AnswerOk DEF Request
  <2> QED BY <2>1, SyncFacts, Agreeing DEF utxoVars
<1>6. ASSUME NEW d \in diffs, Discard(d) PROVE SyncInv'
  BY <1>6, SyncFacts, Agreeing DEF Discard, utxoVars
<1>7. ASSUME NEW d \in diffs, Apply(d) PROVE SyncInv'
  <2> DEFINE s == Reconciled(d)
  <2>1. s \in Sets
    BY SyncFacts, ReconciledSet
  <2>2. ReplaceBy(s) /\ UNCHANGED diffs
    BY <1>7 DEF Apply
  <2> HIDE DEF s
  <2>3. /\ utxos' = s /\ keyIndex' = IndexByKey(s) /\ ownerIndex' = IndexByOwner(s)
        /\ itemsCache' = <<ItemsOf(s)>> /\ subtreeCache' = Filled(ItemsOf(s), NoCache, {TopNode})
    BY <2>2 DEF ReplaceBy, IndexByKey, IndexByOwner
  <2>4. /\ DOMAIN (subtreeCache') \subseteq TreeNodes
        /\ \A m \in DOMAIN (subtreeCache') : subtreeCache'[m] = TreeRoot(ItemsOf(s), m)
    <3>1. IsItems(ItemsOf(s)) /\ {TopNode} \subseteq TreeNodes
      BY <2>1, SetItems, UnderTop
    <3>2. DOMAIN NoCache \subseteq TreeNodes /\ \A m \in DOMAIN NoCache : NoCache[m] = TreeRoot(ItemsOf(s), m)
      BY <1>0
    <3> QED BY <2>3, <3>1, <3>2, FilledCoherent
  <2> QED BY <2>1, <2>2, <2>3, <2>4, SyncFacts, Agreeing
<1>8. CASE UNCHANGED syncVars
  BY <1>8, SyncFacts, Agreeing DEF syncVars, utxoVars
<1> QED BY <1>1, <1>2, <1>3, <1>4, <1>5, <1>6, <1>7, <1>8 DEF SyncNext

\* The invariant holds in every behaviour.
THEOREM SyncInvariant == SyncSpec => []SyncInv
BY SyncInitInv, SyncStep, PTL DEF SyncSpec

\* The invariant says of the root what the runs check of it.
LEMMA InvTruthful ==
  ASSUME SyncInv
  PROVE  RootSpeaksForSet
<1>1. \A o \in Outpoints : VerifyProof(o, ProofThrough(utxos, Items, subtreeCache, o), RootOf[utxos])
  BY SyncFacts, ProofVerifies
<1>2. SoundFor[utxos]
  BY SyncFacts, ProofsSound
<1> QED BY <1>1, <1>2 DEF SyncInv, RootSpeaksForSet, ProofsTruthful

\* After any order of additions, removals, reads and applied diffs of
\* state/utxo.py, indexes and caches say what the dictionary says, every proof
\* built through them verifies, and no proof verifies that claims what is not so.
THEOREM RootTruthful == SyncSpec => []RootSpeaksForSet
<1>1. SyncInv => RootSpeaksForSet
  BY InvTruthful
<1> QED BY <1>1, SyncInvariant, PTL

\* The set under the root of a set is that set.
LEMMA SetUnderRoot ==
  ASSUME NEW s \in Sets
  PROVE  SetOf[RootOf[s]] = s
<1>1. RootOf[s] \in Range(RootOf)
  BY DEF RootOf, Range
<1>2. SetOf[RootOf[s]] = CHOOSE t \in Sets : RootOf[t] = RootOf[s]
  BY <1>1 DEF SetOf
<1>3. \A t \in Sets : RootOf[t] = RootOf[s] => t = s
  BY RootsDiffer
<1> QED BY <1>2, <1>3

\* apply_utxo_diff implements the atomic transfer of StateTransfer, whichever of
\* its Answers the peer gave and whenever the diff is applied: equal roots are
\* equal sets, so comparing the two roots is comparing the sets themselves.
THEOREM SyncRefines == SyncSpec => SyncIsTransfer
<1> DEFINE OfferOf(d) == <<SetOf[d.base], SetOf[d.target]>>
           offers == {OfferOf(d) : d \in diffs}
<1>1. SyncInit => Abstract!TransferInit
  <2>1. SyncInit => offers = {}
    BY DEF SyncInit
  <2> QED BY <2>1, SyncInitInv DEF Abstract!TransferInit, SyncInv
<1>2. SyncInv /\ [SyncNext]_syncVars => [Abstract!TransferNext]_(Abstract!transferVars)
  <2> SUFFICES ASSUME SyncInv, [SyncNext]_syncVars
               PROVE  [Abstract!TransferNext]_(Abstract!transferVars)
    OBVIOUS
  <2> DEFINE offers1 == {OfferOf(d) : d \in diffs'}
  <2>0. utxos \in Sets /\ \A d \in diffs : DiffOk(d)
    BY DEF SyncInv
  <2>1. ASSUME NEW c \in Coins, AddCoin(c), UNCHANGED diffs PROVE Abstract!OwnChange
    <3>1. c.outpoint \notin DOMAIN utxos /\ utxos' = With(utxos, c.outpoint, c)
      BY <2>1 DEF AddCoin
    <3>2. utxos' \in OneChange(utxos)
      BY <3>1 DEF OneChange
    <3> QED BY <2>1, <3>2 DEF Abstract!OwnChange
  <2>2. ASSUME NEW o \in DOMAIN utxos, RemoveCoin(o), UNCHANGED diffs PROVE Abstract!OwnChange
    <3>1. utxos' \in OneChange(utxos)
      BY <2>2 DEF RemoveCoin, OneChange
    <3> QED BY <2>2, <3>1 DEF Abstract!OwnChange
  <2>3. ASSUME NEW d \in AnswersFor[utxos], Request(d) PROVE Abstract!Offer
    <3>1. DiffOk(d) /\ d.base = RootOf[utxos] /\ diffs' = diffs \union {d} /\ utxos' = utxos
      BY <2>0, <2>3, AnswerOk DEF Request, utxoVars
    <3>2. PICK t \in Sets : d.target = RootOf[t]
      BY <3>1 DEF DiffOk
    <3>3. OfferOf(d) = <<utxos, t>>
      BY <2>0, <3>1, <3>2, SetUnderRoot
    <3>4. offers1 = offers \union {<<utxos, t>>}
      <4> HIDE DEF OfferOf
      <4> QED BY <3>1, <3>3
    <3> QED BY <3>1, <3>4 DEF Abstract!Offer
  <2>4. ASSUME NEW d \in diffs, Discard(d) PROVE Abstract!Withdraw \/ UNCHANGED Abstract!transferVars
    <3>1. diffs' = diffs \ {d} /\ utxos' = utxos
      BY <2>4 DEF Discard, utxoVars
    <3>2. CASE \E e \in diffs' : OfferOf(e) = OfferOf(d)
      <4>1. offers1 = offers
        <5> HIDE DEF OfferOf
        <5> QED BY <3>1, <3>2
      <4> QED BY <3>1, <4>1 DEF Abstract!transferVars
    <3>3. CASE ~ \E e \in diffs' : OfferOf(e) = OfferOf(d)
      <4>1. OfferOf(d) \in offers /\ offers1 = offers \ {OfferOf(d)}
        <5> HIDE DEF OfferOf
        <5> QED BY <3>1, <3>3
      <4> QED BY <3>1, <4>1 DEF Abstract!Withdraw
    <3> QED BY <3>2, <3>3
  <2>5. ASSUME NEW d \in diffs, Apply(d) PROVE Abstract!Transfer
    <3>1. /\ RootOf[utxos] = d.base /\ RootOf[Reconciled(d)] = d.target
          /\ utxos' = Reconciled(d) /\ diffs' = diffs
      BY <2>5 DEF Apply, Applicable, ReplaceBy
    <3>2. Reconciled(d) \in Sets
      BY <2>0, ReconciledSet
    <3>3. OfferOf(d) = <<utxos, utxos'>>
      BY <2>0, <3>1, <3>2, SetUnderRoot
    <3>4. OfferOf(d) \in offers
      OBVIOUS
    <3>5. offers1 = offers
      BY <3>1
    <3> HIDE DEF OfferOf
    <3> QED BY <3>1, <3>3, <3>4, <3>5 DEF Abstract!Transfer, OfferOf
  <2>6. ASSUME utxos' = utxos, diffs' = diffs PROVE UNCHANGED Abstract!transferVars
    BY <2>6 DEF Abstract!transferVars
  <2>7. CASE ReadRoot /\ UNCHANGED diffs
    BY <2>6, <2>7 DEF ReadRoot, ReadNodes
  <2>8. ASSUME NEW o \in Outpoints, ReadProof(o), UNCHANGED diffs PROVE UNCHANGED Abstract!transferVars
    BY <2>6, <2>8 DEF ReadProof, ReadNodes
  <2>9. CASE UNCHANGED syncVars
    BY <2>6, <2>9 DEF syncVars, utxoVars
  <2> QED BY <2>1, <2>2, <2>3, <2>4, <2>5, <2>7, <2>8, <2>9 DEF SyncNext, Abstract!TransferNext
<1> QED BY <1>1, <1>2, SyncInvariant, PTL DEF SyncSpec, SyncIsTransfer, Abstract!TransferSpec

-----------------------------------------------------------------------------
(* Graphene *)

\* A table without keys peels at once, to nothing.
LEMMA EmptyPeels ==
  ASSUME NEW cells, \A i \in DOMAIN cells : cells[i] = EmptyCell, NEW signs, 0 \notin signs,
         Cardinality(DOMAIN cells) \in Nat
  PROVE  Peel(cells, signs).ok /\ Peel(cells, signs).plus = {}
<1> DEFINE first == [ok |-> TRUE, cells |-> cells, plus |-> {}, minus |-> {}]
           Loops(g) == g = [n \in Nat |-> IF n = 0 THEN first ELSE PeelTurn(g[n - 1], signs)]
           After == CHOOSE g : Loops(g)
           last == After[Cardinality(DOMAIN cells)]
<1>1. PeelTurn(first, signs) = first
  <2>1. {i \in DOMAIN first.cells : IsPureCell(first.cells[i], signs)} = {}
    BY DEF IsPureCell, EmptyCell
  <2> HIDE DEF first
  <2> QED BY <2>1, Zenon DEF PeelTurn
<1> DEFINE g == [n \in Nat |-> first]
<1>2. Loops(g)
  <2> HIDE DEF first
  <2>1. \A n \in Nat : first = IF n = 0 THEN first ELSE PeelTurn(g[n - 1], signs)
    BY <1>1
  <2> QED BY <2>1
<1>3. Loops(After)
  <2> HIDE DEF Loops
  <2> QED BY <1>2, Zenon
<1> HIDE DEF After
<1>4. \A n \in Nat : After[n] = IF n = 0 THEN first ELSE PeelTurn(After[n - 1], signs)
  <2> HIDE DEF first
  <2> QED BY <1>3, Zenon
<1> DEFINE Bad == {n \in Nat : After[n] # first}
<1>5. Bad = {}
  <2> HIDE DEF first
  <2>1. ASSUME Bad # {} PROVE FALSE
    <3>1. PICK n \in Bad : \A m \in Bad : n <= m
      BY <2>1, LeastNat
    <3>2. n # 0 /\ n - 1 \in Nat /\ After[n - 1] = first
      BY <1>4, <3>1
    <3> QED BY <1>1, <1>4, <3>1, <3>2
  <2> QED BY <2>1
<1>6. last = first
  <2> HIDE DEF first
  <2> QED BY <1>5
<1>7. last.ok /\ last.plus = {} /\ \A i \in DOMAIN cells : IsEmptyCell(last.cells[i])
  BY <1>6 DEF IsEmptyCell
<1>8. Peel(cells, signs) = IF last.ok /\ \A i \in DOMAIN cells : IsEmptyCell(last.cells[i])
                           THEN [ok |-> TRUE, plus |-> last.plus, minus |-> last.minus]
                           ELSE NotPeeled
  BY DEF Peel, After
<1> HIDE DEF last
<1> QED BY <1>7, <1>8

\* The number of cells 0..n-1, and of positions 1..n.
LEMMA UpTo ==
  ASSUME NEW n \in Nat
  PROVE  IsFiniteSet(0..(n - 1)) /\ Cardinality(0..(n - 1)) = n
<1> DEFINE b == n - 1
<1>1. b \in Int
  OBVIOUS
<1>2. IsFiniteSet(0..b) /\ Cardinality(0..b) = IF 0 > b THEN 0 ELSE b - 0 + 1
  <2> HIDE DEF b
  <2> QED BY <1>1, FS_Interval
<1> QED BY <1>2

LEMMA OneTo ==
  ASSUME NEW n \in Nat
  PROVE  IsFiniteSet(1..n) /\ Cardinality(1..n) = n
BY FS_Interval

\* The larger and the smaller of two numbers.
LEMMA BiggestOf ==
  ASSUME NEW a \in Int, NEW b \in Int
  PROVE  /\ Max({a, b}) \in {a, b} /\ Max({a, b}) >= a /\ Max({a, b}) >= b
         /\ Min({a, b}) \in {a, b} /\ Min({a, b}) <= a /\ Min({a, b}) <= b
<1>1. \E x \in {a, b} : \A y \in {a, b} : x >= y
  OBVIOUS
<1>2. \E x \in {a, b} : \A y \in {a, b} : x =< y
  OBVIOUS
<1>3. Max({a, b}) \in {a, b} /\ \A y \in {a, b} : Max({a, b}) >= y
  BY <1>1, Zenon DEF Max
<1>4. Min({a, b}) \in {a, b} /\ \A y \in {a, b} : Min({a, b}) =< y
  BY <1>2, Zenon DEF Min
<1> QED BY <1>3, <1>4

\* The filter and the table are never smaller than their minimum.
LEMMA Sizes ==
  ASSUME NEW n \in Nat
  PROVE  BloomBits(n) \in Nat /\ BloomBits(n) >= 8 /\ CellsFor(n) \in Nat /\ CellsFor(n) >= 3
<1>1. BloomBits(n) \in Nat /\ BloomBits(n) >= 8
  <2> DEFINE q == 2 * n
  <2>1. q \in Int /\ BloomBits(n) = Max({8, q})
    BY DEF BloomBits
  <2> HIDE DEF q
  <2>2. Max({8, q}) \in {8, q} /\ Max({8, q}) >= 8
    BY <2>1, BiggestOf
  <2> QED BY <2>1, <2>2 DEF q
<1> DEFINE m == Max({1, (n + 99) \div 100})
<1>2. (n + 99) \div 100 \in Int
  OBVIOUS
<1>3. m \in Int /\ m >= 1
  <2> DEFINE q == (n + 99) \div 100
  <2>1. q \in Int
    BY <1>2
  <2> HIDE DEF q
  <2>2. Max({1, q}) \in {1, q} /\ Max({1, q}) >= 1
    BY <2>1, BiggestOf
  <2> QED BY <2>1, <2>2 DEF q
<1>4. CellsFor(n) = Max({3, 3 * m})
  BY DEF CellsFor, MinCells
<1> HIDE DEF m
<1>5. 3 * m \in Int
  BY <1>3
<1>6. CellsFor(n) \in {3, 3 * m} /\ CellsFor(n) >= 3
  <2> DEFINE q == 3 * m
  <2>1. q \in Int /\ CellsFor(n) = Max({3, q})
    BY <1>4, <1>5
  <2> HIDE DEF q
  <2>2. Max({3, q}) \in {3, q} /\ Max({3, q}) >= 3
    BY <2>1, BiggestOf
  <2> QED BY <2>1, <2>2 DEF q
<1> QED BY <1>1, <1>3, <1>6

\* A fruit that can be announced.
LEMMA FruitShape ==
  ASSUME NEW f \in Fruits
  PROVE  /\ Len(f) \in Nat /\ Len(f) > 0 /\ DOMAIN f = 1..Len(f)
         /\ f = [i \in DOMAIN f |-> f[i]]
         /\ Range(f) \subseteq PoolTxs
         /\ IsFiniteSet(Range(f)) /\ Cardinality(Range(f)) <= Len(f)
         /\ Cardinality(Range(f)) \in Nat
<1>1. f \in Seq(PoolTxs) /\ f # <<>>
  BY GrapheneAssumption
<1>2. Len(f) \in Nat /\ Len(f) > 0 /\ DOMAIN f = 1..Len(f) /\ f = [i \in DOMAIN f |-> f[i]]
  BY <1>1
<1>3. Range(f) \subseteq PoolTxs
  BY <1>1 DEF Range
<1>4. Range(f) = {f[i] : i \in 1..Len(f)}
  BY <1>2 DEF Range
<1>5. IsFiniteSet(1..Len(f)) /\ Cardinality(1..Len(f)) = Len(f)
  BY <1>2, FS_Interval
<1>6. f \in [1..Len(f) -> Range(f)] /\ f \in Surjection(1..Len(f), Range(f))
  BY <1>2, <1>4 DEF Surjection
<1>7. IsFiniteSet(Range(f)) /\ Cardinality(Range(f)) <= Len(f)
  BY <1>5, <1>6, FS_Surjection
<1> QED BY <1>2, <1>3, <1>7, FS_CardinalityType
\* The short ids of an announced fruit differ.
LEMMA ParamDiffers ==
  ASSUME NEW f \in Fruits
  PROVE  IsInjective([i \in DOMAIN f |-> ShortIds(f[i], ShortIdParam(f))])
<1> DEFINE Good(p) == IsInjective([i \in DOMAIN f |-> ShortIds(f[i], p)])
           T == {p \in 1..ShortIdParams : Good(p)}
<1> HIDE DEF Good
<1>1. T # {} /\ T \subseteq Nat
  <2>1. \E p \in 1..ShortIdParams : Good(p)
    BY GrapheneAssumption, Zenon DEF Good
  <2>2. 1..ShortIdParams \subseteq Nat
    BY GrapheneAssumption
  <2> QED BY <2>1, <2>2
<1>2. PICK p \in T : \A q \in T : p <= q
  <2> HIDE DEF T
  <2> QED BY <1>1, LeastNat
<1>3. \A q \in 1..(p - 1) : ~ Good(q)
  <2>1. \A q \in 1..(p - 1) : q \in 1..ShortIdParams /\ ~ (p <= q)
    BY <1>2, GrapheneAssumption
  <2> QED BY <1>2, <2>1
<1>4. \E x \in 1..ShortIdParams : Good(x) /\ \A q \in 1..(x - 1) : ~ Good(q)
  BY <1>2, <1>3
<1>5. ShortIdParam(f) = CHOOSE x \in 1..ShortIdParams : Good(x) /\ \A q \in 1..(x - 1) : ~ Good(q)
  BY Zenon DEF ShortIdParam, Good
<1>6. Good(ShortIdParam(f))
  BY <1>4, <1>5, Zenon
<1> QED BY <1>6 DEF Good

\* The fields of a sketch.
LEMMA AnnounceIs ==
  ASSUME NEW f
  PROVE  /\ Announce(f).root = f /\ Announce(f).count = Len(f)
         /\ Announce(f).bloom = BloomOf(Range(f), BloomBits(Len(f)))
         /\ Announce(f).param = ShortIdParam(f)
         /\ Announce(f).cells = BuildCells(Range(f), CellsFor(Len(f)))
         /\ Announce(f).shorts = [i \in DOMAIN f |-> ShortIds(f[i], ShortIdParam(f))]
BY DEF Announce

\* What announce_fruit writes, _decode_sketch accepts.
LEMMA AnnouncedWellFormed ==
  ASSUME NEW f \in Fruits
  PROVE  WellFormed(Announce(f))
<1> DEFINE n == Len(f)
           bits == BloomBits(n)
           txs == Range(f)
           bloom == BloomOf(txs, bits)
<1>1. n \in Nat /\ n > 0 /\ bits \in Nat /\ bits >= 8 /\ CellsFor(n) \in Nat
  BY FruitShape, Sizes
<1>2. \A x \in txs \X BloomHashes : BloomPos(x[1], x[2]) \in Nat
  BY FruitShape, GrapheneAssumption DEF BloomHashes
<1>3. bloom \subseteq 0..(bits - 1)
  <2> HIDE DEF bits
  <2>1. \A b \in Nat : b % bits \in 0..(bits - 1)
    BY <1>1
  <2> QED BY <1>2, <2>1 DEF BloomOf
<1>4. Cardinality(bloom) <= bits /\ Cardinality(bloom) \in Nat
  <2> HIDE DEF bits, bloom
  <2>1. IsFiniteSet(0..(bits - 1)) /\ Cardinality(0..(bits - 1)) = bits
    BY <1>1, UpTo
  <2> QED BY <1>3, <2>1, FS_Subset, FS_CardinalityType
<1>5. Cardinality(bloom) <= 3 * n
  <2> DEFINE g == [x \in txs \X BloomHashes |-> BloomPos(x[1], x[2]) % bits]
  <2>1. IsFiniteSet(txs) /\ Cardinality(txs) <= n /\ Cardinality(txs) \in Nat
    BY FruitShape
  <2>2. IsFiniteSet(BloomHashes) /\ Cardinality(BloomHashes) = 3
    <3>1. \A m \in Nat : IsFiniteSet(1..m) /\ Cardinality(1..m) = m
      BY OneTo
    <3> QED BY <3>1 DEF BloomHashes
  <2> HIDE DEF txs, bits
  <2>3. IsFiniteSet(txs \X BloomHashes) /\ Cardinality(txs \X BloomHashes) = Cardinality(txs) * 3
    BY <2>1, <2>2, FS_Product
  <2>4. g \in Surjection(txs \X BloomHashes, bloom)
    BY DEF Surjection, BloomOf
  <2>5. Cardinality(bloom) <= Cardinality(txs) * 3
    BY <2>3, <2>4, FS_Surjection
  <2> HIDE DEF n, bloom
  <2> QED BY <1>1, <1>4, <2>1, <2>5
<1>6. Cardinality(bloom) <= Min({bits, 3 * n})
  <2> DEFINE q == 3 * n
  <2>1. q \in Int /\ Cardinality(bloom) <= q
    BY <1>1, <1>5
  <2> HIDE DEF q, bits, bloom
  <2>2. Min({bits, q}) \in {bits, q}
    <3>1. bits \in Int
      BY <1>1
    <3> QED BY <2>1, <3>1, BiggestOf
  <2>3. Cardinality(bloom) <= Min({bits, q})
    BY <1>4, <2>1, <2>2
  <2> QED BY <2>3 DEF q
<1>7. Cardinality(DOMAIN BuildCells(txs, CellsFor(n))) = CellsFor(n)
  <2>1. DOMAIN BuildCells(txs, CellsFor(n)) = 0..(CellsFor(n) - 1)
    BY DEF BuildCells
  <2>2. Cardinality(0..(CellsFor(n) - 1)) = CellsFor(n)
    BY <1>1, UpTo
  <2> QED BY <2>1, <2>2
<1> DEFINE shorts == [i \in DOMAIN f |-> ShortIds(f[i], ShortIdParam(f))]
<1>8. Len(shorts) = n /\ IsInjective(shorts)
  <2>1. DOMAIN shorts = 1..n
    BY FruitShape
  <2>2. Len(shorts) = n
    BY <1>1, <2>1
  <2> QED BY <2>2, ParamDiffers
<1> HIDE DEF n, bits, bloom, txs, shorts
<1>9. /\ Announce(f).count = n /\ Announce(f).bloom = bloom /\ BloomBits(n) = bits
      /\ Announce(f).cells = BuildCells(txs, CellsFor(n)) /\ Announce(f).shorts = shorts
  BY AnnounceIs DEF n, bits, bloom, txs, shorts
<1> QED BY <1>1, <1>3, <1>6, <1>7, <1>8, <1>9 DEF WellFormed

\* From a mempool whose matching transactions are the fruit's, the fruit.
LEMMA AnnouncedRebuilds ==
  ASSUME NEW f \in Fruits, NEW txs, Matching(Announce(f), txs) = Range(f)
  PROVE  Reconstruct(Announce(f), txs) = f
<1> DEFINE s == Announce(f)
           p == ShortIdParam(f)
           cand == Range(f)
<1>1. WellFormed(s)
  BY AnnouncedWellFormed
<1>2. /\ s.root = f /\ s.count = Len(f) /\ s.param = p
      /\ s.cells = BuildCells(cand, CellsFor(Len(f)))
      /\ s.shorts = [i \in DOMAIN f |-> ShortIds(f[i], p)]
  BY AnnounceIs
<1>3. \A i, j \in DOMAIN f : ShortIds(f[i], p) = ShortIds(f[j], p) => i = j
  BY ParamDiffers DEF IsInjective
<1>4. cand = {f[i] : i \in DOMAIN f}
  BY DEF Range
<1>5. CellsFor(Len(f)) \in Nat /\ Len(f) \in Nat /\ Cardinality(cand) \in Nat /\ Cardinality(cand) <= Len(f)
  BY FruitShape, Sizes
<1> HIDE DEF s, p
<1>6. Usable(s, cand)
  <2>1. \A t, u \in cand : ShortIds(t, p) = ShortIds(u, p) => t = u
    BY <1>3, <1>4
  <2> QED BY <1>2, <1>5, <2>1 DEF Usable
<1>7. NothingLacking(s, cand)
  <2> DEFINE built == BuildCells(cand, CellsFor(Len(f)))
             diff == SubtractCells(built, built)
  <2>1. DOMAIN built = 0..(CellsFor(Len(f)) - 1)
    BY DEF BuildCells
  <2>2. \A i \in DOMAIN built : built[i].count \in Nat
    <3> SUFFICES ASSUME NEW i \in DOMAIN built PROVE built[i].count \in Nat
      OBVIOUS
    <3> DEFINE here == {key \in cand : i \in Positions(key, CellsFor(Len(f)))}
    <3>1. built[i].count = Cardinality(here)
      BY <2>1 DEF BuildCells
    <3>2. IsFiniteSet(here)
      BY FruitShape, FS_Subset
    <3> QED BY <3>1, <3>2, FS_CardinalityType
  <2> HIDE DEF built
  <2>3. DOMAIN diff = DOMAIN built /\ \A i \in DOMAIN diff : diff[i] = EmptyCell
    <3>1. \A i \in DOMAIN built : built[i].count - built[i].count = 0
      BY <2>2
    <3>2. \A i \in DOMAIN built : SymDiff(built[i].keys, built[i].keys) = {}
      BY DEF SymDiff
    <3> QED BY <3>1, <3>2 DEF SubtractCells, EmptyCell
  <2>4. Cardinality(DOMAIN diff) \in Nat
    BY <1>5, <2>1, <2>3, FS_Interval, FS_CardinalityType
  <2>5. 0 \notin {1, -1}
    OBVIOUS
  <2> HIDE DEF diff
  <2>6. Peel(diff, {1, -1}).ok /\ Peel(diff, {1, -1}).plus = {}
    BY <2>3, <2>4, <2>5, EmptyPeels
  <2> QED BY <1>2, <2>6 DEF NothingLacking, built, diff
<1>8. Listed(s, cand)
  BY <1>2, <1>4 DEF Listed
<1>9. InListedOrder(s, cand) = f
  <2>1. \A i \in DOMAIN f : (CHOOSE t \in cand : ShortIds(t, p) = ShortIds(f[i], p)) = f[i]
    <3> TAKE i \in DOMAIN f
    <3>1. \A t \in cand : ShortIds(t, p) = ShortIds(f[i], p) => t = f[i]
      BY <1>3, <1>4
    <3>2. f[i] \in cand
      BY <1>4
    <3> QED BY <3>1, <3>2
  <2>2. DOMAIN s.shorts = DOMAIN f /\ \A i \in DOMAIN f : s.shorts[i] = ShortIds(f[i], p)
    BY <1>2
  <2>3. InListedOrder(s, cand) = [i \in DOMAIN f |-> CHOOSE t \in cand : ShortIds(t, p) = ShortIds(f[i], p)]
    BY <1>2, <2>2 DEF InListedOrder
  <2>4. InListedOrder(s, cand) = [i \in DOMAIN f |-> f[i]]
    BY <2>1, <2>3
  <2> QED BY <2>4, FruitShape
<1>10. MatchedList(s, txs) = {f}
  <2>1. Matching(s, txs) = cand
    BY DEF s
  <2> HIDE DEF cand
  <2> QED BY <1>1, <1>6, <1>7, <1>8, <1>9, <2>1 DEF MatchedList
<1>11. {list \in MatchedList(s, txs) : list = s.root /\ Announce(list) = s} = {f}
  BY <1>2, <1>10 DEF s
<1>12. TheOneOf({f}) = f
  BY DEF TheOneOf
<1>13. Reconstruct(s, txs) = f
  BY <1>11, <1>12 DEF Reconstruct
<1> QED BY <1>13 DEF s

\* Whatever the sketch, what is returned announces to it.
LEMMA RebuiltAnnounces ==
  ASSUME NEW s, NEW txs, Reconstruct(s, txs) # <<>>
  PROVE  Announce(Reconstruct(s, txs)) = s
<1> DEFINE lists == {list \in MatchedList(s, txs) : list = s.root /\ Announce(list) = s}
<1>1. Reconstruct(s, txs) = TheOneOf(lists)
  BY DEF Reconstruct
<1>2. lists # {} /\ TheOneOf(lists) = CHOOSE list \in lists : TRUE
  BY <1>1 DEF TheOneOf
<1>3. TheOneOf(lists) \in lists
  <2> HIDE DEF lists
  <2> QED BY <1>2
<1> QED BY <1>1, <1>3

\* A fruit that reconstruct of net/graphene.py hands on announces to the sketch
\* received, and a pool with just the announced transactions rebuilds them.
THEOREM GrapheneRebuilds == GrapheneSpec => []RebuildsAnnounced
<1> DEFINE Kept == rebuilt # <<>> => Announce(rebuilt) = arrived[1]
<1>1. GrapheneInit => Kept
  BY DEF GrapheneInit
<1>2. Kept /\ [GrapheneNext]_grapheneVars => Kept'
  <2> SUFFICES ASSUME Kept, [GrapheneNext]_grapheneVars PROVE Kept'
    OBVIOUS
  <2>1. ASSUME NEW t \in PoolTxs, PoolChange(t) PROVE Kept'
    BY <2>1 DEF PoolChange
  <2>2. ASSUME NEW s \in Sketches, SketchArrives(s) PROVE Kept'
    <3>1. arrived'[1] = s /\ rebuilt' = Reconstruct(s, pool)
      BY <2>2 DEF SketchArrives
    <3>2. rebuilt' # <<>> => Announce(rebuilt') = s
      BY <3>1, RebuiltAnnounces
    <3> QED BY <3>1, <3>2
  <2>3. CASE RetrySketch
    <3>1. arrived' = arrived /\ rebuilt' = Reconstruct(arrived[1], pool)
      BY <2>3 DEF RetrySketch
    <3>2. rebuilt' # <<>> => Announce(rebuilt') = arrived[1]
      BY <3>1, RebuiltAnnounces
    <3> QED BY <3>1, <3>2
  <2>4. CASE ForgetSketch
    BY <2>4 DEF ForgetSketch
  <2>5. CASE UNCHANGED grapheneVars
    BY <2>5 DEF grapheneVars
  <2> QED BY <2>1, <2>2, <2>3, <2>4, <2>5 DEF GrapheneNext
<1>3. Kept => RebuildsAnnounced
  BY AnnouncedRebuilds DEF RebuildsAnnounced
<1> QED BY <1>1, <1>2, <1>3, PTL DEF GrapheneSpec

-----------------------------------------------------------------------------
(* The locks of nodes that sync from one another *)

\* The order of the naturals as a relation.
Less == {p \in Nat \X Nat : p[1] < p[2]}

\* Every nonempty set of naturals has a least member.
LEMMA LessWF == IsWellFoundedOn(Less, Nat)
<1>1. Less = OpToRel(<, Nat)
  BY Zenon DEF Less, OpToRel
<1> QED BY <1>1, NatLessThanWellFounded, Zenon

\* A nonempty bounded set of naturals has a greatest member: of the locks that a
\* ring of threads waits for, one is the last in the order of ids.
LEMMA GreatestExists ==
  ASSUME NEW b \in Nat, NEW T, \A x \in T : x \in Nat /\ x <= b, T # {}
  PROVE  \E x \in T : \A y \in T : y <= x
<1> DEFINE U == {u \in Nat : \E x \in T : x + u = b}
<1>0. \A x \in T : b - x \in U
  OBVIOUS
<1>1. U \subseteq Nat /\ U # {}
  BY <1>0
<1>2. PICK u \in U : \A v \in U : ~ (<<v, u>> \in Less)
  <2> HIDE DEF U
  <2> QED BY <1>1, WFMin, LessWF
<1>3. \A v \in U : u <= v
  <2>1. \A v \in Nat : <<v, u>> \in Less <=> v < u
    BY DEF Less
  <2>2. \A v \in U : v \in Nat /\ ~ (v < u)
    BY <1>2, <2>1
  <2> HIDE DEF U
  <2> QED BY <1>1, <2>2
<1>4. PICK x \in T : x + u = b
  BY <1>2
<1>5. \A y \in T : b - y \in U
  OBVIOUS
<1> QED
  BY <1>3, <1>4, <1>5

\* The locks a thread holds, by its position in its call.
Held(t) == {LockOrder(call[t].self, call[t].other)[i] : i \in 1..call[t].taken}

\* The states of a call.
Calls == [pc : {"none", "locks", "copy", "memory"}, self : Nat, other : Nat,
          taken : 0..2, copied : Seq(Nat)]

\* The types of the state.
LockTypes ==
  /\ holder \in [Nodes -> Threads \cup {NoThread}]
  /\ call \in [Threads -> Calls]
  /\ content \in [Nodes -> [1..NColumns -> Nat]]
  /\ inMemory \in [Nodes -> [1..NColumns -> Nat]]

\* A call has its locks before it copies, and is waiting for one until then.
Progress(t) ==
  LET c == call[t]
      n == Len(LockOrder(c.self, c.other))
  IN  /\ c.pc = "none" => c.taken = 0 /\ c.copied = << >>
      /\ c.pc # "none" => c.self \in Nodes /\ c.other \in Nodes
      /\ c.pc = "locks" => c.taken < n /\ c.copied = << >>
      /\ c.pc \in {"copy", "memory"} => c.taken = n

\* The inductive invariant: who holds a lock is who has taken it.
LocksInv ==
  /\ LockTypes
  /\ \A t \in Threads : Progress(t)
  /\ \A t \in Threads, n \in Nodes : holder[n] = t <=> n \in Held(t)

\* What the assumptions on the constants give.
LEMMA NodesAreNat == Nodes \subseteq Nat /\ NColumns \in Nat \ {0} /\ NoThread \notin Threads
BY SyncAssumption, FS_CardinalityType

\* sync_from takes each lock once, and the one of the smaller id first.
LEMMA LockOrders ==
  ASSUME NEW m \in Nodes, NEW n \in Nodes
  PROVE  /\ LockOrder(m, n) \in Seq(Nodes)
         /\ m = n => LockOrder(m, n) = <<m>> /\ Len(LockOrder(m, n)) = 1
         /\ m # n => /\ Len(LockOrder(m, n)) = 2
                     /\ LockOrder(m, n)[1] < LockOrder(m, n)[2]
                     /\ {LockOrder(m, n)[1], LockOrder(m, n)[2]} = {m, n}
BY NodesAreNat DEF LockOrder

\* The step by which an operation changes a version is a number.
LEMMA VersionsGrow == Cardinality(Nodes) \in Nat
BY SyncAssumption, FS_CardinalityType

\* A lock is held by the thread that has taken it, and a thread has taken the
\* locks before the one it waits for.
LEMMA LocksInvHolds == LockSpec => []LocksInv
<1>1. LockInit => LocksInv
  <2> SUFFICES ASSUME LockInit PROVE LocksInv
    OBVIOUS
  <2>1. LockTypes
    BY NodesAreNat DEF LockInit, LockTypes, Whole, NoCall, Calls
  <2>2. \A t \in Threads : Progress(t)
    BY DEF LockInit, Progress, NoCall
  <2>3. \A t \in Threads : Held(t) = {}
    BY DEF LockInit, Held, NoCall
  <2>4. \A t \in Threads, n \in Nodes : holder[n] # t
    BY NodesAreNat DEF LockInit
  <2> QED BY <2>1, <2>2, <2>3, <2>4 DEF LocksInv
<1>2. LocksInv /\ [LockNext]_lockVars => LocksInv'
  <2> SUFFICES ASSUME LocksInv, [LockNext]_lockVars PROVE LocksInv'
    OBVIOUS
  <2>1. ASSUME NEW t \in Threads, NEW self \in Nodes, NEW other \in Nodes, Call(t, self, other)
        PROVE  LocksInv'
    <3>1. call' = [call EXCEPT ![t] = [NoCall EXCEPT !.pc = "locks", !.self = self, !.other = other]]
          /\ UNCHANGED <<holder, content, inMemory>> /\ call[t] = NoCall
      BY <2>1 DEF Call
    <3>2. call'[t] = [pc |-> "locks", self |-> self, other |-> other, taken |-> 0, copied |-> << >>]
      BY <3>1 DEF NoCall, LocksInv, LockTypes
    <3>3. \A u \in Threads \ {t} : call'[u] = call[u]
      BY <3>1 DEF LocksInv, LockTypes
    <3>4. LockTypes'
      <4>1. call'[t] \in Calls
        BY <3>2, NodesAreNat DEF Calls
      <4> QED BY <3>1, <4>1 DEF LocksInv, LockTypes
    <3>5. Progress(t)'
      <4>1. Len(LockOrder(self, other)) \in {1, 2}
        BY LockOrders
      <4>2. /\ call'[t].pc = "locks" /\ call'[t].self = self /\ call'[t].other = other
            /\ call'[t].taken = 0 /\ call'[t].copied = << >>
        BY <3>2
      <4>3. call'[t].taken < Len(LockOrder(call'[t].self, call'[t].other))
        <5>1. \A k \in {1, 2} : 0 < k
          OBVIOUS
        <5> QED BY <4>1, <4>2, <5>1, Zenon
      <4> QED BY <4>2, <4>3 DEF Progress
    <3>6. \A u \in Threads : Progress(u)'
      BY <3>3, <3>5 DEF Progress, LocksInv
    <3>7. Held(t)' = {} /\ Held(t) = {}
      BY <3>1, <3>2 DEF Held, NoCall
    <3>8. \A u \in Threads : Held(u)' = Held(u)
      BY <3>3, <3>7 DEF Held
    <3> QED BY <3>1, <3>4, <3>6, <3>8 DEF LocksInv
  <2>2. ASSUME NEW t \in Threads, Take(t) PROVE LocksInv'
    <3> DEFINE c == call[t]
               order == LockOrder(c.self, c.other)
    <3>1. PICK n \in Wants(t) :
            /\ holder[n] = NoThread
            /\ holder' = [holder EXCEPT ![n] = t]
            /\ call' = [call EXCEPT ![t].taken = @ + 1,
                          ![t].pc = IF call[t].taken + 1 = Len(LockOrder(call[t].self, call[t].other))
                                    THEN "copy" ELSE @]
            /\ UNCHANGED <<content, inMemory, calls>>
      BY <2>2 DEF Take
    <3>2. c \in Calls /\ c.pc = "locks" /\ n = order[c.taken + 1]
      BY <3>1 DEF Wants, LocksInv, LockTypes
    <3>3. c.self \in Nodes /\ c.other \in Nodes /\ c.taken < Len(order) /\ c.copied = << >>
      BY <3>2 DEF LocksInv, Progress
    <3>4. order \in Seq(Nodes) /\ Len(order) \in 1..2 /\ n \in Nodes
          /\ \A i, j \in 1..Len(order) : order[i] = order[j] => i = j
      <4>1. order \in Seq(Nodes) /\ Len(order) \in 1..2
        BY <3>3, LockOrders
      <4>2. c.taken + 1 \in 1..Len(order)
        BY <3>2, <3>3, <4>1 DEF Calls
      <4>3. n \in Nodes
        BY <3>2, <4>1, <4>2
      <4>4. Len(order) = 2 => order[1] < order[2] /\ order[1] \in Nat /\ order[2] \in Nat
        <5>1. Len(order) = 2 => order[1] \in Nodes /\ order[2] \in Nodes
          BY <4>1
        <5>2. Len(order) = 2 => order[1] < order[2]
          <6>1. c.self = c.other => Len(order) = 1
            BY <3>3, LockOrders
          <6>2. c.self # c.other => order[1] < order[2]
            <7>1. \A m, k \in Nodes : m # k => LockOrder(m, k)[1] < LockOrder(m, k)[2]
              BY LockOrders
            <7> QED BY <7>1, <3>3
          <6> HIDE DEF order, c
          <6> QED BY <6>1, <6>2
        <5> QED BY <5>1, <5>2, NodesAreNat
      <4>5. \A i, j \in 1..Len(order) : order[i] = order[j] => i = j
        BY <4>1, <4>4
      <4> QED BY <4>1, <4>3, <4>5
    <3>5. call'[t] = [pc |-> IF c.taken + 1 = Len(order) THEN "copy" ELSE "locks",
                      self |-> c.self, other |-> c.other, taken |-> c.taken + 1,
                      copied |-> c.copied]
      BY <3>1, <3>2 DEF LocksInv, LockTypes, Calls
    <3>6. \A u \in Threads \ {t} : call'[u] = call[u]
      BY <3>1 DEF LocksInv, LockTypes
    <3>7. LockTypes'
      <4>1. call'[t] \in Calls
        <5>1. c.self \in Nat /\ c.other \in Nat /\ c.taken + 1 \in 0..2 /\ c.copied \in Seq(Nat)
          BY <3>2, <3>3, <3>4 DEF Calls
        <5> QED BY <3>5, <5>1 DEF Calls
      <4> QED BY <3>1, <3>4, <4>1 DEF LocksInv, LockTypes
    <3>8. Progress(t)'
      BY <3>2, <3>3, <3>4, <3>5 DEF Progress, Calls
    <3>9. \A u \in Threads : Progress(u)'
      BY <3>6, <3>8 DEF Progress, LocksInv
    <3>10. Held(t)' = Held(t) \cup {n} /\ n \notin Held(t)
      <4>1. c.taken \in Nat
        BY <3>2, <3>3, <3>4 DEF Calls
      <4>2. Held(t) = {order[i] : i \in 1..c.taken}
        BY DEF Held
      <4>3. Held(t)' = {order[i] : i \in 1..(c.taken + 1)}
        <5>1. call'[t].self = c.self /\ call'[t].other = c.other /\ call'[t].taken = c.taken + 1
          BY <3>5
        <5> QED BY <5>1 DEF Held
      <4>4. 1..(c.taken + 1) = 1..c.taken \cup {c.taken + 1} /\ c.taken + 1 \notin 1..c.taken
        BY <4>1
      <4>5. n = order[c.taken + 1] /\ 1..(c.taken + 1) \subseteq 1..Len(order)
            /\ \A i, j \in 1..Len(order) : order[i] = order[j] => i = j
        BY <3>2, <3>3, <3>4, <4>1
      <4> HIDE DEF order, c
      <4> QED BY <4>2, <4>3, <4>4, <4>5
    <3>11. \A u \in Threads \ {t} : Held(u)' = Held(u)
      BY <3>6 DEF Held
    <3>12. \A u \in Threads, m \in Nodes : holder'[m] = u <=> m \in Held(u)'
      <4> SUFFICES ASSUME NEW u \in Threads, NEW m \in Nodes PROVE holder'[m] = u <=> m \in Held(u)'
        OBVIOUS
      <4>0. holder'[m] = IF m = n THEN t ELSE holder[m]
        BY <3>1, <3>4 DEF LocksInv, LockTypes
      <4>00. holder[m] = u <=> m \in Held(u)
        BY DEF LocksInv
      <4>1. CASE m = n
        BY <4>0, <4>00, <4>1, <3>1, <3>10, <3>11, NodesAreNat
      <4>2. CASE m # n
        BY <4>0, <4>00, <4>2, <3>10, <3>11
      <4> QED BY <4>1, <4>2
    <3> QED BY <3>7, <3>9, <3>12 DEF LocksInv
  <2>3. ASSUME NEW t \in Threads, CopyColumn(t) PROVE LocksInv'
    <3> DEFINE c == call[t]
    <3>1. c \in Calls /\ c.pc = "copy" /\ Len(c.copied) < NColumns
          /\ UNCHANGED <<holder, content, inMemory>>
      BY <2>3 DEF CopyColumn, LocksInv, LockTypes
    <3>2. call'[t] = [c EXCEPT !.copied = Append(c.copied, content[c.other][Len(c.copied) + 1])]
      BY <2>3 DEF CopyColumn, LocksInv, LockTypes, Calls
    <3>3. \A u \in Threads \ {t} : call'[u] = call[u]
      BY <2>3 DEF CopyColumn, LocksInv, LockTypes
    <3>4. c.other \in Nodes /\ Len(c.copied) + 1 \in 1..NColumns
      BY <3>1, NodesAreNat DEF LocksInv, Progress, Calls
    <3>5. content[c.other][Len(c.copied) + 1] \in Nat
      <4>1. content[c.other] \in [1..NColumns -> Nat]
        BY <3>4 DEF LocksInv, LockTypes
      <4> QED BY <3>4, <4>1
    <3>6. call'[t] \in Calls
      <4>1. Append(c.copied, content[c.other][Len(c.copied) + 1]) \in Seq(Nat)
        BY <3>1, <3>5 DEF Calls
      <4> QED BY <3>1, <3>2, <4>1 DEF Calls
    <3>7. LockTypes'
      BY <2>3, <3>1, <3>6 DEF CopyColumn, LocksInv, LockTypes
    <3>8. Progress(t)'
      BY <3>1, <3>2 DEF LocksInv, Progress, Calls
    <3>9. \A u \in Threads : Progress(u)' /\ Held(u)' = Held(u)
      <4> SUFFICES ASSUME NEW u \in Threads PROVE Progress(u)' /\ Held(u)' = Held(u)
        OBVIOUS
      <4>1. CASE u = t
        <5>1. call'[t].self = c.self /\ call'[t].other = c.other /\ call'[t].taken = c.taken
          BY <3>1, <3>2 DEF Calls
        <5> QED BY <3>8, <4>1, <5>1 DEF Held
      <4>2. CASE u # t
        <5>1. call'[u] = call[u] /\ Progress(u)
          BY <3>3, <4>2 DEF LocksInv
        <5> QED BY <5>1 DEF Progress, Held
      <4> QED BY <4>1, <4>2
    <3> QED BY <3>1, <3>7, <3>9 DEF LocksInv
  <2>4. ASSUME NEW t \in Threads, WriteStore(t) PROVE LocksInv'
    <3> DEFINE c == call[t]
    <3>1. c \in Calls /\ c.pc = "copy" /\ c.self \in Nodes /\ UNCHANGED <<holder, inMemory>>
          /\ (c.self # c.other => Len(c.copied) = NColumns)
      BY <2>4 DEF WriteStore, LocksInv, LockTypes, Progress
    <3>2. call'[t] = [c EXCEPT !.pc = "memory"]
      BY <2>4 DEF WriteStore, LocksInv, LockTypes
    <3>3. \A u \in Threads \ {t} : call'[u] = call[u]
      BY <2>4 DEF WriteStore, LocksInv, LockTypes
    <3>4. content' = [content EXCEPT ![c.self] =
                       IF c.self = c.other THEN [i \in 1..NColumns |-> content[c.self][i] + Cardinality(Nodes)]
                       ELSE c.copied]
      BY <2>4 DEF WriteStore
    <3>5. (IF c.self = c.other THEN [i \in 1..NColumns |-> content[c.self][i] + Cardinality(Nodes)]
                       ELSE c.copied) \in [1..NColumns -> Nat]
      <4>1. CASE c.self = c.other
        <5>1. content[c.self] \in [1..NColumns -> Nat]
          BY <3>1 DEF LocksInv, LockTypes
        <5>2. \A i \in 1..NColumns : content[c.self][i] + Cardinality(Nodes) \in Nat
          <6>1. \A i \in 1..NColumns : content[c.self][i] \in Nat
            BY <5>1
          <6> QED BY <6>1, VersionsGrow
        <5> QED BY <4>1, <5>2
      <4>2. CASE c.self # c.other
        BY <4>2, <3>1 DEF Calls
      <4> QED BY <4>1, <4>2
    <3>6. call'[t] \in Calls
      BY <3>1, <3>2 DEF Calls
    <3>7. LockTypes'
      BY <2>4, <3>1, <3>4, <3>5, <3>6 DEF WriteStore, LocksInv, LockTypes
    <3>8. Progress(t)'
      BY <3>1, <3>2 DEF LocksInv, Progress, Calls
    <3>9. \A u \in Threads : Progress(u)' /\ Held(u)' = Held(u)
      <4> SUFFICES ASSUME NEW u \in Threads PROVE Progress(u)' /\ Held(u)' = Held(u)
        OBVIOUS
      <4>1. CASE u = t
        <5>1. call'[t].self = c.self /\ call'[t].other = c.other /\ call'[t].taken = c.taken
          BY <3>1, <3>2 DEF Calls
        <5> QED BY <3>8, <4>1, <5>1 DEF Held
      <4>2. CASE u # t
        <5>1. call'[u] = call[u] /\ Progress(u)
          BY <3>3, <4>2 DEF LocksInv
        <5> QED BY <5>1 DEF Progress, Held
      <4> QED BY <4>1, <4>2
    <3> QED BY <3>1, <3>7, <3>9 DEF LocksInv
  <2>5. ASSUME NEW t \in Threads, Reload(t) PROVE LocksInv'
    <3>1. call[t].pc = "memory" /\ call[t].self \in Nodes /\ content' = content
          /\ inMemory' = [inMemory EXCEPT ![call[t].self] = content[call[t].self]]
          /\ holder' = [n \in Nodes |-> IF holder[n] = t THEN NoThread ELSE holder[n]]
      BY <2>5 DEF Reload, LocksInv, Progress
    <3>2. call'[t] = NoCall /\ \A u \in Threads \ {t} : call'[u] = call[u]
      BY <2>5 DEF Reload, LocksInv, LockTypes
    <3>3. LockTypes'
      <4>1. NoCall \in Calls
        BY DEF NoCall, Calls
      <4> QED BY <2>5, <3>1, <4>1 DEF Reload, LocksInv, LockTypes
    <3>4. Progress(t)' /\ Held(t)' = {}
      BY <3>2 DEF Progress, Held, NoCall
    <3>5. \A u \in Threads \ {t} : Progress(u)' /\ Held(u)' = Held(u)
      BY <3>2 DEF Progress, Held, LocksInv
    <3>6. ASSUME NEW u \in Threads, NEW m \in Nodes PROVE holder'[m] = u <=> m \in Held(u)'
      <4>1. holder'[m] = IF holder[m] = t THEN NoThread ELSE holder[m]
        BY <3>1
      <4>2. u # NoThread /\ (holder[m] = u <=> m \in Held(u))
        BY NodesAreNat DEF LocksInv
      <4>3. CASE u = t
        BY <3>4, <4>1, <4>2, <4>3
      <4>4. CASE u # t
        BY <3>5, <4>1, <4>2, <4>4
      <4> QED BY <4>3, <4>4
    <3> QED BY <3>3, <3>4, <3>5, <3>6 DEF LocksInv
  <2>6. CASE UNCHANGED lockVars
    <3>1. UNCHANGED <<holder, call, content, inMemory>>
      BY <2>6 DEF lockVars
    <3>2. LockTypes'
      BY <3>1 DEF LocksInv, LockTypes
    <3>3. \A u \in Threads : Progress(u)' = Progress(u) /\ Held(u)' = Held(u)
      BY <3>1 DEF Progress, Held
    <3> QED BY <3>1, <3>2, <3>3 DEF LocksInv
  <2> QED BY <2>1, <2>2, <2>3, <2>4, <2>5, <2>6 DEF LockNext
<1> QED BY <1>1, <1>2, PTL DEF LockSpec

\* Nodes that sync from one another, in any number and on any number of
\* threads, never wait for one another in a ring.
THEOREM NoDeadlock == LockSpec => []NoWaitCycle
<1>1. LocksInv => NoWaitCycle
  <2> SUFFICES ASSUME LocksInv, NEW S \in (SUBSET Threads) \ {{}},
                      \A t \in S : \E n \in Wants(t) : holder[n] \in S
               PROVE  FALSE
    BY DEF NoWaitCycle
  <2> DEFINE T == UNION {Wants(t) : t \in S}
  <2>1. \A t \in S : Progress(t) /\ call[t] \in Calls
    BY DEF LocksInv, LockTypes
  <2>2. ASSUME NEW t \in S, NEW n \in Wants(t)
        PROVE  /\ call[t].pc = "locks" /\ call[t].self \in Nodes /\ call[t].other \in Nodes
               /\ n = LockOrder(call[t].self, call[t].other)[call[t].taken + 1]
               /\ n \in Nodes
    <3>1. /\ call[t].pc = "locks" /\ call[t].self \in Nodes /\ call[t].other \in Nodes
          /\ n = LockOrder(call[t].self, call[t].other)[call[t].taken + 1]
          /\ call[t].taken < Len(LockOrder(call[t].self, call[t].other))
      BY <2>1 DEF Wants, Progress
    <3>2. LockOrder(call[t].self, call[t].other) \in Seq(Nodes)
      BY <3>1, LockOrders
    <3>3. call[t].taken \in Nat
      BY <2>1 DEF Calls
    <3> QED BY <3>1, <3>2, <3>3
  <2>3. PICK b \in Nat : Nodes \subseteq 0..b
    <3>1. Cardinality(Nodes) \in Nat /\ \A n \in Nodes : n \in 1..Cardinality(Nodes)
      BY SyncAssumption, VersionsGrow
    <3>2. Nodes \subseteq 0..Cardinality(Nodes)
      BY <3>1
    <3> QED BY <3>1, <3>2
  <2>4. T # {} /\ \A n \in T : n \in Nat /\ n <= b
    <3>1. \E n \in T : TRUE
      OBVIOUS
    <3>2. \A n \in T : n \in Nodes
      BY <2>2
    <3>3. \A n \in Nodes : n \in Nat /\ n <= b
      BY <2>3
    <3> HIDE DEF T
    <3> QED BY <3>1, <3>2, <3>3
  <2>5. PICK m \in T : \A n \in T : n <= m
    <3> HIDE DEF T
    <3> QED BY <2>3, <2>4, GreatestExists
  <2>6. PICK t \in S : m \in Wants(t)
    BY <2>5
  <2>7. Wants(t) = {m}
    BY <2>6 DEF Wants
  <2>8. holder[m] \in S /\ m \in Nodes
    BY <2>2, <2>6, <2>7
  <2>9. PICK u \in S : holder[m] = u
    BY <2>8
  <2>10. m \in Held(u)
    BY <2>8, <2>9 DEF LocksInv
  <2>11. PICK k \in Wants(u) : TRUE
    BY <2>9
  <2>12. k = LockOrder(call[u].self, call[u].other)[2] /\ m = LockOrder(call[u].self, call[u].other)[1]
         /\ call[u].self # call[u].other
    <3> DEFINE order == LockOrder(call[u].self, call[u].other)
    <3>1. call[u].taken \in 0..2 /\ call[u].taken < Len(order)
      BY <2>1, <2>2, <2>9, <2>11 DEF Progress, Calls
    <3>2. Len(order) \in {1, 2} /\ (call[u].self = call[u].other => Len(order) = 1)
      <4>1. call[u].self \in Nodes /\ call[u].other \in Nodes
        BY <2>2, <2>9, <2>11
      <4> QED BY <4>1, LockOrders
    <3>3. call[u].taken # 0
      BY <2>10, <3>1 DEF Held
    <3>4. call[u].taken = 1 /\ Len(order) = 2
      <4>1. \A x \in 0..2, y \in {1, 2} : x < y /\ x # 0 => x = 1 /\ y = 2
        OBVIOUS
      <4> HIDE DEF order
      <4> QED BY <3>1, <3>2, <3>3, <4>1
    <3>5. m = order[1]
      BY <2>10, <3>4 DEF Held
    <3> QED BY <2>2, <2>9, <2>11, <3>2, <3>4, <3>5
  <2>13. m < k
    BY <2>2, <2>11, <2>12, LockOrders
  <2>14. k \in T
    BY <2>9, <2>11
  <2>15. k \in Nat /\ m \in Nat
    BY <2>2, <2>8, <2>11, NodesAreNat
  <2> QED BY <2>5, <2>13, <2>14, <2>15
<1> QED BY <1>1, LocksInvHolds, PTL

\* A thread that copies or reloads holds the locks of both its nodes.
LEMMA CopierHolds ==
  ASSUME LocksInv, NEW t \in Threads, call[t].pc \in {"copy", "memory"}
  PROVE  /\ call[t].self \in Nodes /\ call[t].other \in Nodes
         /\ holder[call[t].self] = t /\ holder[call[t].other] = t
<1> DEFINE c == call[t]
           order == LockOrder(c.self, c.other)
<1>1. c.self \in Nodes /\ c.other \in Nodes /\ c.taken = Len(order)
  BY DEF LocksInv, Progress
<1>2. Held(t) = {order[i] : i \in 1..Len(order)}
  BY <1>1 DEF Held
<1>3. c.self \in Held(t) /\ c.other \in Held(t)
  <2>1. CASE c.self = c.other
    <3>1. order = <<c.self>>
      BY <1>1, <2>1, LockOrders
    <3>2. Len(order) = 1 /\ order[1] = c.self
      BY <3>1
    <3> HIDE DEF order, c
    <3> QED BY <1>2, <2>1, <3>2
  <2>2. CASE c.self # c.other
    <3>1. Len(order) = 2 /\ {order[1], order[2]} = {c.self, c.other}
      BY <1>1, <2>2, LockOrders
    <3> HIDE DEF order, c
    <3> QED BY <1>2, <3>1
  <2> QED BY <2>1, <2>2
<1> QED BY <1>1, <1>3 DEF LocksInv

\* What is copied so far is what the other store holds, every store holds one
\* version, and a node's memory lags its store only while a thread is between
\* the batch and the reload.
CopyInv ==
  /\ \A n \in Nodes, i \in 1..NColumns : content[n][i] = content[n][1]
  /\ \A t \in Threads : call[t].pc = "copy" =>
       \A i \in 1..Len(call[t].copied) :
          i \in 1..NColumns /\ call[t].copied[i] = content[call[t].other][i]
  /\ \A n \in Nodes : inMemory[n] = content[n]
                       \/ \E t \in Threads : call[t].pc = "memory" /\ call[t].self = n

\* While sync_from copies nobody else writes the store it copies from.
LEMMA CopyInvHolds == LockSpec => []CopyInv
<1>1. LockInit => CopyInv
  BY NodesAreNat DEF LockInit, CopyInv, Whole, NoCall
<1>2. LocksInv /\ CopyInv /\ [LockNext]_lockVars => CopyInv'
  <2> SUFFICES ASSUME LocksInv, CopyInv, [LockNext]_lockVars PROVE CopyInv'
    OBVIOUS
  <2>1. ASSUME NEW t \in Threads, NEW self \in Nodes, NEW other \in Nodes, Call(t, self, other)
        PROVE  CopyInv'
    <3>1. UNCHANGED <<content, inMemory>> /\ call[t] = NoCall
      BY <2>1 DEF Call
    <3>2. call'[t].pc = "locks" /\ call[t].pc = "none"
      BY <2>1 DEF Call, NoCall, LocksInv, LockTypes
    <3>3. \A u \in Threads \ {t} : call'[u] = call[u]
      BY <2>1 DEF Call, LocksInv, LockTypes
    <3> QED BY <3>1, <3>2, <3>3 DEF CopyInv
  <2>2. ASSUME NEW t \in Threads, Take(t) PROVE CopyInv'
    <3>1. UNCHANGED <<content, inMemory>> /\ call[t].pc = "locks"
      BY <2>2 DEF Take, Wants
    <3>2. call'[t].copied = << >> /\ call[t].copied = << >>
      BY <2>2, <3>1 DEF Take, LocksInv, LockTypes, Calls, Progress
    <3>3. \A u \in Threads \ {t} : call'[u] = call[u]
      BY <2>2 DEF Take, LocksInv, LockTypes
    <3> QED BY <3>1, <3>2, <3>3 DEF CopyInv
  <2>3. ASSUME NEW t \in Threads, CopyColumn(t) PROVE CopyInv'
    <3> DEFINE c == call[t]
               k == Len(c.copied) + 1
    <3>1. c \in Calls /\ c.pc = "copy" /\ Len(c.copied) < NColumns /\ UNCHANGED <<content, inMemory>>
      BY <2>3 DEF CopyColumn, LocksInv, LockTypes
    <3>2. call'[t] = [c EXCEPT !.copied = Append(c.copied, content[c.other][k])]
      BY <2>3 DEF CopyColumn, LocksInv, LockTypes, Calls
    <3>3. \A u \in Threads \ {t} : call'[u] = call[u]
      BY <2>3 DEF CopyColumn, LocksInv, LockTypes
    <3>4. c.copied \in Seq(Nat) /\ k \in 1..NColumns /\ c.other \in Nodes
      BY <3>1, NodesAreNat DEF Calls, LocksInv, Progress
    <3>5. content[c.other][k] \in Nat
      <4>1. content[c.other] \in [1..NColumns -> Nat]
        BY <3>4 DEF LocksInv, LockTypes
      <4> QED BY <3>4, <4>1
    <3>6. call'[t].pc = "copy" /\ call'[t].other = c.other
          /\ call'[t].copied = Append(c.copied, content[c.other][k])
      BY <3>1, <3>2 DEF Calls
    <3>7. \A i \in 1..Len(call'[t].copied) :
            i \in 1..NColumns /\ call'[t].copied[i] = content[c.other][i]
      <4>1. \A i \in 1..Len(c.copied) : i \in 1..NColumns /\ c.copied[i] = content[c.other][i]
        BY <3>1 DEF CopyInv
      <4>2. Len(call'[t].copied) = k /\ call'[t].copied[k] = content[c.other][k]
            /\ \A i \in 1..Len(c.copied) : call'[t].copied[i] = c.copied[i]
        BY <3>4, <3>5, <3>6
      <4>3. \A i \in 1..k : i = k \/ i \in 1..Len(c.copied)
        BY <3>4
      <4> QED BY <3>4, <4>1, <4>2, <4>3
    <3>8. \A u \in Threads : call'[u].pc = "copy" =>
            \A i \in 1..Len(call'[u].copied) :
               i \in 1..NColumns /\ call'[u].copied[i] = content'[call'[u].other][i]
      <4>1. ASSUME NEW u \in Threads, u # t, call'[u].pc = "copy"
            PROVE  \A i \in 1..Len(call'[u].copied) :
                      i \in 1..NColumns /\ call'[u].copied[i] = content'[call'[u].other][i]
        BY <3>1, <3>3, <4>1 DEF CopyInv
      <4> QED BY <3>1, <3>6, <3>7, <4>1
    <3>9. \A u \in Threads : call'[u].pc = call[u].pc /\ call'[u].self = call[u].self
      BY <3>1, <3>2, <3>3 DEF Calls
    <3> QED BY <3>1, <3>8, <3>9 DEF CopyInv
  <2>4. ASSUME NEW t \in Threads, WriteStore(t) PROVE CopyInv'
    <3> DEFINE c == call[t]
               new == IF c.self = c.other
                      THEN [i \in 1..NColumns |-> content[c.self][i] + Cardinality(Nodes)]
                      ELSE c.copied
    <3>1. c.pc = "copy" /\ inMemory' = inMemory /\ (c.self # c.other => Len(c.copied) = NColumns)
          /\ content' = [content EXCEPT ![c.self] = new]
      BY <2>4 DEF WriteStore
    <3>2. call'[t].pc = "memory" /\ call'[t].self = c.self
      BY <2>4 DEF WriteStore, LocksInv, LockTypes, Calls
    <3>3. \A u \in Threads \ {t} : call'[u] = call[u]
      BY <2>4 DEF WriteStore, LocksInv, LockTypes
    <3>4. c.self \in Nodes /\ c.other \in Nodes /\ holder[c.self] = t
      BY <3>1, CopierHolds
    <3>5. \A n \in Nodes : content'[n] = IF n = c.self THEN new ELSE content[n]
      BY <3>1, <3>4 DEF LocksInv, LockTypes
    <3>6. \A i \in 1..NColumns : new[i] = new[1]
      <4>1. 1 \in 1..NColumns
        BY NodesAreNat
      <4>2. \A n \in Nodes, i \in 1..NColumns : content[n][i] = content[n][1]
        BY DEF CopyInv
      <4>3. CASE c.self = c.other
        BY <4>1, <4>2, <4>3, <3>4
      <4>4. CASE c.self # c.other
        <5>1. \A i \in 1..NColumns : c.copied[i] = content[c.other][i]
          BY <3>1, <4>4 DEF CopyInv
        <5> QED BY <4>1, <4>2, <4>4, <5>1, <3>4
      <4> QED BY <4>3, <4>4
    <3>7. \A u \in Threads \ {t} : call[u].pc \in {"copy", "memory"} => call[u].other # c.self
      BY <3>4, CopierHolds
    <3>8. \A n \in Nodes, i \in 1..NColumns : content'[n][i] = content'[n][1]
      <4> HIDE DEF new
      <4> QED BY <3>5, <3>6 DEF CopyInv
    <3>9. \A u \in Threads : call'[u].pc = "copy" =>
            \A i \in 1..Len(call'[u].copied) :
               i \in 1..NColumns /\ call'[u].copied[i] = content'[call'[u].other][i]
      <4> SUFFICES ASSUME NEW u \in Threads, call'[u].pc = "copy"
                   PROVE  \A i \in 1..Len(call'[u].copied) :
                            i \in 1..NColumns /\ call'[u].copied[i] = content'[call'[u].other][i]
        OBVIOUS
      <4>1. u # t /\ call'[u] = call[u]
        BY <3>2, <3>3
      <4>2. call[u].other \in Nodes /\ call[u].other # c.self
        BY <4>1, <3>7, CopierHolds
      <4>3. content'[call[u].other] = content[call[u].other]
        <5> HIDE DEF new
        <5> QED BY <3>5, <4>2
      <4> QED BY <4>1, <4>3 DEF CopyInv
    <3>10. \A n \in Nodes : inMemory'[n] = content'[n]
                          \/ \E u \in Threads : call'[u].pc = "memory" /\ call'[u].self = n
      <4> SUFFICES ASSUME NEW n \in Nodes
                   PROVE  inMemory'[n] = content'[n]
                          \/ \E u \in Threads : call'[u].pc = "memory" /\ call'[u].self = n
        OBVIOUS
      <4>1. CASE n = c.self
        BY <3>2, <4>1
      <4>2. CASE n # c.self
        <5>1. content'[n] = content[n]
          <6> HIDE DEF new
          <6> QED BY <3>5, <4>2
        <5>2. \A u \in Threads : call[u].pc = "memory" => u # t
          BY <3>1
        <5> QED BY <3>1, <3>3, <5>1, <5>2 DEF CopyInv
      <4> QED BY <4>1, <4>2
    <3> QED BY <3>8, <3>9, <3>10 DEF CopyInv
  <2>5. ASSUME NEW t \in Threads, Reload(t) PROVE CopyInv'
    <3>1. call[t].pc = "memory" /\ content' = content
          /\ inMemory' = [inMemory EXCEPT ![call[t].self] = content[call[t].self]]
      BY <2>5 DEF Reload
    <3>2. call'[t] = NoCall /\ \A u \in Threads \ {t} : call'[u] = call[u]
      BY <2>5 DEF Reload, LocksInv, LockTypes
    <3>3. \A n \in Nodes : inMemory'[n] = IF n = call[t].self THEN content[n] ELSE inMemory[n]
      BY <3>1 DEF LocksInv, LockTypes
    <3>4. call'[t].pc = "none"
      BY <3>2 DEF NoCall
    <3> QED BY <3>1, <3>2, <3>3, <3>4 DEF CopyInv
  <2>6. CASE UNCHANGED lockVars
    BY <2>6 DEF lockVars, CopyInv
  <2> QED BY <2>1, <2>2, <2>3, <2>4, <2>5, <2>6 DEF LockNext
<1> QED BY <1>1, <1>2, LocksInvHolds, PTL DEF LockSpec

\* What sync_from copies is one state of the other node, whatever other
\* threads do.
THEOREM CopiesOneState == LockSpec => []SyncCopiesOneState
<1>1. LocksInv /\ CopyInv => SyncCopiesOneState
  <2> SUFFICES ASSUME LocksInv, CopyInv, NEW n \in Nodes, holder[n] = NoThread,
                      NEW t \in Threads, call[t].pc = "memory", call[t].self = n
               PROVE  FALSE
    BY DEF SyncCopiesOneState, CopyInv
  <2>1. holder[n] = t
    BY CopierHolds
  <2> QED BY <2>1, NodesAreNat
<1> QED BY <1>1, LocksInvHolds, CopyInvHolds, PTL

-----------------------------------------------------------------------------
(* The Merkle tree of net/das.py *)

\* A level of the tree.
IsLevel(row) == row \in Seq(Range(row)) /\ Len(row) >= 1

\* Writing a sequence out changes nothing.
LEMMA WrittenOut ==
  ASSUME NEW n \in Nat, NEW f, f = [i \in 1..n |-> f[i]]
  PROVE  f \o <<>> = f /\ Len(f) = n /\ f \in Seq(Range(f)) /\ DOMAIN f = 1..n
<1>1. DOMAIN f = 1..n
  BY Zenon
<1>2. f \in [1..n -> Range(f)]
  BY <1>1 DEF Range
<1>3. f \in Seq(Range(f)) /\ Len(f) = n
  BY <1>2
<1> QED BY <1>1, <1>3, ConcatEmptySeq

\* The level above has half the width, and its nodes are over pairs.
LEMMA ParentsAre ==
  ASSUME NEW row, IsLevel(row), NEW lv
  PROVE  /\ IsLevel(Parents(row, lv))
         /\ Len(Parents(row, lv)) = (Len(row) + 1) \div 2
         /\ \A i \in 1..((Len(row) + 1) \div 2) :
              Parents(row, lv)[i] =
                <<"node", lv, i - 1, row[2 * i - 1],
                  IF 2 * i <= Len(row) THEN row[2 * i] ELSE Empty(lv, i - 1)>>
<1> DEFINE w == (Len(row) + 1) \div 2
           N(i) == Node(lv, i - 1, row[2 * i - 1],
                        IF 2 * i <= Len(row) THEN row[2 * i] ELSE Empty(lv, i - 1))
           f == [i \in 1..w |-> N(i)]
<1>1. Len(row) \in Nat /\ Len(row) >= 1
  BY DEF IsLevel
<1>2. w \in Nat /\ w >= 1
  BY <1>1
<1>3. f = [i \in 1..w |-> f[i]]
  <2> HIDE DEF N, w
  <2> QED BY Zenon
<1>4. Parents(row, lv) = f \o <<>>
  BY DEF Parents
<1>5. \A i \in 1..w : f[i] = N(i)
  <2> HIDE DEF N, w
  <2> QED BY Zenon
<1> HIDE DEF f
<1>6. Parents(row, lv) = f /\ Len(f) = w /\ f \in Seq(Range(f))
  <2> HIDE DEF w
  <2> QED BY <1>2, <1>3, <1>4, WrittenOut
<1> QED BY <1>2, <1>5, <1>6 DEF IsLevel, Node

\* What the loop has at each level.
LEMMA LevelsUnfold ==
  ASSUME NEW items, Len(items) \in Nat
  PROVE  \A lv \in 0..Len(items) :
           LevelsOf(items)[lv] =
             IF lv = 0 THEN [i \in 1..Len(items) |-> Leaf(i - 1, items[i])] \o <<>>
             ELSE Parents(LevelsOf(items)[lv - 1], lv - 1)
<1> DEFINE n == Len(items)
           leaves == [i \in 1..n |-> Leaf(i - 1, items[i])] \o <<>>
           Val(g, t) == IF t = 0 THEN leaves ELSE Parents(g[t - 1], t - 1)
           Closes(g, j) == g = [t \in 0..j |-> Val(g, t)]
           Reached(j) == \E g : Closes(g, j)
           Fails == {j \in Nat : ~ Reached(j)}
<1>1. Reached(0)
  <2> DEFINE g == [t \in 0..0 |-> leaves]
  <2> HIDE DEF leaves
  <2>1. \A t \in 0..0 : Val(g, t) = leaves
    OBVIOUS
  <2>2. Closes(g, 0)
    <3> HIDE DEF Val
    <3> QED BY <2>1, Zenon
  <2> QED BY <2>2
<1>2. ASSUME NEW j \in Nat, Reached(j) PROVE Reached(j + 1)
  <2> HIDE DEF leaves
  <2>1. PICK g : Closes(g, j)
    BY <1>2
  <2> DEFINE h == [t \in 0..(j + 1) |-> Val(g, t)]
  <2>2. \A t \in 0..j : t \in 0..(j + 1)
    OBVIOUS
  <2>3. \A t \in 0..j : g[t] = Val(g, t)
    <3> HIDE DEF Val
    <3> QED BY <2>1, Zenon
  <2>4. \A t \in 0..j : h[t] = g[t]
    <3> HIDE DEF Val
    <3> QED BY <2>2, <2>3, Zenon
  <2>5. \A t \in 0..(j + 1) : t # 0 => t - 1 \in 0..j
    OBVIOUS
  <2>6. \A t \in 0..(j + 1) : Val(g, t) = Val(h, t)
    <3> HIDE DEF h
    <3> QED BY <2>4, <2>5
  <2>7. Closes(h, j + 1)
    <3> HIDE DEF Val
    <3> QED BY <2>6, Zenon
  <2> HIDE DEF h
  <2> QED BY <2>7
<1>3. Fails = {}
  <2> HIDE DEF Reached
  <2>1. ASSUME Fails # {} PROVE FALSE
    <3>1. PICK j \in Fails : \A m \in Fails : j <= m
      BY <2>1, LeastNat
    <3>2. j # 0 /\ j - 1 \in Nat /\ j - 1 \notin Fails
      BY <3>1, <1>1
    <3> QED BY <3>1, <3>2, <1>2
  <2> QED BY <2>1
<1>4. \E g : Closes(g, n)
  <2>1. Reached(n)
    <3> HIDE DEF Reached
    <3> QED BY <1>3
  <2> QED BY <2>1
<1> DEFINE R == CHOOSE g : Closes(g, n)
<1>5. Closes(R, n)
  BY <1>4, Zenon
<1>6. LevelsOf(items) = R
  BY Zenon DEF LevelsOf
<1> HIDE DEF R
<1>7. \A t \in 0..n : R[t] = Val(R, t)
  <2> HIDE DEF Val
  <2> QED BY <1>5, Zenon
<1> QED BY <1>6, <1>7

\* Every level but the last is wider than the one above it.
LEMMA LevelsNarrow ==
  ASSUME NEW items, items \in Seq(Range(items)), Len(items) >= 1
  PROVE  /\ \A lv \in 0..Len(items) : /\ IsLevel(LevelsOf(items)[lv])
                                      /\ \/ Len(LevelsOf(items)[lv]) = 1
                                         \/ Len(LevelsOf(items)[lv]) + lv <= Len(items)
         /\ \A lv \in 1..Len(items) :
              LevelsOf(items)[lv] = Parents(LevelsOf(items)[lv - 1], lv - 1)
         /\ Len(LevelsOf(items)[0]) = Len(items)
         /\ \A i \in 1..Len(items) : LevelsOf(items)[0][i] = Leaf(i - 1, items[i])
<1> DEFINE n == Len(items)
           L == LevelsOf(items)
           leaves == [i \in 1..n |-> Leaf(i - 1, items[i])]
<1>1. n \in Nat /\ n >= 1
  OBVIOUS
<1>2. \A t \in 0..n : L[t] = IF t = 0 THEN leaves \o <<>> ELSE Parents(L[t - 1], t - 1)
  BY <1>1, LevelsUnfold
<1>3. /\ L[0] = leaves /\ Len(leaves) = n /\ IsLevel(leaves)
      /\ \A i \in 1..n : leaves[i] = Leaf(i - 1, items[i])
  <2>1. leaves = [i \in 1..n |-> leaves[i]] /\ \A i \in 1..n : leaves[i] = Leaf(i - 1, items[i])
    BY Zenon
  <2>2. L[0] = leaves \o <<>>
    BY <1>1, <1>2
  <2> HIDE DEF leaves, n, L
  <2> QED BY <2>1, <2>2, <1>1, WrittenOut DEF IsLevel
<1>4. \A t \in 1..n : L[t] = Parents(L[t - 1], t - 1)
  <2>1. \A t \in 1..n : t \in 0..n /\ t # 0
    BY <1>1
  <2> HIDE DEF L, n, leaves
  <2> QED BY <2>1, <1>2
<1> HIDE DEF L, n, leaves
<1> DEFINE Narrow(t) == IsLevel(L[t]) /\ (Len(L[t]) = 1 \/ Len(L[t]) + t <= n)
           Wide == {t \in Nat : t <= n /\ ~ Narrow(t)}
<1>5. Wide = {}
  <2>1. ASSUME Wide # {} PROVE FALSE
    <3>1. PICK t \in Wide : \A u \in Wide : t <= u
      BY <1>1, <2>1, LeastNat
    <3>2. CASE t = 0
      BY <3>1, <3>2, <1>1, <1>3
    <3>3. CASE t # 0
      <4> DEFINE row == L[t - 1]
      <4>1. t \in 1..n /\ t - 1 \in Nat /\ Narrow(t - 1)
        BY <3>1, <3>3, <1>1
      <4>2. L[t] = Parents(row, t - 1)
        BY <4>1, <1>4
      <4>3. IsLevel(row) /\ (Len(row) = 1 \/ Len(row) + (t - 1) <= n)
        BY <4>1
      <4> HIDE DEF row
      <4>4. IsLevel(L[t]) /\ Len(L[t]) = (Len(row) + 1) \div 2
        BY <4>2, <4>3, ParentsAre
      <4>5. Len(row) \in Nat /\ Len(row) >= 1
        BY <4>3 DEF IsLevel
      <4>6. \A m \in Nat : m >= 1 /\ (m = 1 \/ m + (t - 1) <= n) =>
              (m + 1) \div 2 = 1 \/ (m + 1) \div 2 + t <= n
        BY <4>1, <1>1
      <4>7. (Len(row) + 1) \div 2 = 1 \/ (Len(row) + 1) \div 2 + t <= n
        BY <4>3, <4>5, <4>6
      <4> QED BY <4>4, <4>7, <3>1
    <3>4. \A m \in Nat : m >= 1 /\ m # 1 => m > 1
      OBVIOUS
    <3> QED BY <3>2, <3>3, <3>4, Zenon
  <2> QED BY <2>1
<1>6. \A t \in 0..n : Narrow(t)
  BY <1>5
<1> QED BY <1>3, <1>4, <1>6 DEF L, n

\* The tree has a top, whose node is the root.
LEMMA TreeHeight ==
  ASSUME NEW items, items \in Seq(Range(items)), Len(items) >= 1
  PROVE  /\ Height(items) \in 0..Len(items)
         /\ Len(LevelsOf(items)[Height(items)]) = 1
         /\ Len(Layers(items)) = Height(items) + 1
         /\ Layers(items)[1] = LevelsOf(items)[0]
         /\ MerkleRoot(items) = LevelsOf(items)[Height(items)][1]
<1> DEFINE n == Len(items)
           L == LevelsOf(items)
           h == Height(items)
           Ends == {t \in Nat : t <= n /\ Len(L[t]) = 1}
<1>1. n \in Nat /\ n >= 1
  OBVIOUS
<1>2. \A t \in 0..n : IsLevel(L[t]) /\ (Len(L[t]) = 1 \/ Len(L[t]) + t <= n)
  BY LevelsNarrow
<1>3. \A t \in 0..n : Len(L[t]) \in Nat /\ Len(L[t]) >= 1
  BY <1>2 DEF IsLevel
<1>4. \E x \in 0..n : Len(L[x]) = 1 /\ \A lv \in 0..(x - 1) : Len(L[lv]) > 1
  <2> HIDE DEF L, n
  <2>1. n \in Ends
    BY <1>1, <1>2, <1>3
  <2>2. PICK x \in Ends : \A t \in Ends : x <= t
    BY <2>1, LeastNat
  <2>3. ASSUME NEW lv \in 0..(x - 1) PROVE Len(L[lv]) > 1
    <3>1. lv \in 0..n /\ lv \notin Ends /\ lv \in Nat /\ lv <= n
      BY <2>2, <1>1
    <3>2. Len(L[lv]) # 1
      BY <3>1
    <3>3. Len(L[lv]) \in Nat /\ Len(L[lv]) >= 1
      BY <3>1, <1>3
    <3>4. \A m \in Nat : m >= 1 /\ m # 1 => m > 1
      OBVIOUS
    <3> QED BY <3>2, <3>3, <3>4, Zenon
  <2> QED BY <2>2, <2>3, <1>1
<1>5. h \in 0..n /\ Len(L[h]) = 1
  <2> DEFINE Top(x) == Len(L[x]) = 1 /\ \A lv \in 0..(x - 1) : Len(L[lv]) > 1
  <2>1. h = CHOOSE x \in 0..n : Top(x)
    BY Zenon DEF Height
  <2>2. \E x \in 0..n : Top(x)
    BY <1>4
  <2>3. h \in 0..n /\ Top(h)
    <3> HIDE DEF Top, n, h
    <3> QED BY <2>1, <2>2, Zenon
  <2> QED BY <2>3
<1> DEFINE f == [j \in 1..(h + 1) |-> L[j - 1]]
<1>6. Layers(items) = f \o <<>>
  BY DEF Layers
<1>7. /\ f = [j \in 1..(h + 1) |-> f[j]]
      /\ \A j \in 1..(h + 1) : f[j] = L[j - 1]
  <2> HIDE DEF L, h
  <2> QED BY Zenon
<1>8. h + 1 \in Nat /\ h \in Nat
  <2> HIDE DEF L, h
  <2> QED BY <1>1, <1>5
<1> HIDE DEF f, h, L, n
<1>9. Layers(items) = f /\ Len(f) = h + 1
  BY <1>6, <1>7, <1>8, WrittenOut
<1>10. f[1] = L[0] /\ f[h + 1] = L[h]
  BY <1>7, <1>8
<1>11. MerkleRoot(items) = f[h + 1][1]
  BY <1>9 DEF MerkleRoot, Last
<1> QED BY <1>5, <1>9, <1>10, <1>11 DEF L, h, n

\* One step of the way up.
Above(proof, below, lv) ==
  [at |-> below.at \div 2, width |-> (below.width + 1) \div 2,
   node |-> IF proof.siblings[lv].isLeft
            THEN Node(lv - 1, below.at \div 2, proof.siblings[lv].digest, below.node)
            ELSE Node(lv - 1, below.at \div 2, below.node, proof.siblings[lv].digest)]

\* What the verifier has at each level.
LEMMA ClimbUnfold ==
  ASSUME NEW proof, NEW item, Len(proof.siblings) \in Nat
  PROVE  /\ ProofClimb(proof, item)[0] =
              [at |-> proof.index, width |-> proof.count, node |-> Leaf(proof.index, item)]
         /\ \A lv \in 1..Len(proof.siblings) :
              ProofClimb(proof, item)[lv] = Above(proof, ProofClimb(proof, item)[lv - 1], lv)
<1> DEFINE n == Len(proof.siblings)
           start == [at |-> proof.index, width |-> proof.count, node |-> Leaf(proof.index, item)]
           Val(g, t) == IF t = 0 THEN start ELSE Above(proof, g[t - 1], t)
           Closes(g, j) == g = [t \in 0..j |-> Val(g, t)]
           Reached(j) == \E g : Closes(g, j)
           Fails == {j \in Nat : ~ Reached(j)}
<1>1. Reached(0)
  <2> DEFINE g == [t \in 0..0 |-> start]
  <2> HIDE DEF start
  <2>1. \A t \in 0..0 : Val(g, t) = start
    OBVIOUS
  <2>2. Closes(g, 0)
    <3> HIDE DEF Val
    <3> QED BY <2>1, Zenon
  <2> QED BY <2>2
<1>2. ASSUME NEW j \in Nat, Reached(j) PROVE Reached(j + 1)
  <2> HIDE DEF start
  <2>1. PICK g : Closes(g, j)
    BY <1>2
  <2> DEFINE h == [t \in 0..(j + 1) |-> Val(g, t)]
  <2>2. \A t \in 0..j : t \in 0..(j + 1)
    OBVIOUS
  <2>3. \A t \in 0..j : g[t] = Val(g, t)
    <3> HIDE DEF Val
    <3> QED BY <2>1, Zenon
  <2>4. \A t \in 0..j : h[t] = g[t]
    <3> HIDE DEF Val
    <3> QED BY <2>2, <2>3, Zenon
  <2>5. \A t \in 0..(j + 1) : t # 0 => t - 1 \in 0..j
    OBVIOUS
  <2>6. \A t \in 0..(j + 1) : Val(g, t) = Val(h, t)
    <3> HIDE DEF h
    <3> QED BY <2>4, <2>5
  <2>7. Closes(h, j + 1)
    <3> HIDE DEF Val
    <3> QED BY <2>6, Zenon
  <2> HIDE DEF h
  <2> QED BY <2>7
<1>3. Fails = {}
  <2> HIDE DEF Reached
  <2>1. ASSUME Fails # {} PROVE FALSE
    <3>1. PICK j \in Fails : \A m \in Fails : j <= m
      BY <2>1, LeastNat
    <3>2. j # 0 /\ j - 1 \in Nat /\ j - 1 \notin Fails
      BY <3>1, <1>1
    <3> QED BY <3>1, <3>2, <1>2
  <2> QED BY <2>1
<1>4. \E g : Closes(g, n)
  <2>1. Reached(n)
    <3> HIDE DEF Reached
    <3> QED BY <1>3
  <2> QED BY <2>1
<1> DEFINE R == CHOOSE g : Closes(g, n)
<1>5. Closes(R, n)
  BY <1>4, Zenon
<1>6. ProofClimb(proof, item) = R
  BY Zenon DEF ProofClimb, Above
<1> HIDE DEF R
<1>7. \A t \in 0..n : R[t] = Val(R, t)
  <2> HIDE DEF Val
  <2> QED BY <1>5, Zenon
<1>8. R[0] = start
  <2> HIDE DEF start, n
  <2>1. 0 \in 0..n
    BY DEF n
  <2> QED BY <2>1, <1>7
<1>9. \A t \in 1..n : R[t] = Above(proof, R[t - 1], t)
  <2>1. \A t \in 1..n : t \in 0..n /\ t # 0
    OBVIOUS
  <2> HIDE DEF start, n
  <2> QED BY <2>1, <1>7
<1> QED BY <1>6, <1>8, <1>9

\* The parent of a place, on either side.
LEMMA HalfWay ==
  ASSUME NEW at \in Nat, NEW w \in Nat, at < w
  PROVE  /\ at \div 2 \in Nat /\ (w + 1) \div 2 \in Nat /\ at \div 2 < (w + 1) \div 2
         /\ at % 2 \in {0, 1}
         /\ at % 2 = 1 => 2 * (at \div 2 + 1) = at + 1
         /\ at % 2 = 0 => 2 * (at \div 2 + 1) - 1 = at + 1
OBVIOUS

\* A proof that verifies against the root is about the item at its place,
\* whatever siblings it gives: the digest at the top names its level, and from
\* there down each node holds the one below it.
LEMMA MerkleSound ==
  ASSUME NEW items, items \in Seq(Range(items)), Len(items) >= 1,
         NEW proof, NEW item, Len(proof.siblings) \in Nat, proof.count = Len(items),
         VerifyMerkle(proof, item, MerkleRoot(items))
  PROVE  proof.index \in 0..(Len(items) - 1) /\ item = items[proof.index + 1]
<1> DEFINE n == Len(items)
           L == LevelsOf(items)
           h == Height(items)
           m == Len(proof.siblings)
           C == ProofClimb(proof, item)
<1>1. n \in Nat /\ n >= 1 /\ h \in 0..n /\ m \in Nat /\ h \in Nat
  BY TreeHeight
<1>2. /\ proof.index \in 0..(n - 1)
      /\ \A lv \in 1..m : proof.siblings[lv].isLeft = (C[lv - 1].at % 2 = 1)
      /\ C[m].at = 0 /\ C[m].node = L[h][1]
  BY TreeHeight DEF VerifyMerkle
<1>3. /\ C[0] = [at |-> proof.index, width |-> n, node |-> Leaf(proof.index, item)]
      /\ \A lv \in 1..m : C[lv] = Above(proof, C[lv - 1], lv)
  BY ClimbUnfold
<1>4. /\ \A lv \in 0..n : IsLevel(L[lv])
      /\ \A lv \in 1..n : L[lv] = Parents(L[lv - 1], lv - 1)
      /\ Len(L[0]) = n /\ Len(L[h]) = 1
      /\ \A i \in 1..n : L[0][i] = Leaf(i - 1, items[i])
  BY LevelsNarrow, TreeHeight
<1> HIDE DEF n, L, h, m, C
<1>5. ASSUME NEW lv \in 1..n
      PROVE  /\ Len(L[lv]) = (Len(L[lv - 1]) + 1) \div 2
             /\ Len(L[lv - 1]) \in Nat /\ Len(L[lv - 1]) >= 1
             /\ \A i \in 1..Len(L[lv]) :
                  L[lv][i] = <<"node", lv - 1, i - 1, L[lv - 1][2 * i - 1],
                               IF 2 * i <= Len(L[lv - 1]) THEN L[lv - 1][2 * i]
                               ELSE Empty(lv - 1, i - 1)>>
  <2>1. lv - 1 \in 0..n
    BY <1>1
  <2>2. IsLevel(L[lv - 1]) /\ L[lv] = Parents(L[lv - 1], lv - 1)
    BY <2>1, <1>4
  <2>3. Len(L[lv - 1]) \in Nat /\ Len(L[lv - 1]) >= 1
    BY <2>2 DEF IsLevel
  <2> DEFINE row == L[lv - 1]
  <2> HIDE DEF row
  <2>4. IsLevel(row) /\ L[lv] = Parents(row, lv - 1)
    BY <2>2 DEF row
  <2>5. /\ Len(L[lv]) = (Len(row) + 1) \div 2
        /\ \A i \in 1..((Len(row) + 1) \div 2) :
              L[lv][i] = <<"node", lv - 1, i - 1, row[2 * i - 1],
                           IF 2 * i <= Len(row) THEN row[2 * i] ELSE Empty(lv - 1, i - 1)>>
    BY <2>4, ParentsAre
  <2> QED BY <2>3, <2>5 DEF row
<1>6. m = h
  <2>1. h # 0 => L[h][1][1] = "node" /\ L[h][1][2] = h - 1
    <3> SUFFICES ASSUME h # 0 PROVE L[h][1][1] = "node" /\ L[h][1][2] = h - 1
      OBVIOUS
    <3>1. h \in 1..n /\ 1 \in 1..Len(L[h])
      BY <1>1, <1>4
    <3>2. L[h][1] = <<"node", h - 1, 1 - 1, L[h - 1][2 * 1 - 1],
                      IF 2 * 1 <= Len(L[h - 1]) THEN L[h - 1][2 * 1] ELSE Empty(h - 1, 1 - 1)>>
      BY <3>1, <1>5
    <3> QED BY <3>2
  <2>2. h = 0 => L[h][1][1] = "leaf"
    BY <1>1, <1>4 DEF Leaf
  <2>3. m # 0 => C[m].node[1] = "node" /\ C[m].node[2] = m - 1
    <3> SUFFICES ASSUME m # 0 PROVE C[m].node[1] = "node" /\ C[m].node[2] = m - 1
      OBVIOUS
    <3>1. C[m] = Above(proof, C[m - 1], m)
      BY <1>1, <1>3
    <3> QED BY <3>1 DEF Above, Node
  <2>4. m = 0 => C[m].node[1] = "leaf"
    BY <1>3 DEF Leaf
  <2>5. C[m].node = L[h][1]
    BY <1>2
  <2> QED BY <2>1, <2>2, <2>3, <2>4, <2>5, <1>1
<1> DEFINE Place(t) == C[t].at \in Nat /\ C[t].width = Len(L[t]) /\ C[t].at < C[t].width
           Lost == {t \in Nat : t <= h /\ ~ Place(t)}
<1>7. Lost = {}
  <2>1. ASSUME Lost # {} PROVE FALSE
    <3>1. PICK t \in Lost : \A u \in Lost : t <= u
      BY <2>1, LeastNat
    <3>2. CASE t = 0
      BY <3>1, <3>2, <1>1, <1>2, <1>3, <1>4
    <3>3. CASE t # 0
      <4>1. t \in 1..n /\ t \in 1..m /\ t - 1 \in Nat /\ Place(t - 1)
        BY <3>1, <3>3, <1>1, <1>6
      <4>2. Len(L[t]) = (Len(L[t - 1]) + 1) \div 2 /\ Len(L[t - 1]) \in Nat
        BY <4>1, <1>5
      <4>3. C[t] = Above(proof, C[t - 1], t)
        BY <4>1, <1>3
      <4>4. C[t].at = C[t - 1].at \div 2 /\ C[t].width = (C[t - 1].width + 1) \div 2
        BY <4>3 DEF Above
      <4> DEFINE at == C[t - 1].at
                 w  == C[t - 1].width
      <4>5. at \in Nat /\ w \in Nat /\ at < w /\ w = Len(L[t - 1])
        BY <4>1, <4>2
      <4> HIDE DEF at, w
      <4>6. C[t].at = at \div 2 /\ C[t].width = (w + 1) \div 2
        BY <4>4 DEF at, w
      <4>7. at \div 2 \in Nat /\ at \div 2 < (w + 1) \div 2
        BY <4>5, HalfWay
      <4> QED BY <4>2, <4>5, <4>6, <4>7, <3>1
    <3> QED BY <3>2, <3>3
  <2> QED BY <2>1
<1>8. \A t \in 0..h : Place(t)
  BY <1>1, <1>7
<1> HIDE DEF Lost
<1> DEFINE Other == {j \in Nat : j <= h /\ C[h - j].node # L[h - j][C[h - j].at + 1]}
<1>9. Other = {}
  <2>1. ASSUME Other # {} PROVE FALSE
    <3>1. PICK j \in Other : \A u \in Other : j <= u
      BY <2>1, LeastNat
    <3>2. j # 0
      BY <3>1, <1>1, <1>2, <1>6
    <3> DEFINE t == h - (j - 1)
    <3>3. t \in 1..h /\ t \in 1..n /\ t \in 1..m /\ t - 1 \in 0..h /\ t - 1 = h - j /\ t \in 0..h
      BY <3>1, <3>2, <1>1, <1>6
    <3>4. C[t].node = L[t][C[t].at + 1]
      <4>1. j \in Nat /\ j <= h
        BY <3>1
      <4>2. j - 1 \in Nat /\ j - 1 <= h /\ ~ (j <= j - 1)
        BY <4>1, <3>2, <1>1
      <4>3. j - 1 \notin Other
        <5> HIDE DEF Other
        <5> QED BY <4>2, <3>1
      <4> QED BY <4>2, <4>3
    <3> HIDE DEF t
    <3> DEFINE at == C[t - 1].at
               w  == Len(L[t - 1])
               up == at \div 2
    <3>5. at \in Nat /\ w \in Nat /\ at < w /\ C[t].at \in Nat /\ C[t].at < Len(L[t]) /\ Len(L[t]) \in Nat
      BY <3>3, <1>5, <1>8
    <3>6. C[t] = Above(proof, C[t - 1], t)
      BY <3>3, <1>3
    <3>7. C[t].at = up
      BY <3>6 DEF Above
    <3>8. /\ up + 1 \in 1..Len(L[t])
          /\ L[t][up + 1] = <<"node", t - 1, (up + 1) - 1, L[t - 1][2 * (up + 1) - 1],
                              IF 2 * (up + 1) <= w THEN L[t - 1][2 * (up + 1)]
                              ELSE Empty(t - 1, (up + 1) - 1)>>
      <4>1. up + 1 \in 1..Len(L[t])
        <5> HIDE DEF up
        <5> QED BY <3>5, <3>7
      <4> HIDE DEF up
      <4> QED BY <4>1, <3>3, <1>5
    <3>9. /\ at % 2 = 1 => proof.siblings[t].isLeft
          /\ at % 2 # 1 => ~ proof.siblings[t].isLeft
      BY <3>3, <1>2, Zenon
    <3> HIDE DEF at, w, up
    <3>10. /\ at % 2 \in {0, 1}
           /\ at % 2 = 1 => 2 * (up + 1) = at + 1
           /\ at % 2 = 0 => 2 * (up + 1) - 1 = at + 1
      BY <3>5, HalfWay DEF up
    <3>11. C[t - 1].node = L[t - 1][at + 1]
      <4>1. CASE at % 2 = 1
        <5>1. C[t].node = Node(t - 1, up, proof.siblings[t].digest, C[t - 1].node)
          BY <4>1, <3>6, <3>9 DEF Above, at, up
        <5>2. 2 * (up + 1) = at + 1 /\ 2 * (up + 1) <= w
          BY <4>1, <3>5, <3>10
        <5>3. L[t][up + 1] = <<"node", t - 1, (up + 1) - 1, L[t - 1][2 * (up + 1) - 1], L[t - 1][at + 1]>>
          BY <5>2, <3>8
        <5> QED BY <5>1, <5>3, <3>4, <3>7 DEF Node
      <4>2. CASE at % 2 = 0
        <5>1. C[t].node = Node(t - 1, up, C[t - 1].node, proof.siblings[t].digest)
          <6>1. at % 2 # 1
            BY <4>2
          <6> QED BY <6>1, <3>6, <3>9 DEF Above, at, up
        <5>2. L[t - 1][2 * (up + 1) - 1] = L[t - 1][at + 1]
          BY <4>2, <3>10
        <5> QED BY <5>1, <5>2, <3>4, <3>7, <3>8 DEF Node
      <4> QED BY <4>1, <4>2, <3>10
    <3> QED BY <3>1, <3>3, <3>11 DEF at
  <2> QED BY <2>1
<1>10. C[0].node = L[0][C[0].at + 1]
  <2>1. h \notin Other
    BY <1>9
  <2>2. h - h = 0
    BY <1>1
  <2> QED BY <2>1, <2>2, <1>1
<1>11. Leaf(proof.index, item) = Leaf((proof.index + 1) - 1, items[proof.index + 1])
  <2>1. proof.index + 1 \in 1..n
    BY <1>1, <1>2
  <2> QED BY <2>1, <1>3, <1>4, <1>10
<1>12. item = items[proof.index + 1]
  BY <1>11 DEF Leaf
<1> QED BY <1>2, <1>12 DEF n

-----------------------------------------------------------------------------
(* Grids and samples *)

\* _ceil_sqrt: the side of the smallest square that holds n cells.
LEMMA SquareHolds ==
  ASSUME NEW n \in Nat, n >= 1
  PROVE  CeilSqrt(n) \in Nat /\ CeilSqrt(n) >= 1 /\ CeilSqrt(n) * CeilSqrt(n) >= n
<1> DEFINE Holds(r) == r * r >= n /\ (r = 0 \/ (r - 1) * (r - 1) < n)
           Big == {r \in Nat : r * r >= n}
<1>1. n \in Big
  <2>1. n * n >= n
    OBVIOUS
  <2> QED BY <2>1
<1>2. PICK r \in Big : \A q \in Big : r <= q
  BY <1>1, LeastNat
<1>3. r \in 0..n
  BY <1>1, <1>2
<1>4. Holds(r)
  <2>1. CASE r = 0
    BY <2>1, <1>2
  <2>2. CASE r # 0
    <3>1. r - 1 \in Nat /\ r - 1 \notin Big
      BY <2>2, <1>2
    <3>2. (r - 1) * (r - 1) \in Nat
      BY <3>1
    <3>3. ~ ((r - 1) * (r - 1) >= n)
      BY <3>1
    <3> QED BY <3>2, <3>3, <1>2
  <2> QED BY <2>1, <2>2
<1>5. CeilSqrt(n) \in 0..n /\ Holds(CeilSqrt(n))
  <2>1. CeilSqrt(n) = CHOOSE x \in 0..n : Holds(x)
    BY DEF CeilSqrt
  <2> HIDE DEF Holds
  <2> QED BY <2>1, <1>3, <1>4, Zenon
<1> DEFINE c == CeilSqrt(n)
<1>6. c \in Nat /\ c * c >= n
  BY <1>5
<1> HIDE DEF c
<1>7. c # 0
  BY <1>6
<1> QED BY <1>6, <1>7 DEF c

\* The cells of an extended grid.
Square(n) == (0..(n - 1)) \X (0..(n - 1))

LEMMA SquareSize ==
  ASSUME NEW n \in Nat
  PROVE  IsFiniteSet(Square(n)) /\ Cardinality(Square(n)) = n * n
<1>1. IsFiniteSet(0..(n - 1)) /\ Cardinality(0..(n - 1)) = n
  <2>1. 0 \in Int /\ n - 1 \in Int
    OBVIOUS
  <2>2. IsFiniteSet(0..(n - 1)) /\ Cardinality(0..(n - 1)) = IF 0 > n - 1 THEN 0 ELSE (n - 1) - 0 + 1
    BY <2>1, FS_Interval
  <2> QED BY <2>2
<1> QED BY <1>1, FS_Product DEF Square

\* Two squares of one size have one side.
LEMMA SquareSide ==
  ASSUME NEW m \in Nat, NEW n \in Nat, m * m = n * n
  PROVE  m = n
<1>1. CASE m < n
  <2>1. m * m <= m * n /\ m * n < n * n
    BY <1>1
  <2> QED BY <2>1
<1>2. CASE n < m
  <2>1. n * n <= n * m /\ n * m < m * m
    BY <1>2
  <2> QED BY <2>1
<1> QED BY <1>1, <1>2

\* The shape of a grid that a producer commits to.
LEMMA GridShape ==
  ASSUME NEW p \in Encodable, NEW g \in Grids(p)
  PROVE  /\ DataSide(p) \in 1..MaxDataSide
         /\ Len(p) \in Nat /\ Len(p) <= DataSide(p) * DataSide(p)
         /\ DOMAIN EncodeGrid(p) = Square(2 * DataSide(p)) /\ DOMAIN g = Square(2 * DataSide(p))
         /\ Side(g) = 2 * DataSide(p)
         /\ Cardinality(DOMAIN g) = Side(g) * Side(g)
         /\ g \in [Square(2 * DataSide(p)) -> Symbols]
<1> DEFINE k == DataSide(p)
           e == EncodeGrid(p)
<1>1. /\ p \in Seq(Symbols) /\ Len(p) \in Nat /\ MaxDataSide \in Nat /\ P \in Nat \ {0}
      /\ k <= MaxDataSide /\ ValidEncoding(e, k)
  BY DasAssumption DEF Encodable
<1>2. k \in Nat /\ k >= 1 /\ k * k >= Len(p)
  <2>1. CASE Len(p) = 0
    <3>1. k = CeilSqrt(1)
      BY <2>1 DEF DataSide
    <3>2. CeilSqrt(1) \in Nat /\ CeilSqrt(1) >= 1 /\ CeilSqrt(1) * CeilSqrt(1) >= 1
      BY SquareHolds
    <3> HIDE DEF k
    <3> QED BY <3>1, <3>2, <2>1
  <2>2. CASE Len(p) # 0
    <3>1. k = CeilSqrt(Len(p))
      BY <2>2 DEF DataSide
    <3>2. Len(p) >= 1
      BY <2>2, <1>1
    <3> HIDE DEF k
    <3> QED BY <3>1, <3>2, <1>1, SquareHolds
  <2> QED BY <2>1, <2>2
<1>3. DOMAIN e = Square(2 * k)
  BY DEF EncodeGrid, Square
<1>4. e = [cell \in Square(2 * k) |-> e[cell]]
  BY DEF EncodeGrid, Square
<1>5. \A cell \in Square(2 * k) : e[cell] \in Symbols
  BY <1>1, <1>3 DEF ValidEncoding
<1> HIDE DEF e, k
<1>6. e \in [Square(2 * k) -> Symbols]
  BY <1>4, <1>5
<1>7. g \in [Square(2 * k) -> Symbols]
  <2>1. CASE g = e
    BY <2>1, <1>6
  <2>2. CASE g # e
    <3>1. PICK cell \in Square(2 * k) : g = [e EXCEPT ![cell] = (@ + 1) % P]
      BY <2>2, <1>3 DEF Grids, e
    <3>2. \A x \in Symbols : (x + 1) % P \in Symbols
      BY <1>1 DEF Symbols
    <3> HIDE DEF Symbols
    <3> QED BY <3>1, <3>2, <1>6
  <2> QED BY <2>1, <2>2
<1>8. DOMAIN g = Square(2 * k)
  BY <1>7
<1> DEFINE n == 2 * k
<1>9. n \in 1..(2 * MaxDataSide) /\ n \in Nat
  BY <1>1, <1>2
<1>10. Cardinality(DOMAIN g) = n * n
  BY <1>8, <1>9, SquareSize
<1> HIDE DEF n
<1>11. Side(g) \in 1..(2 * MaxDataSide) /\ Side(g) * Side(g) = n * n
  <2>1. \E x \in 1..(2 * MaxDataSide) : x * x = Cardinality(DOMAIN g)
    BY <1>9, <1>10
  <2>2. Side(g) \in 1..(2 * MaxDataSide) /\ Side(g) * Side(g) = Cardinality(DOMAIN g)
    BY <2>1, Zenon DEF Side
  <2> QED BY <2>2, <1>10
<1>12. Side(g) = n
  <2>1. Side(g) \in Nat
    BY <1>1, <1>11
  <2> QED BY <2>1, <1>9, <1>11, SquareSide
<1>13. k \in 1..MaxDataSide
  BY <1>1, <1>2
<1>14. Cardinality(DOMAIN g) = Side(g) * Side(g)
  BY <1>10, <1>12
<1> QED BY <1>1, <1>2, <1>3, <1>7, <1>8, <1>12, <1>13, <1>14 DEF n, k, e

\* Row and column of a place in a list of rows.
LEMMA RowAndColumn ==
  ASSUME NEW m \in Nat, NEW n \in Nat, NEW i \in Nat, i < m * n
  PROVE  /\ n # 0
         /\ i \div n \in 0..(m - 1) /\ i % n \in 0..(n - 1)
         /\ (i \div n) * n + (i % n) = i
<1>1. n # 0
  OBVIOUS
<1> DEFINE q == i \div n
           r == i % n
<1>2. q \in Int /\ r \in 0..(n - 1) /\ i = q * n + r
  BY <1>1
<1> HIDE DEF q, r
<1>3. q >= 0
  <2>1. CASE q <= -1
    <3>1. q * n <= (-1) * n
      BY <2>1, <1>1, <1>2
    <3> QED BY <3>1, <1>2
  <2> QED BY <2>1, <1>2
<1>4. q < m
  <2>1. CASE q >= m
    <3>1. q * n >= m * n
      BY <2>1, <1>1, <1>2
    <3> QED BY <3>1, <1>2
  <2> QED BY <2>1, <1>2
<1>5. q \in 0..(m - 1) /\ r \in 0..(n - 1) /\ q * n + r = i
  BY <1>2, <1>3, <1>4
<1> QED BY <1>1, <1>5, Zenon DEF q, r

\* The records that are hashed.
LEMMA RecordsAre ==
  ASSUME NEW g, Side(g) \in Nat, Side(g) >= 1, Cardinality(DOMAIN g) = Side(g) * Side(g)
  PROVE  /\ CellRecords(g) \in Seq(Range(CellRecords(g)))
         /\ Len(CellRecords(g)) = Side(g) * Side(g) /\ Len(CellRecords(g)) >= 1
         /\ \A i \in 1..(Side(g) * Side(g)) :
              CellRecords(g)[i] = <<<<(i - 1) \div Side(g), (i - 1) % Side(g)>>,
                                    g[<<(i - 1) \div Side(g), (i - 1) % Side(g)>>]>>
<1> DEFINE n == Side(g) * Side(g)
           R(i) == <<<<(i - 1) \div Side(g), (i - 1) % Side(g)>>,
                     g[<<(i - 1) \div Side(g), (i - 1) % Side(g)>>]>>
           f == [i \in 1..n |-> R(i)]
<1>1. n \in Nat /\ n >= 1
  <2> DEFINE a == Side(g)
  <2>1. a \in Nat /\ a >= 1
    OBVIOUS
  <2> HIDE DEF a
  <2>2. a * a \in Nat /\ a * a >= 1
    BY <2>1
  <2> QED BY <2>2 DEF a
<1>2. CellRecords(g) = f \o <<>>
  BY DEF CellRecords
<1>3. f = [i \in 1..n |-> f[i]] /\ \A i \in 1..n : f[i] = R(i)
  <2> HIDE DEF R, n
  <2> QED BY Zenon
<1> HIDE DEF f, n, R
<1>4. CellRecords(g) = f /\ Len(f) = n /\ f \in Seq(Range(f))
  BY <1>1, <1>2, <1>3, WrittenOut
<1> QED BY <1>1, <1>3, <1>4 DEF n, R

\* An answer that verifies shows the committed cells of the row and the column
\* of the sample it was asked for, which are in the grid, and that row is a
\* codeword.
LEMMA AcceptedCommitted ==
  ASSUME NEW p \in Encodable, NEW g \in Grids(p), NEW m, NEW a, AcceptedCells(g, p, m, a) # {}
  PROVE  LET side == Side(g)
             at   == Selected(a.to, side)
         IN  /\ AcceptedCells(g, p, m, a) =
                  {<<cell, g[cell]>> : cell \in Row(at, side) \union Column(at, side)}
             /\ at[1] \in 0..(side - 1)
             /\ IsCodeword([c \in 0..(side - 1) |-> g[<<at[1], c>>]], side \div 2)
<1> DEFINE side  == Side(g)
           at    == Selected(a.to, side)
           items == CellRecords(g)
           proof == ProofIn(g, m, a)
           cross == Row(at, side) \union Column(at, side)
           n     == side * side
<1>1. side \in Nat /\ side >= 1 /\ Cardinality(DOMAIN g) = n
  <2>1. DataSide(p) \in 1..MaxDataSide /\ side = 2 * DataSide(p) /\ MaxDataSide \in Nat
    BY GridShape, DasAssumption
  <2>2. Cardinality(DOMAIN g) = n
    BY GridShape
  <2> QED BY <2>1, <2>2
<1>2. /\ items \in Seq(Range(items)) /\ Len(items) = n /\ Len(items) >= 1
      /\ \A i \in 1..n : items[i] = <<<<(i - 1) \div side, (i - 1) % side>>,
                                      g[<<(i - 1) \div side, (i - 1) % side>>]>>
  BY <1>1, RecordsAre
<1>3. ValidCommitment(Commitment(g, p)) /\ VerifySample(a.to, Commitment(g, p), proof)
  BY DEF AcceptedCells
<1>4. AcceptedCells(g, p, m, a) = {<<cell, proof.cells[cell]>> : cell \in DOMAIN proof.cells}
  BY <1>3 DEF AcceptedCells
<1>5. Commitment(g, p).side = side /\ Commitment(g, p).dataSide = side \div 2
      /\ Commitment(g, p).cellRoot = MerkleRoot(items)
  BY DEF Commitment
<1>6. /\ DOMAIN proof.cells = cross
      /\ \A cell \in cross : VerifyMerkle(proof.proofs[cell], <<cell, proof.cells[cell]>>, MerkleRoot(items))
      /\ proof.at = at
  BY <1>3, <1>5 DEF VerifySample, CommittedCells
<1>7. IsCodeword([c \in 0..(side - 1) |-> proof.cells[<<at[1], c>>]], side \div 2)
  BY <1>3, <1>5 DEF VerifySample, CodedCells
<1> DEFINE layers == Layers(items)
           about  == Selected(a.about, side)
<1>8. \A cell \in cross :
        proof.proofs[cell].count = Len(items) /\ Len(proof.proofs[cell].siblings) \in Nat
  <2>1. proof.at = about /\ proof.proofs = [cell \in Row(about, side) \union Column(about, side) |->
                                              MerkleProof(layers, CellIndex(side, cell))]
    BY DEF ProofIn, SampleProof
  <2>2. \A cell \in cross : proof.proofs[cell] = MerkleProof(layers, CellIndex(side, cell))
    <3> HIDE DEF proof, layers, at, side
    <3>1. about = at
      BY <2>1, <1>6
    <3> HIDE DEF about
    <3> QED BY <2>1, <3>1
  <2>3. Len(layers) \in Nat /\ Len(layers) >= 1 /\ Len(layers[1]) = Len(items)
    <3>1. Len(layers) = Height(items) + 1 /\ layers[1] = LevelsOf(items)[0] /\ Height(items) \in 0..Len(items)
      BY <1>2, TreeHeight
    <3>2. Len(LevelsOf(items)[0]) = Len(items)
      BY <1>2, LevelsNarrow
    <3>3. Len(items) \in Nat
      BY <1>2
    <3> HIDE DEF layers, items
    <3> QED BY <3>1, <3>2, <3>3
  <2>4. ASSUME NEW index
        PROVE  MerkleProof(layers, index).count = Len(items)
               /\ Len(MerkleProof(layers, index).siblings) \in Nat
    <3> DEFINE S(lv) == LET x == index \div 2^(lv - 1) IN
                        [isLeft |-> x % 2 = 1,
                         digest |-> IF x % 2 = 1 THEN layers[lv][x]
                                    ELSE IF x + 2 <= Len(layers[lv]) THEN layers[lv][x + 2]
                                    ELSE Empty(lv - 1, x \div 2)]
               f == [lv \in 1..(Len(layers) - 1) |-> S(lv)]
    <3> HIDE DEF layers, items
    <3>1. MerkleProof(layers, index) = [index |-> index, count |-> Len(layers[1]), siblings |-> f]
      BY DEF MerkleProof
    <3>2. f = [lv \in 1..(Len(layers) - 1) |-> f[lv]]
      <4> HIDE DEF S
      <4> QED BY Zenon
    <3> HIDE DEF f
    <3>3. Len(layers) - 1 \in Nat
      BY <2>3
    <3>4. Len(f) \in Nat
      BY <3>2, <3>3, WrittenOut
    <3> QED BY <3>1, <3>4, <2>3
  <2> HIDE DEF layers, items, proof, cross
  <2> QED BY <2>2, <2>4
<1> HIDE DEF items, proof, layers, about, side, at, cross
<1>9. ASSUME NEW cell \in cross
      PROVE  proof.cells[cell] = g[cell] /\ cell[1] \in 0..(side - 1)
  <2> DEFINE q == proof.proofs[cell]
             i == q.index
  <2>1. i \in 0..(Len(items) - 1) /\ <<cell, proof.cells[cell]>> = items[i + 1]
    <3>1. Len(q.siblings) \in Nat /\ q.count = Len(items)
      BY <1>8
    <3>2. VerifyMerkle(q, <<cell, proof.cells[cell]>>, MerkleRoot(items))
      BY <1>6
    <3> HIDE DEF q
    <3> QED BY <3>1, <3>2, <1>2, MerkleSound
  <2> HIDE DEF i
  <2>2. n \in Nat
    BY <1>1
  <2>3. i \in Nat /\ i < n /\ i + 1 \in 1..n /\ (i + 1) - 1 = i
    <3> HIDE DEF n
    <3> QED BY <2>1, <2>2, <1>2
  <2>4. items[i + 1] = <<<<i \div side, i % side>>, g[<<i \div side, i % side>>]>>
    BY <2>3, <1>2
  <2>5. cell = <<i \div side, i % side>> /\ proof.cells[cell] = g[<<i \div side, i % side>>]
    BY <2>1, <2>4
  <2>6. i \div side \in 0..(side - 1)
    BY <2>3, <1>1, RowAndColumn
  <2> QED BY <2>5, <2>6
<1>10. AcceptedCells(g, p, m, a) = {<<cell, g[cell]>> : cell \in cross}
  BY <1>4, <1>6, <1>9
<1>11. \A c \in 0..(side - 1) : <<at[1], c>> \in cross
  BY DEF cross, Row
<1>12. at[1] \in 0..(side - 1)
  <2>1. <<at[1], 0>> \in cross
    BY <1>1, <1>11
  <2> QED BY <2>1, <1>9
<1>13. [c \in 0..(side - 1) |-> proof.cells[<<at[1], c>>]] = [c \in 0..(side - 1) |-> g[<<at[1], c>>]]
  BY <1>9, <1>11
<1> QED BY <1>7, <1>10, <1>12, <1>13 DEF side, at, cross

\* Two codewords that agree in k symbols are one, and any k of its symbols give
\* the others.
LEMMA CodewordsDetermined ==
  ASSUME NEW k \in 1..MaxDataSide, NEW S \in SUBSET (0..(2 * k - 1)), Cardinality(S) >= k,
         NEW w \in [0..(2 * k - 1) -> Symbols], IsCodeword(w, k)
  PROVE  \A x \in 0..(2 * k - 1) : Interpolate([i \in S |-> w[i]], x) = w[x]
<1> DEFINE data == [i \in 0..(k - 1) |-> w[i]]
           n == 2 * k
<1>1. k \in Nat /\ MaxDataSide \in Nat /\ AnyDetermine(k, n)
  BY DasAssumption
<1>2. data \in [0..(k - 1) -> Symbols]
  BY <1>1
<1>3. \A x \in 0..(n - 1) : RSEncode(data, n)[x] = w[x]
  <2>1. \A x \in 0..(n - 1) : w[x] = Interpolate(data, x)
    BY DEF IsCodeword
  <2>2. ASSUME NEW x \in 0..(n - 1) PROVE RSEncode(data, n)[x] = IF x \in DOMAIN data THEN data[x] ELSE Interpolate(data, x)
    BY DEF RSEncode
  <2>3. DOMAIN data = 0..(k - 1) /\ \A x \in 0..(k - 1) : data[x] = w[x]
    OBVIOUS
  <2> HIDE DEF data, n
  <2> QED BY <2>1, <2>2, <2>3
<1> HIDE DEF data, n
<1>4. \A x \in 0..(n - 1) : Interpolate([i \in S |-> RSEncode(data, n)[i]], x) = RSEncode(data, n)[x]
  BY <1>1, <1>2 DEF AnyDetermine, n
<1>5. [i \in S |-> RSEncode(data, n)[i]] = [i \in S |-> w[i]]
  BY <1>3 DEF n
<1> QED BY <1>3, <1>4, <1>5 DEF n

\* The code is systematic: the payload stands in the first rows and columns.
LEMMA PayloadInGrid ==
  ASSUME NEW p \in Encodable, NEW n \in 1..Len(p)
  PROVE  LET k == DataSide(p)
         IN  /\ (n - 1) \div k \in 0..(k - 1) /\ (n - 1) % k \in 0..(k - 1)
             /\ EncodeGrid(p)[<<(n - 1) \div k, (n - 1) % k>>] = p[n]
<1> DEFINE k == DataSide(p)
           g == EncodeGrid(p)
           r == (n - 1) \div k
           c == (n - 1) % k
           data(x, y) == IF x * k + y < Len(p) THEN p[x * k + y + 1] ELSE 0
           wide == [x \in 0..(k - 1) |-> RSEncode([y \in 0..(k - 1) |-> data(x, y)], 2 * k)]
           tall == [y \in 0..(2 * k - 1) |-> RSEncode([x \in 0..(k - 1) |-> wide[x][y]], 2 * k)]
<1>1. k \in Nat /\ k >= 1 /\ Len(p) \in Nat /\ Len(p) <= k * k /\ n \in Nat
  <2>1. g \in Grids(p)
    BY DEF Grids
  <2>2. k \in 1..MaxDataSide /\ Len(p) \in Nat /\ Len(p) <= k * k /\ MaxDataSide \in Nat
    BY <2>1, GridShape, DasAssumption
  <2> HIDE DEF k, g
  <2> QED BY <2>2
<1>2. r \in 0..(k - 1) /\ c \in 0..(k - 1) /\ r * k + c = n - 1
  <2>1. n - 1 \in Nat /\ n - 1 < k * k
    BY <1>1
  <2> HIDE DEF k
  <2> QED BY <2>1, <1>1, RowAndColumn
<1>3. g = [cell \in (0..(2 * k - 1)) \X (0..(2 * k - 1)) |-> tall[cell[2]][cell[1]]]
  BY DEF EncodeGrid
<1> HIDE DEF g, k, r, c
<1>4. r \in 0..(2 * k - 1) /\ c \in 0..(2 * k - 1)
  BY <1>1, <1>2
<1>5. g[<<r, c>>] = tall[c][r]
  <2> HIDE DEF tall
  <2> QED BY <1>3, <1>4
<1>6. tall[c][r] = wide[r][c]
  <2> DEFINE column == [x \in 0..(k - 1) |-> wide[x][c]]
  <2>1. tall[c] = RSEncode(column, 2 * k)
    BY <1>4
  <2>2. DOMAIN column = 0..(k - 1) /\ column[r] = wide[r][c]
    <3> HIDE DEF wide
    <3> QED BY <1>2
  <2> HIDE DEF column, tall, wide
  <2>3. RSEncode(column, 2 * k)[r] = column[r]
    BY <1>2, <1>4, <2>2 DEF RSEncode
  <2> QED BY <2>1, <2>2, <2>3
<1>7. wide[r][c] = data(r, c)
  <2> DEFINE line == [y \in 0..(k - 1) |-> data(r, y)]
  <2> HIDE DEF tall
  <2>1. wide[r] = RSEncode(line, 2 * k)
    <3> HIDE DEF data
    <3> QED BY <1>2
  <2>2. DOMAIN line = 0..(k - 1) /\ line[c] = data(r, c)
    <3> HIDE DEF data
    <3> QED BY <1>2
  <2> HIDE DEF line, wide, data
  <2>3. RSEncode(line, 2 * k)[c] = line[c]
    BY <1>2, <1>4, <2>2 DEF RSEncode
  <2> QED BY <2>1, <2>2, <2>3
<1>8. data(r, c) = p[n]
  <2>1. r * k + c = n - 1 /\ n - 1 < Len(p) /\ (n - 1) + 1 = n
    BY <1>1, <1>2
  <2> QED BY <2>1
<1> HIDE DEF data, wide, tall
<1>9. g[<<r, c>>] = p[n]
  BY <1>5, <1>6, <1>7, <1>8
<1> QED BY <1>2, <1>9 DEF g, r, c, k

\* The answers a peer may give.
PeerAnswers == [to : Samples, about : Samples, guess : Guesses]

\* What was committed to does not change, and what counts as a success verified.
DasInv ==
  /\ payload \in Encodable /\ grid \in Grids(payload)
  /\ missing \in Missing /\ missing \subseteq DOMAIN grid
  /\ asked \subseteq Samples /\ answers \subseteq PeerAnswers
  /\ \A i \in DOMAIN outcome : outcome[i] # {} =>
       \E a \in PeerAnswers : a.to = i /\ outcome[i] = AcceptedCells(grid, payload, missing, a)

\* What verified is committed and recovers the payload.
LEMMA InvSound == DasInv => SamplingSound
<1> SUFFICES ASSUME DasInv PROVE SamplingSound
  OBVIOUS
<1> DEFINE k == DataSide(payload)
           S == Side(grid)
           e == EncodeGrid(payload)
           At(i) == Selected(i, S)
           cross(i) == Row(At(i), S) \union Column(At(i), S)
<1>1. /\ k \in 1..MaxDataSide /\ MaxDataSide \in Nat /\ k \in Nat /\ k >= 1
      /\ S = 2 * k /\ S \div 2 = k /\ S \in Nat
      /\ grid \in [Square(S) -> Symbols] /\ e \in [Square(S) -> Symbols]
  <2>1. payload \in Encodable /\ grid \in Grids(payload) /\ e \in Grids(payload)
    BY DEF DasInv, Grids
  <2>2. k \in 1..MaxDataSide /\ S = 2 * k /\ grid \in [Square(2 * k) -> Symbols]
        /\ e \in [Square(2 * k) -> Symbols] /\ MaxDataSide \in Nat
    BY <2>1, GridShape, DasAssumption
  <2> HIDE DEF k, S, e
  <2>3. k \in Nat /\ k >= 1 /\ S \in Nat /\ S \div 2 = k
    BY <2>2
  <2> QED BY <2>2, <2>3
<1>2. ASSUME NEW i \in Successes
      PROVE  /\ outcome[i] = {<<cell, grid[cell]>> : cell \in cross(i)}
             /\ At(i)[1] \in 0..(S - 1)
             /\ IsCodeword([c \in 0..(S - 1) |-> grid[<<At(i)[1], c>>]], k)
  <2>1. i \in DOMAIN outcome /\ outcome[i] # {}
    BY DEF Successes
  <2>2. PICK a \in PeerAnswers : a.to = i /\ outcome[i] = AcceptedCells(grid, payload, missing, a)
    BY <2>1 DEF DasInv
  <2>3. AcceptedCells(grid, payload, missing, a) # {}
    BY <2>1, <2>2
  <2>4. payload \in Encodable /\ grid \in Grids(payload)
    BY DEF DasInv
  <2>5. /\ outcome[i] = {<<cell, grid[cell]>> : cell \in cross(i)}
        /\ At(i)[1] \in 0..(S - 1)
        /\ IsCodeword([c \in 0..(S - 1) |-> grid[<<At(i)[1], c>>]], S \div 2)
    BY <2>2, <2>3, <2>4, AcceptedCommitted
  <2> QED BY <2>5, <1>1
<1>3. AcceptedIsCommitted
  BY <1>2 DEF AcceptedIsCommitted
<1>4. SamplesRecoverPayload
  <2> SUFFICES ASSUME Cardinality(SeenRows) >= k, NEW n \in 1..Len(payload)
               PROVE  payload[n] =
                        Interpolate([r \in SeenRows |->
                          (CHOOSE x \in Revealed : x[1] = <<r, (n - 1) % k>>)[2]], (n - 1) \div k)
    <3> DEFINE h == S \div 2
               Gives(j) ==
                 Cardinality(SeenRows) >= j => \A n \in 1..Len(payload) :
                    payload[n] = Interpolate([r \in SeenRows |->
                                   (CHOOSE x \in Revealed : x[1] = <<r, (n - 1) % j>>)[2]], (n - 1) \div j)
    <3>1. SamplesRecoverPayload <=> Gives(h)
      BY Zenon DEF SamplesRecoverPayload, Rebuilt
    <3>2. h = k
      BY <1>1
    <3>3. SamplesRecoverPayload <=> Gives(k)
      <4> HIDE DEF h, k, Gives
      <4> QED BY <3>1, <3>2
    <3> HIDE DEF h, k
    <3> QED BY <3>3, Zenon
  <2> DEFINE col == (n - 1) % k
             row == (n - 1) \div k
             Known == [r \in SeenRows |-> (CHOOSE x \in Revealed : x[1] = <<r, col>>)[2]]
  <2>1. row \in 0..(k - 1) /\ col \in 0..(k - 1) /\ e[<<row, col>>] = payload[n]
    <3>1. payload \in Encodable
      BY DEF DasInv
    <3> QED BY <3>1, PayloadInGrid
  <2> HIDE DEF k, S, e, row, col, At, cross
  <2>2. row \in 0..(S - 1) /\ col \in 0..(S - 1)
    BY <2>1, <1>1
  <2>3. ASSUME NEW r \in SeenRows
        PROVE  /\ r \in 0..(S - 1) /\ IsCodeword([c \in 0..(S - 1) |-> grid[<<r, c>>]], k)
               /\ \A c \in 0..(S - 1) : <<<<r, c>>, grid[<<r, c>>]>> \in Revealed
    <3>1. PICK i \in Successes : r = At(i)[1]
      BY DEF SeenRows, At, S
    <3>2. \A c \in 0..(S - 1) : <<r, c>> \in cross(i)
      BY <3>1 DEF cross, Row
    <3>3. \A c \in 0..(S - 1) : <<<<r, c>>, grid[<<r, c>>]>> \in outcome[i]
      BY <3>2, <1>2
    <3>4. outcome[i] \subseteq Revealed
      BY DEF Revealed
    <3> QED BY <3>1, <3>3, <3>4, <1>2
  <2>4. \A x \in Revealed : x = <<x[1], grid[x[1]]>>
    <3> SUFFICES ASSUME NEW x \in Revealed PROVE x = <<x[1], grid[x[1]]>>
      OBVIOUS
    <3>1. PICK i \in Successes : x \in outcome[i]
      BY DEF Revealed
    <3>2. PICK cell \in cross(i) : x = <<cell, grid[cell]>>
      BY <3>1, <1>2
    <3> QED BY <3>2
  <2>5. ASSUME NEW r \in SeenRows PROVE Known[r] = grid[<<r, col>>]
    <3> DEFINE x == CHOOSE y \in Revealed : y[1] = <<r, col>>
    <3>1. <<<<r, col>>, grid[<<r, col>>]>> \in Revealed
      BY <2>2, <2>3
    <3>2. \E y \in Revealed : y[1] = <<r, col>>
      BY <3>1
    <3>3. x \in Revealed /\ x[1] = <<r, col>>
      BY <3>2, Zenon
    <3>4. Known[r] = x[2]
      OBVIOUS
    <3> HIDE DEF x
    <3> QED BY <3>3, <3>4, <2>4
  <2>6. ValidEncoding(e, k)
    BY DEF DasInv, Encodable, e, k
  <2>7. \A m \in 0..(S - 1) : /\ IsCodeword([c \in 0..(S - 1) |-> e[<<m, c>>]], k)
                             /\ IsCodeword([r \in 0..(S - 1) |-> e[<<r, m>>]], k)
    BY <2>6, <1>1 DEF ValidEncoding
  <2>8. ASSUME NEW r \in SeenRows PROVE grid[<<r, col>>] = e[<<r, col>>]
    <3>1. CASE grid = e
      BY <3>1
    <3>2. CASE grid # e
      <4>1. PICK cell \in DOMAIN e : grid = [e EXCEPT ![cell] = (@ + 1) % P]
        BY <3>2 DEF DasInv, Grids, e
      <4>2. cell = <<cell[1], cell[2]>> /\ cell[1] \in 0..(S - 1) /\ cell[2] \in 0..(S - 1)
        BY <1>1 DEF Square
      <4>3. \A x \in DOMAIN e : x # cell => grid[x] = e[x]
        BY <4>1
      <4> DEFINE I == 0..(2 * k - 1)
                 T == I \ {cell[2]}
                 w == [c \in I |-> grid[<<r, c>>]]
                 v == [c \in I |-> e[<<r, c>>]]
      <4>4. r \in 0..(S - 1) /\ I = 0..(S - 1)
        BY <2>3, <1>1
      <4>5. \A c \in I : <<r, c>> \in Square(S)
        BY <4>4 DEF Square
      <4>6. w \in [I -> Symbols] /\ v \in [I -> Symbols]
        BY <4>5, <1>1
      <4>7. IsCodeword(w, k) /\ IsCodeword(v, k)
        BY <4>4, <2>3, <2>7
      <4>8. T \in SUBSET I /\ Cardinality(T) >= k
        <5>1. 0 \in Int /\ 2 * k - 1 \in Int
          BY <1>1
        <5>2. IsFiniteSet(I) /\ Cardinality(I) = IF 0 > 2 * k - 1 THEN 0 ELSE (2 * k - 1) - 0 + 1
          BY <5>1, FS_Interval
        <5>3. Cardinality(I) = 2 * k
          BY <5>2, <1>1
        <5>4. cell[2] \in I
          BY <4>2, <4>4
        <5> HIDE DEF I
        <5>5. Cardinality(T) = 2 * k - 1
          <6>1. IsFiniteSet(I)
            BY <5>2
          <6>2. Cardinality(T) = Cardinality(I) - 1
            BY <6>1, <5>4, FS_RemoveElement
          <6> QED BY <6>2, <5>3
        <5> HIDE DEF T
        <5>6. Cardinality(T) >= k
          BY <5>5, <1>1
        <5> QED BY <5>6 DEF T
      <4>9. \A c \in T : w[c] = v[c]
        <5> SUFFICES ASSUME NEW c \in T PROVE w[c] = v[c]
          OBVIOUS
        <5>1. c \in I /\ c # cell[2]
          OBVIOUS
        <5>2. <<r, c>> \in DOMAIN e /\ <<r, c>> # cell
          BY <5>1, <4>2, <4>5, <1>1
        <5>3. grid[<<r, c>>] = e[<<r, c>>]
          BY <5>2, <4>3
        <5> QED BY <5>1, <5>3
      <4>10. [c \in T |-> w[c]] = [c \in T |-> v[c]]
        <5> HIDE DEF T, w, v
        <5> QED BY <4>9
      <4> HIDE DEF w, v, T
      <4>11. \A x \in I : Interpolate([c \in T |-> w[c]], x) = w[x]
        BY <4>6, <4>7, <4>8, <1>1, CodewordsDetermined
      <4>12. \A x \in I : Interpolate([c \in T |-> v[c]], x) = v[x]
        BY <4>6, <4>7, <4>8, <1>1, CodewordsDetermined
      <4>13. col \in I
        BY <2>2, <4>4
      <4> HIDE DEF I
      <4>14. w[col] = v[col]
        BY <4>10, <4>11, <4>12, <4>13
      <4> QED BY <4>13, <4>14 DEF w, v
    <3> QED BY <3>1, <3>2
  <2> DEFINE J == 0..(2 * k - 1)
             u == [r \in J |-> e[<<r, col>>]]
  <2>9. J = 0..(S - 1) /\ row \in J /\ col \in J /\ SeenRows \in SUBSET J
    BY <2>2, <2>3, <1>1
  <2>10. u \in [J -> Symbols]
    <3>1. \A r \in J : <<r, col>> \in Square(S)
      BY <2>9 DEF Square
    <3> HIDE DEF J
    <3> QED BY <3>1, <1>1
  <2>11. IsCodeword(u, k)
    BY <2>7, <2>9
  <2>12. [r \in SeenRows |-> u[r]] = Known
    <3>1. \A r \in SeenRows : u[r] = Known[r]
      <4> HIDE DEF Known, J
      <4> QED BY <2>5, <2>8, <2>9
    <3>2. Known = [r \in SeenRows |-> Known[r]]
      OBVIOUS
    <3> HIDE DEF Known, u
    <3> QED BY <3>1, <3>2
  <2> HIDE DEF u, Known
  <2>13. Interpolate([r \in SeenRows |-> u[r]], row) = u[row]
    BY <2>9, <2>10, <2>11, <1>1, CodewordsDetermined
  <2>14. u[row] = e[<<row, col>>]
    <3> HIDE DEF J
    <3> QED BY <2>9 DEF u
  <2>15. payload[n] = Interpolate(Known, row)
    BY <2>1, <2>12, <2>13, <2>14
  <2> QED BY <2>15 DEF Known, row, col
<1>5. ReportRecoversPayload
  <2> SUFFICES ASSUME IsAvailable(outcome), SpreadOut PROVE Rebuilt
    BY DEF ReportRecoversPayload
  <2>1. Successes \in SUBSET DOMAIN outcome
    BY DEF Successes
  <2>2. Enough(Cardinality(Successes), Cardinality(DOMAIN outcome))
    BY DEF IsAvailable, Successes
  <2>3. Cardinality({Selected(i, Side(grid))[1] : i \in Successes}) >= Side(grid) \div 2
    BY <2>1, <2>2, Zenon DEF SpreadOut
  <2> QED BY <2>3, <1>4 DEF SamplesRecoverPayload, SeenRows
<1> QED BY <1>3, <1>4, <1>5 DEF SamplingSound

\* An answer is looked up as it is checked.
LEMMA AcceptedIs ==
  ASSUME NEW p \in Encodable, NEW g \in Grids(p), NEW m \in Missing, m \subseteq DOMAIN g, NEW a \in PeerAnswers
  PROVE  Accepted[<<p, g, m, a>>] = AcceptedCells(g, p, m, a)
<1> DEFINE x == <<p, g, m, a>>
           dom == {y \in Cases : y[3] \subseteq DOMAIN y[2]}
           f == [y \in dom |-> AcceptedCells(y[2], y[1], y[3], y[4])]
<1>1. x \in Cases
  BY DEF Cases, PeerAnswers
<1>2. x \in dom
  BY <1>1
<1>3. Accepted = f
  BY DEF Accepted
<1>4. f[x] = AcceptedCells(x[2], x[1], x[3], x[4])
  <2> HIDE DEF dom, x
  <2> QED BY <1>2
<1> HIDE DEF f, dom
<1> QED BY <1>3, <1>4

\* DasInv holds throughout.
LEMMA DasInvariant == DasSpec => []DasInv
<1>1. DasInit => DasInv
  BY DEF DasInit, DasInv
<1>2. ASSUME DasInv, [DasNext]_dasVars PROVE DasInv'
  <2> DEFINE Kept == payload' = payload /\ grid' = grid /\ missing' = missing
             Good(o) == \A i \in DOMAIN o : o[i] # {} =>
                          \E a \in PeerAnswers : a.to = i /\ o[i] = AcceptedCells(grid, payload, missing, a)
  <2>1. ASSUME Kept, asked' \subseteq Samples, answers' \subseteq PeerAnswers, Good(outcome') PROVE DasInv'
    BY <1>2, <2>1 DEF DasInv
  <2>2. asked \subseteq Samples /\ answers \subseteq PeerAnswers /\ Good(outcome)
    BY <1>2 DEF DasInv
  <2> HIDE DEF Good
  <2>3. ASSUME NEW i \in Samples, AskSample(i) PROVE DasInv'
    BY <2>1, <2>2, <2>3 DEF AskSample
  <2>4. ASSUME NEW i \in Samples, GiveUp(i) PROVE DasInv'
    <3>1. outcome' = Decide(i, {})
      BY <2>4 DEF GiveUp
    <3>2. Good(outcome')
      BY <2>2, <3>1 DEF Good, Decide
    <3> QED BY <2>1, <2>2, <2>4, <3>2 DEF GiveUp
  <2>5. ASSUME NEW i \in Samples, NEW j \in Samples, NEW guess \in Guesses, AnswerSample(i, j, guess)
        PROVE  DasInv'
    <3>1. [to |-> i, about |-> j, guess |-> guess] \in PeerAnswers
      BY DEF PeerAnswers
    <3> QED BY <2>1, <2>2, <2>5, <3>1 DEF AnswerSample
  <2>6. ASSUME NEW a \in answers, LoseAnswer(a) PROVE DasInv'
    BY <2>1, <2>2, <2>6 DEF LoseAnswer
  <2>7. ASSUME NEW a \in answers, CheckAnswer(a) PROVE DasInv'
    <3> DEFINE v == Accepted[<<payload, grid, missing, a>>]
    <3>1. a \in PeerAnswers /\ v = AcceptedCells(grid, payload, missing, a)
      BY <1>2, <2>2, AcceptedIs DEF DasInv
    <3>2. outcome' = Decide(a.to, v)
      BY <2>7 DEF CheckAnswer
    <3> HIDE DEF v
    <3>3. Good(outcome')
      BY <2>2, <3>1, <3>2 DEF Good, Decide
    <3> QED BY <2>1, <2>2, <2>7, <3>3 DEF CheckAnswer
  <2>8. CASE UNCHANGED dasVars
    BY <2>1, <2>2, <2>8 DEF dasVars
  <2> QED BY <1>2, <2>3, <2>4, <2>5, <2>6, <2>7, <2>8 DEF DasNext
<1> QED BY <1>1, <1>2, PTL DEF DasSpec

\* Whatever cells the serving peer lacks and fills with guesses, whichever
\* sample's proof it sends and whatever cell the producer overwrote: a sample
\* that verify_sample accepts showed the committed row and column, and as many
\* rows as the payload has give it back.
THEOREM SamplesAreSound == DasSpec => []SamplingSound
BY DasInvariant, InvSound, PTL

-----------------------------------------------------------------------------
(* The relay tree of net/turbine.py *)

\* The place of a peer in the order of the tree.
PlaceOf(p) == Cardinality({q \in Peers : Before(q, p)}) + 1

\* Every peer has one place.
LEMMA PeersInOrder ==
  /\ Cardinality(Peers) \in Nat /\ Cardinality(Peers) >= 1
  /\ \A i \in 1..Cardinality(Peers) : Ordered[i] \in Peers /\ PlaceOf(Ordered[i]) = i
  /\ \A p \in Peers : PlaceOf(p) \in 1..Cardinality(Peers) /\ Ordered[PlaceOf(p)] = p
<1> DEFINE N == Cardinality(Peers)
           R == {pq \in Peers \X Peers : Before(pq[1], pq[2])}
<1>1. /\ IsFiniteSet(Peers) /\ Peers # {} /\ Peers \subseteq Nat
      /\ \A p \in Peers : Score(p) \in Nat /\ TreeRank(p) \in Nat
  BY TurbineAssumption
<1>2. N \in Nat /\ N >= 1
  <2>1. N \in Nat /\ N # 0
    BY <1>1, FS_CardinalityType, FS_EmptySet
  <2> QED BY <2>1
<1>3. IsStrictOrder(R, Peers)
  <2>1. \A p \in Peers : ~ Before(p, p)
    BY <1>1 DEF Before
  <2>2. ASSUME NEW p \in Peers, NEW q \in Peers, NEW r \in Peers, Before(p, q), Before(q, r)
        PROVE  Before(p, r)
    BY <1>1, <2>2 DEF Before
  <2>3. ASSUME NEW p \in Peers, NEW q \in Peers PROVE p = q \/ Before(p, q) \/ Before(q, p)
    BY <1>1 DEF Before
  <2>4. \A p, q \in Peers : <<p, q>> \in R <=> Before(p, q)
    OBVIOUS
  <2> HIDE DEF R
  <2> QED BY <2>1, <2>2, <2>3, <2>4 DEF IsStrictOrder
<1>4. \A p \in Peers : RankIn(Peers, R, p) = Cardinality({q \in Peers : Before(q, p)})
  <2> SUFFICES ASSUME NEW p \in Peers
               PROVE  {q \in Peers : <<q, p>> \in R} = {q \in Peers : Before(q, p)}
    BY DEF RankIn
  <2> QED OBVIOUS
<1> HIDE DEF R
<1> DEFINE C(p) == Cardinality({q \in Peers : Before(q, p)})
<1>5. /\ \A i \in 1..N : \E p \in Peers : C(p) = i - 1
      /\ \A p \in Peers : C(p) \in 0..(N - 1)
      /\ \A p, q \in Peers : C(p) = C(q) => p = q
  <2>1. /\ \A i \in 1..N : \E p \in Peers : RankIn(Peers, R, p) = i - 1
        /\ \A p \in Peers : RankIn(Peers, R, p) \in 0..(N - 1)
        /\ \A p, q \in Peers : <<p, q>> \in R <=> RankIn(Peers, R, p) < RankIn(Peers, R, q)
    BY <1>1, <1>3, RanksFill
  <2> HIDE DEF C, N
  <2>2. \A p \in Peers : RankIn(Peers, R, p) = C(p)
    BY <1>4 DEF C
  <2>3. \A p, q \in Peers : C(p) = C(q) => p = q
    <3> SUFFICES ASSUME NEW p \in Peers, NEW q \in Peers, C(p) = C(q) PROVE p = q
      OBVIOUS
    <3>1. C(p) \in Nat
      BY <2>1, <2>2, <1>2
    <3>2. ~ (C(p) < C(q)) /\ ~ (C(q) < C(p))
      BY <3>1
    <3>3. <<p, q>> \notin R /\ <<q, p>> \notin R
      BY <3>2, <2>1, <2>2
    <3> QED BY <3>3, <1>3 DEF IsStrictOrder
  <2> QED BY <2>1, <2>2, <2>3
<1>6. Ordered = [i \in 1..N |-> CHOOSE p \in Peers : C(p) = i - 1]
  BY DEF Ordered
<1>7. \A p \in Peers : PlaceOf(p) = C(p) + 1
  BY DEF PlaceOf
<1> HIDE DEF C, N
<1>8. \A i \in 1..N : Ordered[i] \in Peers /\ C(Ordered[i]) = i - 1
  <2> SUFFICES ASSUME NEW i \in 1..N PROVE Ordered[i] \in Peers /\ C(Ordered[i]) = i - 1
    OBVIOUS
  <2>1. Ordered[i] = CHOOSE p \in Peers : C(p) = i - 1
    BY <1>6
  <2>2. \E p \in Peers : C(p) = i - 1
    BY <1>5
  <2> QED BY <2>1, <2>2, Zenon
<1>9. \A i \in 1..N : Ordered[i] \in Peers /\ PlaceOf(Ordered[i]) = i
  BY <1>2, <1>7, <1>8
<1>10. ASSUME NEW p \in Peers PROVE PlaceOf(p) \in 1..N /\ Ordered[PlaceOf(p)] = p
  <2>1. C(p) \in 0..(N - 1) /\ C(p) + 1 \in 1..N /\ (C(p) + 1) - 1 = C(p)
    BY <1>2, <1>5
  <2>2. Ordered[C(p) + 1] \in Peers /\ C(Ordered[C(p) + 1]) = C(p)
    BY <2>1, <1>8
  <2> QED BY <2>1, <2>2, <1>5, <1>7
<1> QED BY <1>2, <1>9, <1>10 DEF N

\* The fanout of a peer is a positive number.
LEMMA FanoutPositive ==
  ASSUME NEW p \in Peers
  PROVE  AdaptiveFanout(p) \in Nat /\ AdaptiveFanout(p) >= 1
<1>1. \A a, b \in Nat : Min({a, b}) = IF a <= b THEN a ELSE b
  <2> SUFFICES ASSUME NEW a \in Nat, NEW b \in Nat PROVE Min({a, b}) = IF a <= b THEN a ELSE b
    OBVIOUS
  <2>1. Min({a, b}) = CHOOSE x \in {a, b} : \A y \in {a, b} : x <= y
    BY DEF Min
  <2> QED BY <2>1
<1>2. MaxFanout \in Nat /\ MaxFanout >= 2
  BY TurbineAssumption
<1> QED BY <1>1, <1>2 DEF AdaptiveFanout

\* How many peers have joined after each parent.
LEMMA JoinedUnfold ==
  /\ Joined[0] = 1
  /\ \A j \in 1..Cardinality(Peers) :
       /\ Joined[j - 1] \in 1..Cardinality(Peers) /\ Joined[j] \in 1..Cardinality(Peers)
       /\ Joined[j] = IF Joined[j - 1] + AdaptiveFanout(Ordered[j]) <= Cardinality(Peers)
                      THEN Joined[j - 1] + AdaptiveFanout(Ordered[j]) ELSE Cardinality(Peers)
       /\ Joined[j - 1] = Cardinality(Peers) \/ Joined[j - 1] >= j
  /\ Joined[Cardinality(Peers)] = Cardinality(Peers)
<1> DEFINE N == Cardinality(Peers)
           A(j) == AdaptiveFanout(Ordered[j])
           Val(g, t) == IF t = 0 THEN 1 ELSE Min({g[t - 1] + A(t), N})
           Closes(g, j) == g = [t \in 0..j |-> Val(g, t)]
           Reached(j) == \E g : Closes(g, j)
           Fails == {j \in Nat : ~ Reached(j)}
<1>1. Reached(0)
  <2> DEFINE g == [t \in 0..0 |-> 1]
  <2>1. \A t \in 0..0 : Val(g, t) = 1
    OBVIOUS
  <2>2. Closes(g, 0)
    <3> HIDE DEF Val
    <3> QED BY <2>1, Zenon
  <2> QED BY <2>2
<1>2. ASSUME NEW j \in Nat, Reached(j) PROVE Reached(j + 1)
  <2> HIDE DEF N, A
  <2>1. PICK g : Closes(g, j)
    BY <1>2
  <2> DEFINE h == [t \in 0..(j + 1) |-> Val(g, t)]
  <2>2. \A t \in 0..j : t \in 0..(j + 1)
    OBVIOUS
  <2>3. \A t \in 0..j : g[t] = Val(g, t)
    <3> HIDE DEF Val
    <3> QED BY <2>1, Zenon
  <2>4. \A t \in 0..j : h[t] = g[t]
    <3> HIDE DEF Val
    <3> QED BY <2>2, <2>3, Zenon
  <2>5. \A t \in 0..(j + 1) : t # 0 => t - 1 \in 0..j
    OBVIOUS
  <2>6. \A t \in 0..(j + 1) : Val(g, t) = Val(h, t)
    <3> HIDE DEF h
    <3> QED BY <2>4, <2>5
  <2>7. Closes(h, j + 1)
    <3> HIDE DEF Val
    <3> QED BY <2>6, Zenon
  <2> HIDE DEF h
  <2> QED BY <2>7
<1>3. Fails = {}
  <2> HIDE DEF Reached
  <2>1. ASSUME Fails # {} PROVE FALSE
    <3>1. PICK j \in Fails : \A m \in Fails : j <= m
      BY <2>1, LeastNat
    <3>2. j # 0 /\ j - 1 \in Nat /\ j - 1 \notin Fails
      BY <3>1, <1>1
    <3> QED BY <3>1, <3>2, <1>2
  <2> QED BY <2>1
<1>4. N \in Nat /\ N >= 1
  BY PeersInOrder
<1>5. \E g : Closes(g, N)
  <2>1. Reached(N)
    <3> HIDE DEF Reached
    <3> QED BY <1>3, <1>4
  <2> QED BY <2>1
<1> DEFINE J == CHOOSE g : Closes(g, N)
<1>6. Closes(J, N)
  BY <1>5, Zenon
<1>7. Joined = J
  BY Zenon DEF Joined
<1> HIDE DEF J
<1>8. \A t \in 0..N : J[t] = Val(J, t)
  <2> HIDE DEF Val
  <2> QED BY <1>6, Zenon
<1>9. \A a, b \in Nat : Min({a, b}) = IF a <= b THEN a ELSE b
  <2> SUFFICES ASSUME NEW a \in Nat, NEW b \in Nat PROVE Min({a, b}) = IF a <= b THEN a ELSE b
    OBVIOUS
  <2>1. Min({a, b}) = CHOOSE x \in {a, b} : \A y \in {a, b} : x <= y
    BY DEF Min
  <2> QED BY <2>1
<1>10. \A t \in 1..N : A(t) \in Nat /\ A(t) >= 1
  BY PeersInOrder, FanoutPositive
<1> HIDE DEF N, A
<1>11. J[0] = 1
  <2>1. 0 \in 0..N
    BY <1>4
  <2>2. J[0] = Val(J, 0)
    <3> HIDE DEF Val
    <3> QED BY <2>1, <1>8
  <2> QED BY <2>2
<1>12. \A t \in 1..N : J[t] = Min({J[t - 1] + A(t), N})
  <2>1. \A t \in 1..N : t \in 0..N /\ t # 0
    BY <1>4
  <2> QED BY <2>1, <1>8
<1> DEFINE Grows(t) == J[t] \in 1..N /\ (J[t] = N \/ J[t] >= t + 1)
           Stuck == {t \in Nat : t <= N /\ ~ Grows(t)}
<1>13. Stuck = {}
  <2>1. ASSUME Stuck # {} PROVE FALSE
    <3>1. PICK t \in Stuck : \A u \in Stuck : t <= u
      BY <2>1, LeastNat
    <3>2. CASE t = 0
      BY <3>1, <3>2, <1>4, <1>11
    <3>3. CASE t # 0
      <4>1. t \in 1..N /\ t - 1 \in Nat /\ Grows(t - 1)
        BY <3>1, <3>3, <1>4
      <4>2. J[t - 1] + A(t) \in Nat /\ A(t) \in Nat /\ A(t) >= 1
        BY <4>1, <1>4, <1>10
      <4>3. J[t] = IF J[t - 1] + A(t) <= N THEN J[t - 1] + A(t) ELSE N
        <5> DEFINE a == J[t - 1] + A(t)
        <5>1. J[t] = Min({a, N})
          BY <4>1, <1>12
        <5>2. a \in Nat
          BY <4>2
        <5> HIDE DEF a
        <5>3. J[t] = IF a <= N THEN a ELSE N
          BY <5>1, <5>2, <1>4, <1>9
        <5> QED BY <5>3 DEF a
      <4>4. Grows(t)
        BY <4>1, <4>2, <4>3, <1>4
      <4> QED BY <4>4, <3>1
    <3> QED BY <3>2, <3>3
  <2> QED BY <2>1
<1>14. \A t \in 0..N : Grows(t)
  BY <1>4, <1>13
<1>15. J[N] = N
  <2>1. Grows(N)
    BY <1>4, <1>14
  <2> QED BY <2>1, <1>4
<1>16. ASSUME NEW t \in 1..N
       PROVE  /\ J[t - 1] \in 1..N /\ J[t] \in 1..N
              /\ J[t] = IF J[t - 1] + A(t) <= N THEN J[t - 1] + A(t) ELSE N
              /\ J[t - 1] = N \/ J[t - 1] >= t
  <2>1. t - 1 \in 0..N /\ t \in 0..N
    BY <1>4
  <2>2. Grows(t - 1) /\ Grows(t)
    BY <2>1, <1>14
  <2>3. J[t - 1] + A(t) \in Nat
    BY <2>2, <1>4, <1>10
  <2>4. J[t] = IF J[t - 1] + A(t) <= N THEN J[t - 1] + A(t) ELSE N
    <3> DEFINE a == J[t - 1] + A(t)
    <3>1. J[t] = Min({a, N})
      BY <1>12
    <3>2. a \in Nat
      BY <2>3
    <3> HIDE DEF a
    <3>3. J[t] = IF a <= N THEN a ELSE N
      BY <3>1, <3>2, <1>4, <1>9
    <3> QED BY <3>3 DEF a
  <2> QED BY <2>2, <2>4
<1> QED BY <1>7, <1>11, <1>15, <1>16 DEF N, A

\* A peer hangs below one that comes before it in the order.
LEMMA TreeIs ==
  /\ Root \in Peers /\ DOMAIN ParentOf = Peers \ {Root}
  /\ \A q \in Peers \ {Root} :
       /\ ParentOf[q] \in Peers
       /\ PlaceOf(ParentOf[q]) \in 1..Cardinality(Peers) /\ PlaceOf(q) \in 1..Cardinality(Peers)
       /\ PlaceOf(ParentOf[q]) < PlaceOf(q)
       /\ Joined[PlaceOf(ParentOf[q]) - 1] < PlaceOf(q)
       /\ PlaceOf(q) <= Joined[PlaceOf(ParentOf[q])]
<1> DEFINE N == Cardinality(Peers)
<1>1. /\ N \in Nat /\ N >= 1
      /\ \A i \in 1..N : Ordered[i] \in Peers /\ PlaceOf(Ordered[i]) = i
      /\ \A p \in Peers : PlaceOf(p) \in 1..N /\ Ordered[PlaceOf(p)] = p
  BY PeersInOrder
<1>2. /\ Joined[0] = 1 /\ Joined[N] = N
      /\ \A j \in 1..N : Joined[j - 1] \in 1..N /\ Joined[j] \in 1..N
                         /\ (Joined[j - 1] = N \/ Joined[j - 1] >= j)
  BY JoinedUnfold
<1> DEFINE At(q) == CHOOSE i \in 2..N : Ordered[i] = q
           Up(q) == CHOOSE j \in 1..N : Joined[j - 1] < At(q) /\ At(q) <= Joined[j]
<1>3. ParentOf = [q \in {Ordered[i] : i \in 2..Joined[N]} |-> Ordered[Up(q)]]
  BY Zenon DEF ParentOf
<1> HIDE DEF N
<1>4. Root \in Peers /\ Root = Ordered[1] /\ PlaceOf(Root) = 1
  BY <1>1 DEF Root
<1>5. {Ordered[i] : i \in 2..Joined[N]} = Peers \ {Root}
  <2>1. Joined[N] = N
    BY <1>2
  <2>2. ASSUME NEW i \in 2..N PROVE Ordered[i] \in Peers \ {Root}
    <3>1. i \in 1..N /\ i # 1
      BY <1>1
    <3> QED BY <3>1, <1>1, <1>4
  <2>3. ASSUME NEW q \in Peers \ {Root} PROVE PlaceOf(q) \in 2..N /\ Ordered[PlaceOf(q)] = q
    <3>1. PlaceOf(q) \in 1..N /\ Ordered[PlaceOf(q)] = q
      BY <1>1
    <3>2. PlaceOf(q) # 1
      BY <3>1, <1>4
    <3> QED BY <3>1, <3>2, <1>1
  <2> QED BY <2>1, <2>2, <2>3
<1>6. ASSUME NEW q \in Peers \ {Root}
      PROVE  /\ At(q) = PlaceOf(q) /\ Up(q) \in 1..N
             /\ Joined[Up(q) - 1] < PlaceOf(q) /\ PlaceOf(q) <= Joined[Up(q)] /\ Up(q) < PlaceOf(q)
  <2>1. PlaceOf(q) \in 1..N /\ Ordered[PlaceOf(q)] = q /\ PlaceOf(q) # 1
    <3>1. PlaceOf(q) \in 1..N /\ Ordered[PlaceOf(q)] = q
      BY <1>1
    <3> QED BY <3>1, <1>4
  <2> DEFINE at == PlaceOf(q)
  <2>2. at \in 2..N /\ at \in Nat
    BY <2>1, <1>1
  <2>3. At(q) = at
    <3>1. \E i \in 2..N : Ordered[i] = q
      BY <2>1, <2>2
    <3>2. At(q) \in 2..N /\ Ordered[At(q)] = q
      BY <3>1, Zenon
    <3> HIDE DEF At
    <3>3. At(q) \in 1..N
      BY <3>2, <1>1
    <3> QED BY <3>2, <3>3, <1>1
  <2> HIDE DEF at, At
  <2> DEFINE Past == {j \in Nat : j <= N /\ at <= Joined[j]}
  <2>4. PICK j \in Past : \A i \in Past : j <= i
    <3>1. N \in Past
      BY <2>2, <1>1, <1>2
    <3> QED BY <3>1, LeastNat
  <2>5. j \in 1..N /\ j - 1 \in Nat /\ j - 1 <= N /\ j - 1 \notin Past
    <3>1. j # 0
      BY <2>2, <2>4, <1>2
    <3>2. j \in Nat /\ j <= N
      BY <2>4
    <3>3. j \in 1..N /\ j - 1 \in Nat /\ j - 1 <= N /\ ~ (j <= j - 1)
      BY <3>1, <3>2, <1>1
    <3>4. j - 1 \notin Past
      <4> HIDE DEF Past
      <4> QED BY <3>3, <2>4
    <3> QED BY <3>3, <3>4
  <2>6. Joined[j - 1] < at /\ at <= Joined[j]
    <3>1. Joined[j - 1] \in Nat
      BY <2>5, <1>1, <1>2
    <3>2. ~ (at <= Joined[j - 1])
      BY <2>5
    <3> QED BY <3>1, <3>2, <2>2, <2>4
  <2>7. Up(q) \in 1..N /\ Joined[Up(q) - 1] < at /\ at <= Joined[Up(q)]
    <3>1. Up(q) = CHOOSE i \in 1..N : Joined[i - 1] < at /\ at <= Joined[i]
      BY <2>3
    <3> HIDE DEF Up
    <3> QED BY <3>1, <2>5, <2>6, Zenon
  <2> HIDE DEF Up
  <2>8. Up(q) < at
    <3>1. Joined[Up(q) - 1] \in 1..N /\ (Joined[Up(q) - 1] = N \/ Joined[Up(q) - 1] >= Up(q))
      BY <2>7, <1>2
    <3> QED BY <3>1, <2>2, <2>7, <1>1
  <2> QED BY <2>3, <2>7, <2>8 DEF at
<1> HIDE DEF At, Up
<1>7. DOMAIN ParentOf = Peers \ {Root}
  BY <1>3, <1>5
<1>8. ASSUME NEW q \in Peers \ {Root}
      PROVE  ParentOf[q] \in Peers /\ PlaceOf(ParentOf[q]) = Up(q)
  <2>1. ParentOf[q] = Ordered[Up(q)]
    BY <1>3, <1>5
  <2> QED BY <2>1, <1>1, <1>6
<1>9. ASSUME NEW q \in Peers \ {Root}
      PROVE  /\ ParentOf[q] \in Peers /\ PlaceOf(ParentOf[q]) \in 1..N /\ PlaceOf(q) \in 1..N
             /\ PlaceOf(ParentOf[q]) < PlaceOf(q)
             /\ Joined[PlaceOf(ParentOf[q]) - 1] < PlaceOf(q)
             /\ PlaceOf(q) <= Joined[PlaceOf(ParentOf[q])]
  BY <1>1, <1>6, <1>8
<1> QED BY <1>4, <1>7, <1>9 DEF N

\* No peer has more children than its fanout.
LEMMA WithinFanout ==
  ASSUME NEW p \in Peers
  PROVE  Cardinality({q \in DOMAIN ParentOf : ParentOf[q] = p}) <= AdaptiveFanout(p)
<1> DEFINE N == Cardinality(Peers)
           j == PlaceOf(p)
           below == {q \in DOMAIN ParentOf : ParentOf[q] = p}
           low == Joined[j - 1] + 1
           high == Joined[j]
           f == [q \in below |-> PlaceOf(q)]
<1>1. N \in Nat /\ j \in 1..N /\ Ordered[j] = p
  BY PeersInOrder
<1>2. /\ Joined[j - 1] \in 1..N /\ Joined[j] \in 1..N
      /\ Joined[j] = IF Joined[j - 1] + AdaptiveFanout(p) <= N
                     THEN Joined[j - 1] + AdaptiveFanout(p) ELSE N
      /\ AdaptiveFanout(p) \in Nat
  <2> HIDE DEF j
  <2>1. /\ Joined[j - 1] \in 1..N /\ Joined[j] \in 1..N
        /\ Joined[j] = IF Joined[j - 1] + AdaptiveFanout(Ordered[j]) <= N
                       THEN Joined[j - 1] + AdaptiveFanout(Ordered[j]) ELSE N
    BY <1>1, JoinedUnfold
  <2> QED BY <2>1, <1>1, FanoutPositive
<1>3. ASSUME NEW q \in below PROVE PlaceOf(q) \in low..high /\ q \in Peers
  <2>1. q \in Peers \ {Root} /\ ParentOf[q] = p
    BY TreeIs
  <2>2. PlaceOf(q) \in 1..N /\ Joined[j - 1] < PlaceOf(q) /\ PlaceOf(q) <= Joined[j]
    BY <2>1, TreeIs
  <2> HIDE DEF j, N
  <2> QED BY <2>1, <2>2, <1>1, <1>2
<1>4. f \in Injection(below, low..high)
  <2> HIDE DEF below, low, high
  <2>1. f \in [below -> low..high]
    BY <1>3
  <2>2. ASSUME NEW q \in below, NEW r \in below, f[q] = f[r] PROVE q = r
    <3>1. PlaceOf(q) = PlaceOf(r) /\ q \in Peers /\ r \in Peers
      BY <2>2, <1>3
    <3>2. Ordered[PlaceOf(q)] = q /\ Ordered[PlaceOf(r)] = r
      BY <3>1, PeersInOrder
    <3> QED BY <3>1, <3>2
  <2> HIDE DEF f
  <2> QED BY <2>1, <2>2 DEF Injection, IsInjective
<1> HIDE DEF j, f, N
<1>5. low \in Int /\ high \in Int /\ (high - low) + 1 <= AdaptiveFanout(p) /\ 0 <= AdaptiveFanout(p)
  BY <1>1, <1>2
<1> HIDE DEF low, high, below
<1>6. IsFiniteSet(low..high) /\ Cardinality(low..high) = IF low > high THEN 0 ELSE high - low + 1
  BY <1>5, FS_Interval
<1>7. IsFiniteSet(below) /\ Cardinality(below) <= Cardinality(low..high)
  BY <1>4, <1>6, FS_Injection
<1>8. Cardinality(below) \in Nat
  BY <1>7, FS_CardinalityType
<1>9. Cardinality(below) <= AdaptiveFanout(p)
  BY <1>2, <1>5, <1>6, <1>7, <1>8
<1> QED BY <1>9 DEF below

-----------------------------------------------------------------------------
(* Who the relay reaches *)

\* The way up from a peer goes by its parent.
LEMMA AncestorsAre ==
  /\ Ancestors[Root] = {}
  /\ \A q \in Peers \ {Root} :
       /\ Ancestors[q] \subseteq Peers
       /\ Ancestors[ParentOf[q]] \union {ParentOf[q]} \subseteq Ancestors[q]
       /\ \A S \in SUBSET Peers :
            ParentOf[q] \in S /\ (\A p \in S \ {Root} : ParentOf[p] \in S) => Ancestors[q] \subseteq S
<1>1. Root \in Peers /\ \A q \in Peers \ {Root} : ParentOf[q] \in Peers
  BY TreeIs
<1> DEFINE Closed(S, q) == ParentOf[q] \in S /\ \A p \in S \ {Root} : ParentOf[p] \in S
           All(q) == {a \in Peers : \A S \in SUBSET Peers : Closed(S, q) => a \in S}
<1>2. Ancestors = [q \in Peers |-> IF q = Root THEN {} ELSE All(q)]
  BY Zenon DEF Ancestors
<1>3. Ancestors[Root] = {} /\ \A q \in Peers \ {Root} : Ancestors[q] = All(q)
  <2> HIDE DEF All
  <2> QED BY <1>1, <1>2
<1>4. ASSUME NEW q \in Peers \ {Root}
      PROVE  Ancestors[ParentOf[q]] \union {ParentOf[q]} \subseteq Ancestors[q]
  <2> DEFINE p == ParentOf[q]
  <2>1. p \in Ancestors[q]
    BY <1>1, <1>3
  <2>2. CASE p = Root
    BY <2>1, <2>2, <1>3
  <2>3. CASE p # Root
    <3>1. p \in Peers \ {Root} /\ Ancestors[p] = All(p) /\ Ancestors[q] = All(q)
      BY <2>3, <1>1, <1>3
    <3>2. \A S \in SUBSET Peers : Closed(S, q) => Closed(S, p)
      BY <3>1
    <3>3. All(p) \subseteq All(q)
      <4> HIDE DEF Closed, p
      <4> QED BY <3>2
    <3> QED BY <2>1, <3>1, <3>3
  <2> QED BY <2>2, <2>3
<1>5. ASSUME NEW q \in Peers \ {Root}, NEW S \in SUBSET Peers, Closed(S, q)
      PROVE  Ancestors[q] \subseteq S
  BY <1>3, <1>5
<1>6. ASSUME NEW q \in Peers \ {Root} PROVE Ancestors[q] \subseteq Peers
  BY <1>3
<1> QED BY <1>3, <1>4, <1>5, <1>6

\* Arrivals so far: from the root down, later than at the parent.
ArrivalInv ==
  /\ dropout \in SUBSET Peers
  /\ DOMAIN arrival \subseteq Peers \ dropout
  /\ arrival = [q \in DOMAIN arrival |-> arrival[q]]
  /\ \A q \in DOMAIN arrival : arrival[q] \in Nat
  /\ Root \in dropout \/ Root \in DOMAIN arrival
  /\ \A q \in DOMAIN arrival \ {Root} :
       ParentOf[q] \in DOMAIN arrival /\ arrival[ParentOf[q]] < arrival[q]

LEMMA ArrivalReaches ==
  ASSUME ArrivalInv
  PROVE  TreeReachesLive
<1> DEFINE Here == DOMAIN arrival
           Live == {q \in Peers : (Ancestors[q] \union {q}) \intersect dropout = {}}
<1>1. /\ dropout \in SUBSET Peers /\ Here \subseteq Peers \ dropout
      /\ \A q \in Here : arrival[q] \in Nat
      /\ Root \in dropout \/ Root \in Here
      /\ \A q \in Here \ {Root} : ParentOf[q] \in Here /\ arrival[ParentOf[q]] < arrival[q]
  BY DEF ArrivalInv
<1>2. ASSUME NEW q \in Here
      PROVE  /\ (Ancestors[q] \union {q}) \intersect dropout = {}
             /\ \A a \in Ancestors[q] : a \in Here /\ arrival[a] < arrival[q]
  <2>1. CASE q = Root
    BY <2>1, <1>1, AncestorsAre
  <2>2. CASE q # Root
    <3> DEFINE S == {x \in Here : arrival[x] < arrival[q]}
    <3>1. q \in Peers \ {Root} /\ S \in SUBSET Peers /\ ParentOf[q] \in S
      BY <2>2, <1>1
    <3>2. ASSUME NEW p \in S \ {Root} PROVE ParentOf[p] \in S
      <4>1. ParentOf[p] \in Here /\ arrival[ParentOf[p]] < arrival[p] /\ arrival[p] < arrival[q]
        BY <1>1
      <4>2. arrival[ParentOf[p]] \in Nat /\ arrival[p] \in Nat /\ arrival[q] \in Nat
        BY <4>1, <1>1
      <4> QED BY <4>1, <4>2
    <3>3. Ancestors[q] \subseteq S
      <4> HIDE DEF S
      <4> QED BY <3>1, <3>2, AncestorsAre
    <3> QED BY <3>3, <1>1
  <2> QED BY <2>1, <2>2
<1>3. ASSUME \A q \in DOMAIN ParentOf \ Here : q \in dropout \/ ParentOf[q] \notin Here
      PROVE  Here = Live
  <2>1. Here \subseteq Live
    BY <1>1, <1>2
  <2> DEFINE Places == {PlaceOf(q) : q \in Live \ Here}
  <2>2. ASSUME Live \ Here # {} PROVE FALSE
    <3>1. Places \subseteq Nat /\ Places # {}
      <4>1. \A q \in Peers : PlaceOf(q) \in Nat
        BY PeersInOrder
      <4> HIDE DEF Here
      <4> QED BY <2>2, <4>1
    <3>2. PICK n \in Places : \A m \in Places : n <= m
      BY <3>1, LeastNat
    <3>3. PICK q \in Live \ Here : n = PlaceOf(q)
      BY <3>2
    <3>4. q \in Peers \ {Root} /\ q \notin dropout
      BY <3>3, <1>1
    <3> DEFINE p == ParentOf[q]
    <3>5. p \in Peers /\ PlaceOf(p) < PlaceOf(q) /\ PlaceOf(p) \in Nat /\ PlaceOf(q) \in Nat
          /\ q \in DOMAIN ParentOf
      <4>1. /\ q \in DOMAIN ParentOf /\ p \in Peers /\ PlaceOf(p) < PlaceOf(q)
            /\ PlaceOf(p) \in 1..Cardinality(Peers) /\ PlaceOf(q) \in 1..Cardinality(Peers)
        BY <3>4, TreeIs
      <4> QED BY <4>1
    <3>6. p \notin Here
      BY <3>3, <3>4, <3>5, <1>3
    <3>7. Ancestors[p] \union {p} \subseteq Ancestors[q]
      BY <3>4, AncestorsAre
    <3>8. p \in Live
      BY <3>3, <3>5, <3>7
    <3> HIDE DEF p, Live, Here
    <3>9. PlaceOf(p) \in Places
      BY <3>6, <3>8
    <3> QED BY <3>2, <3>3, <3>5, <3>9
  <2> QED BY <2>1, <2>2
<1>4. DOMAIN ParentOf = Peers \ {Root}
  BY TreeIs
<1>5. \A p \in Peers : Cardinality({q \in DOMAIN ParentOf : ParentOf[q] = p}) <= AdaptiveFanout(p)
  BY WithinFanout
<1> QED BY <1>2, <1>3, <1>4, <1>5 DEF TreeReachesLive

-----------------------------------------------------------------------------
(* What the chunks decode to *)

\* The number of chunks, and of symbols in each.
LEMMA ShardsAre ==
  /\ DataShards \in Nat /\ DataShards >= 1 /\ ParityShards \in Nat /\ P \in Nat /\ P >= 1
  /\ IsFiniteSet(ChunkIndexes) /\ Cardinality(ChunkIndexes) = DataShards + ParityShards
  /\ \A n \in Nat : ShardSize(n) \in Nat /\ ShardSize(n) >= 1 /\ n <= DataShards * ShardSize(n)
<1>1. DataShards \in Nat /\ DataShards >= 1 /\ ParityShards \in Nat /\ P \in Nat /\ P >= 1
  BY TurbineAssumption
<1>2. IsFiniteSet(ChunkIndexes) /\ Cardinality(ChunkIndexes) = DataShards + ParityShards
  <2> DEFINE n == DataShards + ParityShards
  <2>1. n \in Nat /\ 0 \in Int /\ n - 1 \in Int /\ ~ (0 > n - 1) /\ (n - 1) - 0 + 1 = n
    BY <1>1
  <2>2. ChunkIndexes = 0..(n - 1)
    BY <1>1 DEF ChunkIndexes
  <2> HIDE DEF n
  <2>3. IsFiniteSet(0..(n - 1)) /\ Cardinality(0..(n - 1)) = n
    BY <2>1, FS_Interval
  <2> QED BY <2>2, <2>3 DEF n
<1>3. ASSUME NEW n \in Nat
      PROVE  ShardSize(n) \in Nat /\ ShardSize(n) >= 1 /\ n <= DataShards * ShardSize(n)
  <2> DEFINE k == DataShards
             a == (n + k - 1) \div k
  <2> HIDE DEF k
  <2>1. k \in Nat /\ k >= 1
    BY <1>1 DEF k
  <2>2. a \in Int /\ n + k - 1 = k * a + ((n + k - 1) % k) /\ (n + k - 1) % k \in 0..(k - 1)
    BY <2>1
  <2>3. ShardSize(n) = Max({1, a})
    BY DEF ShardSize, k
  <2> HIDE DEF a
  <2>4. n <= k * a
    BY <2>1, <2>2
  <2>5. Max({1, a}) = CHOOSE x \in {1, a} : \A y \in {1, a} : x >= y
    BY DEF Max
  <2>6. Max({1, a}) = IF a >= 1 THEN a ELSE 1
    BY <2>2, <2>5
  <2>7. CASE a >= 1
    BY <2>2, <2>3, <2>4, <2>6, <2>7 DEF k
  <2>8. CASE ~ (a >= 1)
    <3>1. k * a <= 0
      BY <2>1, <2>2, <2>8
    <3>2. n <= k * 1
      BY <3>1, <2>1, <2>2, <2>4
    <3> QED BY <3>2, <2>3, <2>6, <2>8 DEF k
  <2> QED BY <2>7, <2>8
<1> QED BY <1>1, <1>2, <1>3

\* The words that are encoded are over the symbols of the field.
LEMMA WordsAre ==
  ASSUME NEW p \in Seq(Symbols), NEW o \in Nat \ {0}
  PROVE  DataWord(p, o) \in [0..(DataShards - 1) -> Symbols]
<1> DEFINE size == ShardSize(Len(p))
           V(s) == IF s * size + o <= Len(p) THEN p[s * size + o] ELSE 0
<1>1. Len(p) \in Nat /\ size \in Nat /\ DataShards \in Nat /\ P \in Nat /\ P >= 1
  BY ShardsAre
<1>2. DataWord(p, o) = [s \in 0..(DataShards - 1) |-> V(s)]
  BY DEF DataWord
<1> HIDE DEF size
<1>3. ASSUME NEW s \in 0..(DataShards - 1) PROVE V(s) \in Symbols
  <2>1. 0 \in Symbols
    BY <1>1 DEF Symbols
  <2> DEFINE at == s * size + o
  <2>2. at \in Nat /\ at >= 1
    <3>1. s * size \in Nat
      BY <1>1
    <3> QED BY <3>1
  <2> HIDE DEF at
  <2>3. at <= Len(p) => p[at] \in Symbols
    <3>1. at <= Len(p) => at \in 1..Len(p)
      BY <1>1, <2>2
    <3> QED BY <3>1
  <2> QED BY <2>1, <2>3 DEF at
<1> HIDE DEF V
<1> QED BY <1>2, <1>3

\* The place of a symbol in the words is its place in the payload.
LEMMA PlaceInWord ==
  ASSUME NEW p \in Seq(Symbols), NEW n \in 1..Len(p)
  PROVE  LET size == ShardSize(Len(p))
         IN  /\ (n - 1) \div size \in 0..(DataShards - 1)
             /\ ((n - 1) % size) + 1 \in 1..size
             /\ DataWord(p, ((n - 1) % size) + 1)[(n - 1) \div size] = p[n]
<1> DEFINE size == ShardSize(Len(p))
           i == n - 1
           s == i \div size
           o == i % size
<1>1. /\ Len(p) \in Nat /\ size \in Nat /\ size >= 1 /\ DataShards \in Nat
      /\ Len(p) <= DataShards * size
  BY ShardsAre
<1> HIDE DEF size
<1>2. i \in Nat /\ i < DataShards * size
  <2> DEFINE m == DataShards * size
  <2>1. m \in Nat /\ Len(p) <= m
    BY <1>1
  <2> HIDE DEF m
  <2>2. i \in Nat /\ i < m
    BY <1>1, <2>1
  <2> QED BY <2>2 DEF m
<1>3. n = i + 1
  OBVIOUS
<1> HIDE DEF i
<1>4. s \in 0..(DataShards - 1) /\ o \in 0..(size - 1) /\ s * size + o = i
  BY <1>1, <1>2, RowAndColumn
<1> HIDE DEF s, o
<1>5. o + 1 \in 1..size /\ s * size + (o + 1) = n
  <2>1. s * size \in Int
    BY <1>1, <1>4
  <2> QED BY <2>1, <1>1, <1>3, <1>4
<1>6. DataWord(p, o + 1)[s] = IF s * size + (o + 1) <= Len(p) THEN p[s * size + (o + 1)] ELSE 0
  BY <1>4 DEF DataWord, size
<1>7. DataWord(p, o + 1)[s] = p[n]
  BY <1>1, <1>5, <1>6
<1> QED BY <1>4, <1>5, <1>7 DEF s, o, i, size

\* A chunk of a payload.
LEMMA ChunksAre ==
  ASSUME NEW p \in Seq(Symbols)
  PROVE  /\ \A c \in EncodeChunks(p) :
              /\ c.index \in ChunkIndexes /\ c.length = Len(p)
              /\ \A o \in 1..ShardSize(Len(p)) :
                   c.data[o] = RSEncode(DataWord(p, o), DataShards + ParityShards)[c.index]
         /\ \A c, d \in EncodeChunks(p) : c.index = d.index => c = d
         /\ \A i \in ChunkIndexes : \E c \in EncodeChunks(p) : c.index = i
<1> DEFINE size == ShardSize(Len(p))
           W(o) == RSEncode(DataWord(p, o), DataShards + ParityShards)
           words == [o \in 1..size |-> W(o)]
           D(i) == [o \in 1..size |-> words[o][i]]
           C(i) == [index |-> i, length |-> Len(p), data |-> D(i) \o <<>>]
<1>1. EncodeChunks(p) = {C(i) : i \in ChunkIndexes}
  BY Zenon DEF EncodeChunks
<1>2. size \in Nat
  BY ShardsAre
<1> HIDE DEF size, W
<1>3. \A o \in 1..size : words[o] = W(o)
  OBVIOUS
<1> HIDE DEF words
<1>4. ASSUME NEW i \in ChunkIndexes
      PROVE  D(i) \o <<>> = D(i) /\ \A o \in 1..size : D(i)[o] = W(o)[i]
  <2> DEFINE f == D(i)
  <2>1. f = [o \in 1..size |-> f[o]] /\ \A o \in 1..size : f[o] = words[o][i]
    BY Zenon
  <2> HIDE DEF f
  <2>2. f \o <<>> = f
    BY <2>1, <1>2, WrittenOut
  <2> QED BY <2>1, <2>2, <1>3 DEF f
<1> HIDE DEF D
<1>5. \A i \in ChunkIndexes : C(i).index = i /\ C(i).length = Len(p) /\ C(i).data = D(i)
  BY <1>4
<1> HIDE DEF C
<1> QED BY <1>1, <1>4, <1>5 DEF W, size

\* A codeword holds its data.
LEMMA Systematic ==
  ASSUME NEW data \in [0..(DataShards - 1) -> Symbols]
  PROVE  \A s \in 0..(DataShards - 1) : RSEncode(data, DataShards + ParityShards)[s] = data[s]
<1> DEFINE n == DataShards + ParityShards
<1>1. \A s \in 0..(DataShards - 1) : s \in 0..(n - 1)
  BY ShardsAre
<1> HIDE DEF n
<1>2. \A s \in 0..(n - 1) : RSEncode(data, n)[s] = IF s \in DOMAIN data THEN data[s] ELSE Interpolate(data, s)
  BY DEF RSEncode
<1> QED BY <1>1, <1>2 DEF n

\* Codewords that agree in as many symbols as there is data are one.
LEMMA CodewordsAgree ==
  ASSUME NEW a \in [0..(DataShards - 1) -> Symbols], NEW b \in [0..(DataShards - 1) -> Symbols],
         NEW S \in SUBSET ChunkIndexes, Cardinality(S) >= DataShards,
         \A i \in S : RSEncode(a, DataShards + ParityShards)[i] = RSEncode(b, DataShards + ParityShards)[i]
  PROVE  a = b
<1> DEFINE n == DataShards + ParityShards
<1>1. AnyDetermine(DataShards, n) /\ ChunkIndexes = 0..(n - 1)
  <2>1. AnyDetermine(DataShards, n)
    BY TurbineAssumption
  <2>2. DataShards \in Nat /\ ParityShards \in Nat
    BY ShardsAre
  <2>3. ChunkIndexes = 0..(n - 1)
    BY <2>2 DEF ChunkIndexes
  <2> QED BY <2>1, <2>3
<1> HIDE DEF n
<1>2. /\ \A x \in 0..(n - 1) : Interpolate([i \in S |-> RSEncode(a, n)[i]], x) = RSEncode(a, n)[x]
      /\ \A x \in 0..(n - 1) : Interpolate([i \in S |-> RSEncode(b, n)[i]], x) = RSEncode(b, n)[x]
  BY <1>1 DEF AnyDetermine
<1>3. [i \in S |-> RSEncode(a, n)[i]] = [i \in S |-> RSEncode(b, n)[i]]
  BY DEF n
<1>4. \A x \in 0..(n - 1) : RSEncode(a, n)[x] = RSEncode(b, n)[x]
  BY <1>2, <1>3
<1>5. \A s \in 0..(DataShards - 1) : s \in 0..(n - 1)
  BY ShardsAre DEF n
<1>6. \A s \in 0..(DataShards - 1) : a[s] = b[s]
  BY <1>4, <1>5, Systematic DEF n
<1>7. a = [s \in 0..(DataShards - 1) |-> a[s]] /\ b = [s \in 0..(DataShards - 1) |-> b[s]]
  OBVIOUS
<1> QED BY <1>6, <1>7, Zenon

\* Chunks have as many indexes as there are of them.
LEMMA IndexesCount ==
  ASSUME NEW G, \A c \in G : c.index \in ChunkIndexes, \A c, d \in G : c.index = d.index => c = d
  PROVE  /\ {c.index : c \in G} \in SUBSET ChunkIndexes
         /\ Cardinality({c.index : c \in G}) \in Nat /\ Cardinality(G) \in Nat
         /\ Cardinality(G) <= Cardinality({c.index : c \in G})
<1> DEFINE S == {c.index : c \in G}
           f == [c \in G |-> c.index]
<1>1. S \in SUBSET ChunkIndexes
  OBVIOUS
<1>2. IsFiniteSet(S)
  BY <1>1, ShardsAre, FS_Subset
<1>3. f \in Injection(G, S)
  <2>1. f \in [G -> S] /\ \A c, d \in G : f[c] = f[d] => c = d
    OBVIOUS
  <2> HIDE DEF f, S
  <2> QED BY <2>1 DEF Injection, IsInjective
<1> HIDE DEF f, S
<1>4. IsFiniteSet(G) /\ Cardinality(G) <= Cardinality(S)
  BY <1>2, <1>3, FS_Injection
<1> QED BY <1>1, <1>2, <1>4, FS_CardinalityType DEF S

\* Payloads of one length that have as many chunks in common as there are data
\* shards are one payload.
LEMMA PayloadDetermined ==
  ASSUME NEW p \in Seq(Symbols), NEW q \in Seq(Symbols), Len(p) = Len(q),
         NEW G, G \subseteq EncodeChunks(p), G \subseteq EncodeChunks(q), Cardinality(G) >= DataShards
  PROVE  p = q
<1> DEFINE size == ShardSize(Len(p))
           S == {c.index : c \in G}
           n == DataShards + ParityShards
<1>1. /\ \A c \in EncodeChunks(p) : /\ c.index \in ChunkIndexes
                                    /\ \A o \in 1..size : c.data[o] = RSEncode(DataWord(p, o), n)[c.index]
      /\ \A c, d \in EncodeChunks(p) : c.index = d.index => c = d
      /\ \A c \in EncodeChunks(q) :
            \A o \in 1..size : c.data[o] = RSEncode(DataWord(q, o), n)[c.index]
  BY ChunksAre
<1>2. S \in SUBSET ChunkIndexes /\ Cardinality(S) >= DataShards
  <2>1. (\A c \in G : c.index \in ChunkIndexes) /\ \A c, d \in G : c.index = d.index => c = d
    BY <1>1
  <2>2. /\ S \in SUBSET ChunkIndexes /\ Cardinality(S) \in Nat /\ Cardinality(G) \in Nat
        /\ Cardinality(G) <= Cardinality(S)
    BY <2>1, IndexesCount
  <2>3. DataShards \in Nat
    BY ShardsAre
  <2> HIDE DEF S
  <2> QED BY <2>2, <2>3
<1>3. size \in Nat /\ Len(p) \in Nat
  BY ShardsAre
<1> HIDE DEF n, size
<1>4. ASSUME NEW o \in 1..size PROVE DataWord(p, o) = DataWord(q, o)
  <2>1. \A i \in S : RSEncode(DataWord(p, o), n)[i] = RSEncode(DataWord(q, o), n)[i]
    BY <1>1
  <2>2. o \in Nat \ {0}
    BY <1>3
  <2>3. /\ DataWord(p, o) \in [0..(DataShards - 1) -> Symbols]
        /\ DataWord(q, o) \in [0..(DataShards - 1) -> Symbols]
    BY <2>2, WordsAre
  <2> HIDE DEF S
  <2> QED BY <2>1, <2>3, <1>2, CodewordsAgree DEF n
<1>5. ASSUME NEW m \in 1..Len(p) PROVE p[m] = q[m]
  <2> DEFINE s == (m - 1) \div size
             o == ((m - 1) % size) + 1
  <2>1. o \in 1..size /\ DataWord(p, o)[s] = p[m]
    BY PlaceInWord DEF size
  <2>2. DataWord(q, o)[s] = q[m]
    BY PlaceInWord DEF size
  <2> HIDE DEF o, s
  <2> QED BY <2>1, <2>2, <1>4
<1> QED BY <1>3, <1>5, SeqEqual

\* A word with no symbol altered and enough of them decodes, and only to itself.
LEMMA DecodesWord ==
  ASSUME NEW a \in [0..(DataShards - 1) -> Symbols],
         NEW S \in SUBSET ChunkIndexes, Cardinality(S) >= DataShards,
         NEW w, w = [i \in S |-> RSEncode(a, DataShards + ParityShards)[i]]
  PROVE  RSDecode(w) = {RSEncode(a, DataShards + ParityShards)}
<1> DEFINE n == DataShards + ParityShards
           Wrong(c) == {i \in DOMAIN w : c[i] # w[i]}
           lost == Cardinality(ChunkIndexes \ DOMAIN w)
<1>1. /\ DataShards \in Nat /\ ParityShards \in Nat /\ n \in Nat
      /\ IsFiniteSet(ChunkIndexes) /\ Cardinality(ChunkIndexes) = n
  <2>1. /\ DataShards \in Nat /\ ParityShards \in Nat
        /\ IsFiniteSet(ChunkIndexes) /\ Cardinality(ChunkIndexes) = n
    BY ShardsAre
  <2> QED BY <2>1
<1>2. n = DataShards + ParityShards
  OBVIOUS
<1>3. Codewords = {RSEncode(d, n) : d \in [0..(DataShards - 1) -> Symbols]}
  BY DEF Codewords
<1>4. RSDecode(w) = {c \in Codewords : 2 * Cardinality(Wrong(c)) + lost <= ParityShards}
  BY DEF RSDecode
<1>5. DOMAIN w = S /\ \A i \in S : w[i] = RSEncode(a, n)[i]
  OBVIOUS
<1> HIDE DEF n
<1>6. IsFiniteSet(S) /\ Cardinality(S) \in Nat
  BY <1>1, FS_Subset, FS_CardinalityType
<1>7. lost = n - Cardinality(S)
  <2>1. ChunkIndexes \intersect S = S
    OBVIOUS
  <2>2. Cardinality(ChunkIndexes \ S) = Cardinality(ChunkIndexes) - Cardinality(ChunkIndexes \intersect S)
    BY <1>1, FS_Difference
  <2> QED BY <2>1, <2>2, <1>1, <1>5
<1> HIDE DEF lost
<1>8. RSEncode(a, n) \in RSDecode(w)
  <2>1. RSEncode(a, n) \in Codewords
    BY <1>3
  <2>2. Wrong(RSEncode(a, n)) = {}
    BY <1>5
  <2> HIDE DEF Wrong
  <2>3. Cardinality(Wrong(RSEncode(a, n))) = 0
    BY <2>2, FS_EmptySet
  <2>4. 2 * Cardinality(Wrong(RSEncode(a, n))) + lost <= ParityShards
    BY <2>3, <1>1, <1>2, <1>6, <1>7
  <2> QED BY <2>1, <2>4, <1>4
<1>9. ASSUME NEW c \in RSDecode(w) PROVE c = RSEncode(a, n)
  <2>1. PICK b \in [0..(DataShards - 1) -> Symbols] : c = RSEncode(b, n)
    BY <1>3, <1>4
  <2> DEFINE bad == Wrong(c)
             T == S \ bad
  <2>2. bad \subseteq S /\ S \intersect bad = bad
    BY <1>5
  <2>3. 2 * Cardinality(bad) + lost <= ParityShards
    <3> HIDE DEF Wrong
    <3> QED BY <1>4
  <2>4. \A i \in T : RSEncode(a, n)[i] = RSEncode(b, n)[i]
    BY <2>1, <1>5
  <2> HIDE DEF bad
  <2>5. IsFiniteSet(bad) /\ Cardinality(bad) \in Nat
    BY <2>2, <1>6, FS_Subset, FS_CardinalityType
  <2>6. Cardinality(T) = Cardinality(S) - Cardinality(bad)
    BY <2>2, <1>6, FS_Difference
  <2>7. Cardinality(T) >= DataShards
    BY <2>3, <2>5, <2>6, <1>1, <1>2, <1>6, <1>7
  <2>8. T \in SUBSET ChunkIndexes
    OBVIOUS
  <2> HIDE DEF T
  <2>9. a = b
    BY <2>4, <2>7, <2>8, CodewordsAgree DEF n
  <2> QED BY <2>1, <2>9
<1> QED BY <1>8, <1>9 DEF n

\* Where a symbol of a payload of this length stands.
LEMMA PlaceBounds ==
  ASSUME NEW L \in Nat, NEW n \in 1..L
  PROVE  /\ (n - 1) \div ShardSize(L) \in 0..(DataShards - 1)
         /\ ((n - 1) % ShardSize(L)) + 1 \in 1..ShardSize(L)
<1> DEFINE size == ShardSize(L)
           m == DataShards * size
           i == n - 1
<1>1. size \in Nat /\ size >= 1 /\ DataShards \in Nat /\ L <= m
  BY ShardsAre
<1> HIDE DEF size
<1>2. m \in Nat
  BY <1>1
<1>3. i \in Nat /\ i < m
  <2> HIDE DEF m
  <2> QED BY <1>1, <1>2
<1> HIDE DEF i
<1>4. i \div size \in 0..(DataShards - 1) /\ i % size \in 0..(size - 1)
  BY <1>1, <1>3, RowAndColumn
<1> DEFINE o == i % size
<1> HIDE DEF o
<1>5. o + 1 \in 1..size
  BY <1>1, <1>4 DEF o
<1> QED BY <1>4, <1>5 DEF o, i, size

\* What decode_payload recovers is a payload of the length the chunks give.
LEMMA RecoveredShape ==
  ASSUME NEW chunks, NEW L \in Nat, \A c \in chunks : c.length = L, NEW p \in Recovered(chunks)
  PROVE  p \in Seq(Symbols) /\ Len(p) = L
<1> DEFINE length  == (CHOOSE c \in chunks : TRUE).length
           size    == ShardSize(length)
           word(o) == [i \in {c.index : c \in chunks} |-> (CHOOSE c \in chunks : c.index = i).data[o]]
           full(o) == CHOOSE w \in RSDecode(word(o)) : TRUE
           F       == [n \in 1..length |-> full(((n - 1) % size) + 1)[(n - 1) \div size]]
           Cond    == /\ Cardinality(chunks) >= DataShards
                      /\ \A c, d \in chunks : c.length = d.length /\ (c.index = d.index => c = d)
                      /\ \A o \in 1..size : RSDecode(word(o)) # {}
<1>1. Recovered(chunks) = IF Cond THEN {F \o <<>>} ELSE {}
  BY Zenon DEF Recovered
<1>2. Cond /\ p = F \o <<>>
  <2> HIDE DEF Cond, F
  <2> QED BY <1>1
<1>3. chunks # {}
  <2>1. Cardinality(chunks) >= DataShards
    BY <1>2
  <2>2. DataShards \in Nat /\ DataShards >= 1
    BY ShardsAre
  <2>3. Cardinality({}) = 0
    BY FS_EmptySet
  <2> QED BY <2>1, <2>2, <2>3
<1>4. length = L
  <2>1. (CHOOSE c \in chunks : TRUE) \in chunks
    BY <1>3, Zenon
  <2> QED BY <2>1
<1>5. \A o \in 1..size : RSDecode(word(o)) # {}
  BY <1>2, Zenon
<1> HIDE DEF word
<1>6. \A o \in 1..size : full(o) \in Codewords
  BY <1>5 DEF RSDecode
<1> HIDE DEF full, length
<1>7. ASSUME NEW n \in 1..L PROVE F[n] \in Symbols
  <2> DEFINE s == (n - 1) \div size
             o == ((n - 1) % size) + 1
  <2>1. s \in 0..(DataShards - 1) /\ o \in 1..size
    BY <1>4, PlaceBounds
  <2>2. F[n] = full(o)[s]
    BY <1>4
  <2> HIDE DEF s, o, F, size
  <2>3. PICK d \in [0..(DataShards - 1) -> Symbols] : full(o) = RSEncode(d, DataShards + ParityShards)
    BY <2>1, <1>6 DEF Codewords
  <2>4. full(o)[s] = d[s]
    BY <2>1, <2>3, Systematic
  <2> QED BY <2>1, <2>2, <2>4
<1>8. F = [n \in 1..L |-> F[n]]
  BY <1>4, Zenon
<1> HIDE DEF F
<1>9. p = F /\ F \in [1..L -> Symbols]
  <2>1. F \o <<>> = F
    BY <1>8, WrittenOut
  <2> QED BY <2>1, <1>2, <1>7, <1>8
<1> QED BY <1>9

\* Enough chunks of a payload, none of them altered, give it back.
LEMMA GenuineRecovers ==
  ASSUME NEW p \in Seq(Symbols), NEW B, B \subseteq EncodeChunks(p), Cardinality(B) >= DataShards
  PROVE  Recovered(B) = {p}
<1> DEFINE length  == (CHOOSE c \in B : TRUE).length
           size    == ShardSize(length)
           S       == {c.index : c \in B}
           word(o) == [i \in S |-> (CHOOSE c \in B : c.index = i).data[o]]
           full(o) == CHOOSE w \in RSDecode(word(o)) : TRUE
           F       == [n \in 1..length |-> full(((n - 1) % size) + 1)[(n - 1) \div size]]
           Cond    == /\ Cardinality(B) >= DataShards
                      /\ \A c, d \in B : c.length = d.length /\ (c.index = d.index => c = d)
                      /\ \A o \in 1..size : RSDecode(word(o)) # {}
           N       == DataShards + ParityShards
           W(o)    == RSEncode(DataWord(p, o), N)
<1>1. Recovered(B) = IF Cond THEN {F \o <<>>} ELSE {}
  BY Zenon DEF Recovered
<1>2. /\ \A c \in B : /\ c.index \in ChunkIndexes /\ c.length = Len(p)
                      /\ \A o \in 1..ShardSize(Len(p)) : c.data[o] = W(o)[c.index]
      /\ \A c, d \in B : c.index = d.index => c = d
  BY ChunksAre
<1>3. B # {}
  <2>1. DataShards \in Nat /\ DataShards >= 1
    BY ShardsAre
  <2>2. Cardinality(B) # 0
    BY <2>1
  <2>3. Cardinality({}) = 0
    BY FS_EmptySet
  <2> QED BY <2>2, <2>3, Zenon
<1>4. length = Len(p)
  <2>1. (CHOOSE c \in B : TRUE) \in B
    BY <1>3, Zenon
  <2> QED BY <2>1, <1>2
<1>5. S \in SUBSET ChunkIndexes /\ Cardinality(S) >= DataShards
  <2>1. /\ S \in SUBSET ChunkIndexes /\ Cardinality(S) \in Nat /\ Cardinality(B) \in Nat
        /\ Cardinality(B) <= Cardinality(S)
    BY <1>2, IndexesCount
  <2>2. DataShards \in Nat
    BY ShardsAre
  <2> HIDE DEF S
  <2> QED BY <2>1, <2>2
<1> HIDE DEF W, length
<1>6. Len(p) \in Nat /\ size \in Nat
  <2>1. Len(p) \in Nat
    OBVIOUS
  <2>2. ShardSize(Len(p)) \in Nat
    BY <2>1, ShardsAre
  <2> QED BY <2>1, <2>2, <1>4
<1>7. ASSUME NEW o \in 1..size PROVE word(o) = [i \in S |-> W(o)[i]]
  <2>1. ASSUME NEW i \in S PROVE (CHOOSE c \in B : c.index = i).data[o] = W(o)[i]
    <3> DEFINE c == CHOOSE c \in B : c.index = i
    <3>1. \E x \in B : x.index = i
      OBVIOUS
    <3>2. c \in B /\ c.index = i
      BY <3>1, Zenon
    <3> HIDE DEF c
    <3>3. c.data[o] = W(o)[i]
      BY <3>2, <1>2, <1>4
    <3> QED BY <3>3 DEF c
  <2> HIDE DEF S
  <2> QED BY <2>1
<1>8. ASSUME NEW o \in 1..size PROVE RSDecode(word(o)) = {W(o)} /\ full(o) = W(o)
  <2>1. o \in Nat \ {0}
    BY <1>6
  <2>2. DataWord(p, o) \in [0..(DataShards - 1) -> Symbols]
    BY <2>1, WordsAre
  <2>3. word(o) = [i \in S |-> RSEncode(DataWord(p, o), N)[i]]
    BY <1>7 DEF W
  <2> HIDE DEF S, word
  <2>4. RSDecode(word(o)) = {W(o)}
    BY <2>2, <2>3, <1>5, DecodesWord DEF W, N
  <2> QED BY <2>4
<1> HIDE DEF S, word
<1>9. Cond
  <2>1. \A o \in 1..size : RSDecode(word(o)) # {}
    BY <1>8
  <2>2. \A c, d \in B : c.length = d.length /\ (c.index = d.index => c = d)
    BY <1>2
  <2> QED BY <2>1, <2>2
<1> HIDE DEF full
<1>10. ASSUME NEW n \in 1..Len(p) PROVE F[n] = p[n]
  <2> DEFINE s == (n - 1) \div size
             o == ((n - 1) % size) + 1
  <2>1. s \in 0..(DataShards - 1) /\ o \in 1..size /\ DataWord(p, o)[s] = p[n]
    BY <1>4, PlaceInWord
  <2>2. F[n] = full(o)[s]
    BY <1>4
  <2> HIDE DEF s, o, F
  <2>3. full(o) = W(o)
    BY <2>1, <1>8
  <2>4. o \in Nat \ {0}
    BY <2>1, <1>6
  <2> HIDE DEF size
  <2>5. DataWord(p, o) \in [0..(DataShards - 1) -> Symbols]
    BY <2>4, WordsAre
  <2>6. W(o)[s] = DataWord(p, o)[s]
    BY <2>1, <2>5, Systematic DEF W, N
  <2> QED BY <2>1, <2>2, <2>3, <2>6
<1>11. F = [n \in 1..Len(p) |-> F[n]]
  BY <1>4, Zenon
<1> HIDE DEF F, Cond
<1>12. p = [n \in 1..Len(p) |-> p[n]]
  OBVIOUS
<1>13. F = p
  BY <1>10, <1>11, <1>12, Zenon
<1>14. F \o <<>> = F
  BY <1>6, <1>11, WrittenOut
<1> QED BY <1>1, <1>9, <1>13, <1>14

\* The chunks collected give the length of the payload sent.
BoxInv ==
  /\ relayed \in RelayPayloads
  /\ \A c \in box : c.length = Len(relayed)

LEMMA BoxDecodes ==
  ASSUME BoxInv
  PROVE  DecodesOrRefuses
<1> SUFFICES ASSUME Cardinality(Genuine) >= DataShards
             PROVE  DecodeChunks(box) = IF box = Genuine THEN {relayed} ELSE {}
  BY DEF DecodesOrRefuses
<1>1. relayed \in Seq(Symbols) /\ Len(relayed) \in Nat
  BY TurbineAssumption DEF BoxInv
<1>2. Genuine \subseteq box /\ Genuine \subseteq EncodeChunks(relayed)
  BY DEF Genuine
<1>3. ASSUME NEW p \in DecodeChunks(box) PROVE p = relayed /\ box = Genuine
  <2>1. p \in Recovered(box) /\ box \subseteq EncodeChunks(p)
    BY DEF DecodeChunks
  <2>2. p \in Seq(Symbols) /\ Len(p) = Len(relayed)
    BY <2>1, <1>1, RecoveredShape DEF BoxInv
  <2>3. Genuine \subseteq EncodeChunks(p)
    BY <2>1, <1>2
  <2>4. p = relayed
    BY <2>2, <2>3, <1>1, <1>2, PayloadDetermined
  <2> QED BY <2>1, <2>4 DEF Genuine
<1>4. CASE box = Genuine
  <2>1. box \subseteq EncodeChunks(relayed) /\ Cardinality(box) >= DataShards
    BY <1>2, <1>4
  <2>2. Recovered(box) = {relayed}
    BY <2>1, <1>1, GenuineRecovers
  <2>3. relayed \in DecodeChunks(box)
    BY <2>1, <2>2 DEF DecodeChunks
  <2> QED BY <2>3, <1>3, <1>4
<1>5. CASE box # Genuine
  BY <1>3, <1>5
<1> QED BY <1>4, <1>5

-----------------------------------------------------------------------------
(* The relay *)

RelayInv == ArrivalInv /\ BoxInv

LEMMA RelayStarts == TurbineInit => RelayInv
<1> SUFFICES ASSUME TurbineInit PROVE RelayInv
  OBVIOUS
<1>1. Root \in Peers
  BY TreeIs
<1>2. DOMAIN arrival = {Root} \ dropout /\ \A q \in {Root} \ dropout : arrival[q] = 0
  BY DEF TurbineInit
<1>3. arrival = [q \in DOMAIN arrival |-> arrival[q]]
  BY <1>2 DEF TurbineInit
<1>4. ArrivalInv
  BY <1>1, <1>2, <1>3 DEF TurbineInit, ArrivalInv
<1> QED BY <1>4 DEF TurbineInit, RelayInv, BoxInv

\* An edge takes time.
LEMMA EdgeTakesTime ==
  ASSUME NEW p \in Peers, NEW q \in Peers
  PROVE  EdgeLatency(p, q) \in Nat /\ EdgeLatency(p, q) >= 1
<1> DEFINE a == (Latency(p) + Latency(q)) \div 2 + 1
<1>1. a \in Nat
  BY TurbineAssumption
<1>2. EdgeLatency(p, q) = Max({1, a})
  BY DEF EdgeLatency
<1> HIDE DEF a
<1>3. Max({1, a}) = CHOOSE x \in {1, a} : \A y \in {1, a} : x >= y
  BY DEF Max
<1>4. Max({1, a}) = IF a >= 1 THEN a ELSE 1
  BY <1>1, <1>3
<1> QED BY <1>1, <1>2, <1>4

LEMMA RelaySteps == RelayInv /\ [TurbineNext]_turbineVars => RelayInv'
<1> SUFFICES ASSUME RelayInv, [TurbineNext]_turbineVars PROVE RelayInv'
  OBVIOUS
<1>1. ASSUME NEW q \in Peers, Arrive(q) PROVE RelayInv'
  <2> DEFINE p == ParentOf[q]
             t == arrival[p] + EdgeLatency(p, q)
  <2>1. /\ q \in Peers \ {Root} /\ q \notin dropout /\ q \notin DOMAIN arrival /\ p \in DOMAIN arrival
        /\ p \in Peers /\ p # q
    BY <1>1, TreeIs DEF Arrive
  <2>2. arrival' = [x \in DOMAIN arrival \union {q} |-> IF x = q THEN t ELSE arrival[x]]
        /\ dropout' = dropout /\ relayed' = relayed /\ box' = box
    BY <1>1 DEF Arrive
  <2>3. arrival[p] \in Nat /\ t \in Nat /\ arrival[p] < t
    <3>1. arrival[p] \in Nat
      BY <2>1 DEF RelayInv, ArrivalInv
    <3>2. EdgeLatency(p, q) \in Nat /\ EdgeLatency(p, q) >= 1
      BY <2>1, EdgeTakesTime
    <3> QED BY <3>1, <3>2
  <2> HIDE DEF t, p
  <2>4. /\ DOMAIN arrival' = DOMAIN arrival \union {q} /\ arrival'[q] = t
        /\ \A x \in DOMAIN arrival : arrival'[x] = arrival[x]
        /\ arrival' = [x \in DOMAIN arrival' |-> arrival'[x]]
    BY <2>1, <2>2
  <2>5. \A x \in DOMAIN arrival' \ {Root} :
          ParentOf[x] \in DOMAIN arrival' /\ arrival'[ParentOf[x]] < arrival'[x]
    <3> SUFFICES ASSUME NEW x \in DOMAIN arrival' \ {Root}
                 PROVE  ParentOf[x] \in DOMAIN arrival' /\ arrival'[ParentOf[x]] < arrival'[x]
      OBVIOUS
    <3>1. CASE x = q
      BY <2>1, <2>3, <2>4, <3>1 DEF p
    <3>2. CASE x # q
      <4>1. x \in DOMAIN arrival \ {Root}
        BY <2>4, <3>2
      <4>2. ParentOf[x] \in DOMAIN arrival /\ arrival[ParentOf[x]] < arrival[x]
        BY <4>1 DEF RelayInv, ArrivalInv
      <4> QED BY <4>1, <4>2, <2>4
    <3> QED BY <3>1, <3>2
  <2>6. ArrivalInv'
    <3>1. /\ dropout \in SUBSET Peers /\ DOMAIN arrival \subseteq Peers \ dropout
          /\ \A x \in DOMAIN arrival : arrival[x] \in Nat
          /\ Root \in dropout \/ Root \in DOMAIN arrival
      BY DEF RelayInv, ArrivalInv
    <3>2. /\ dropout' \in SUBSET Peers /\ DOMAIN arrival' \subseteq Peers \ dropout'
          /\ \A x \in DOMAIN arrival' : arrival'[x] \in Nat
          /\ Root \in dropout' \/ Root \in DOMAIN arrival'
      BY <3>1, <2>1, <2>2, <2>3, <2>4
    <3> QED BY <3>2, <2>4, <2>5 DEF ArrivalInv
  <2>7. BoxInv'
    BY <2>2 DEF RelayInv, BoxInv
  <2> QED BY <2>6, <2>7 DEF RelayInv
<1>2. ASSUME NEW i \in ChunkIndexes, NEW p \in Peers, Collect(i, p) PROVE RelayInv'
  <2> DEFINE chunk == CHOOSE c \in EncodeChunks(relayed) : c.index = i
             bad == [chunk EXCEPT !.data[1] = (@ + 1) % P]
  <2>1. /\ box' = box \union {IF p \in Faulty THEN bad ELSE chunk}
        /\ relayed' = relayed /\ dropout' = dropout /\ arrival' = arrival
    BY <1>2 DEF Collect
  <2>2. relayed \in Seq(Symbols)
    BY TurbineAssumption DEF RelayInv, BoxInv
  <2>3. chunk \in EncodeChunks(relayed)
    <3>1. \E c \in EncodeChunks(relayed) : c.index = i
      BY <2>2, ChunksAre
    <3> QED BY <3>1, Zenon
  <2> HIDE DEF chunk
  <2>4. chunk.length = Len(relayed) /\ "length" \in DOMAIN chunk
    <3>1. \E j, d : chunk = [index |-> j, length |-> Len(relayed), data |-> d]
      BY <2>3, Zenon DEF EncodeChunks
    <3> QED BY <3>1
  <2>5. bad.length = chunk.length
    BY <2>4
  <2> HIDE DEF bad
  <2>6. BoxInv'
    BY <2>1, <2>4, <2>5 DEF RelayInv, BoxInv
  <2>7. ArrivalInv'
    BY <2>1 DEF RelayInv, ArrivalInv
  <2> QED BY <2>6, <2>7 DEF RelayInv
<1>3. CASE UNCHANGED turbineVars
  BY <1>3 DEF turbineVars, RelayInv, ArrivalInv, BoxInv
<1> QED BY <1>1, <1>2, <1>3 DEF TurbineNext

\* Whichever peers are down and whichever custodians alter what they hand out:
\* the payload reaches the peers whose path to the root is up, parents first,
\* and a decoder with enough genuine chunks returns the payload when all its
\* chunks are genuine and refuses when one is not.
THEOREM RelayIsSound == TurbineSpec => []RelayDelivers
<1>1. RelayInv => RelayDelivers
  BY ArrivalReaches, BoxDecodes DEF RelayInv, RelayDelivers
<1> QED BY <1>1, RelayStarts, RelaySteps, PTL DEF TurbineSpec

=============================================================================
