------------------------------- MODULE UTXOSet -------------------------------
(***************************************************************************)
(* state/utxo.py: the in-memory UTXO set, the indexes and caches it keeps  *)
(* beside the dictionary, and the sparse Merkle commitment with its        *)
(* inclusion and absence proofs.                                           *)
(*                                                                         *)
(* An outpoint is a number, ordered as its bytes are; KeyOf is its hash,   *)
(* Depth bits.  Every domain hash is the tuple of its tag and inputs,      *)
(* which makes it injective.  A coin is [outpoint, owner, amount]; the     *)
(* fields the set never looks at are left out.                             *)
(***************************************************************************)
EXTENDS Integers, FiniteSets, Sequences, SequencesExt

CONSTANTS Coins,     \* the coins that may exist, records
          KeyOf(_),  \* outpoint -> its key, a function from 1..Depth to bits
          Depth      \* MERKLE_DEPTH_BITS

Outpoints == {c.outpoint : c \in Coins}

ASSUME UtxoAssumption ==
    /\ Depth \in Nat
    /\ IsFiniteSet(Coins) /\ Outpoints \subseteq Nat
    /\ \A o \in Outpoints : KeyOf(o) \in [1..Depth -> {0, 1}]
    /\ \A o, q \in Outpoints : KeyOf(o) = KeyOf(q) => o = q

VARIABLES utxos,         \* _utxos: outpoint -> coin
          keyIndex,      \* _outpoint_by_key
          ownerIndex,    \* _outpoints_by_owner
          itemsCache,    \* _items_cache with _key_ints_cache: <<>> or <<items>>
          subtreeCache   \* _subtree_cache: node -> hash

utxoVars == <<utxos, keyIndex, ownerIndex, itemsCache, subtreeCache>>

Without(f, x) == [y \in DOMAIN f \ {x} |-> f[y]]
With(f, x, v) == [y \in DOMAIN f \union {x} |-> IF y = x THEN v ELSE f[y]]

-----------------------------------------------------------------------------
(* Hashes *)

ValueHash(c)      == <<"utxo", c>>
LeafHash(k, vh)   == <<"leaf", k, vh>>
NodeHash(d, l, r) == <<"node", d, l, r>>
EmptyHash(d)      == <<"empty", d>>

-----------------------------------------------------------------------------
(* The tree.  A node is <<depth, prefix>>, a prefix the first bits of a    *)
(* key; items is a set of <<key, value hash>>.                             *)

TreeNodes == UNION {{d} \X [1..d -> {0, 1}] : d \in 0..Depth}

\* _prefix_int: the node at depth d on the path of key k.
NodeOn(k, d) == <<d, [i \in 1..d |-> k[i]]>>

Child(n, bit) == <<n[1] + 1, [i \in 1..(n[1] + 1) |-> IF i <= n[1] THEN n[2][i] ELSE bit]>>

TopNode == <<0, [i \in 1..0 |-> 0]>>

ItemsOf(s) == {<<KeyOf(o), ValueHash(s[o])>> : o \in DOMAIN s}

Items == IF itemsCache = <<>> THEN ItemsOf(utxos) ELSE itemsCache[1]

\* _range_for_prefix: the items under a node.
Under(items, n) == {it \in items : NodeOn(it[1], n[1]) = n}

\* _subtree_root: a cached node as it is, else computed from its children.
SubtreeRoot(items, cache, node) ==
    LET Root[n \in TreeNodes] ==
          IF n \in DOMAIN cache THEN cache[n]
          ELSE IF Under(items, n) = {} THEN EmptyHash(n[1])
          ELSE IF n[1] = Depth
          THEN LET it == CHOOSE it \in Under(items, n) : TRUE IN LeafHash(it[1], it[2])
          ELSE NodeHash(n[1], Root[Child(n, 0)], Root[Child(n, 1)])
    IN  Root[node]

\* The cache entries a call of _subtree_root for a node leaves behind: the
\* non-empty nodes it visited, those below a cached node excepted.
Visited(items, cache, n) ==
    {m \in {NodeOn(it[1], e) : it \in Under(items, n), e \in n[1]..Depth} :
        \A e \in n[1]..m[1] : NodeOn(m[2], e) \notin DOMAIN cache}

Filled(items, cache, nodes) ==
    LET new == UNION {Visited(items, cache, n) : n \in nodes}
    IN  [n \in DOMAIN cache \union new |-> SubtreeRoot(items, cache, n)]

NoCache == [n \in {} |-> <<>>]

FreshRoot(s) == SubtreeRoot(ItemsOf(s), NoCache, TopNode)

\* The sets of coins with one coin per outpoint and one outpoint per key.
Sets == {s \in UNION {[D -> Coins] : D \in SUBSET Outpoints} :
            /\ \A o \in DOMAIN s : s[o].outpoint = o
            /\ \A o, q \in DOMAIN s : KeyOf(o) = KeyOf(q) => o = q}

\* The root of every set.
RootOf == [s \in Sets |-> FreshRoot(s)]

\* The sibling of the path of key k at each of the first `limit` levels.
SiblingNode(k, i) == Child(NodeOn(k, i), 1 - k[i + 1])

ProofSiblings(items, cache, k, limit) ==
    [i \in 1..limit |-> SubtreeRoot(items, cache, SiblingNode(k, i - 1))]

\* _first_empty_depth of a key that is not in the tree.
FirstEmptyDepth(items, k) ==
    CHOOSE d \in 0..Depth :
        /\ Under(items, NodeOn(k, d)) = {}
        /\ \A e \in 0..(d - 1) : Under(items, NodeOn(k, e)) # {}

\* inclusion_proof or non_inclusion_proof of o in the set s, through a cache.
ProofThrough(s, items, cache, o) ==
    IF o \in DOMAIN s
    THEN [outpoint |-> o, coin |-> <<s[o]>>, depth |-> Depth,
          siblings |-> ProofSiblings(items, cache, KeyOf(o), Depth)]
    ELSE [outpoint |-> o, coin |-> <<>>,
          depth    |-> FirstEmptyDepth(items, KeyOf(o)),
          siblings |-> ProofSiblings(items, cache, KeyOf(o),
                                     FirstEmptyDepth(items, KeyOf(o)))]

ProofsOf == [x \in Sets \X Outpoints |->
                ProofThrough(x[1], ItemsOf(x[1]), NoCache, x[2])]

\* verify_proof: hash upwards from the leaf, or from the empty node.
Climb(k, siblings, depth, start) ==
    LET Hash[j \in 0..depth] ==
          IF j = 0 THEN start
          ELSE IF k[depth - j + 1] = 0
          THEN NodeHash(depth - j, Hash[j - 1], siblings[depth - j + 1])
          ELSE NodeHash(depth - j, siblings[depth - j + 1], Hash[j - 1])
    IN  Hash[depth]

VerifyProof(o, proof, root) ==
    /\ proof.outpoint = o
    /\ Len(proof.siblings) = proof.depth
    /\ IsInjective(proof.siblings)
    /\ IF proof.coin # <<>>
       THEN /\ proof.coin[1].outpoint = o
            /\ Climb(KeyOf(o), proof.siblings, proof.depth,
                         LeafHash(KeyOf(o), ValueHash(proof.coin[1]))) = root
       ELSE Climb(KeyOf(o), proof.siblings, proof.depth,
                      EmptyHash(proof.depth)) = root

-----------------------------------------------------------------------------
(* Operations *)

UtxoInit ==
    /\ utxos = <<>> /\ keyIndex = <<>> /\ ownerIndex = <<>>
    /\ itemsCache = <<>> /\ subtreeCache = NoCache

\* Faulty: the cached nodes survive.
InvalidateItemsOnly == itemsCache' = <<>> /\ UNCHANGED subtreeCache

InvalidateMerkleCache == itemsCache' = <<>> /\ subtreeCache' = NoCache

AddCoin(c) ==
    /\ c.outpoint \notin DOMAIN utxos
    /\ KeyOf(c.outpoint) \notin DOMAIN keyIndex
    /\ utxos' = With(utxos, c.outpoint, c)
    /\ keyIndex' = With(keyIndex, KeyOf(c.outpoint), c.outpoint)
    /\ ownerIndex' = With(ownerIndex, c.owner,
                          {c.outpoint} \union
                          IF c.owner \in DOMAIN ownerIndex
                          THEN ownerIndex[c.owner] ELSE {})
    /\ InvalidateMerkleCache

RemoveCoin(o) ==
    /\ o \in DOMAIN utxos
    /\ utxos' = Without(utxos, o)
    /\ keyIndex' = Without(keyIndex, KeyOf(o))
    /\ LET owner == utxos[o].owner
           left  == ownerIndex[owner] \ {o}
       IN  ownerIndex' = IF left = {} THEN Without(ownerIndex, owner)
                         ELSE With(ownerIndex, owner, left)
    /\ InvalidateMerkleCache

\* The caches after a call that reads the given nodes.
ReadNodes(nodes) ==
    /\ itemsCache' = <<Items>>
    /\ subtreeCache' = Filled(Items, subtreeCache, nodes)
    /\ UNCHANGED <<utxos, keyIndex, ownerIndex>>

ReadRoot == ReadNodes({TopNode})

ReadProof(o) ==
    ReadNodes({SiblingNode(KeyOf(o), i) :
                  i \in 0..(ProofThrough(utxos, Items, subtreeCache, o).depth - 1)})

\* A set built anew from the coins of s, its root read once.
ReplaceBy(s) ==
    /\ utxos' = s
    /\ keyIndex' = [k \in {KeyOf(o) : o \in DOMAIN s} |->
                       CHOOSE o \in DOMAIN s : KeyOf(o) = k]
    /\ ownerIndex' = [w \in {s[o].owner : o \in DOMAIN s} |->
                         {o \in DOMAIN s : s[o].owner = w}]
    /\ itemsCache' = <<ItemsOf(s)>>
    /\ subtreeCache' = Filled(ItemsOf(s), NoCache, {TopNode})

-----------------------------------------------------------------------------
(* Properties *)

\* After any order of additions, removals, root reads and proofs, the key and
\* owner indexes and every cached Merkle node say what the dictionary says: a
\* mutator that forgot an index or the invalidation would commit a stale root.
ViewsAgree ==
    /\ keyIndex = [k \in {KeyOf(o) : o \in DOMAIN utxos} |->
                      CHOOSE o \in DOMAIN utxos : KeyOf(o) = k]
    /\ ownerIndex = [w \in {utxos[o].owner : o \in DOMAIN utxos} |->
                        {o \in DOMAIN utxos : utxos[o].owner = w}]
    /\ itemsCache \in {<<>>, <<ItemsOf(utxos)>>}
    /\ \A n \in DOMAIN subtreeCache :
          subtreeCache[n] = SubtreeRoot(ItemsOf(utxos), NoCache, n)

\* No proof, whichever set it was built from, verifies against the root of s
\* when what it claims of its outpoint (this coin, or no coin) is not so.
SoundFor == [s \in Sets |->
    \A t \in Sets : \A o \in Outpoints :
        VerifyProof(o, ProofsOf[<<t, o>>], RootOf[s])
            => IF o \in DOMAIN t THEN o \in DOMAIN s /\ s[o] = t[o] ELSE o \notin DOMAIN s]


\* Proofs are complete and sound: a proof built through the caches verifies
\* against the root of the coins held, and no proof built from another set
\* verifies against that root and claims what is not so.
ProofsTruthful ==
    /\ \A o \in Outpoints :
          VerifyProof(o, ProofThrough(utxos, Items, subtreeCache, o),
                      RootOf[utxos])
    /\ SoundFor[utxos]

\* The root and the proofs speak for the set as it is.
RootSpeaksForSet == ViewsAgree /\ ProofsTruthful
=============================================================================
