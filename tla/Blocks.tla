------------------------------- MODULE Blocks -------------------------------
(***************************************************************************)
(* chain/: fruit and anchor headers and bodies, their bytes, their hashes  *)
(* and the Merkle roots by which a header commits to its body.             *)
(*                                                                         *)
(* A hash is the tuple of what is hashed, the domain and the tag included: *)
(* the hash function has no collisions.  Serialised blocks are sequences   *)
(* of fields in the order of the code, counts where it writes counts.  A   *)
(* peer sends blocks that it may have put together from parts of others.   *)
(***************************************************************************)
EXTENDS Integers, Sequences, SequencesExt, FiniteSetsExt

CONSTANTS
    FruitBlocks,     \* fruits: [header, txs]
    AnchorBlocks,    \* anchors: [header, fruits, candidates, tree, floors, rewards, commitment]
    TxSize(_),       \* bytes of a transaction
    MaxPayload,      \* MAX_FRUIT_PAYLOAD_BYTES
    MaxBitmap,       \* PARENT_BITMAP_MAX_BYTES
    ByteBits,        \* bits in a byte
    MaxCandidates,   \* PARENT_CANDIDATE_MAX_COUNT
    MaxDepth,        \* SHARD_MAX_DEPTH
    RootTree,        \* the serialised tree that has the root shard only
    MaxAccepted      \* blocks a behaviour receives

VARIABLES
    wireBlock,  \* [kind, fields] on the wire, and the block they were made of
    accepted    \* the blocks decoded so far, in order: [kind, block]

blockVars == <<wireBlock, accepted>>

ZeroHash == <<>>   \* GENESIS_PARENT_HASH, and no genesis commitment

-----------------------------------------------------------------------------
(* merkle.py *)

Leaf(domain, i, item) == <<"leaf", domain, i, item>>
Pad(domain, level, i) == <<"empty", domain, level, i>>

\* The nodes above a level; the last one of an odd level is paired with a pad of its place.
LevelAbove(domain, level, nodes) ==
    [i \in 1..((Len(nodes) + 1) \div 2) |->
        <<"node", domain, level, i - 1, nodes[2 * i - 1],
          IF 2 * i <= Len(nodes) THEN nodes[2 * i] ELSE Pad(domain, level, i - 1)>>]

\* The nodes of the level after each turn of the loop, which stops at a single one.
Levels(domain, leaves) ==
    LET nodes[turn \in 0..Len(leaves)] ==
          IF turn = 0 THEN leaves
          ELSE LET below == nodes[turn - 1]
               IN  IF Len(below) = 1 THEN below ELSE LevelAbove(domain, turn - 1, below)
    IN  nodes

\* ordered_merkle_root.
MerkleRoot(domain, items) ==
    IF items = <<>> THEN <<"empty", domain>>
    ELSE Levels(domain, [i \in DOMAIN items |-> Leaf(domain, i - 1, items[i])])[Len(items)][1]

-----------------------------------------------------------------------------
(* headers.py *)

\* _require_shard_id: a shard is <<depth, path>>.
ValidShard(shard) == shard[1] <= MaxDepth /\ shard[2] < 2^shard[1]

\* FruitHeader.__post_init__.
FruitHeaderOk(h) ==
    h.version = 1 /\ h.sigs = 1 /\ Len(h.bitmap) <= MaxBitmap /\ ValidShard(h.shard)

AnchorHeaderOk(h) == h.version = 1

FruitHeaderFields(h) ==
    <<h.version, h.sigs, h.parent, Len(h.bitmap)>> \o h.bitmap
    \o <<h.latest, h.root, h.ts, h.shard, h.nonce>>

\* FruitHeader.deserialize: the header, nothing when it raises.
FruitHeaders(f) ==
    IF Len(f) < 4 \/ Len(f) # 9 + f[4] THEN {}
    ELSE {h \in {[version |-> f[1], sigs |-> f[2], parent |-> f[3],
                  bitmap |-> SubSeq(f, 5, 4 + f[4]), latest |-> f[5 + f[4]],
                  root |-> f[6 + f[4]], ts |-> f[7 + f[4]], shard |-> f[8 + f[4]],
                  nonce |-> f[9 + f[4]]]} : FruitHeaderOk(h)}

AnchorHeaderFields(h) ==
    <<h.version, h.parent, h.fruitRoot, h.candidateRoot, h.treeRoot, h.floorRoot,
      h.rewardRoot, h.ts, h.nonce>>

AnchorHeaders(f) ==
    IF Len(f) # 9 THEN {}
    ELSE {h \in {[version |-> f[1], parent |-> f[2], fruitRoot |-> f[3],
                  candidateRoot |-> f[4], treeRoot |-> f[5], floorRoot |-> f[6],
                  rewardRoot |-> f[7], ts |-> f[8], nonce |-> f[9]]} : AnchorHeaderOk(h)}

\* A bitmap is a sequence of bytes, each the set of its bits; bit i, from 0.
BitSet(bitmap, i) == i \div ByteBits < Len(bitmap) /\ i % ByteBits \in bitmap[i \div ByteBits + 1]

\* effective_parent_hashes: the selected parent and the candidates whose bits are
\* set, nothing when a bit is set beyond them or a parent occurs twice.
EffectiveParents(h, candidates) ==
    LET chosen == {i \in DOMAIN candidates : BitSet(h.bitmap, i - 1)}
        nth(j) == CHOOSE i \in chosen : Cardinality({k \in chosen : k < i}) = j - 1
        parents == <<h.parent>> \o [j \in 1..Cardinality(chosen) |-> candidates[nth(j)]]
        beyond == \E i \in Len(candidates)..(Len(h.bitmap) * ByteBits - 1) : BitSet(h.bitmap, i)
    IN  IF beyond \/ ~IsInjective(parents) THEN {} ELSE {parents}

\* to_pow_header: what the proof of work of a fruit is made over.
PowHeader(h, parents) ==
    <<h.version, h.sigs, parents, h.latest, h.root, h.ts, h.shard, h.nonce>>

-----------------------------------------------------------------------------
(* blocks.py *)

TxRoot(txs) == MerkleRoot("tx", [i \in DOMAIN txs |-> <<"tx_id", txs[i]>>])

\* fruit_payload_size_bytes.
PayloadSize(txs) == 2 + MapThenSumSet(LAMBDA i : 2 + TxSize(txs[i]), DOMAIN txs)

\* Fruit.__post_init__.
FruitOk(b) ==
    /\ b.txs # <<>>
    /\ PayloadSize(b.txs) <= MaxPayload
    /\ TxRoot(b.txs) = b.header.root

FruitFields(b) ==
    LET header == FruitHeaderFields(b.header)
    IN  <<Len(header)>> \o header \o <<Len(b.txs)>> \o b.txs

\* Fruit.deserialize: the fruit, nothing when it raises.
DecodedFruits(f) ==
    LET n == f[1]
        header == SubSeq(f, 2, n + 1)
    IN  IF Len(f) < n + 2 \/ Len(f) # n + 2 + f[n + 2] THEN {}
        ELSE {b \in {[header |-> h, txs |-> SubSeq(f, n + 3, Len(f))] :
                       h \in FruitHeaders(header)} : FruitOk(b)}

IsGenesis(b) == b.commitment # ZeroHash

\* Anchor.__post_init__: the order of the lists, what a genesis anchor may hold
\* (_validate_genesis_empty_state), and the roots.
ListsInOrder(b) ==
    /\ \A i \in 1..(Len(b.fruits) - 1) : b.fruits[i] < b.fruits[i + 1]
    /\ IsInjective(b.candidates) /\ Len(b.candidates) <= MaxCandidates
    /\ \A i \in 1..(Len(b.floors) - 1) : b.floors[i][1] < b.floors[i + 1][1]

GenesisOrCovers(b) ==
    IF IsGenesis(b)
    THEN /\ b.header.parent = ZeroHash
         /\ b.fruits = <<>> /\ b.candidates = <<>> /\ b.rewards = <<>>
         /\ b.tree = RootTree /\ b.floors = <<<<0, 0>>>>
    ELSE b.fruits # <<>>

RootsMatch(b) ==
    /\ MerkleRoot("fruits", b.fruits) = b.header.fruitRoot
    /\ MerkleRoot("candidates", b.candidates) = b.header.candidateRoot
    /\ <<"tree", b.tree>> = b.header.treeRoot
    /\ MerkleRoot("floors", b.floors) = b.header.floorRoot
    /\ MerkleRoot("rewards", b.rewards) = b.header.rewardRoot

AnchorOk(b) == ListsInOrder(b) /\ GenesisOrCovers(b) /\ RootsMatch(b)

Counted(list) == <<Len(list)>> \o list

AnchorFields(b) ==
    Counted(AnchorHeaderFields(b.header)) \o Counted(b.fruits) \o Counted(b.candidates)
    \o <<b.tree>> \o Counted(b.floors) \o Counted(b.rewards) \o <<b.commitment>>

\* Where the list counted at a position ends, past the end if it does not.
CountEnd(f, at) == IF at > Len(f) THEN Len(f) + 1 ELSE at + f[at]

\* Anchor.deserialize: the anchor, nothing when it raises.
DecodedAnchors(f) ==
    LET list(at) == SubSeq(f, at + 1, CountEnd(f, at))
        c1 == CountEnd(f, 1) + 1
        c2 == CountEnd(f, c1) + 1
        c3 == CountEnd(f, c2) + 2
        c4 == CountEnd(f, c3) + 1
        end == CountEnd(f, c4) + 1
    IN  IF end # Len(f) THEN {}
        ELSE {b \in {[header |-> h, fruits |-> list(c1), candidates |-> list(c2),
                      tree |-> f[c3 - 1], floors |-> list(c3), rewards |-> list(c4),
                      commitment |-> f[end]] : h \in AnchorHeaders(list(1))} : AnchorOk(b)}

\* Faulty: the header's hash, for the genesis anchor too.
HashOfHeader(kind, b) == <<kind, b.header>>

\* block_hash: a genesis anchor is hashed whole, since no header field holds its commitment.
BlockHash(kind, b) ==
    IF kind = "anchor" /\ IsGenesis(b) THEN <<"genesis", b>> ELSE <<kind, b.header>>

-----------------------------------------------------------------------------
(* The blocks that nodes build have passed __post_init__. *)

IsList(list) == list \in Seq(Range(list))

IsFruit(b) ==
    LET h == b.header
    IN  /\ b = [header |-> h, txs |-> b.txs]
        /\ h = [version |-> h.version, sigs |-> h.sigs, parent |-> h.parent,
                bitmap |-> h.bitmap, latest |-> h.latest, root |-> h.root, ts |-> h.ts,
                shard |-> h.shard, nonce |-> h.nonce]
        /\ h.bitmap \in Seq(SUBSET (0..(ByteBits - 1)))
        /\ IsList(b.txs)
        /\ FruitHeaderOk(h)

IsAnchor(b) ==
    LET h == b.header
    IN  /\ b = [header |-> h, fruits |-> b.fruits, candidates |-> b.candidates,
                tree |-> b.tree, floors |-> b.floors, rewards |-> b.rewards,
                commitment |-> b.commitment]
        /\ h = [version |-> h.version, parent |-> h.parent, fruitRoot |-> h.fruitRoot,
                candidateRoot |-> h.candidateRoot, treeRoot |-> h.treeRoot,
                floorRoot |-> h.floorRoot, rewardRoot |-> h.rewardRoot, ts |-> h.ts,
                nonce |-> h.nonce]
        /\ IsList(b.fruits) /\ IsList(b.candidates) /\ IsList(b.floors) /\ IsList(b.rewards)
        /\ AnchorHeaderOk(h)

ASSUME BlocksAssumption ==
    /\ ByteBits \in Nat \ {0}
    /\ \A b \in FruitBlocks : IsFruit(b) /\ FruitOk(b)
    /\ \A b \in AnchorBlocks : IsAnchor(b) /\ AnchorOk(b)

-----------------------------------------------------------------------------
(* Blocks travel. *)

Resting == [kind |-> "none"]

Fields(kind, b) == IF kind = "fruit" THEN FruitFields(b) ELSE AnchorFields(b)
DecodedAs(kind, f) == IF kind = "fruit" THEN DecodedFruits(f) ELSE DecodedAnchors(f)

BlocksInit == wireBlock = Resting /\ accepted = <<>>

SendBlock(kind, b) ==
    /\ wireBlock = Resting /\ Len(accepted) < MaxAccepted
    /\ wireBlock' = [kind |-> kind, fields |-> Fields(kind, b), block |-> b]
    /\ UNCHANGED accepted

\* One part, the header or a list, is another block's; or the bytes are cut or
\* go on.
TamperBlock ==
    /\ wireBlock # Resting
    /\ wireBlock.fields = Fields(wireBlock.kind, wireBlock.block)
    /\ \/ \E c \in IF wireBlock.kind = "fruit" THEN FruitBlocks ELSE AnchorBlocks,
             part \in DOMAIN wireBlock.block :
            wireBlock' = [wireBlock EXCEPT !.fields =
                            Fields(wireBlock.kind, [wireBlock.block EXCEPT ![part] = c[part]])]
       \/ wireBlock' = [wireBlock EXCEPT !.fields = Front(@)]
       \/ wireBlock' = [wireBlock EXCEPT !.fields = Append(@, Last(@))]
    /\ UNCHANGED accepted

\* deserialize: a block that decodes is kept, any other is dropped.
ReceiveBlock ==
    /\ wireBlock # Resting
    /\ accepted' = accepted \o
         SetToSeq({[kind |-> wireBlock.kind, block |-> b] :
                     b \in DecodedAs(wireBlock.kind, wireBlock.fields)})
    /\ wireBlock' = Resting

BlocksNext ==
    \/ \E b \in FruitBlocks : SendBlock("fruit", b)
    \/ \E b \in AnchorBlocks : SendBlock("anchor", b)
    \/ TamperBlock
    \/ ReceiveBlock

BlocksSpec == BlocksInit /\ [][BlocksNext]_blockVars

-----------------------------------------------------------------------------
(* Properties. *)

\* Two blocks that decode and have one hash are one block, the body, the lists
\* and a genesis commitment included, whatever parts a peer put them together
\* from; and the bytes of a block decode to it.
HashBindsBlock ==
    /\ \A i, j \in DOMAIN accepted :
          BlockHash(accepted[i].kind, accepted[i].block) =
          BlockHash(accepted[j].kind, accepted[j].block) => accepted[i] = accepted[j]
    /\ wireBlock # Resting =>
          (wireBlock.fields = Fields(wireBlock.kind, wireBlock.block)
             <=> DecodedAs(wireBlock.kind, wireBlock.fields) = {wireBlock.block})

\* The proof of work is made over the effective parents instead of the bitmap:
\* it binds the fruit up to the length of the bitmap, for zero bytes at its end
\* change neither the parents nor the work.
PowBindsFruit ==
    \A i, j \in DOMAIN accepted, a \in AnchorBlocks :
      /\ accepted[i].kind = "fruit" /\ accepted[j].kind = "fruit"
      /\ LET h == accepted[i].block.header
             g == accepted[j].block.header
         IN  /\ Len(h.bitmap) = Len(g.bitmap)
             /\ \E p \in EffectiveParents(h, a.candidates), q \in EffectiveParents(g, a.candidates) :
                  PowHeader(h, p) = PowHeader(g, q)
      => accepted[i] = accepted[j]

\* A block that a peer put together from parts of others is another block to
\* block_hash, and another fruit to its proof of work.
BlocksBound == HashBindsBlock /\ PowBindsFruit
=============================================================================
