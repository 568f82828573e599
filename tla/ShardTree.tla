----------------------------- MODULE ShardTree ------------------------------
(***************************************************************************)
(* mempool/shard_tree.py: the shard tree as its set of leaves.  A shard is *)
(* the sequence of the low-order hash bits it selects, least significant   *)
(* first, which is what (depth, path) encodes; a transaction hash is a     *)
(* sequence of SHARD_MAX_DEPTH bits.                                       *)
(***************************************************************************)
EXTENDS Integers, FiniteSets, SequencesExt

CONSTANTS SHARD_MAX_DEPTH

ASSUME ShardDepthAssumption == SHARD_MAX_DEPTH \in Nat

Bit == {0, 1}

ROOT_SHARD == << >>
ROOT_TREE  == {ROOT_SHARD}

ShardIds == UNION {[1..d -> Bit] : d \in 0..SHARD_MAX_DEPTH}
Hashes == [1..SHARD_MAX_DEPTH -> Bit]

\* path == route_int & mask(depth): the hash starts with the shard's bits.
selects(shard, hash) == \A i \in 1..Len(shard) : shard[i] = hash[i]

\* The leaf of a transaction; validated trees have exactly one.
route_tx(tree, hash) == CHOOSE shard \in tree : selects(shard, hash)

parent_shard(shard) == SubSeq(shard, 1, Len(shard) - 1)
child_shards(shard) == {Append(shard, bit) : bit \in Bit}

are_siblings(left, right) ==
  /\ left # right
  /\ Len(left) = Len(right)
  /\ Len(left) > 0
  /\ parent_shard(left) = parent_shard(right)

(***************************************************************************)
(* What the constructor demands of a set of leaves.  Leaves are visited in *)
(* ascending id, so shallower first: a leaf is refused when a strictly     *)
(* shallower leaf is its ancestor, and the measures must add up to that of *)
(* the root.                                                               *)
(***************************************************************************)
is_ancestor(shard, leaf) ==
  Len(shard) < Len(leaf) /\ SubSeq(leaf, 1, Len(shard)) = shard

coverage(leaves) ==
  MapThenSumSet(LAMBDA leaf : 2 ^ (SHARD_MAX_DEPTH - Len(leaf)), leaves)

validate_leaf_partition(leaves) ==
  /\ leaves # {}
  /\ \A leaf \in leaves : \A shard \in leaves : ~ is_ancestor(shard, leaf)
  /\ coverage(leaves) = 2 ^ SHARD_MAX_DEPTH

can_split(tree, shard) == shard \in tree /\ Len(shard) < SHARD_MAX_DEPTH

\* Faulty: only the child of bit 0 is created.
split_into_left_only(tree, shard) == (tree \ {shard}) \cup {Append(shard, 0)}

apply_split(tree, shard) == (tree \ {shard}) \cup child_shards(shard)

can_merge(tree, left, right) == are_siblings(left, right) /\ {left, right} \subseteq tree

apply_merge(tree, left, right) == (tree \ {left, right}) \cup {parent_shard(left)}
=============================================================================
