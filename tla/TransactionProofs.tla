-------------------------- MODULE TransactionProofs -------------------------
(***************************************************************************)
(* Transactions before they are mined, for every value of the constants:   *)
(* the shard tree that routes them, the mempool that holds them, the       *)
(* keystore, the wallet that signs them, and the scripts that guard their  *)
(* outputs.                                                                *)
(***************************************************************************)
EXTENDS Mempool, ShardTreeOps, Keystore, Wallet, Script, FoldProofs, SequenceTheorems, TLAPS

-----------------------------------------------------------------------------
(* The shard tree.  The leaves stay a partition of the transaction hashes: *)
(* the inductive invariant is TreeTypeOK with RoutesUnique itself, as the  *)
(* tree in the making becomes the tree.                                    *)

\* A shard id is a bit sequence no longer than the depth limit.
LEMMA ShardIsSeq ==
  ASSUME NEW s \in ShardIds
  PROVE  s \in Seq(Bit) /\ Len(s) \in 0..SHARD_MAX_DEPTH /\ DOMAIN s = 1..Len(s)
<1>1. PICK d \in 0..SHARD_MAX_DEPTH : s \in [1..d -> Bit]
  BY DEF ShardIds
<1>2. d \in Nat
  BY <1>1, ShardDepthAssumption
<1> QED BY <1>1, <1>2, IsASeq

\* The converse: a bit sequence within the depth limit is a shard id.
LEMMA SeqIsShard ==
  ASSUME NEW s \in Seq(Bit), Len(s) <= SHARD_MAX_DEPTH
  PROVE  s \in ShardIds
<1>1. Len(s) \in 0..SHARD_MAX_DEPTH
  BY LenProperties, ShardDepthAssumption
<1>2. s \in [1..Len(s) -> Bit]
  BY LenProperties, ElementOfSeq
<1> QED BY <1>1, <1>2 DEF ShardIds

\* A child shard is one bit longer than its parent, and names it.
LEMMA ChildShard ==
  ASSUME NEW s \in ShardIds, NEW b \in Bit
  PROVE  /\ Append(s, b) \in Seq(Bit)
         /\ Len(Append(s, b)) = Len(s) + 1
         /\ \A i \in 1..Len(s) : Append(s, b)[i] = s[i]
         /\ Append(s, b)[Len(s) + 1] = b
         /\ parent_shard(Append(s, b)) = s
<1>1. s \in Seq(Bit) /\ Len(s) \in Nat
  BY ShardIsSeq, LenProperties
<1>2. /\ Append(s, b) \in Seq(Bit)
      /\ Len(Append(s, b)) = Len(s) + 1
      /\ \A i \in 1..Len(s) : Append(s, b)[i] = s[i]
      /\ Append(s, b)[Len(s) + 1] = b
  BY <1>1, AppendProperties
<1>3. SubSeq(Append(s, b), 1, Len(s)) = s
  <2> DEFINE t == Append(s, b)
             u == SubSeq(t, 1, Len(s))
  <2> HIDE DEF t
  <2>1. u \in Seq(Bit) /\ Len(u) = Len(s) /\ \A i \in 1..Len(s) : u[i] = t[i]
    BY <1>1, <1>2, SubSeqProperties DEF t
  <2>2. \A i \in 1..Len(s) : u[i] = s[i]
    BY <1>2, <2>1 DEF t
  <2>3. u = s
    <3> HIDE DEF u
    <3> QED BY <1>1, <2>1, <2>2, SeqEqual
  <2> QED BY <2>3 DEF t
<1> QED BY <1>1, <1>2, <1>3 DEF parent_shard

\* A child selects a hash when its parent does and the next bit is its own.
LEMMA ChildSelects ==
  ASSUME NEW s \in ShardIds, NEW b \in Bit, NEW hash
  PROVE  selects(Append(s, b), hash) <=> selects(s, hash) /\ hash[Len(s) + 1] = b
<1>1. Len(s) \in Nat
  BY ShardIsSeq, LenProperties
<1> QED BY <1>1, ChildShard DEF selects

\* A transaction hash has a bit at every depth.
LEMMA HashBit ==
  ASSUME NEW s \in ShardIds, Len(s) < SHARD_MAX_DEPTH, NEW hash \in Hashes
  PROVE  hash[Len(s) + 1] \in Bit
<1>1. Len(s) + 1 \in 1..SHARD_MAX_DEPTH
  BY ShardIsSeq, ShardDepthAssumption
<1> QED BY <1>1 DEF Hashes

\* A split leaves every hash exactly one leaf.
LEMMA SplitKeepsPartition ==
  ASSUME NEW leaves \in SUBSET ShardIds, Partition(leaves), NEW s, can_split(leaves, s)
  PROVE  /\ apply_split(leaves, s) \in SUBSET ShardIds
         /\ Partition(apply_split(leaves, s))
<1> DEFINE after == apply_split(leaves, s)
<1>1. s \in leaves /\ s \in ShardIds /\ Len(s) < SHARD_MAX_DEPTH
  BY DEF can_split
<1>2. after = (leaves \ {s}) \cup {Append(s, 0), Append(s, 1)}
  BY DEF apply_split, child_shards, Bit
<1>3. after \in SUBSET ShardIds
  <2>1. \A b \in Bit : Append(s, b) \in ShardIds
    <3> SUFFICES ASSUME NEW b \in Bit PROVE Append(s, b) \in ShardIds
      OBVIOUS
    <3>1. Len(s) + 1 <= SHARD_MAX_DEPTH
      BY <1>1, ShardIsSeq, ShardDepthAssumption
    <3> QED BY <1>1, <3>1, ChildShard, SeqIsShard
  <2> QED BY <1>2, <2>1 DEF Bit
<1>4. Partition(after)
  <2> SUFFICES ASSUME NEW hash \in Hashes
               PROVE  \E x \in after : /\ selects(x, hash)
                                       /\ \A y \in after : selects(y, hash) => y = x
    BY DEF Partition
  <2>1. PICK x \in leaves : selects(x, hash) /\ \A y \in leaves : selects(y, hash) => y = x
    BY DEF Partition
  <2>2. \A b \in Bit : selects(Append(s, b), hash) <=> selects(s, hash) /\ hash[Len(s) + 1] = b
    BY <1>1, ChildSelects
  <2>3. CASE x = s
    <3> DEFINE child == Append(s, hash[Len(s) + 1])
    <3>1. hash[Len(s) + 1] \in Bit
      BY <1>1, HashBit
    <3>2. child \in after /\ selects(child, hash)
      BY <1>2, <2>1, <2>2, <2>3, <3>1 DEF Bit
    <3>3. ASSUME NEW y \in after, selects(y, hash) PROVE y = child
      BY <1>2, <2>1, <2>2, <2>3, <3>1, <3>3 DEF Bit
    <3> QED BY <3>2, <3>3
  <2>4. CASE x # s
    <3>1. x \in after
      BY <1>2, <2>4
    <3>2. ASSUME NEW y \in after, selects(y, hash) PROVE y = x
      BY <1>1, <1>2, <2>1, <2>2, <2>4, <3>2 DEF Bit
    <3> QED BY <2>1, <3>1, <3>2
  <2> QED BY <2>3, <2>4
<1> QED BY <1>3, <1>4

\* A merge leaves every hash exactly one leaf.
LEMMA MergeKeepsPartition ==
  ASSUME NEW leaves \in SUBSET ShardIds, Partition(leaves), NEW s \in ShardIds,
         can_merge(leaves, Append(s, 0), Append(s, 1))
  PROVE  /\ apply_merge(leaves, Append(s, 0), Append(s, 1)) \in SUBSET ShardIds
         /\ Partition(apply_merge(leaves, Append(s, 0), Append(s, 1)))
<1> DEFINE after == apply_merge(leaves, Append(s, 0), Append(s, 1))
<1>1. Append(s, 0) \in leaves /\ Append(s, 1) \in leaves
  BY DEF can_merge
<1>2. parent_shard(Append(s, 0)) = s
  BY ChildShard DEF Bit
<1>3. after = (leaves \ {Append(s, 0), Append(s, 1)}) \cup {s}
  BY <1>2 DEF apply_merge
<1>4. Len(s) < SHARD_MAX_DEPTH
  <2>1. Len(Append(s, 0)) \in 0..SHARD_MAX_DEPTH
    BY <1>1, ShardIsSeq
  <2>2. Len(Append(s, 0)) = Len(s) + 1 /\ Len(s) \in Nat
    BY ChildShard, ShardIsSeq, LenProperties DEF Bit
  <2> QED BY <2>1, <2>2, ShardDepthAssumption
<1>5. Partition(after)
  <2> SUFFICES ASSUME NEW hash \in Hashes
               PROVE  \E x \in after : /\ selects(x, hash)
                                       /\ \A y \in after : selects(y, hash) => y = x
    BY DEF Partition
  <2>1. PICK x \in leaves : selects(x, hash) /\ \A y \in leaves : selects(y, hash) => y = x
    BY DEF Partition
  <2>2. \A b \in Bit : selects(Append(s, b), hash) <=> selects(s, hash) /\ hash[Len(s) + 1] = b
    BY ChildSelects
  <2>3. hash[Len(s) + 1] \in Bit
    BY <1>4, HashBit
  <2>4. CASE x \in {Append(s, 0), Append(s, 1)}
    <3>1. s \in after /\ selects(s, hash)
      BY <1>3, <2>1, <2>2, <2>4 DEF Bit
    <3>2. ASSUME NEW y \in after, selects(y, hash) PROVE y = s
      BY <1>3, <2>1, <2>4, <3>2
    <3> QED BY <3>1, <3>2
  <2>5. CASE x \notin {Append(s, 0), Append(s, 1)}
    <3>1. x \in after
      BY <1>3, <2>5
    <3>2. ~ selects(s, hash)
      BY <1>1, <2>1, <2>2, <2>3, <2>5 DEF Bit
    <3>3. ASSUME NEW y \in after, selects(y, hash) PROVE y = x
      BY <1>3, <2>1, <3>2, <3>3
    <3> QED BY <2>1, <3>1, <3>3
  <2> QED BY <2>4, <2>5
<1> QED BY <1>3, <1>5

\* One operation, whatever its kind.
LEMMA OperationKeepsPartition ==
  ASSUME NEW leaves \in SUBSET ShardIds, Partition(leaves), NEW op \in Operations,
         can_apply_operation(leaves, op)
  PROVE  /\ apply_operation(leaves, op) \in SUBSET ShardIds
         /\ Partition(apply_operation(leaves, op))
<1>1. op.shard \in ShardIds /\ op.kind \in {"split", "merge"}
  BY DEF Operations
<1>2. CASE op.kind = "split"
  BY <1>1, <1>2, SplitKeepsPartition DEF can_apply_operation, apply_operation
<1>3. CASE op.kind = "merge"
  BY <1>1, <1>3, MergeKeepsPartition DEF can_apply_operation, apply_operation
<1> QED BY <1>1, <1>2, <1>3

\* From the root tree, no sequence of batches, failed ones included, leads to a
\* tree in which a transaction hash has no shard or two.
THEOREM RoutingIsUnique == TreeSpec => [](TreeTypeOK /\ RoutesUnique)
<1> DEFINE IInv == TreeTypeOK /\ RoutesUnique
<1>1. TreeInit => IInv
  <2> SUFFICES ASSUME TreeInit PROVE IInv
    OBVIOUS
  <2>1. ROOT_SHARD \in ShardIds /\ Len(ROOT_SHARD) = 0
    <3>1. << >> \in Seq(Bit) /\ Len(<< >>) = 0
      BY EmptySeq
    <3>2. Len(<< >>) <= SHARD_MAX_DEPTH
      BY <3>1, ShardDepthAssumption
    <3> QED BY <3>1, <3>2, SeqIsShard DEF ROOT_SHARD
  <2>2. \A hash \in Hashes : selects(ROOT_SHARD, hash)
    BY <2>1 DEF selects
  <2>3. Partition(ROOT_TREE)
    BY <2>2 DEF Partition, ROOT_TREE
  <2> QED BY <2>1, <2>3 DEF TreeInit, TreeTypeOK, RoutesUnique, ROOT_TREE
<1>2. IInv /\ [TreeNext]_treeVars => IInv'
  <2> SUFFICES ASSUME IInv, [TreeNext]_treeVars PROVE IInv'
    OBVIOUS
  <2> USE DEF TreeTypeOK, RoutesUnique
  <2>1. ASSUME NEW op \in Operations, apply_next(op) PROVE IInv'
    <3>1. op.shard \in ShardIds
      BY DEF Operations
    <3>2. next_tree' \in SUBSET ShardIds /\ Partition(next_tree')
      BY <2>1, OperationKeepsPartition DEF apply_next
    <3> QED BY <2>1, <3>1, <3>2 DEF apply_next, Partition
  <2>2. ASSUME NEW op \in Operations, queue_conflict(op) PROVE IInv'
    BY <2>2 DEF queue_conflict, Partition
  <2>3. ASSUME NEW op \in Operations, raise_invalid(op) PROVE IInv'
    BY <2>3 DEF raise_invalid, Partition
  <2>4. CASE return_update
    BY <2>4 DEF return_update, Partition
  <2>5. CASE UNCHANGED treeVars
    BY <2>5 DEF treeVars, Partition
  <2> QED BY <2>1, <2>2, <2>3, <2>4, <2>5 DEF TreeNext
<1> QED BY <1>1, <1>2, PTL DEF TreeSpec

\* The shards that are not leaves: a leaf lies below each of them.
Above(shard, leaf) == Len(shard) < Len(leaf) /\ selects(shard, leaf)
Inner(leaves) == {shard \in ShardIds : \E leaf \in leaves : Above(shard, leaf)}

\* What lies above a child is what lies above its parent, and the parent.
LEMMA AboveChild ==
  ASSUME NEW s \in ShardIds, NEW b \in Bit, NEW p \in ShardIds
  PROVE  Above(p, Append(s, b)) <=> p = s \/ Above(p, s)
<1>1. /\ p \in Seq(Bit) /\ s \in Seq(Bit) /\ Len(p) \in Nat /\ Len(s) \in Nat
  BY ShardIsSeq, LenProperties
<1>2. /\ Len(Append(s, b)) = Len(s) + 1
      /\ \A i \in 1..Len(s) : Append(s, b)[i] = s[i]
  BY ChildShard
<1>3. CASE Len(p) = Len(s)
  <2>1. (\A i \in 1..Len(p) : p[i] = s[i]) <=> p = s
    BY <1>1, <1>3, SeqEqual
  <2> QED BY <1>1, <1>2, <1>3, <2>1 DEF Above, selects
<1>4. CASE Len(p) # Len(s)
  BY <1>1, <1>2, <1>4 DEF Above, selects
<1> QED BY <1>3, <1>4

\* No leaf of a partition lies below another: a hash below the deeper one would
\* be routed to both.
LEMMA PrefixFree ==
  ASSUME NEW leaves \in SUBSET ShardIds, Partition(leaves), NEW s \in leaves, NEW l \in leaves
  PROVE  ~ Above(s, l)
<1>1. SUFFICES ASSUME Above(s, l) PROVE FALSE
  OBVIOUS
<1> DEFINE hash == [i \in 1..SHARD_MAX_DEPTH |-> IF i \in 1..Len(l) THEN l[i] ELSE 0]
<1>2. /\ Len(s) \in 0..SHARD_MAX_DEPTH /\ Len(l) \in 0..SHARD_MAX_DEPTH
      /\ \A i \in 1..Len(l) : l[i] \in Bit
  <2>1. s \in ShardIds /\ l \in ShardIds
    OBVIOUS
  <2> QED BY <2>1, ShardIsSeq, ElementOfSeq
<1>3. hash \in Hashes
  BY <1>2 DEF Hashes, Bit
<1>4. \A i \in 1..Len(l) : hash[i] = l[i]
  BY <1>2, ShardDepthAssumption
<1> HIDE DEF hash
<1>5. selects(l, hash) /\ selects(s, hash)
  BY <1>1, <1>2, <1>4, ShardDepthAssumption DEF Above, selects
<1>6. s = l
  BY <1>3, <1>5 DEF Partition
<1> QED BY <1>1, <1>2, <1>6, ShardDepthAssumption DEF Above

\* A split makes its shard an inner one, and changes no other.
LEMMA SplitInner ==
  ASSUME NEW leaves \in SUBSET ShardIds, Partition(leaves), NEW s, can_split(leaves, s)
  PROVE  /\ s \in ShardIds
         /\ s \notin Inner(leaves)
         /\ Inner(apply_split(leaves, s)) = Inner(leaves) \cup {s}
<1>1. s \in leaves /\ s \in ShardIds
  BY DEF can_split
<1>2. s \notin Inner(leaves)
  BY <1>1, PrefixFree DEF Inner
<1>3. apply_split(leaves, s) = (leaves \ {s}) \cup {Append(s, 0), Append(s, 1)}
  BY DEF apply_split, child_shards, Bit
<1>4. \A p \in ShardIds : \A b \in Bit : Above(p, Append(s, b)) <=> p = s \/ Above(p, s)
  BY <1>1, AboveChild
<1> QED BY <1>1, <1>2, <1>3, <1>4 DEF Inner, Bit

\* A merge makes its shard a leaf, and changes no other: whatever else lay below
\* it would lie below one of the two children.
LEMMA MergeInner ==
  ASSUME NEW leaves \in SUBSET ShardIds, Partition(leaves), NEW s \in ShardIds,
         can_merge(leaves, Append(s, 0), Append(s, 1))
  PROVE  /\ s \in Inner(leaves)
         /\ Inner(apply_merge(leaves, Append(s, 0), Append(s, 1))) = Inner(leaves) \ {s}
<1> DEFINE left == Append(s, 0)
           right == Append(s, 1)
           after == apply_merge(leaves, left, right)
<1>1. left \in leaves /\ right \in leaves /\ left \in ShardIds /\ right \in ShardIds
  BY DEF can_merge
<1>2. after = (leaves \ {left, right}) \cup {s}
  <2>1. parent_shard(left) = s
    BY ChildShard DEF Bit
  <2> QED BY <2>1 DEF apply_merge
<1>3. \A p \in ShardIds : /\ Above(p, left) <=> p = s \/ Above(p, s)
                          /\ Above(p, right) <=> p = s \/ Above(p, s)
  BY AboveChild DEF Bit
<1>4. ~ Above(s, s)
  BY ShardIsSeq DEF Above
<1>5. ASSUME NEW l \in leaves, Above(s, l) PROVE l \in {left, right}
  <2>1. /\ l \in Seq(Bit) /\ Len(l) \in 0..SHARD_MAX_DEPTH /\ Len(s) \in Nat
        /\ s \in Seq(Bit) /\ Len(s) < Len(l) /\ \A i \in 1..Len(s) : s[i] = l[i]
    <3>1. l \in ShardIds
      OBVIOUS
    <3> QED BY <1>5, <3>1, ShardIsSeq, LenProperties DEF Above, selects
  <2> DEFINE b == l[Len(s) + 1]
             child == Append(s, b)
  <2>2. b \in Bit
    BY <2>1, ElementOfSeq, ShardDepthAssumption
  <2>3. /\ child \in Seq(Bit) /\ Len(child) = Len(s) + 1
        /\ \A i \in 1..Len(s) : child[i] = s[i]
        /\ child[Len(s) + 1] = b
    BY <2>2, ChildShard
  <2>4. child \in {left, right} /\ child \in leaves
    BY <1>1, <2>2 DEF Bit
  <2> HIDE DEF child
  <2>5. \A i \in 1..Len(child) : child[i] = l[i]
    BY <2>1, <2>3
  <2>6. CASE Len(l) = Len(child)
    <3>1. child = l
      BY <2>1, <2>3, <2>5, <2>6, SeqEqual
    <3> QED BY <2>4, <3>1
  <2>7. CASE Len(l) # Len(child)
    <3>1. Above(child, l)
      BY <2>1, <2>3, <2>5, <2>7, ShardDepthAssumption DEF Above, selects
    <3> QED BY <2>4, <3>1, PrefixFree
  <2> QED BY <2>6, <2>7
<1> HIDE DEF after, left, right
<1>6. s \in Inner(leaves)
  BY <1>1, <1>3 DEF Inner
<1>7. Inner(after) = Inner(leaves) \ {s}
  BY <1>1, <1>2, <1>3, <1>4, <1>5 DEF Inner
<1> QED BY <1>6, <1>7 DEF after, left, right

\* Why nothing is undone: the batch has turned exactly the shards it operated on
\* from leaves to inner shards or back.
Turned == \A p \in ShardIds : p \in used_parents <=> ~ (p \in Inner(tree) <=> p \in Inner(next_tree))
UndoInv == TreeTypeOK /\ RoutesUnique /\ Turned

\* Every turn of apply_operations' loop keeps the account.
LEMMA TurnedStep == UndoInv /\ TreeTypeOK' /\ RoutesUnique' /\ [TreeNext]_treeVars => UndoInv'
<1> SUFFICES ASSUME UndoInv, TreeTypeOK', RoutesUnique', [TreeNext]_treeVars
             PROVE  Turned'
  BY DEF UndoInv
<1> USE DEF UndoInv
<1>1. ASSUME NEW op \in Operations, apply_next(op) PROVE Turned'
  <2>1. /\ op.shard \in ShardIds /\ op.kind \in {"split", "merge"}
        /\ op.shard \notin used_parents /\ used_parents' = used_parents \cup {op.shard}
        /\ tree' = tree /\ next_tree' = apply_operation(next_tree, op)
        /\ can_apply_operation(next_tree, op)
    BY <1>1 DEF apply_next, Operations
  <2>2. next_tree \in SUBSET ShardIds /\ Partition(next_tree)
    BY DEF TreeTypeOK, RoutesUnique
  <2>3. \A p \in ShardIds : p # op.shard => (p \in Inner(next_tree') <=> p \in Inner(next_tree))
    <3>1. CASE op.kind = "split"
      BY <2>1, <2>2, <3>1, SplitInner DEF can_apply_operation, apply_operation
    <3>2. CASE op.kind = "merge"
      BY <2>1, <2>2, <3>2, MergeInner DEF can_apply_operation, apply_operation
    <3> QED BY <2>1, <3>1, <3>2
  <2>4. ~ (op.shard \in Inner(next_tree') <=> op.shard \in Inner(next_tree))
    <3>1. CASE op.kind = "split"
      BY <2>1, <2>2, <3>1, SplitInner DEF can_apply_operation, apply_operation
    <3>2. CASE op.kind = "merge"
      BY <2>1, <2>2, <3>2, MergeInner DEF can_apply_operation, apply_operation
    <3> QED BY <2>1, <3>1, <3>2
  <2>5. Inner(tree)' = Inner(tree) /\ Inner(next_tree)' = Inner(next_tree')
    BY <2>1 DEF Inner
  <2> QED BY <2>1, <2>3, <2>4, <2>5 DEF Turned
<1>2. ASSUME NEW op \in Operations, queue_conflict(op) PROVE Turned'
  BY <1>2 DEF queue_conflict, Turned, Inner
<1>3. ASSUME NEW op \in Operations, raise_invalid(op) PROVE Turned'
  BY <1>3 DEF raise_invalid, Turned, Inner
<1>4. CASE return_update
  BY <1>4 DEF return_update, Turned, Inner
<1>5. CASE UNCHANGED treeVars
  BY <1>5 DEF treeVars, Turned, Inner
<1> QED BY <1>1, <1>2, <1>3, <1>4, <1>5 DEF TreeNext

\* For every depth limit and batch, a batch that applied anything has changed the
\* tree: no anchor splits a shard and merges it back.
THEOREM BatchesUndoNothing == TreeSpec => []NoUndo
<1>1. TreeInit => Turned
  BY DEF TreeInit, Turned
<1>2. UndoInv => NoUndo
  BY DEF UndoInv, TreeTypeOK, Turned, NoUndo
<1> QED BY <1>1, <1>2, TurnedStep, RoutingIsUnique, PTL DEF TreeSpec, UndoInv

-----------------------------------------------------------------------------
(* The mempool.                                                            *)

IndexInv == entries \subseteq DOMAIN Tx /\ IndexesAgree

\* Removing any set of entries, one by _remove_entry or many by an eviction,
\* leaves the indexes of the others.
LEMMA RemovalKeepsIndexes ==
  ASSUME IndexInv, NEW ids, remove_entries(ids)
  PROVE  IndexInv'
<1> USE DEF IndexInv, IndexesAgree, remove_entries
<1>1. entries' \subseteq DOMAIN Tx
  OBVIOUS
<1>2. ASSUME NEW shard \in DOMAIN entries_by_shard'
      PROVE  /\ entries_by_shard'[shard] # {}
             /\ entries_by_shard'[shard] = {t \in entries' : Tx[t].shard = shard}
  BY <1>2 DEF buckets_without
<1>3. ASSUME NEW t \in entries'
      PROVE  Tx[t].shard \in DOMAIN entries_by_shard'
  <2>1. t \in entries /\ t \notin ids /\ t \in entries_by_shard[Tx[t].shard]
    BY <1>3
  <2> QED BY <2>1 DEF buckets_without
<1>4. ASSUME NEW t \in entries', NEW op \in Tx[t].ins
      PROVE  op \in DOMAIN spent_outpoints' /\ spent_outpoints'[op] = t
  BY <1>4 DEF outpoints_without
<1>5. ASSUME NEW op \in DOMAIN spent_outpoints'
      PROVE  spent_outpoints'[op] \in entries' /\ op \in Tx[spent_outpoints'[op]].ins
  BY <1>5 DEF outpoints_without
<1> QED BY <1>1, <1>2, <1>3, <1>4, <1>5

\* Admitting a transaction whose inputs no entry spends keeps the indexes.
LEMMA AdditionKeepsIndexes ==
  ASSUME IndexInv, NEW t \in DOMAIN Tx, NEW view, add_tx(t, view)
  PROVE  IndexInv'
<1> USE DEF IndexInv, IndexesAgree
<1>1. entries' = entries \cup {t} /\ t \notin entries
  BY DEF add_tx
<1>2. Tx[t].ins \cap DOMAIN spent_outpoints = {}
  BY DEF add_tx, assess_spends
<1>3. /\ DOMAIN entries_by_shard' = DOMAIN entries_by_shard \cup {Tx[t].shard}
      /\ entries_by_shard'[Tx[t].shard] = bucket(Tx[t].shard) \cup {t}
      /\ \A shard \in DOMAIN entries_by_shard \ {Tx[t].shard} :
           entries_by_shard'[shard] = entries_by_shard[shard]
  BY DEF add_tx, with_entry
<1>4. bucket(Tx[t].shard) = {u \in entries : Tx[u].shard = Tx[t].shard}
  BY DEF bucket
<1>5. ASSUME NEW shard \in DOMAIN entries_by_shard'
      PROVE  /\ entries_by_shard'[shard] # {}
             /\ entries_by_shard'[shard] = {u \in entries' : Tx[u].shard = shard}
  <2>1. CASE shard = Tx[t].shard
    BY <1>1, <1>3, <1>4, <2>1
  <2>2. CASE shard # Tx[t].shard
    BY <1>1, <1>3, <1>5, <2>2
  <2> QED BY <2>1, <2>2
<1>6. \A u \in entries' : Tx[u].shard \in DOMAIN entries_by_shard'
  BY <1>1, <1>3
<1>7. /\ DOMAIN spent_outpoints' = DOMAIN spent_outpoints \cup Tx[t].ins
      /\ \A op \in Tx[t].ins : spent_outpoints'[op] = t
      /\ \A op \in DOMAIN spent_outpoints \ Tx[t].ins :
           spent_outpoints'[op] = spent_outpoints[op]
  BY DEF add_tx
<1>8. ASSUME NEW u \in entries', NEW op \in Tx[u].ins
      PROVE  op \in DOMAIN spent_outpoints' /\ spent_outpoints'[op] = u
  BY <1>1, <1>2, <1>7, <1>8
<1>9. ASSUME NEW op \in DOMAIN spent_outpoints'
      PROVE  spent_outpoints'[op] \in entries' /\ op \in Tx[spent_outpoints'[op]].ins
  BY <1>1, <1>7, <1>9
<1> QED BY <1>1, <1>5, <1>6, <1>8, <1>9

\* Every method of the mempool keeps the indexes coherent.
LEMMA IndexStep == IndexInv /\ [PoolNext]_poolVars => IndexInv'
<1> SUFFICES ASSUME IndexInv, [PoolNext]_poolVars
             PROVE  IndexInv'
  OBVIOUS
<1>1. ASSUME NEW t \in DOMAIN Tx, NEW view \in Views, add_tx(t, view) PROVE IndexInv'
  BY <1>1, AdditionKeepsIndexes
<1>2. ASSUME NEW t \in DOMAIN Tx, remove(t) PROVE IndexInv'
  BY <1>2, RemovalKeepsIndexes DEF remove
<1>3. ASSUME NEW shard \in Shards, evict_below_floor(shard) PROVE IndexInv'
  BY <1>3, RemovalKeepsIndexes DEF evict_below_floor, evict_below
<1>4. ASSUME NEW shard \in Shards, NEW floor \in Floors, evict_below_new_floor(shard, floor)
      PROVE  IndexInv'
  BY <1>4, RemovalKeepsIndexes DEF evict_below_new_floor, evict_below
<1>5. ASSUME UNCHANGED <<entries, entries_by_shard, spent_outpoints>> PROVE IndexInv'
  BY <1>5 DEF IndexInv, IndexesAgree
<1>6. ASSUME NEW shard \in Shards, NEW sample \in Samples, record_confirmed_fruit(shard, sample)
      PROVE  IndexInv'
  BY <1>5, <1>6 DEF record_confirmed_fruit
<1> QED BY <1>1, <1>2, <1>3, <1>4, <1>5, <1>6 DEF PoolNext, poolVars

\* For all transactions, views, floors and histories of calls the three indexes
\* of the mempool describe the same set of transactions.
THEOREM IndexesStayCoherent == PoolSpec => []IndexesAgree
<1>1. PoolInit => IndexInv
  BY DEF PoolInit, IndexInv, IndexesAgree
<1>2. IndexInv => IndexesAgree
  BY DEF IndexInv
<1> QED BY <1>1, <1>2, IndexStep, PTL DEF PoolSpec

\* For all transactions, views and floors no output is spent twice in the pool.
THEOREM PoolIsConflictFree == PoolSpec => []NoDoubleSpend
<1>1. IndexesAgree => NoDoubleSpend
  BY DEF IndexesAgree, NoDoubleSpend
<1> QED BY <1>1, IndexesStayCoherent, PTL

\* The rate a window of confirmed fruits stands for is a natural number.
LEMMA RateIsNat ==
  ASSUME NEW window \in Seq(Samples)
  PROVE  recent_fee_rate(window) \in Nat
<1> DEFINE fees  == [i \in DOMAIN window |-> window[i].fees]
           bytes == [i \in DOMAIN window |-> window[i].bytes]
<1>1. Len(window) \in Nat /\ DOMAIN window = 1..Len(window)
  BY LenProperties
<1>2. IsFiniteSet(DOMAIN window)
  BY <1>1, FS_Interval
<1>3. \A i \in DOMAIN window : window[i].fees \in Nat /\ window[i].bytes \in Nat
  <2>1. \A i \in DOMAIN window : window[i] \in Samples
    BY <1>1, ElementOfSeq
  <2>2. \A x \in Samples : x.fees \in Nat /\ x.bytes \in Nat
    BY MempoolAssumption
  <2> QED BY <2>1, <2>2
<1>4. /\ DOMAIN fees = DOMAIN window /\ DOMAIN bytes = DOMAIN window
      /\ \A i \in DOMAIN window : fees[i] \in Nat /\ bytes[i] \in Nat
  BY <1>3
<1> DEFINE F == SumFunction(fees)
           B == SumFunction(bytes)
<1>5. F \in Nat /\ B \in Nat
  <2> HIDE DEF fees, bytes
  <2>1. SumFunctionOnSet(fees, DOMAIN window) \in Nat /\ SumFunctionOnSet(bytes, DOMAIN window) \in Nat
    BY <1>2, <1>4, SumNat
  <2> QED BY <1>4, <2>1 DEF SumFunction
<1>6. recent_fee_rate(window) = IF window = << >> THEN FEE_FLOOR_MIN_MATOMS_PER_KB
                                ELSE (F * BYTES_PER_KB) \div (IF B >= 1 THEN B ELSE 1)
  BY DEF recent_fee_rate
<1> HIDE DEF F, B
<1>7. /\ BYTES_PER_KB \in Nat /\ FEE_FLOOR_MIN_MATOMS_PER_KB \in Nat
  BY MempoolAssumption
<1> DEFINE paid == F * BYTES_PER_KB
           over == IF B >= 1 THEN B ELSE 1
<1>8. paid \in Nat /\ over \in Nat \ {0}
  BY <1>5, <1>7
<1> HIDE DEF paid, over
<1>9. paid \div over \in Nat
  BY <1>8
<1> QED BY <1>6, <1>7, <1>9 DEF paid, over

\* A weighted mean, rounded down, lies between its two arguments.
LEMMA MeanBetween ==
  ASSUME NEW a \in Nat, NEW b \in Nat, NEW x \in Nat, NEW y \in Nat,
         NEW v \in Nat \ {0}, NEW w \in Nat \ {0}, x <= a, x <= b, a <= y, b <= y
  PROVE  (v * a + w * b) \div (v + w) \in Int
         /\ x <= (v * a + w * b) \div (v + w)
         /\ (v * a + w * b) \div (v + w) <= y
<1> DEFINE n == v * a + w * b
           d == v + w
           q == n \div d
<1>1. v * x <= v * a /\ w * x <= w * b /\ v * a <= v * y /\ w * b <= w * y
  OBVIOUS
<1>2. d * x <= n /\ n <= d * y /\ n \in Nat /\ d \in Nat \ {0}
  BY <1>1
<1> HIDE DEF n, d
<1>3. q \in Int /\ d * q <= n /\ n < d * (q + 1)
  BY <1>2
<1> HIDE DEF q
<1>4. x <= q
  <2>1. SUFFICES ASSUME q + 1 <= x PROVE FALSE
    BY <1>3
  <2>2. d * (q + 1) <= d * x
    BY <1>2, <1>3, <2>1
  <2> QED BY <1>2, <1>3, <2>2
<1>5. q <= y
  <2>1. SUFFICES ASSUME y + 1 <= q PROVE FALSE
    BY <1>3
  <2>2. d * (y + 1) <= d * q
    BY <1>2, <1>3, <2>1
  <2>3. d * (y + 1) = d * y + d
    BY <1>2
  <2> QED BY <1>2, <1>3, <2>2, <2>3
<1> QED BY <1>3, <1>4, <1>5 DEF q, n, d

\* Floors are natural numbers and windows hold confirmed fruits.
FeeInv ==
  /\ \A shard \in DOMAIN fee_floors : fee_floors[shard] \in Nat
  /\ \A shard \in DOMAIN fee_histories : fee_histories[shard] \in Seq(Samples)

\* A confirmed fruit leaves its shard a window of samples and a natural floor,
\* between the floor before and the rate of that window, but for the minimum.
LEMMA FloorMoves ==
  ASSUME FeeInv, NEW shard \in Shards, NEW sample \in Samples, record_confirmed_fruit(shard, sample)
  PROVE  /\ fee_histories'[shard] \in Seq(Samples)
         /\ fee_floors'[shard] \in Nat
         /\ LET rate == recent_fee_rate(fee_histories'[shard])
                low  == IF rate <= fee_floor(shard) THEN rate ELSE fee_floor(shard)
                high == at_least_min(IF rate <= fee_floor(shard) THEN fee_floor(shard) ELSE rate)
            IN  low <= fee_floors'[shard] /\ fee_floors'[shard] <= high
<1> DEFINE old    == history(shard)
           kept   == IF Len(old) = FEE_FLOOR_WINDOW_FRUITS THEN Tail(old) ELSE old
           window == Append(kept, sample)
           before == fee_floor(shard)
           rate   == recent_fee_rate(window)
           mean   == (FEE_FLOOR_EWMA_PREV_WEIGHT * before + FEE_FLOOR_EWMA_NEW_WEIGHT * rate)
                       \div FEE_FLOOR_EWMA_DEN
<1>1. old \in Seq(Samples)
  BY EmptySeq DEF FeeInv, history
<1>2. kept \in Seq(Samples)
  <2>1. Len(old) = FEE_FLOOR_WINDOW_FRUITS => old # << >>
    BY EmptySeq, MempoolAssumption
  <2> HIDE DEF old
  <2> QED BY <1>1, <2>1, HeadTailProperties
<1> HIDE DEF kept
<1>3. window \in Seq(Samples)
  BY <1>2, AppendProperties
<1>4. /\ fee_histories'[shard] = window
      /\ fee_floors'[shard] = at_least_min(mean)
  BY DEF record_confirmed_fruit, with_entry, calculate_next_fee_floor, kept
<1> HIDE DEF window
<1>5. rate \in Nat
  BY <1>3, RateIsNat
<1>6. FEE_FLOOR_MIN_MATOMS_PER_KB \in Nat
  BY MempoolAssumption
<1>7. before \in Nat
  BY <1>6 DEF FeeInv, fee_floor
<1> HIDE DEF rate, before
<1>8. mean \in Int /\ (\A x \in Nat : x <= before /\ x <= rate => x <= mean)
                   /\ (\A y \in Nat : before <= y /\ rate <= y => mean <= y)
  <2>1. /\ FEE_FLOOR_EWMA_PREV_WEIGHT \in Nat \ {0} /\ FEE_FLOOR_EWMA_NEW_WEIGHT \in Nat \ {0}
        /\ FEE_FLOOR_EWMA_DEN = FEE_FLOOR_EWMA_PREV_WEIGHT + FEE_FLOOR_EWMA_NEW_WEIGHT
    BY MempoolAssumption
  <2>2. \A x, y \in Nat : x <= before /\ x <= rate /\ before <= y /\ rate <= y
          => mean \in Int /\ x <= mean /\ mean <= y
    BY <1>5, <1>7, <2>1, MeanBetween
  <2> HIDE DEF mean
  <2>3. \E y \in Nat : before <= y /\ rate <= y
    BY <1>5, <1>7
  <2>4. 0 \in Nat /\ 0 <= before /\ 0 <= rate
    BY <1>5, <1>7
  <2> QED BY <2>2, <2>3, <2>4
<1> HIDE DEF mean
<1>9. /\ at_least_min(mean) \in Nat
      /\ (IF rate <= before THEN rate ELSE before) <= at_least_min(mean)
      /\ at_least_min(mean) <= at_least_min(IF rate <= before THEN before ELSE rate)
  BY <1>5, <1>6, <1>7, <1>8 DEF at_least_min
<1> QED BY <1>3, <1>4, <1>9 DEF rate, before

\* Every method keeps floors and windows in their types.
LEMMA FeeStep == FeeInv /\ [PoolNext]_poolVars => FeeInv'
<1> SUFFICES ASSUME FeeInv, [PoolNext]_poolVars PROVE FeeInv'
  OBVIOUS
<1>1. ASSUME UNCHANGED <<fee_floors, fee_histories>> PROVE FeeInv'
  BY <1>1 DEF FeeInv
<1>2. ASSUME NEW shard \in Shards, NEW floor \in Floors, set_fee_floor(shard, floor),
             UNCHANGED fee_histories
      PROVE  FeeInv'
  <2>1. at_least_min(floor) \in Nat
    BY MempoolAssumption DEF at_least_min
  <2> QED BY <1>2, <2>1 DEF set_fee_floor, with_entry, FeeInv
<1>3. ASSUME NEW shard \in Shards, NEW sample \in Samples, record_confirmed_fruit(shard, sample)
      PROVE  FeeInv'
  <2>1. fee_histories'[shard] \in Seq(Samples) /\ fee_floors'[shard] \in Nat
    BY <1>3, FloorMoves
  <2> QED BY <1>3, <2>1 DEF record_confirmed_fruit, with_entry, FeeInv
<1> QED BY <1>1, <1>2, <1>3 DEF PoolNext, poolVars, add_tx, remove, evict_below_floor,
                                evict_below_new_floor

\* For all weights, windows and samples a confirmed fruit moves the floor of its
\* shard towards the recent rate and not past it.
THEOREM FloorsFollowRates == PoolSpec => FloorFollowsRate
<1>1. PoolInit => FeeInv
  BY DEF PoolInit, FeeInv
<1> DEFINE Moves == \A shard \in Shards, sample \in Samples :
             record_confirmed_fruit(shard, sample) =>
               LET rate == recent_fee_rate(fee_histories'[shard])
                   low  == IF rate <= fee_floor(shard) THEN rate ELSE fee_floor(shard)
                   high == at_least_min(IF rate <= fee_floor(shard) THEN fee_floor(shard) ELSE rate)
               IN  low <= fee_floors'[shard] /\ fee_floors'[shard] <= high
<1>2. FeeInv => Moves
  BY FloorMoves
<1>3. PoolSpec => []FeeInv
  BY <1>1, FeeStep, PTL DEF PoolSpec
<1>4. PoolSpec => [][Moves]_poolVars
  BY <1>2, <1>3, PTL
<1> QED BY <1>4 DEF FloorFollowsRate

\* The selection order as a set of pairs.
Better(ids) == {p \in ids \X ids : selected_before(p[1], p[2])}

\* The fee rates are integers, so that _selection_key orders any transactions totally.
LEMMA SelectionOrder ==
  ASSUME NEW ids \in SUBSET DOMAIN Tx
  PROVE  /\ IsStrictOrder(Better(ids), ids)
         /\ \A t, u \in ids : <<t, u>> \in Better(ids) <=> selected_before(t, u)
<1> DEFINE rate == [t \in ids |-> fee_rate_matoms_per_kb(t)]
<1>1. \A t \in ids : rate[t] \in Int /\ t \in Nat /\ rate[t] = fee_rate_matoms_per_kb(t)
  <2> SUFFICES ASSUME NEW t \in ids PROVE fee_rate_matoms_per_kb(t) \in Int /\ t \in Nat
    OBVIOUS
  <2>1. Tx[t].fee \in Int /\ BYTES_PER_KB \in Nat /\ Tx[t].size \in Nat \ {0} /\ t \in Nat
    BY MempoolAssumption
  <2>2. Tx[t].fee * BYTES_PER_KB \in Int
    BY <2>1
  <2> QED BY <2>1, <2>2 DEF fee_rate_matoms_per_kb
<1>2. \A t, u \in ids : <<t, u>> \in Better(ids) <=> selected_before(t, u)
  BY DEF Better
<1>3. \A t, u \in ids : selected_before(t, u) <=> rate[t] > rate[u] \/ (rate[t] = rate[u] /\ t < u)
  BY DEF selected_before
<1> HIDE DEF rate
<1>4. IsStrictOrder(Better(ids), ids)
  BY <1>1, <1>2, <1>3 DEF IsStrictOrder
<1> QED BY <1>2, <1>4

\* The sorted candidates: each of them once, the better ones first.
LEMMA SortedCandidates ==
  ASSUME NEW ids \in SUBSET DOMAIN Tx, IsFiniteSet(ids), NEW q, q = in_selection_order(ids)
  PROVE  /\ Cardinality(ids) \in Nat
         /\ q \in [1..Cardinality(ids) -> ids]
         /\ \A t \in ids : \E i \in 1..Cardinality(ids) : q[i] = t
         /\ \A i, j \in 1..Cardinality(ids) :
              i < j => q[i] # q[j] /\ selected_before(q[i], q[j]) /\ ~ selected_before(q[j], q[i])
<1> DEFINE n == Cardinality(ids)
           R == Better(ids)
           Rank(t) == Cardinality({u \in ids : selected_before(u, t)})
<1>1. n \in Nat
  BY FS_CardinalityType
<1>2. IsStrictOrder(R, ids) /\ \A t, u \in ids : <<t, u>> \in R <=> selected_before(t, u)
  BY SelectionOrder
<1>3. ASSUME NEW t \in ids PROVE Rank(t) = RankIn(ids, R, t)
  <2>1. {u \in ids : selected_before(u, t)} = {u \in ids : <<u, t>> \in R}
    BY <1>2
  <2> QED BY <2>1 DEF RankIn
<1>4. q = [i \in 1..n |-> CHOOSE t \in ids : Rank(t) = i - 1]
  <2> DEFINE listed == [i \in 1..n |-> CHOOSE t \in ids : Rank(t) = i - 1]
             Some == {listed[i] : i \in 1..n}
  <2>1. listed \in Seq(Some)
    <3>1. listed \in [1..n -> Some]
      OBVIOUS
    <3> HIDE DEF listed, Some, n
    <3> QED BY <1>1, <3>1, SeqDef
  <2>2. q = listed \o << >>
    BY DEF in_selection_order
  <2> HIDE DEF listed, Some
  <2>3. q = listed
    BY <2>1, <2>2, ConcatEmptySeq
  <2> QED BY <2>3 DEF listed
<1> HIDE DEF R, Rank
<1>5. /\ \A i \in 1..n : \E t \in ids : Rank(t) = i - 1
      /\ \A t \in ids : Rank(t) \in 0..(n - 1)
      /\ \A t, u \in ids : selected_before(t, u) <=> Rank(t) < Rank(u)
  <2>1. /\ \A i \in 1..n : \E t \in ids : RankIn(ids, R, t) = i - 1
        /\ \A t \in ids : RankIn(ids, R, t) \in 0..(n - 1)
        /\ \A t, u \in ids : <<t, u>> \in R <=> RankIn(ids, R, t) < RankIn(ids, R, u)
    BY <1>2, RanksFill
  <2>2. \A t \in ids : Rank(t) = RankIn(ids, R, t)
    BY <1>3
  <2> HIDE DEF n
  <2> QED BY <1>2, <2>1, <2>2
<1>6. \A i \in 1..n : q[i] \in ids /\ Rank(q[i]) = i - 1
  <2> SUFFICES ASSUME NEW i \in 1..n PROVE q[i] \in ids /\ Rank(q[i]) = i - 1
    OBVIOUS
  <2> DEFINE At(t) == t \in ids /\ Rank(t) = i - 1
  <2>1. \E t : At(t)
    BY <1>5
  <2>2. q[i] = CHOOSE t : At(t)
    BY <1>4
  <2> HIDE DEF At
  <2>3. At(q[i])
    BY <2>1, <2>2, Zenon
  <2> QED BY <2>3 DEF At
<1>7. q \in [1..n -> ids]
  BY <1>4, <1>6
<1> HIDE DEF n
<1>8. \A i, j \in 1..n : i < j => q[i] # q[j] /\ selected_before(q[i], q[j])
                                              /\ ~ selected_before(q[j], q[i])
  BY <1>1, <1>5, <1>6
<1>9. \A t \in ids : \E i \in 1..n : q[i] = t
  <2> SUFFICES ASSUME NEW t \in ids PROVE \E i \in 1..n : q[i] = t
    OBVIOUS
  <2> DEFINE i == Rank(t) + 1
  <2>1. i \in 1..n /\ Rank(t) = i - 1
    BY <1>1, <1>5
  <2> HIDE DEF i
  <2>2. Rank(q[i]) = Rank(t) /\ q[i] \in ids
    BY <1>6, <2>1
  <2>3. q[i] = t
    <3>1. ~ selected_before(t, q[i]) /\ ~ selected_before(q[i], t)
      BY <1>5, <2>2
    <3> QED BY <1>2, <2>2, <3>1 DEF IsStrictOrder
  <2> QED BY <2>1, <2>3
<1> QED BY <1>1, <1>7, <1>8, <1>9 DEF n

\* Sizes add up.
LEMMA SizeOf ==
  ASSUME NEW ids \in SUBSET DOMAIN Tx, IsFiniteSet(ids)
  PROVE  /\ size_of(ids) \in Nat
         /\ \A t \in DOMAIN Tx \ ids : size_of(ids \cup {t}) = size_of(ids) + Tx[t].size
<1>1. \A t \in DOMAIN Tx : sizes[t] = Tx[t].size /\ sizes[t] \in Nat
  BY MempoolAssumption DEF sizes
<1>2. size_of(ids) \in Nat
  BY <1>1, SumNat DEF size_of
<1>3. ASSUME NEW t \in DOMAIN Tx \ ids
      PROVE  size_of(ids \cup {t}) = size_of(ids) + Tx[t].size
  <2> DEFINE more == ids \cup {t}
  <2>1. IsFiniteSet(more) /\ t \in more /\ more \ {t} = ids /\ \A x \in more : sizes[x] \in Int
    BY <1>1, FS_AddElement
  <2> HIDE DEF more
  <2>2. SumFunctionOnSet(sizes, more) = sizes[t] + SumFunctionOnSet(sizes, ids)
    BY <2>1, SumAdd
  <2> QED BY <1>1, <1>2, <2>2 DEF size_of, more
<1> QED BY <1>2, <1>3

\* What the loop of select_for_fruit has selected after m candidates.
GreedyUpTo(selected, order, m, budget) ==
  /\ selected \subseteq {order[i] : i \in 1..m}
  /\ size_of(selected) <= budget
  /\ \A i \in 1..m : order[i] \notin selected =>
       size_of({u \in selected : selected_before(u, order[i])}) + Tx[order[i]].size > budget

\* One turn of that loop.
Taken(selected, t, budget) ==
  IF size_of(selected) + Tx[t].size > budget THEN selected ELSE selected \cup {t}

\* A list without repetitions, better candidates first.
IsRanking(order, ids, n) ==
  /\ n \in Nat
  /\ order \in [1..n -> ids]
  /\ \A t \in ids : \E i \in 1..n : order[i] = t
  /\ \A i, j \in 1..n : i < j => /\ order[i] # order[j]
                                 /\ selected_before(order[i], order[j])
                                 /\ ~ selected_before(order[j], order[i])

\* The sorted candidates are such an order.
LEMMA CandidatesRanked ==
  ASSUME NEW ids \in SUBSET DOMAIN Tx, IsFiniteSet(ids), NEW q, q = in_selection_order(ids)
  PROVE  IsRanking(q, ids, Cardinality(ids))
BY SortedCandidates DEF IsRanking

\* A turn keeps the selection greedy: a candidate that is left out does not fit
\* beside all that was selected so far, and what comes later is never better
\* than what was left out before.
LEMMA GreedyTurn ==
  ASSUME NEW ids \in SUBSET DOMAIN Tx, IsFiniteSet(ids), NEW n, NEW order, IsRanking(order, ids, n),
         NEW budget \in Nat, NEW m \in 1..n, NEW v \in SUBSET ids,
         GreedyUpTo(v, order, m - 1, budget)
  PROVE  GreedyUpTo(Taken(v, order[m], budget), order, m, budget)
<1> DEFINE t == order[m]
<1>1. n \in Nat /\ t \in ids /\ t \in DOMAIN Tx /\ Tx[t].size \in Nat
  BY MempoolAssumption DEF IsRanking
<1>2. IsFiniteSet(v) /\ v \in SUBSET DOMAIN Tx /\ size_of(v) \in Nat
  BY FS_Subset, SizeOf
<1>3. \A u \in v : \E i \in 1..(m - 1) : u = order[i]
  BY DEF GreedyUpTo
<1>4. t \notin v /\ \A u \in v : selected_before(u, t)
  BY <1>1, <1>3 DEF IsRanking
<1>5. v \subseteq {order[i] : i \in 1..m}
  BY <1>1, <1>3
<1> HIDE DEF t
<1>6. CASE size_of(v) + Tx[t].size > budget
  <2>1. Taken(v, t, budget) = v
    BY <1>6 DEF Taken
  <2>2. ASSUME NEW i \in 1..m, order[i] \notin v
        PROVE  size_of({u \in v : selected_before(u, order[i])}) + Tx[order[i]].size > budget
    <3>1. CASE i = m
      <4>1. {u \in v : selected_before(u, order[i])} = v
        BY <1>4, <3>1 DEF t
      <4> QED BY <1>6, <3>1, <4>1 DEF t
    <3>2. CASE i # m
      <4>1. i \in 1..(m - 1)
        BY <1>1, <3>2
      <4> QED BY <2>2, <4>1 DEF GreedyUpTo
    <3> QED BY <3>1, <3>2
  <2> QED BY <1>5, <2>1, <2>2 DEF GreedyUpTo, t
<1>7. CASE ~ (size_of(v) + Tx[t].size > budget)
  <2>1. Taken(v, t, budget) = v \cup {t}
    BY <1>7 DEF Taken
  <2>2. size_of(v \cup {t}) <= budget
    <3>1. size_of(v \cup {t}) = size_of(v) + Tx[t].size
      BY <1>1, <1>2, <1>4, SizeOf
    <3> QED BY <1>1, <1>2, <1>7, <3>1
  <2>3. v \cup {t} \subseteq {order[i] : i \in 1..m}
    BY <1>1, <1>5 DEF t
  <2>4. ASSUME NEW i \in 1..m, order[i] \notin v \cup {t}
        PROVE  size_of({u \in v \cup {t} : selected_before(u, order[i])}) + Tx[order[i]].size > budget
    <3>1. i \in 1..(m - 1) /\ i < m /\ i \in 1..n
      BY <1>1, <2>4 DEF t
    <3>2. ~ selected_before(t, order[i])
      BY <3>1 DEF IsRanking, t
    <3>3. {u \in v \cup {t} : selected_before(u, order[i])} = {u \in v : selected_before(u, order[i])}
      BY <3>2
    <3> QED BY <2>4, <3>1, <3>3 DEF GreedyUpTo
  <2> QED BY <2>1, <2>2, <2>3, <2>4 DEF GreedyUpTo, t
<1> QED BY <1>6, <1>7 DEF t

\* The loop over all candidates ends with a greedy selection.
LEMMA GreedySelection ==
  ASSUME NEW shard, IsFiniteSet(eligible(shard)), eligible(shard) \subseteq DOMAIN Tx,
         NEW budget \in Nat
  PROVE  LET selected == select_for_fruit(shard, budget) IN
           /\ selected \subseteq eligible(shard) /\ size_of(selected) <= budget
           /\ \A t \in eligible(shard) \ selected :
                size_of({u \in selected : selected_before(u, t)}) + Tx[t].size > budget
<1> DEFINE ids   == eligible(shard)
           order == in_selection_order(ids)
           n     == Cardinality(ids)
           All   == SUBSET ids
           selected == select_for_fruit(shard, budget)
<1>1. IsRanking(order, ids, n)
  <2> HIDE DEF ids, order
  <2>1. order = in_selection_order(ids) /\ ids \in SUBSET DOMAIN Tx /\ IsFiniteSet(ids)
    BY DEF order, ids
  <2>2. IsRanking(order, ids, Cardinality(ids))
    BY <2>1, CandidatesRanked
  <2>3. n = Cardinality(ids)
    OBVIOUS
  <2> HIDE DEF n
  <2> QED BY <2>2, <2>3
<1>2. n \in Nat /\ DOMAIN order = 1..n /\ \A i \in 1..n : order[i] \in ids
  <2> HIDE DEF ids, order, n
  <2> QED BY <1>1 DEF IsRanking
<1> HIDE DEF order, n
<1> DEFINE S    == 1..n
           pick == [s \in SUBSET S |-> Max(s)]
           step == [p \in S \X All |-> Taken(p[2], order[p[1]], budget)]
           P    == [s \in SUBSET S |-> {v \in All : \A m \in 0..n :
                                          s = 1..m => GreedyUpTo(v, order, m, budget)}]
<1>3. IsFiniteSet(S)
  BY <1>2, FS_Interval
<1>4. \A s \in SUBSET S : s # {} => /\ pick[s] \in s /\ pick[s] = Max(s)
                                    /\ \A x \in s : x <= pick[s]
  <2> SUFFICES ASSUME NEW s \in SUBSET S, s # {} PROVE Max(s) \in s /\ \A x \in s : x <= Max(s)
    OBVIOUS
  <2>1. s \subseteq Nat /\ \A x \in s : x <= n
    BY <1>2
  <2> QED BY <1>2, <2>1, MaxInSet
<1>5. \A i \in S : \A v \in All : step[<<i, v>>] = Taken(v, order[i], budget) /\ step[<<i, v>>] \in All
  <2> SUFFICES ASSUME NEW i \in S, NEW v \in All
               PROVE  step[<<i, v>>] = Taken(v, order[i], budget) /\ step[<<i, v>>] \in All
    OBVIOUS
  <2>1. step[<<i, v>>] = Taken(v, order[i], budget)
    <3> HIDE DEF All
    <3> QED OBVIOUS
  <2>2. order[i] \in ids
    BY <1>2
  <2>3. Taken(v, order[i], budget) \in All
    BY <2>2 DEF Taken
  <2> QED BY <2>1, <2>3
<1>6. \A s \in SUBSET S : \A v : v \in P[s] <=> /\ v \in All
                                               /\ \A m \in 0..n : s = 1..m => GreedyUpTo(v, order, m, budget)
  <2> HIDE DEF All
  <2> QED OBVIOUS
<1> HIDE DEF pick, step, P, S
<1>7. Picks(pick, S)
  BY <1>4 DEF Picks
<1>8. StaysIn(P, {}, pick, step, S)
  <2>1. {} \in P[{}]
    <3>1. size_of({}) = 0
      BY SumEmpty DEF size_of
    <3>2. ASSUME NEW m \in 0..n, {} = 1..m PROVE GreedyUpTo({}, order, m, budget)
      <4>1. \A i \in 1..m : FALSE
        BY <3>2
      <4> QED BY <3>1, <4>1 DEF GreedyUpTo
    <3>3. {} \in SUBSET S /\ {} \in All
      OBVIOUS
    <3> HIDE DEF All
    <3> QED BY <1>6, <3>2, <3>3
  <2>2. ASSUME NEW s \in SUBSET S, s # {}, NEW v \in P[s \ {pick[s]}]
        PROVE  step[<<pick[s], v>>] \in P[s]
    <3>1. s \ {pick[s]} \in SUBSET S /\ pick[s] \in S
      BY <1>4, <2>2
    <3>2. v \in All /\ \A m \in 0..n : s \ {pick[s]} = 1..m => GreedyUpTo(v, order, m, budget)
      <4> HIDE DEF All
      <4> QED BY <1>6, <2>2, <3>1
    <3>3. step[<<pick[s], v>>] = Taken(v, order[pick[s]], budget) /\ step[<<pick[s], v>>] \in All
      <4> HIDE DEF All
      <4> QED BY <1>5, <3>1, <3>2
    <3>4. ASSUME NEW m \in 0..n, s = 1..m
          PROVE  GreedyUpTo(Taken(v, order[pick[s]], budget), order, m, budget)
      <4>1. m \in 1..n /\ m \in s
        BY <1>2, <2>2, <3>4
      <4>2. pick[s] = m
        <5>1. pick[s] \in s /\ m <= pick[s]
          BY <1>4, <2>2, <4>1
        <5>2. pick[s] \in 1..m
          BY <3>4, <5>1
        <5> QED BY <4>1, <5>1, <5>2
      <4>3. s \ {pick[s]} = 1..(m - 1) /\ m - 1 \in 0..n
        BY <1>2, <3>4, <4>1, <4>2
      <4>4. GreedyUpTo(v, order, m - 1, budget)
        BY <3>2, <4>3
      <4>5. GreedyUpTo(Taken(v, order[m], budget), order, m, budget)
        <5>1. ids \in SUBSET DOMAIN Tx /\ IsFiniteSet(ids) /\ v \in SUBSET ids
          BY <3>2
        <5> HIDE DEF ids
        <5> QED BY <1>1, <4>1, <4>4, <5>1, GreedyTurn
      <4> QED BY <4>2, <4>5
    <3> HIDE DEF All
    <3> QED BY <1>6, <3>3, <3>4
  <2> QED BY <2>1, <2>2 DEF StaysIn
<1>9. PICK g : IsFold(g, {}, pick, step, S) /\ \A s \in SUBSET S : g[s] \in P[s]
  BY <1>3, <1>7, <1>8, FoldExists
<1> DEFINE Body(h, s) == IF s = {} THEN {} ELSE Taken(h[s \ {Max(s)}], order[Max(s)], budget)
           IsIter(h) == h = [s \in SUBSET S |-> Body(h, s)]
<1>10. IsIter(g)
  <2>1. \A s \in SUBSET S : s # {} =>
          step[<<pick[s], g[s \ {pick[s]}]>>] = Taken(g[s \ {Max(s)}], order[Max(s)], budget)
    <3> SUFFICES ASSUME NEW s \in SUBSET S, s # {}
                 PROVE  step[<<pick[s], g[s \ {pick[s]}]>>]
                          = Taken(g[s \ {Max(s)}], order[Max(s)], budget)
      OBVIOUS
    <3>1. pick[s] = Max(s) /\ pick[s] \in S /\ g[s \ {pick[s]}] \in All
      <4>1. s \ {pick[s]} \in SUBSET S
        OBVIOUS
      <4> HIDE DEF All
      <4> QED BY <1>4, <1>6, <1>9, <4>1
    <3> HIDE DEF All
    <3> QED BY <1>5, <3>1
  <2> QED BY <1>9, <2>1 DEF IsFold
<1> DEFINE it == CHOOSE h : IsIter(h)
<1>11. IsIter(it)
  <2> HIDE DEF IsIter
  <2> QED BY <1>10, Zenon
<1>12. selected = it[S]
  BY <1>2 DEF select_for_fruit, FoldLeft, MapThenFoldSet, order, S, Taken
<1> HIDE DEF it, selected
<1>13. \A s \in SUBSET S : it[s] = g[s]
  <2>1. \A s \in SUBSET S : it[s] = Body(it, s) /\ g[s] = Body(g, s)
    <3> HIDE DEF Body
    <3> QED BY <1>10, <1>11, Zenon
  <2>2. it[{}] = g[{}]
    BY <2>1
  <2>3. \A s \in SUBSET S : s # {} => (it[s \ {pick[s]}] = g[s \ {pick[s]}] => it[s] = g[s])
    BY <1>4, <2>1
  <2>4. AgreeBySteps(it, g, pick, S)
    BY <2>2, <2>3 DEF AgreeBySteps
  <2> QED BY <1>3, <1>7, <2>4, FoldsAgree
<1>14. selected \in All /\ GreedyUpTo(selected, order, n, budget)
  <2>1. S \in SUBSET S /\ n \in 0..n /\ S = 1..n
    BY <1>2 DEF S
  <2>2. selected \in P[S]
    BY <1>9, <1>12, <1>13, <2>1
  <2> HIDE DEF All
  <2> QED BY <1>6, <2>1, <2>2
<1>15. \A t \in ids \ selected :
         size_of({u \in selected : selected_before(u, t)}) + Tx[t].size > budget
  <2> HIDE DEF ids
  <2> QED BY <1>1, <1>14 DEF GreedyUpTo, IsRanking
<1>16. size_of(selected) <= budget
  BY <1>14 DEF GreedyUpTo
<1> QED BY <1>14, <1>15, <1>16 DEF selected

\* For all transactions, sizes, rates, floors and budgets the selection for a
\* fruit fits and leaves out only what does not fit beside the better ones.
THEOREM SelectionsAreGreedy == PoolSpec => []SelectionIsGreedy
<1> DEFINE Inv == IndexInv /\ IsFiniteSet(entries)
<1>1. PoolInit => Inv
  BY FS_EmptySet DEF PoolInit, IndexInv, IndexesAgree
<1>2. Inv /\ [PoolNext]_poolVars => Inv'
  <2> SUFFICES ASSUME Inv, [PoolNext]_poolVars PROVE IsFiniteSet(entries)'
    BY IndexStep
  <2>1. (\E t : entries' = entries \cup {t}) \/ entries' \subseteq entries
    BY DEF PoolNext, poolVars, add_tx, remove, evict_below_floor, evict_below_new_floor,
           evict_below, remove_entries, record_confirmed_fruit
  <2> QED BY <2>1, FS_Subset, FS_AddElement
<1>3. Inv => SelectionIsGreedy
  <2> SUFFICES ASSUME Inv, NEW shard \in Shards, NEW budget \in 0..size_of(entries)
               PROVE  LET selected == select_for_fruit(shard, budget) IN
                        /\ selected \subseteq eligible(shard) /\ size_of(selected) <= budget
                        /\ \A t \in eligible(shard) \ selected :
                             size_of({u \in selected : selected_before(u, t)}) + Tx[t].size > budget
    BY DEF SelectionIsGreedy
  <2>1. budget \in Nat
    <3>1. size_of(entries) \in Nat
      BY SizeOf DEF IndexInv
    <3> QED BY <3>1
  <2>2. bucket(shard) \subseteq entries
    BY DEF bucket, IndexInv, IndexesAgree
  <2>3. IsFiniteSet(eligible(shard)) /\ eligible(shard) \subseteq DOMAIN Tx
    BY <2>2, FS_Subset DEF eligible, IndexInv
  <2> QED BY <2>1, <2>3, GreedySelection
<1> QED BY <1>1, <1>2, <1>3, PTL DEF PoolSpec

-----------------------------------------------------------------------------
(* The keystore.                                                           *)

\* The file is absent, torn, or a document some command reported as saved.
KeyInv == keyFile \in {NoFile, Torn} \cup saved /\ LoadedWasSaved

\* However commands race for the file and whichever of them are killed, what a
\* load returns was saved in full under the password it was given.
THEOREM LoadsAreSaves == KeystoreSpec => []LoadedWasSaved
<1>1. KeystoreInit => KeyInv
  BY DEF KeystoreInit, KeyInv, LoadedWasSaved
<1> DEFINE Documents == \A d \in saved : \E seed, password : d = Document(seed, password)
<1>2. KeystoreInit => Documents
  BY DEF KeystoreInit
<1>3. KeyInv /\ Documents /\ [KeystoreNext]_keystoreVars => (KeyInv /\ Documents)'
  <2> SUFFICES ASSUME KeyInv, Documents, [KeystoreNext]_keystoreVars
               PROVE  (KeyInv /\ Documents)'
    OBVIOUS
  <2> USE DEF KeyInv, LoadedWasSaved
  <2>1. ASSUME NEW c \in Commands, NEW seed \in Seeds, NEW password \in Passwords,
               NEW overwrite \in BOOLEAN, CheckAbsent(c, seed, password, overwrite)
        PROVE  (KeyInv /\ Documents)'
    BY <2>1 DEF CheckAbsent
  <2>2. ASSUME NEW c \in Commands, OpenFile(c) PROVE (KeyInv /\ Documents)'
    BY <2>2 DEF OpenFile
  <2>3. ASSUME NEW c \in Commands, WriteFile(c) PROVE (KeyInv /\ Documents)'
    BY <2>3 DEF WriteFile
  <2>4. ASSUME NEW c \in Commands, Kill(c) PROVE (KeyInv /\ Documents)'
    BY <2>4 DEF Kill
  <2>5. ASSUME NEW password \in Passwords, LoadKeystore(password) PROVE (KeyInv /\ Documents)'
    <3>1. keyFile \in saved /\ keyFile[3] = password
      BY <2>5 DEF LoadKeystore, Opens
    <3>2. keyFile = Document(keyFile[2], password)
      BY <3>1 DEF Document
    <3> QED BY <2>5, <3>1, <3>2 DEF LoadKeystore
  <2>6. CASE UNCHANGED keystoreVars
    BY <2>6 DEF keystoreVars
  <2> QED BY <2>1, <2>2, <2>3, <2>4, <2>5, <2>6 DEF KeystoreNext
<1>4. KeyInv => LoadedWasSaved
  BY DEF KeyInv
<1> QED BY <1>1, <1>2, <1>3, <1>4, PTL DEF KeystoreSpec

-----------------------------------------------------------------------------
(* The wallet.                                                             *)

\* Numbers named one to one by a function are counted by their names.
LEMMA CountOneToOne ==
  ASSUME NEW n \in Nat, NEW f, \A i, j \in 1..n : f[i] = f[j] => i = j
  PROVE  IsFiniteSet({f[i] : i \in 1..n}) /\ Cardinality({f[i] : i \in 1..n}) = n
<1> DEFINE T == {f[i] : i \in 1..n}
           g == [i \in 1..n |-> f[i]]
<1>1. IsFiniteSet(1..n) /\ Cardinality(1..n) = n
  BY FS_Interval
<1>2. g \in Surjection(1..n, T)
  BY DEF Surjection
<1>3. g \in Injection(1..n, T)
  BY DEF Injection, IsInjective
<1> HIDE DEF g, T
<1>4. IsFiniteSet(T) /\ Cardinality(T) = Cardinality(1..n)
  BY <1>1, <1>2, <1>3, FS_Surjection
<1> QED BY <1>1, <1>4 DEF T

\* Coins sorted by outpoint: each of them once.
LEMMA SortedCoins ==
  ASSUME NEW S, IsCoinSet(S), NEW q, q = ByOutpoint(S)
  PROVE  /\ Cardinality(S) \in Nat
         /\ q \in [1..Cardinality(S) -> S]
         /\ \A c \in S : \E i \in 1..Cardinality(S) : q[i] = c
         /\ \A i, j \in 1..Cardinality(S) : q[i] = q[j] => i = j
<1> DEFINE n == Cardinality(S)
           R == {p \in S \X S : p[1].outpoint < p[2].outpoint}
           Place(c) == Cardinality({d \in S : d.outpoint < c.outpoint})
<1>1. IsFiniteSet(S) /\ n \in Nat
  BY FS_CardinalityType DEF IsCoinSet
<1>2. \A c \in S : c.outpoint \in Nat
  BY WalletAssumption DEF IsCoinSet
<1>3. \A c, d \in S : c.outpoint = d.outpoint => c = d
  BY DEF IsCoinSet
<1>4. \A c, d \in S : <<c, d>> \in R <=> c.outpoint < d.outpoint
  OBVIOUS
<1> HIDE DEF R
<1>5. IsStrictOrder(R, S)
  BY <1>2, <1>3, <1>4 DEF IsStrictOrder
<1>6. \A c \in S : Place(c) = RankIn(S, R, c)
  <2> SUFFICES ASSUME NEW c \in S PROVE Place(c) = RankIn(S, R, c)
    OBVIOUS
  <2>1. {d \in S : d.outpoint < c.outpoint} = {d \in S : <<d, c>> \in R}
    BY <1>4
  <2> QED BY <2>1 DEF RankIn
<1>7. q = [i \in 1..n |-> CHOOSE c \in S : Place(c) = i - 1]
  BY DEF ByOutpoint
<1> HIDE DEF Place, n
<1>8. /\ \A i \in 1..n : \E c \in S : RankIn(S, R, c) = i - 1
      /\ \A c \in S : RankIn(S, R, c) \in 0..(n - 1)
      /\ \A c, d \in S : <<c, d>> \in R <=> RankIn(S, R, c) < RankIn(S, R, d)
  BY <1>1, <1>5, RanksFill DEF n
<1>9. \A i \in 1..n : q[i] \in S /\ Place(q[i]) = i - 1
  <2> SUFFICES ASSUME NEW i \in 1..n PROVE q[i] \in S /\ Place(q[i]) = i - 1
    OBVIOUS
  <2> DEFINE At(c) == c \in S /\ Place(c) = i - 1
  <2>1. \E c : At(c)
    BY <1>6, <1>8
  <2>2. q[i] = CHOOSE c : At(c)
    BY <1>7
  <2>3. At(CHOOSE c : At(c))
    <3> HIDE DEF At
    <3> QED BY <2>1, Zenon
  <2> QED BY <2>2, <2>3
<1>10. ASSUME NEW i \in 1..n, NEW j \in 1..n, q[i] = q[j] PROVE i = j
  <2>1. i - 1 = j - 1
    BY <1>9, <1>10
  <2> QED BY <1>1, <2>1
<1>11. ASSUME NEW c \in S PROVE \E i \in 1..n : q[i] = c
  <2> DEFINE i == Place(c) + 1
  <2>1. i \in 1..n /\ Place(c) \in Nat
    BY <1>1, <1>6, <1>8
  <2>2. q[i] \in S /\ Place(q[i]) = Place(c)
    BY <1>9, <2>1
  <2> HIDE DEF i
  <2>3. q[i] = c
    <3>1. RankIn(S, R, q[i]) = RankIn(S, R, c) /\ RankIn(S, R, c) \in Nat
      BY <1>1, <1>6, <1>8, <2>2
    <3>2. ~ (<<q[i], c>> \in R) /\ ~ (<<c, q[i]>> \in R)
      BY <1>8, <2>2, <3>1
    <3> QED BY <1>2, <1>3, <1>4, <2>2, <3>2
  <2> QED BY <2>1, <2>3
<1>12. q \in [1..n -> S]
  BY <1>7, <1>9
<1> QED BY <1>1, <1>10, <1>11, <1>12 DEF n

\* The amount of coins that are listed one to one is the sum over the list.
LEMMA AmountOfList ==
  ASSUME NEW n \in Nat, NEW src, \A i \in 1..n : src[i].amount \in Nat,
         \A i, j \in 1..n : src[i] = src[j] => i = j
  PROVE  /\ Amount({src[i] : i \in 1..n}) = SumFunctionOnSet([i \in 1..n |-> src[i].amount], 1..n)
         /\ Amount({src[i] : i \in 1..n}) \in Nat
<1> DEFINE T == {src[i] : i \in 1..n}
           value == [c \in T |-> c.amount]
           named == [i \in 1..n |-> src[i].amount]
           S == 1..n
<1>1. IsFiniteSet(S)
  BY FS_Interval
<1>2. \A i \in S : named[i] \in Nat /\ named[i] \in Int /\ value[src[i]] = named[i]
  OBVIOUS
<1>3. \A i, j \in S : src[i] = src[j] => i = j
  OBVIOUS
<1>4. DOMAIN value = T /\ T = {src[i] : i \in S}
  OBVIOUS
<1> HIDE DEF value, named, S
<1>5. SumFunctionOnSet(value, {src[i] : i \in S}) = SumFunctionOnSet(named, S)
  BY <1>1, <1>2, <1>3, SumRenamed
<1>6. SumFunctionOnSet(named, S) \in Nat
  BY <1>1, <1>2, SumNat
<1>7. SumFunction(value) = SumFunctionOnSet(named, S)
  BY <1>4, <1>5 DEF SumFunction
<1> HIDE DEF T
<1>8. Amount(T) = SumFunction(value)
  BY DEF Amount, value
<1> QED BY <1>6, <1>7, <1>8 DEF T, named, S

\* Coin selection takes the wallet's own mature coins, each once, until they cover
\* what is required.
LEMMA SelectedCoins ==
  ASSUME NEW S, IsCoinSet(S), NEW now, NEW required \in Nat \ {0},
         BalanceMatoms(S, now) >= required, NEW chosen, chosen = Selected(S, now, required)
  PROVE  \E m \in Nat :
           /\ chosen \in [1..m -> S] /\ Len(chosen) = m
           /\ \A i \in 1..m : chosen[i].payload = Pkh(OwnKey) /\ UtxoIsMature(chosen[i], now)
           /\ \A i, j \in 1..m : chosen[i] = chosen[j] => i = j
           /\ Range(chosen) = {chosen[i] : i \in 1..m}
           /\ Amount(Range(chosen)) \in Nat /\ Amount(Range(chosen)) >= required
<1> DEFINE own == {c \in S : c.payload = Pkh(OwnKey) /\ UtxoIsMature(c, now)}
           owned == OwnedUtxos(S, now)
           n == Cardinality(own)
           First(m) == SubSeq(owned, 1, m)
           Covering == {m \in 1..n : Amount(Range(First(m))) >= required}
<1>1. IsCoinSet(own)
  BY FS_Subset DEF IsCoinSet
<1>2. owned = ByOutpoint(own)
  BY DEF OwnedUtxos
<1>3. \A c \in own : c \in S /\ c.payload = Pkh(OwnKey) /\ UtxoIsMature(c, now) /\ c.amount \in Nat
  BY DEF IsCoinSet
<1>4. chosen = SubSeq(owned, 1, Min({m \in 1..Len(owned) : Amount(Range(First(m))) >= required}))
  BY DEF Selected
<1>5. Amount(Range(owned)) >= required
  BY DEF BalanceMatoms
<1> HIDE DEF own, owned
<1>6. /\ n \in Nat
      /\ owned \in [1..n -> own]
      /\ \A i, j \in 1..n : owned[i] = owned[j] => i = j
  BY <1>1, <1>2, SortedCoins
<1> HIDE DEF n
<1>7. owned \in Seq(own) /\ Len(owned) = n
  <2>1. owned \in Seq(own)
    BY <1>6, SeqDef
  <2>2. DOMAIN owned = 1..Len(owned) /\ Len(owned) \in Nat
    BY <2>1, LenProperties
  <2>3. DOMAIN owned = 1..n
    BY <1>6
  <2> QED BY <1>6, <2>1, <2>2, <2>3
<1>8. ASSUME NEW m \in 0..n
      PROVE  /\ First(m) \in [1..m -> own] /\ Len(First(m)) = m
             /\ \A i \in 1..m : First(m)[i] = owned[i]
             /\ Range(First(m)) = {First(m)[i] : i \in 1..m}
             /\ Amount(Range(First(m))) \in Nat
             /\ m = 0 => Amount(Range(First(m))) = 0
  <2> DEFINE part == First(m)
  <2>1. m \in Nat /\ m \in Int /\ \A i \in 1..m : i \in 1..n /\ owned[i] \in own
    BY <1>6
  <2>2. /\ part \in Seq(own) /\ Len(part) = m
        /\ \A i \in 1..m : part[i] = owned[i]
    <3>1. /\ part \in Seq(own)
          /\ Len(part) = IF 1 <= m THEN m - 1 + 1 ELSE 0
          /\ \A i \in 1..(m - 1 + 1) : part[i] = owned[1 + i - 1]
      BY <2>1, SubSeqProperties
    <3> HIDE DEF part
    <3> QED BY <2>1, <3>1
  <2> HIDE DEF part
  <2>3. part \in [1..m -> own] /\ DOMAIN part = 1..m
    BY <2>2, LenProperties
  <2>4. Range(part) = {part[i] : i \in 1..m}
    BY <2>3 DEF Range
  <2>5. \A i \in 1..m : part[i].amount \in Nat
    BY <1>3, <2>3
  <2>6. \A i, j \in 1..m : part[i] = part[j] => i = j
    BY <1>6, <2>1, <2>2
  <2>7. /\ Amount({part[i] : i \in 1..m})
             = SumFunctionOnSet([i \in 1..m |-> part[i].amount], 1..m)
        /\ Amount({part[i] : i \in 1..m}) \in Nat
    BY <2>1, <2>5, <2>6, AmountOfList
  <2>8. ASSUME m = 0 PROVE Amount(Range(part)) = 0
    <3>1. 1..m = {}
      BY <2>8
    <3> QED BY <2>4, <2>7, <3>1, SumEmpty
  <2> QED BY <2>2, <2>3, <2>4, <2>7, <2>8 DEF part
<1>9. First(n) = owned
  BY <1>7, SubSeqFull
<1> HIDE DEF First
<1>10. n \in Covering
  <2>1. n # 0
    BY <1>5, <1>6, <1>8, <1>9
  <2> QED BY <1>5, <1>6, <1>9, <2>1
<1> DEFINE m == Min(Covering)
<1>11. m \in Covering
  <2> DEFINE Least(x) == x \in Covering /\ \A y \in Covering : x <= y
  <2>1. \E x : Least(x)
    <3>1. Covering \subseteq Nat
      BY <1>6
    <3> HIDE DEF Covering
    <3> QED BY <1>10, <3>1, LeastNat
  <2>2. m = CHOOSE x : Least(x)
    BY DEF Min
  <2> HIDE DEF Least, m
  <2>3. Least(m)
    BY <2>1, <2>2, Zenon
  <2> QED BY <2>3 DEF Least
<1>12. chosen = First(m)
  BY <1>4, <1>7 DEF First
<1> HIDE DEF m
<1>13. m \in 0..n /\ m \in 1..n /\ m \in Nat /\ Amount(Range(First(m))) >= required
  BY <1>6, <1>11
<1>14. /\ chosen \in [1..m -> own] /\ Len(chosen) = m
       /\ \A i \in 1..m : chosen[i] = owned[i]
       /\ Range(chosen) = {chosen[i] : i \in 1..m}
       /\ Amount(Range(chosen)) \in Nat
  BY <1>8, <1>12, <1>13
<1>15. chosen \in [1..m -> S]
       /\ \A i \in 1..m : chosen[i].payload = Pkh(OwnKey) /\ UtxoIsMature(chosen[i], now)
  BY <1>3, <1>14
<1>16. \A i, j \in 1..m : chosen[i] = chosen[j] => i = j
  <2>1. \A i \in 1..m : i \in 1..n
    BY <1>6, <1>13
  <2> QED BY <1>6, <1>14, <2>1
<1> QED BY <1>12, <1>13, <1>14, <1>15, <1>16

\* What the wallet knows of a transaction it signed: the coins it took for the
\* inputs were its own, different, past their height locks at height h and worth
\* the outputs with the fee; and a coin of S under one of these outpoints is the
\* coin it took.
Funds(e, src, n, S, h) ==
  /\ Len(e.tx.inputs) = n
  /\ \A i \in 1..n :
       /\ e.tx.inputs[i].outpoint = src[i].outpoint
       /\ e.tx.inputs[i].witness = <<<<"sig", OwnKey[2], Sighash(e.tx, i)>>, OwnKey>>
       /\ src[i].payload = Pkh(OwnKey) /\ Mature(src[i].locks.height, h)
       /\ {src[i].amount, src[i].locks.time, src[i].locks.height} \subseteq Nat
       /\ \A c \in S : c.outpoint = src[i].outpoint => c = src[i]
  /\ \A i, j \in 1..n : src[i].outpoint = src[j].outpoint => i = j
  /\ Amount({src[i] : i \in 1..n}) = OutputSum(e.tx) + e.ask.fee

IsFunded(e, S, h) == \E n \in Nat : \E src : Funds(e, src, n, S, h)

\* The outputs of a transaction that pays what was asked, and the change.
PaysOut(tx, ask, change) ==
  /\ OutputSum(tx) = ask.amount + change
  /\ Len(tx.outputs) \in Nat
  /\ \A i \in 1..Len(tx.outputs) :
       /\ tx.outputs[i].amount \in Nat /\ tx.outputs[i].locks = NoLocks
       /\ tx.outputs[i].payload = Pkh(IF i = 1 THEN ask.key ELSE ask.change)
  /\ tx.outputs[1].amount = ask.amount

\* What it knows of its outputs and of its locks.
Pays(e) ==
  /\ e.ask.fee \in Nat /\ e.ask.amount \in Nat /\ e.tx.locks = e.ask.locks
  /\ \E change \in Nat : PaysOut(e.tx, e.ask, change)

\* The transaction before it is signed.
Unsigned(points, m, outs, locks) ==
  [inputs |-> [i \in 1..m |-> [outpoint |-> points[i], witness |-> <<>>]],
   outputs |-> outs, locks |-> locks]

\* The inputs of a transaction that spends points, signed.
IsSignedFor(tx, points, m) ==
  /\ Len(tx.inputs) = m
  /\ \A i \in 1..m : /\ tx.inputs[i].outpoint = points[i]
                     /\ tx.inputs[i].witness
                          = <<<<"sig", OwnKey[2], Sighash(tx, i)>>, OwnKey>>

\* A sum of one term, and of two.
LEMMA SumOfTwo ==
  ASSUME NEW fun
  PROVE  /\ fun[1] \in Int => SumFunctionOnSet(fun, 1..1) = fun[1]
         /\ fun[1] \in Int /\ fun[2] \in Int => SumFunctionOnSet(fun, 1..2) = fun[1] + fun[2]
<1>1. /\ 1..1 = {1} /\ {1} \ {1} = {} /\ 2 \in 1..2 /\ (1..2) \ {2} = {1} /\ 1 \in {1}
      /\ \A i \in 1..2 : i = 1 \/ i = 2
  OBVIOUS
<1>2. IsFiniteSet({1}) /\ IsFiniteSet(1..2)
  <2>1. IsFiniteSet({1})
    BY FS_Singleton
  <2>2. IsFiniteSet(1..2)
    <3>1. 1 \in Int /\ 2 \in Int
      OBVIOUS
    <3> QED BY <3>1, FS_Interval, Zenon
  <2> QED BY <2>1, <2>2, Zenon
<1>3. SumFunctionOnSet(fun, {}) = 0
  BY SumEmpty
<1>4. ASSUME fun[1] \in Int PROVE SumFunctionOnSet(fun, {1}) = fun[1]
  <2>1. /\ SumFunctionOnSet(fun, {1}) \in Int
        /\ SumFunctionOnSet(fun, {1} \ {1}) \in Int
        /\ SumFunctionOnSet(fun, {1}) = fun[1] + SumFunctionOnSet(fun, {1} \ {1})
    <3>1. \A x \in {1} : fun[x] \in Int
      BY <1>4
    <3> QED BY <1>1, <1>2, <3>1, SumAdd
  <2> QED BY <1>1, <1>3, <1>4, <2>1
<1>5. ASSUME fun[1] \in Int, fun[2] \in Int
      PROVE  SumFunctionOnSet(fun, 1..2) = fun[1] + fun[2]
  <2> DEFINE D == 1..2
  <2>1. IsFiniteSet(D) /\ 2 \in D /\ \A x \in D : fun[x] \in Int
    BY <1>1, <1>2, <1>5
  <2> HIDE DEF D
  <2>2. /\ SumFunctionOnSet(fun, D) \in Int
        /\ SumFunctionOnSet(fun, D \ {2}) \in Int
        /\ SumFunctionOnSet(fun, D) = fun[2] + SumFunctionOnSet(fun, D \ {2})
    BY <2>1, SumAdd
  <2>3. D \ {2} = {1}
    BY <1>1 DEF D
  <2>4. SumFunctionOnSet(fun, D \ {2}) = fun[1]
    BY <1>4, <1>5, <2>3
  <2>5. SumFunctionOnSet(fun, D) = fun[1] + fun[2]
    BY <1>5, <2>2, <2>4
  <2> QED BY <2>5 DEF D
<1> QED BY <1>1, <1>4, <1>5

\* One output, or two with the change, add up to what was asked and the change.
LEMMA SumOfOutputs ==
  ASSUME NEW ask, ask.amount \in Nat, NEW change \in Nat, NEW tx,
         tx.outputs = OutputsFor(ask, change)
  PROVE  PaysOut(tx, ask, change)
<1> DEFINE Out(a, k) == [amount |-> a, payload |-> Pkh(k), locks |-> NoLocks]
           first == Out(ask.amount, ask.key)
           second == Out(change, ask.change)
           outs == tx.outputs
           n == Len(outs)
           fun == [i \in 1..n |-> outs[i].amount]
<1>0. /\ first.amount = ask.amount /\ first.payload = Pkh(ask.key) /\ first.locks = NoLocks
      /\ second.amount = change /\ second.payload = Pkh(ask.change) /\ second.locks = NoLocks
  OBVIOUS
<1>1. outs = IF change = 0 THEN <<first>> ELSE <<first, second>>
  BY DEF OutputsFor
<1> HIDE DEF outs, first, second
<1>2. OutputSum(tx) = SumFunctionOnSet(fun, 1..n)
  BY DEF OutputSum, SumFunction, outs
<1>3. CASE change = 0
  <2>1. n = 1 /\ outs[1] = first
    BY <1>1, <1>3
  <2>2. fun[1] = ask.amount
    BY <1>0, <2>1
  <2> HIDE DEF fun
  <2>3. SumFunctionOnSet(fun, 1..1) = fun[1]
    BY <2>2, SumOfTwo
  <2>4. OutputSum(tx) = ask.amount + change
    BY <1>2, <1>3, <2>1, <2>2, <2>3
  <2>5. \A i \in 1..n : i = 1
    BY <2>1
  <2> QED BY <1>0, <2>1, <2>4, <2>5 DEF n, outs, PaysOut
<1>4. CASE change # 0
  <2>1. n = 2 /\ outs[1] = first /\ outs[2] = second
    BY <1>1, <1>4
  <2>2. fun[1] = ask.amount /\ fun[2] = change
    BY <1>0, <2>1
  <2> HIDE DEF fun
  <2>3. SumFunctionOnSet(fun, 1..2) = fun[1] + fun[2]
    BY <2>2, SumOfTwo
  <2>4. OutputSum(tx) = ask.amount + change
    BY <1>2, <2>1, <2>2, <2>3
  <2>5. \A i \in 1..n : i = 1 \/ i = 2
    BY <2>1
  <2> QED BY <1>0, <2>1, <2>4, <2>5 DEF n, outs, PaysOut
<1> QED BY <1>3, <1>4

\* A list of so many inputs.
LEMMA LenOfList ==
  ASSUME NEW m \in Nat, NEW q, DOMAIN q = 1..m, q = [i \in 1..m |-> q[i]]
  PROVE  Len(q) = m
<1>1. q \in Seq({q[i] : i \in 1..m})
  <2>1. q \in [1..m -> {q[i] : i \in 1..m}]
    OBVIOUS
  <2> QED BY <2>1, SeqDef
<1>2. DOMAIN q = 1..Len(q) /\ Len(q) \in Nat
  BY <1>1, LenProperties
<1> QED BY <1>2

\* Signing fills in the witnesses, which the signed message leaves out.
LEMMA SignedInputs ==
  ASSUME NEW m \in Nat, NEW points, NEW outs, NEW locks, NEW u, NEW tx,
         u = Unsigned(points, m, outs, locks), tx = SignTransaction(u)
  PROVE  IsSignedFor(tx, points, m) /\ tx.outputs = outs /\ tx.locks = locks
<1> DEFINE Witness(t, i) == <<<<"sig", OwnKey[2], Sighash(t, i)>>, OwnKey>>
           plain == [i \in 1..m |-> [outpoint |-> points[i], witness |-> <<>>]]
           signed == [i \in 1..m |-> [outpoint |-> points[i], witness |-> Witness(u, i)]]
<1>1. u.inputs = plain /\ u.outputs = outs /\ u.locks = locks
  BY DEF Unsigned
<1>2. Len(plain) = m
  BY LenOfList
<1>3. tx.inputs = [i \in 1..m |-> [outpoint |-> u.inputs[i].outpoint, witness |-> Witness(u, i)]]
      /\ tx.outputs = outs /\ tx.locks = locks
  BY <1>1, <1>2 DEF SignTransaction
<1>4. \A i \in 1..m : u.inputs[i].outpoint = points[i]
  BY <1>1
<1> HIDE DEF Witness
<1>5. tx.inputs = signed
  BY <1>3, <1>4
<1>6. Len(signed) = m
  BY LenOfList
<1>7. \A i \in 1..m : signed[i].outpoint = points[i] /\ signed[i].witness = Witness(u, i)
  OBVIOUS
<1>8. WithoutWitnesses(u) = [inputs |-> plain, outputs |-> outs, locks |-> locks]
  <2> HIDE DEF plain
  <2>1. [i \in 1..m |-> [outpoint |-> u.inputs[i].outpoint, witness |-> <<>>]] = plain
    BY <1>4 DEF plain
  <2> QED BY <1>1, <1>2, <2>1 DEF WithoutWitnesses
<1>9. WithoutWitnesses(tx) = [inputs |-> plain, outputs |-> outs, locks |-> locks]
  <2> HIDE DEF plain, signed
  <2>1. [i \in 1..m |-> [outpoint |-> tx.inputs[i].outpoint, witness |-> <<>>]] = plain
    BY <1>5, <1>7 DEF plain
  <2> QED BY <1>3, <1>5, <1>6, <2>1 DEF WithoutWitnesses
<1>10. \A i \in 1..m : Witness(u, i) = Witness(tx, i)
  BY <1>8, <1>9 DEF Witness, Sighash
<1> HIDE DEF signed
<1> QED BY <1>3, <1>5, <1>6, <1>7, <1>10 DEF Witness, IsSignedFor

\* What create_signed_transaction returns is funded by the coins it was given.
LEMMA CreatedIsFunded ==
  ASSUME NEW S, IsCoinSet(S), NEW now, NEW ask, ask.amount \in Nat, ask.fee \in Nat,
         NEW tx \in CreateSignedTransaction(S, now, ask),
         NEW e, e = [tx |-> tx, ask |-> ask]
  PROVE  IsFunded(e, S, now.height) /\ Pays(e) /\ Spent(e.tx) \subseteq {c.outpoint : c \in S}
<1> DEFINE amount == ask.amount
           fee == ask.fee
           chosen == Selected(S, now, amount + fee)
           change == Amount(Range(chosen)) - (amount + fee)
           unsigned == [inputs |-> [i \in 1..Len(chosen) |->
                                      [outpoint |-> chosen[i].outpoint, witness |-> <<>>]],
                        outputs |-> OutputsFor(ask, change), locks |-> ask.locks]
<1>1. /\ amount \in 1..MaxSupply /\ ~ (BalanceMatoms(S, now) < amount + fee)
      /\ tx = SignTransaction(unsigned)
  BY DEF CreateSignedTransaction
<1>0. amount \in Nat /\ fee \in Nat
  OBVIOUS
<1>2. BalanceMatoms(S, now) >= amount + fee /\ amount + fee \in Nat \ {0}
  <2>1. amount + fee \in Nat \ {0}
    BY <1>1
  <2>2. BalanceMatoms(S, now) \in Nat
    <3> DEFINE own == {c \in S : c.payload = Pkh(OwnKey) /\ UtxoIsMature(c, now)}
               q == OwnedUtxos(S, now)
               n == Cardinality(own)
    <3>1. IsCoinSet(own) /\ q = ByOutpoint(own)
      BY FS_Subset DEF IsCoinSet, OwnedUtxos
    <3>2. \A c \in own : c.amount \in Nat
      BY DEF IsCoinSet
    <3> HIDE DEF own, q
    <3>3. n \in Nat /\ q \in [1..n -> own] /\ \A i, j \in 1..n : q[i] = q[j] => i = j
      BY <3>1, SortedCoins
    <3> HIDE DEF n, chosen, change, unsigned
    <3>4. Range(q) = {q[i] : i \in 1..n}
      BY <3>3 DEF Range
    <3>6. \A i \in 1..n : q[i].amount \in Nat
      BY <3>2, <3>3
    <3>7. n \in Nat
      BY <3>3
    <3>8. \A i, j \in 1..n : q[i] = q[j] => i = j
      BY <3>3
    <3>5. /\ Amount({q[i] : i \in 1..n}) = SumFunctionOnSet([i \in 1..n |-> q[i].amount], 1..n)
          /\ Amount({q[i] : i \in 1..n}) \in Nat
      BY <3>6, <3>7, <3>8, AmountOfList
    <3> QED BY <3>4, <3>5 DEF BalanceMatoms, q
  <2> QED BY <1>1, <2>1, <2>2
<1> HIDE DEF chosen
<1>3. PICK m \in Nat :
        /\ chosen \in [1..m -> S] /\ Len(chosen) = m
        /\ \A i \in 1..m : chosen[i].payload = Pkh(OwnKey) /\ UtxoIsMature(chosen[i], now)
        /\ \A i, j \in 1..m : chosen[i] = chosen[j] => i = j
        /\ Range(chosen) = {chosen[i] : i \in 1..m}
        /\ Amount(Range(chosen)) \in Nat /\ Amount(Range(chosen)) >= amount + fee
  BY <1>2, SelectedCoins DEF chosen
<1>4. change \in Nat
  BY <1>2, <1>3
<1> DEFINE points == [i \in 1..m |-> chosen[i].outpoint]
           outs == OutputsFor(ask, change)
<1>5. unsigned = Unsigned(points, m, outs, ask.locks)
  BY <1>3 DEF Unsigned
<1> HIDE DEF unsigned, outs
<1>6. \A i \in 1..m : points[i] = chosen[i].outpoint
  OBVIOUS
<1> HIDE DEF points
<1>7. IsSignedFor(tx, points, m) /\ tx.outputs = outs /\ tx.locks = ask.locks
  <2>1. tx = SignTransaction(unsigned)
    BY <1>1
  <2> QED BY <1>5, <2>1, SignedInputs
<1>8. tx.outputs = OutputsFor(ask, change)
  BY <1>7 DEF outs
<1>10. PaysOut(tx, ask, change)
  <2> HIDE DEF change
  <2> QED BY <1>4, <1>8, SumOfOutputs
<1>11. e.tx = tx /\ e.ask = ask
  OBVIOUS
<1>12. Pays(e)
  BY <1>4, <1>7, <1>10, <1>11 DEF Pays
<1>13. Funds(e, chosen, m, S, now.height)
  <2>1. \A i \in 1..m : {chosen[i].amount, chosen[i].locks.time, chosen[i].locks.height} \subseteq Nat
    BY <1>3 DEF IsCoinSet
  <2>2. \A i \in 1..m : \A c \in S : c.outpoint = chosen[i].outpoint => c = chosen[i]
    BY <1>3 DEF IsCoinSet
  <2>3. \A i, j \in 1..m : chosen[i].outpoint = chosen[j].outpoint => i = j
    BY <1>3, <2>2
  <2>4. Amount({chosen[i] : i \in 1..m}) = OutputSum(tx) + fee
    BY <1>3, <1>4, <1>10 DEF PaysOut
  <2>5. \A i \in 1..m : /\ tx.inputs[i].outpoint = chosen[i].outpoint
                        /\ tx.inputs[i].witness
                             = <<<<"sig", OwnKey[2], Sighash(tx, i)>>, OwnKey>>
    BY <1>6, <1>7 DEF IsSignedFor
  <2>6. Len(tx.inputs) = m
    BY <1>7 DEF IsSignedFor
  <2>7. \A i \in 1..m : chosen[i].payload = Pkh(OwnKey) /\ Mature(chosen[i].locks.height, now.height)
    BY <1>3 DEF UtxoIsMature
  <2> QED BY <1>11, <2>1, <2>2, <2>3, <2>4, <2>5, <2>6, <2>7 DEF Funds
<1>14. Spent(e.tx) \subseteq {c.outpoint : c \in S}
  <2>1. \A i \in 1..m : points[i] \in {c.outpoint : c \in S}
    BY <1>3, <1>6
  <2>2. Spent(tx) = {points[i] : i \in 1..m}
    BY <1>7 DEF Spent, IsSignedFor
  <2> QED BY <1>11, <2>1, <2>2
<1> QED BY <1>3, <1>12, <1>13, <1>14 DEF IsFunded

\* The node accepts a funded transaction in just the fruits that may carry it.
LEMMA FundedIsAccepted ==
  ASSUME IsCoinSet(coins), height \in Nat, NEW e, IsFunded(e, coins, height), Pays(e), Unspent(e.tx),
         NEW fruit
  PROVE  /\ NodeAccepts(e.tx, fruit) <=> MayCarry(e, fruit)
         /\ InputSum(e.tx) - OutputSum(e.tx) = e.ask.fee
<1> DEFINE tx == e.tx
           fee == e.ask.fee
<1>0. PICK n \in Nat : \E src : Funds(e, src, n, coins, height)
  BY DEF IsFunded
<1>1. PICK src : Funds(e, src, n, coins, height)
  BY <1>0
<1>2. /\ Len(tx.inputs) = n
      /\ \A i \in 1..n :
           /\ tx.inputs[i].outpoint = src[i].outpoint
           /\ tx.inputs[i].witness = <<<<"sig", OwnKey[2], Sighash(tx, i)>>, OwnKey>>
           /\ src[i].payload = Pkh(OwnKey) /\ Mature(src[i].locks.height, height)
           /\ src[i].amount \in Nat /\ src[i].locks.height \in Nat
           /\ \A c \in coins : c.outpoint = src[i].outpoint => c = src[i]
      /\ \A i, j \in 1..n : src[i].outpoint = src[j].outpoint => i = j
      /\ Amount({src[i] : i \in 1..n}) = OutputSum(tx) + fee
  BY <1>1 DEF Funds
<1>3. fee \in Nat /\ OutputSum(tx) \in Nat /\ tx.locks = e.ask.locks
  BY DEF Pays, PaysOut
<1>31. Unspent(tx)
  OBVIOUS
<1> HIDE DEF tx, fee
<1> DEFINE points == [i \in 1..n |-> src[i].outpoint]
<1>4. Spent(tx) = {points[i] : i \in 1..n}
  <2>1. Len(tx.inputs) = n /\ \A i \in 1..n : tx.inputs[i].outpoint = points[i]
    BY <1>2
  <2> HIDE DEF points
  <2> QED BY ONLY <2>1 DEF Spent
<1>5. \A i \in 1..n : src[i] \in coins
  <2> SUFFICES ASSUME NEW i \in 1..n PROVE src[i] \in coins
    OBVIOUS
  <2>1. src[i].outpoint \in Spent(tx)
    BY <1>4
  <2>2. PICK c \in coins : c.outpoint = src[i].outpoint
    BY <1>31, <2>1 DEF Unspent
  <2> QED BY <1>2, <2>2
<1>6. Cardinality(Spent(tx)) = n
  <2>1. \A i, j \in 1..n : points[i] = points[j] => i = j
    BY <1>2
  <2> HIDE DEF points
  <2>2. /\ IsFiniteSet({points[i] : i \in 1..n})
        /\ Cardinality({points[i] : i \in 1..n}) = n
    BY <2>1, CountOneToOne
  <2> QED BY <1>4, <2>2
<1>7. {c \in coins : c.outpoint \in Spent(tx)} = {src[i] : i \in 1..n}
  BY <1>2, <1>4, <1>5
<1>8. InputSum(tx) = OutputSum(tx) + fee
  BY <1>2, <1>7 DEF InputSum
<1> DEFINE Shown(i) == LET c == Coin(tx.inputs[i].outpoint)
                       IN  VerifyTemplate(c.payload, tx.inputs[i].witness, c.locks,
                                          [message |-> Sighash(tx, i), time |-> fruit.time,
                                           height |-> height + 1])
<1>9. ASSUME NEW i \in 1..n
      PROVE  Shown(i) <=> Mature(src[i].locks.time, fruit.time)
  <2> DEFINE At(c) == c \in coins /\ c.outpoint = tx.inputs[i].outpoint
             c == Coin(tx.inputs[i].outpoint)
             message == Sighash(tx, i)
             witness == tx.inputs[i].witness
             ctx == [message |-> message, time |-> fruit.time, height |-> height + 1]
  <2>1. At(src[i]) /\ \A d : At(d) => d = src[i]
    BY <1>2, <1>5
  <2>2. c = CHOOSE d : At(d)
    BY DEF Coin
  <2> HIDE DEF At, c
  <2>3. c = src[i]
    BY <2>1, <2>2, Zenon
  <2>4. c.payload = Pkh(OwnKey) /\ Mature(c.locks.height, height + 1)
    <3>1. c.payload = Pkh(OwnKey) /\ Mature(c.locks.height, height) /\ c.locks.height \in Nat
      BY <1>2, <2>3
    <3> QED BY <3>1 DEF Mature
  <2>5. witness = <<<<"sig", OwnKey[2], message>>, OwnKey>>
    BY <1>2
  <2>6. ctx.message = message /\ ctx.time = fruit.time /\ ctx.height = height + 1
    OBVIOUS
  <2> HIDE DEF witness, message, ctx
  <2>7. VerifyPkh(Pkh(OwnKey), witness, message)
    <3>1. Len(witness) = 2 /\ witness[1] = <<"sig", OwnKey[2], message>> /\ witness[2] = OwnKey
      BY <2>5
    <3>2. IsSig(witness[1]) /\ Is32(OwnKey) /\ IsKey(OwnKey)
      BY <3>1, WalletAssumption DEF IsSig, Is32, IsKey
    <3>3. Hash(OwnKey) = Pkh(OwnKey).hash
      BY DEF Pkh
    <3> QED BY <3>1, <3>2, <3>3 DEF VerifyPkh, Verifies
  <2>8. ValidPayload(Pkh(OwnKey)) /\ Pkh(OwnKey).template = "pkh"
    BY DEF ValidPayload, Pkh, Is32, Hash
  <2>9. VerifyTemplate(c.payload, witness, c.locks, ctx) <=> Mature(c.locks.time, fruit.time)
    BY <2>4, <2>6, <2>7, <2>8 DEF VerifyTemplate
  <2>10. Shown(i) <=> VerifyTemplate(c.payload, witness, c.locks, ctx)
    BY DEF c, witness, ctx, message
  <2> HIDE DEF Shown
  <2> QED BY <2>3, <2>9, <2>10
<1>10. (\A i \in 1..n : Shown(i))
         <=> \A c \in coins : c.outpoint \in Spent(tx) => Mature(c.locks.time, fruit.time)
  <2> HIDE DEF Shown
  <2> QED BY <1>7, <1>9
<1>11. InputSum(tx) - OutputSum(tx) = fee /\ OutputSum(tx) <= InputSum(tx)
  BY <1>3, <1>8
<1>12. NodeAccepts(tx, fruit)
         <=> /\ route_tx(DOMAIN floors, TxId(tx)) = fruit.shard
             /\ LocksPassed(tx.locks, fruit)
             /\ \A i \in 1..n : Shown(i)
             /\ PaysFloor(tx, fee, fruit)
  BY <1>2, <1>6, <1>11, <1>31 DEF NodeAccepts
<1>13. MayCarry(e, fruit)
         <=> /\ route_tx(DOMAIN floors, TxId(tx)) = fruit.shard
             /\ LocksPassed(tx.locks, fruit)
             /\ \A c \in coins : c.outpoint \in Spent(tx) => Mature(c.locks.time, fruit.time)
             /\ PaysFloor(tx, fee, fruit)
  BY <1>3, <1>31 DEF MayCarry, tx, fee
<1> HIDE DEF Shown
<1>14. NodeAccepts(tx, fruit) <=> MayCarry(e, fruit)
  BY <1>10, <1>12, <1>13
<1> QED BY <1>11, <1>14 DEF tx, fee

\* A coin never changes while it exists, in the node's set, in the listing and
\* in what the wallet has signed: new coins get outpoints nobody has seen.
WalletInv ==
  /\ height \in Nat
  /\ IsCoinSet(coins) /\ IsCoinSet(listing)
  /\ \A c \in coins, d \in listing : c.outpoint = d.outpoint => c = d
  /\ \A e \in sent : IsFunded(e, coins, height) /\ Pays(e)

\* Coins go and the height grows: what was funded stays so.
LEMMA FundedStays ==
  ASSUME NEW e, NEW S, NEW T, NEW h \in Nat, NEW g \in Nat, h <= g, IsFunded(e, S, h),
         \A c \in T \ S : c.outpoint \notin Spent(e.tx)
  PROVE  IsFunded(e, T, g)
<1>0. PICK n \in Nat : \E src : Funds(e, src, n, S, h)
  BY DEF IsFunded
<1>1. PICK src : Funds(e, src, n, S, h)
  BY <1>0
<1>2. \A i \in 1..n : src[i].outpoint \in Spent(e.tx)
  BY <1>1 DEF Funds, Spent
<1>3. \A i \in 1..n : \A c \in T : c.outpoint = src[i].outpoint => c = src[i]
  BY <1>1, <1>2 DEF Funds
<1>4. \A i \in 1..n : Mature(src[i].locks.height, g)
  <2> SUFFICES ASSUME NEW i \in 1..n PROVE Mature(src[i].locks.height, g)
    OBVIOUS
  <2>1. src[i].locks.height \in Nat /\ Mature(src[i].locks.height, h)
    BY <1>1 DEF Funds
  <2> QED BY <2>1 DEF Mature
<1>5. Funds(e, src, n, T, g)
  BY <1>1, <1>3, <1>4 DEF Funds
<1> QED BY <1>5 DEF IsFunded

\* A send, from whatever listing the wallet has.
LEMMA SendKeeps ==
  ASSUME WalletInv, NEW now \in Reckonings, NEW ask \in Asks, Send(now, ask)
  PROVE  WalletInv'
<1>1. PICK tx \in CreateSignedTransaction(listing, now, ask) :
        sent' = sent \cup {[tx |-> tx, ask |-> ask]}
  BY DEF Send
<1> DEFINE e == [tx |-> tx, ask |-> ask]
<1>2. coins' = coins /\ height' = height /\ listing' = listing
  BY DEF Send
<1>3. /\ ask.amount \in Nat /\ ask.fee \in Nat
      /\ now.height \in Nat /\ now.height <= height /\ height \in Nat
  BY WalletAssumption DEF WalletInv, Reckonings, NoLocks
<1>4. IsCoinSet(listing) /\ e = [tx |-> tx, ask |-> ask]
  BY DEF WalletInv
<1>5. sent' = sent \cup {e} /\ e.tx = tx
  BY <1>1
<1> HIDE DEF e
<1>6. /\ IsFunded(e, listing, now.height) /\ Pays(e)
      /\ Spent(e.tx) \subseteq {c.outpoint : c \in listing}
  BY <1>3, <1>4, CreatedIsFunded
<1>7. \A c \in coins \ listing : c.outpoint \notin Spent(e.tx)
  BY <1>6 DEF WalletInv
<1>8. IsFunded(e, coins, height)
  BY <1>3, <1>6, <1>7, FundedStays
<1> QED BY <1>2, <1>5, <1>6, <1>8 DEF WalletInv

\* The node applies a transaction.
LEMMA ConfirmKeeps ==
  ASSUME WalletInv, NEW e \in sent, NEW fruit, Confirm(e, fruit)
  PROVE  WalletInv'
<1> DEFINE known == {c.outpoint : c \in coins \cup listing} \cup UNION {Spent(d.tx) : d \in sent}
           n == Len(e.tx.outputs)
           Made(at, i) == [outpoint |-> at[i], amount |-> e.tx.outputs[i].amount,
                           payload |-> e.tx.outputs[i].payload, locks |-> e.tx.outputs[i].locks]
<1>1. PICK at \in [1..n -> Outpoints \ known] :
        /\ \A i, j \in 1..n : i < j => at[i] < at[j]
        /\ coins' = {c \in coins : c.outpoint \notin Spent(e.tx)} \cup {Made(at, i) : i \in 1..n}
  BY DEF Confirm
<1>2. height' = height /\ listing' = listing /\ sent' = sent
  BY DEF Confirm
<1>3. n \in Nat /\ \A i \in 1..n : e.tx.outputs[i].amount \in Nat /\ e.tx.outputs[i].locks = NoLocks
  BY DEF WalletInv, Pays, PaysOut
<1> DEFINE made == [i \in 1..n |-> Made(at, i)]
           kept == {c \in coins : c.outpoint \notin Spent(e.tx)}
           new == {made[i] : i \in 1..n}
<1>4. coins' = kept \cup new
  BY <1>1
<1>5. \A i \in 1..n : /\ made[i].outpoint = at[i] /\ made[i].outpoint \in Outpoints \ known
                      /\ made[i].amount \in Nat /\ made[i].locks.time = 0 /\ made[i].locks.height = 0
  <2> SUFFICES ASSUME NEW i \in 1..n
               PROVE  /\ made[i].outpoint = at[i] /\ made[i].outpoint \in Outpoints \ known
                      /\ made[i].amount \in Nat
                      /\ made[i].locks.time = 0 /\ made[i].locks.height = 0
    OBVIOUS
  <2>1. /\ made[i].outpoint = at[i] /\ made[i].amount = e.tx.outputs[i].amount
        /\ made[i].locks = e.tx.outputs[i].locks
    OBVIOUS
  <2> HIDE DEF made, known, n, kept, new
  <2>2. at[i] \in Outpoints \ known
    BY <1>1
  <2>3. e.tx.outputs[i].amount \in Nat /\ e.tx.outputs[i].locks = NoLocks
    BY <1>3
  <2> QED BY <2>1, <2>2, <2>3 DEF NoLocks
<1>6. ASSUME NEW i \in 1..n, NEW j \in 1..n, made[i].outpoint = made[j].outpoint PROVE i = j
  <2>1. at[i] = at[j] /\ at[i] \in Nat
    BY <1>1, <1>5, <1>6, WalletAssumption
  <2>2. ~ (i < j) /\ ~ (j < i)
    BY <1>1, <2>1
  <2> QED BY <1>3, <2>2
<1> HIDE DEF made, n
<1>7. IsFiniteSet(new) /\ \A c \in new : /\ c.outpoint \in Outpoints \ known
                                        /\ {c.amount, c.locks.time, c.locks.height} \subseteq Nat
                                        /\ \A d \in new : c.outpoint = d.outpoint => c = d
  <2>1. IsFiniteSet(new)
    <3>1. ASSUME NEW i \in 1..n, NEW j \in 1..n, made[i] = made[j] PROVE i = j
      <4>1. made[i].outpoint = made[j].outpoint
        BY <3>1
      <4> QED BY <1>6, <4>1
    <3>2. n \in Nat /\ \A i, j \in 1..n : made[i] = made[j] => i = j
      BY <1>3, <3>1
    <3> HIDE DEF new, known, kept, Made
    <3>3. IsFiniteSet({made[i] : i \in 1..n})
      BY ONLY <3>2, CountOneToOne
    <3> QED BY <3>3 DEF new
  <2>2. ASSUME NEW c \in new
        PROVE  /\ c.outpoint \in Outpoints \ known
               /\ {c.amount, c.locks.time, c.locks.height} \subseteq Nat
               /\ \A d \in new : c.outpoint = d.outpoint => c = d
    <3>1. PICK i \in 1..n : c = made[i]
      OBVIOUS
    <3>2. c.outpoint \in Outpoints \ known /\ {c.amount, c.locks.time, c.locks.height} \subseteq Nat
      BY <1>5, <3>1
    <3>3. ASSUME NEW d \in new, c.outpoint = d.outpoint PROVE c = d
      <4>1. PICK j \in 1..n : d = made[j]
        OBVIOUS
      <4> QED BY <1>6, <3>1, <3>3, <4>1
    <3> QED BY <3>2, <3>3
  <2> QED BY <2>1, <2>2
<1>8. \A c \in new : /\ \A d \in coins \cup listing : c.outpoint # d.outpoint
                     /\ \A d \in sent : c.outpoint \notin Spent(d.tx)
  BY <1>7
<1> HIDE DEF known, new
<1>9. IsFiniteSet(kept) /\ kept \subseteq coins
  BY FS_Subset DEF WalletInv, IsCoinSet
<1>10. IsFiniteSet(coins')
  BY <1>4, <1>7, <1>9, FS_Union
<1> HIDE DEF kept
<1>11. IsCoinSet(coins')
  <2>1. \A c \in coins' : /\ c.outpoint \in Outpoints
                           /\ {c.amount, c.locks.time, c.locks.height} \subseteq Nat
    BY <1>4, <1>7, <1>9 DEF WalletInv, IsCoinSet
  <2>2. ASSUME NEW c \in coins', NEW d \in coins', c.outpoint = d.outpoint PROVE c = d
    BY <1>4, <1>7, <1>8, <1>9, <2>2 DEF WalletInv, IsCoinSet
  <2> QED BY <1>10, <2>1, <2>2 DEF IsCoinSet
<1>12. \A c \in coins', d \in listing : c.outpoint = d.outpoint => c = d
  BY <1>4, <1>8, <1>9 DEF WalletInv
<1>13. ASSUME NEW d \in sent PROVE IsFunded(d, coins', height)
  <2>1. IsFunded(d, coins, height) /\ height \in Nat /\ height <= height
    BY DEF WalletInv
  <2>2. \A c \in coins' \ coins : c.outpoint \notin Spent(d.tx)
    BY <1>4, <1>8, <1>9
  <2> QED BY <2>1, <2>2, FundedStays
<1> QED BY <1>2, <1>11, <1>12, <1>13 DEF WalletInv, Pays

\* Whatever the wallet signed is accepted in just the fruits that may carry it,
\* however old the listing it was built from and however far the chain has moved,
\* and pays what was asked: only the shard tree, the locks, the coins and the fee
\* floor of the day can have it refused.
THEOREM WalletSpendsAreValid == WalletSpec => []SentRefusedOnlyByChain
<1>1. WalletInit => WalletInv
  <2> SUFFICES ASSUME WalletInit PROVE WalletInv
    OBVIOUS
  <2>1. IsCoinSet({})
    BY FS_EmptySet DEF IsCoinSet
  <2> QED BY <2>1, WalletAssumption DEF WalletInit, WalletInv
<1>2. WalletInv /\ [WalletNext]_walletVars => WalletInv'
  <2> SUFFICES ASSUME WalletInv, [WalletNext]_walletVars PROVE WalletInv'
    OBVIOUS
  <2>1. CASE ExportUtxos
    BY <2>1 DEF ExportUtxos, WalletInv, IsCoinSet
  <2>2. ASSUME NEW now \in Reckonings, NEW ask \in Asks, Send(now, ask) PROVE WalletInv'
    BY <2>2, SendKeeps
  <2>3. ASSUME NEW e \in sent, NEW fruit \in Fruits, Confirm(e, fruit) PROVE WalletInv'
    BY <2>3, ConfirmKeeps
  <2>4. CASE NextHeight
    <3>1. /\ height' = height + 1 /\ height \in Nat /\ height' \in Nat /\ height <= height'
          /\ coins' = coins /\ listing' = listing /\ sent' = sent
      BY <2>4 DEF NextHeight, WalletInv
    <3>2. ASSUME NEW e \in sent PROVE IsFunded(e, coins, height')
      <4>1. IsFunded(e, coins, height) /\ \A c \in coins \ coins : c.outpoint \notin Spent(e.tx)
        BY DEF WalletInv
      <4> QED BY <3>1, <4>1, FundedStays
    <3> QED BY <3>1, <3>2 DEF WalletInv, Pays
  <2>5. CASE UNCHANGED walletVars
    BY <2>5 DEF walletVars, WalletInv, Pays
  <2> QED BY <2>1, <2>2, <2>3, <2>4, <2>5 DEF WalletNext
<1>3. WalletInv => SentRefusedOnlyByChain
  <2> SUFFICES ASSUME WalletInv, NEW e \in sent
               PROVE  /\ \A fruit \in Fruits : NodeAccepts(e.tx, fruit) <=> MayCarry(e, fruit)
                      /\ Unspent(e.tx) => InputSum(e.tx) - OutputSum(e.tx) = e.ask.fee
                      /\ e.tx.outputs[1].amount = e.ask.amount
                      /\ \A i \in 1..Len(e.tx.outputs) :
                           e.tx.outputs[i].payload = Pkh(IF i = 1 THEN e.ask.key ELSE e.ask.change)
    BY DEF SentRefusedOnlyByChain
  <2>1. /\ IsCoinSet(coins) /\ height \in Nat /\ IsFunded(e, coins, height) /\ Pays(e)
    BY DEF WalletInv
  <2>2. ASSUME NEW fruit PROVE NodeAccepts(e.tx, fruit) <=> MayCarry(e, fruit)
    <3>1. CASE Unspent(e.tx)
      BY <2>1, <3>1, FundedIsAccepted
    <3>2. CASE ~ Unspent(e.tx)
      BY <3>2 DEF NodeAccepts, MayCarry
    <3> QED BY <3>1, <3>2
  <2>3. Unspent(e.tx) => InputSum(e.tx) - OutputSum(e.tx) = e.ask.fee
    BY <2>1, FundedIsAccepted
  <2> QED BY <2>1, <2>2, <2>3 DEF Pays, PaysOut
<1> QED BY <1>1, <1>2, <1>3, PTL DEF WalletSpec

-----------------------------------------------------------------------------
(* Scripts.  verify_template is shown to decide the policy directly.  The  *)
(* interpreter is executed symbolically: ScriptInv says which stack a      *)
(* spend has after k operations as long as every check so far has passed,  *)
(* and that a script which stops early has failed the policy or a limit.   *)

\* A sequence, whatever its items.
IsSeq(q) == q \in Seq(Range(q))

\* A sequence over some set is a sequence over its own items.
LEMMA SeqOwn ==
  ASSUME NEW S, NEW q \in Seq(S)
  PROVE  IsSeq(q) /\ Len(q) \in Nat /\ DOMAIN q = 1..Len(q)
<1>1. Len(q) \in Nat /\ DOMAIN q = 1..Len(q) /\ q \in [1..Len(q) -> S]
  BY LenProperties
<1>2. \A i \in 1..Len(q) : q[i] \in Range(q)
  BY <1>1 DEF Range
<1>3. q \in [1..Len(q) -> Range(q)]
  BY <1>1, <1>2
<1> QED BY <1>1, <1>3 DEF IsSeq

\* An item put on a stack is on top of what was there.
LEMMA Pushed ==
  ASSUME NEW q, IsSeq(q), NEW x
  PROVE  /\ IsSeq(Append(q, x)) /\ Append(q, x) # <<>>
         /\ Len(q) \in Nat /\ Len(Append(q, x)) = Len(q) + 1
         /\ \A i \in 1..Len(q) : Append(q, x)[i] = q[i]
         /\ Append(q, x)[Len(q) + 1] = x
         /\ SubSeq(Append(q, x), 1, Len(q)) = q
<1> DEFINE S == Range(q) \union {x}
           a == Append(q, x)
<1>1. q \in Seq(S) /\ x \in S /\ Len(q) \in Nat
  BY SeqMonotonic, LenProperties DEF IsSeq
<1> HIDE DEF S
<1>2. /\ a \in Seq(S) /\ a # <<>> /\ Len(a) = Len(q) + 1
      /\ \A i \in 1..Len(q) : a[i] = q[i]
      /\ a[Len(q) + 1] = x
  BY <1>1, AppendProperties
<1>3. IsSeq(a)
  <2> HIDE DEF a
  <2> QED BY <1>2, SeqOwn
<1> HIDE DEF a
<1>4. \A i \in 1..Len(q) : a[i] \in S
  BY <1>1, <1>2, ElementOfSeq
<1> DEFINE u == SubSeq(a, 1, Len(q))
<1>5. u \in Seq(S) /\ Len(u) = Len(q) /\ \A i \in 1..Len(q) : u[i] = a[i]
  BY <1>1, <1>4, SubSeqProperties
<1>6. u = q
  <2> HIDE DEF u
  <2> QED BY <1>1, <1>2, <1>5, SeqEqual
<1> QED BY <1>1, <1>2, <1>3, <1>6 DEF a

\* The least of some numbers.
LEMMA LeastOf ==
  ASSUME NEW T, T \subseteq Nat, T # {}
  PROVE  Min(T) \in T /\ \A x \in T : Min(T) <= x
<1>1. \E n \in T : \A x \in T : n =< x
  BY LeastNat
<1> QED BY <1>1, Zenon DEF Min

\* _verify_ordered_multisig gives each signature the first key it may have; that
\* is a matching whenever there is one.
LEMMA GreedyMatches ==
  ASSUME NEW sigs, NEW keys, Len(sigs) \in Nat, Len(keys) \in Nat, NEW message
  PROVE  OrderedMultisig(sigs, keys, message) <=> Signed(sigs, keys, message)
<1> DEFINE n == Len(sigs)
           m == Len(keys)
           Fit(t, i) == {j \in 1..m : t < j /\ Verifies(sigs[i], keys[j], message)}
           Next1(t, i) == IF t > m \/ Fit(t, i) = {} THEN m + 1 ELSE Min(Fit(t, i))
           Val(h, i) == IF i = 0 THEN 0 ELSE Next1(h[i - 1], i)
           IsTaken(h) == h = [i \in 0..n |-> Val(h, i)]
           Upto(k) == {h \in [0..k -> Int] : \A i \in 0..k : h[i] = Val(h, i)}
<1>0. n \in Nat /\ m \in Nat
  OBVIOUS
<1> HIDE DEF n, m
<1>1. \A t, i : Next1(t, i) \in 0..(m + 1)
  <2> TAKE t, i
  <2>1. Fit(t, i) \subseteq 1..m /\ Fit(t, i) \subseteq Nat
    OBVIOUS
  <2> HIDE DEF Fit
  <2>2. Fit(t, i) # {} => Min(Fit(t, i)) \in 0..(m + 1)
    BY <1>0, <2>1, LeastOf
  <2>3. m + 1 \in 0..(m + 1)
    BY <1>0
  <2> QED BY <2>2, <2>3, Zenon
<1>2. \A t \in 0..(m + 1) : \A i :
        Next1(t, i) <= m => t < Next1(t, i) /\ t <= m /\ Next1(t, i) \in 1..m
                             /\ Verifies(sigs[i], keys[Next1(t, i)], message)
  <2> SUFFICES ASSUME NEW t \in 0..(m + 1), NEW i, Next1(t, i) <= m
               PROVE  t < Next1(t, i) /\ t <= m /\ Next1(t, i) \in 1..m
                             /\ Verifies(sigs[i], keys[Next1(t, i)], message)
    OBVIOUS
  <2>1. Fit(t, i) \subseteq 1..m /\ Fit(t, i) \subseteq Nat
    OBVIOUS
  <2>2. ~(t > m) /\ Fit(t, i) # {} /\ Next1(t, i) = Min(Fit(t, i))
    BY <1>0
  <2>3. Min(Fit(t, i)) \in Fit(t, i)
    <3> HIDE DEF Fit
    <3> QED BY <2>1, <2>2, LeastOf
  <2> QED BY <1>0, <2>2, <2>3
<1>3. \A t \in 0..m : \A i : \A j \in 1..m :
        t < j /\ Verifies(sigs[i], keys[j], message) => Next1(t, i) <= j
  <2> SUFFICES ASSUME NEW t \in 0..m, NEW i, NEW j \in 1..m, t < j, Verifies(sigs[i], keys[j], message)
               PROVE  Next1(t, i) <= j
    OBVIOUS
  <2>1. j \in Fit(t, i) /\ Fit(t, i) \subseteq Nat
    OBVIOUS
  <2>2. Next1(t, i) = Min(Fit(t, i))
    BY <1>0, <2>1
  <2> HIDE DEF Fit, Next1
  <2> QED BY <2>1, <2>2, LeastOf
<1> HIDE DEF Next1, Fit
<1>4. \A k \in 0..n : Upto(k) # {}
  <2> DEFINE Bad == {k \in 0..n : Upto(k) = {}}
  <2> SUFFICES ASSUME Bad # {} PROVE FALSE
    OBVIOUS
  <2>1. PICK k \in Bad : \A i \in Bad : k <= i
    <3>1. Bad \subseteq Nat
      BY <1>0
    <3> HIDE DEF Bad
    <3> QED BY <3>1, LeastNat
  <2>2. k # 0
    <3>1. [i \in 0..0 |-> 0] \in Upto(0)
      OBVIOUS
    <3> QED BY <2>1, <3>1
  <2>3. k \in Nat /\ k - 1 \in 0..n /\ k - 1 \in Nat /\ Upto(k - 1) # {}
    <3> HIDE DEF Upto
    <3> QED BY <1>0, <2>1, <2>2
  <2>4. PICK h : h \in Upto(k - 1)
    BY <2>3
  <2> DEFINE g == [i \in 0..k |-> IF i = k THEN Next1(h[k - 1], k) ELSE h[i]]
  <2>5. g \in [0..k -> Int]
    <3>1. Next1(h[k - 1], k) \in Int
      BY <1>0, <1>1
    <3> QED BY <2>3, <2>4, <3>1
  <2>6. \A i \in 0..k : g[i] = Val(g, i)
    <3> SUFFICES ASSUME NEW i \in 0..k PROVE g[i] = Val(g, i)
      OBVIOUS
    <3>1. CASE i = k
      BY <2>2, <2>3, <3>1
    <3>2. CASE i # k /\ i # 0
      <4>1. i \in 0..(k - 1) /\ i - 1 \in 0..k /\ i - 1 # k
        BY <2>3, <3>2
      <4> QED BY <2>3, <2>4, <3>2, <4>1
    <3>3. CASE i # k /\ i = 0
      BY <2>3, <2>4, <3>3
    <3> QED BY <3>1, <3>2, <3>3
  <2>7. g \in Upto(k)
    <3> HIDE DEF g, Val
    <3> QED BY <2>5, <2>6
  <2> QED BY <2>1, <2>7
<1>5. \E h : IsTaken(h)
  <2>1. PICK h : h \in Upto(n)
    <3> HIDE DEF Upto
    <3> QED BY <1>0, <1>4
  <2>2. h = [i \in 0..n |-> Val(h, i)]
    <3> HIDE DEF Val
    <3> QED BY <2>1
  <2> QED BY <2>2
<1> DEFINE T == CHOOSE h : IsTaken(h)
<1>6. IsTaken(T)
  <2> HIDE DEF IsTaken
  <2> QED BY <1>5, Zenon
<1>7. OrderedMultisig(sigs, keys, message) <=> T[n] <= m
  BY Zenon DEF OrderedMultisig, Next1, Fit, n, m
<1> HIDE DEF T
<1>8. \A i \in 0..n : T[i] = Val(T, i)
  <2> HIDE DEF Val
  <2> QED BY <1>6, Zenon
<1>9. T[0] = 0 /\ \A i \in 1..n : T[i] = Next1(T[i - 1], i)
  BY <1>0, <1>8
<1>10. \A i \in 0..n : T[i] \in 0..(m + 1)
  BY <1>0, <1>1, <1>8
<1>11. ASSUME T[n] <= m PROVE Signed(sigs, keys, message)
  <2> DEFINE Over == {i \in 0..n : T[n - i] > m}
  <2>1. \A i \in 0..n : T[i] <= m
    <3> SUFFICES ASSUME NEW i0 \in 0..n, ~(T[i0] <= m) PROVE FALSE
      OBVIOUS
    <3>1. n - i0 \in Over
      BY <1>0, <1>10
    <3>2. PICK i \in Over : \A j \in Over : i <= j
      <4>1. Over \subseteq Nat
        BY <1>0
      <4> HIDE DEF Over
      <4> QED BY <3>1, <4>1, LeastNat
    <3>3. i # 0 /\ i \in 1..n
      <4>1. n - 0 = n /\ ~(T[n] > m)
        BY <1>0, <1>10, <1>11
      <4> QED BY <1>0, <3>2, <4>1
    <3> DEFINE a == n - (i - 1)
               b == n - i
    <3>4. a \in 1..n /\ a \in 0..n /\ a - 1 = b /\ b \in 0..n /\ T[b] > m
      BY <1>0, <3>2, <3>3
    <3>5. i - 1 \in 0..n /\ i - 1 \notin Over
      BY <1>0, <3>2, <3>3
    <3>6. ~(T[a] > m)
      BY <3>5
    <3> HIDE DEF a, b
    <3>7. T[a] = Next1(T[b], a) /\ T[a] <= m /\ T[b] \in 0..(m + 1)
      BY <1>0, <1>9, <1>10, <3>4, <3>6
    <3>8. T[b] <= m
      BY <1>2, <3>7
    <3> QED BY <1>0, <3>4, <3>7, <3>8
  <2>2. \A i \in 1..n : T[i - 1] < T[i] /\ T[i] \in 1..m /\ Verifies(sigs[i], keys[T[i]], message)
    BY <1>0, <1>2, <1>9, <1>10, <2>1
  <2>3. \A i, j \in 1..n : i < j => T[i] < T[j]
    <3> SUFFICES ASSUME NEW i \in 1..n, NEW j0 \in 1..n, i < j0, ~(T[i] < T[j0]) PROVE FALSE
      OBVIOUS
    <3> DEFINE Late == {j \in 1..n : i < j /\ ~(T[i] < T[j])}
    <3>1. PICK j \in Late : \A k \in Late : j <= k
      <4>1. Late \subseteq Nat /\ j0 \in Late
        BY <1>0
      <4> HIDE DEF Late
      <4> QED BY <4>1, LeastNat
    <3>2. j - 1 \in 1..n /\ (j - 1 = i \/ T[i] < T[j - 1])
      BY <1>0, <3>1
    <3> QED BY <2>2, <3>1, <3>2
  <2> DEFINE f == [i \in 1..n |-> T[i]]
  <2>4. f \in [1..n -> 1..m]
    BY <2>2
  <2>5. /\ \A i, j \in 1..n : i < j => f[i] < f[j]
        /\ \A i \in 1..n : Verifies(sigs[i], keys[f[i]], message)
    BY <2>2, <2>3
  <2> HIDE DEF f
  <2> QED BY <2>4, <2>5 DEF Signed, n, m
<1>12. ASSUME Signed(sigs, keys, message) PROVE T[n] <= m
  <2>1. PICK f \in [1..n -> 1..m] :
          /\ \A i, j \in 1..n : i < j => f[i] < f[j]
          /\ \A i \in 1..n : Verifies(sigs[i], keys[f[i]], message)
    BY <1>12 DEF Signed, n, m
  <2> DEFINE Late == {i \in 1..n : ~(T[i] <= f[i])}
  <2>2. Late = {}
    <3> SUFFICES ASSUME Late # {} PROVE FALSE
      OBVIOUS
    <3>1. PICK i \in Late : \A k \in Late : i <= k
      <4>1. Late \subseteq Nat
        BY <1>0
      <4> HIDE DEF Late
      <4> QED BY <4>1, LeastNat
    <3>2. T[i - 1] \in 0..m /\ T[i - 1] < f[i]
      <4>1. CASE i = 1
        <5>1. i - 1 = 0 /\ f[i] \in 1..m
          BY <2>1, <3>1, <4>1
        <5> QED BY <1>0, <1>9, <5>1
      <4>2. CASE i # 1
        <5>1. i - 1 \in 1..n /\ T[i - 1] <= f[i - 1] /\ f[i - 1] < f[i] /\ f[i - 1] \in 1..m /\ f[i] \in 1..m
          BY <1>0, <2>1, <3>1, <4>2
        <5>2. T[i - 1] \in 0..(m + 1)
          <6>1. i - 1 \in 0..n
            BY <1>0, <5>1
          <6> QED BY <1>10, <6>1
        <5>3. T[i - 1] < f[i] /\ T[i - 1] <= m
          BY <1>0, <5>1, <5>2
        <5> QED BY <1>0, <5>2, <5>3
      <4> QED BY <4>1, <4>2
    <3>3. T[i] <= f[i]
      <4>1. i \in 1..n /\ f[i] \in 1..m /\ Verifies(sigs[i], keys[f[i]], message)
        BY <2>1, <3>1
      <4>2. T[i] = Next1(T[i - 1], i)
        BY <1>9, <4>1
      <4> QED BY <1>3, <3>2, <4>1, <4>2
    <3> QED BY <3>1, <3>3
  <2>3. CASE n = 0
    BY <1>0, <1>9, <2>3
  <2>4. CASE n # 0
    <3>1. n \in 1..n /\ n \in 0..n
      BY <1>0, <2>4
    <3>2. T[n] <= f[n] /\ f[n] \in 1..m /\ T[n] \in 0..(m + 1)
      BY <1>10, <2>1, <2>2, <3>1
    <3> QED BY <1>0, <3>2
  <2> QED BY <2>3, <2>4
<1> QED BY <1>7, <1>11, <1>12

\* The spends are what SpendsAssumption says.
LEMMA SpendShape ==
  ASSUME NEW s \in Spends
  PROVE  /\ s.single \in BOOLEAN /\ s.threshold \in Nat
         /\ IsSeq(s.keys) /\ Len(s.keys) \in Nat /\ IsSeq(s.sigs) /\ Len(s.sigs) \in Nat
         /\ IsSeq(s.suffix) /\ Len(s.suffix) \in Nat
         /\ s.single => s.threshold = 1 /\ Len(s.keys) = 1
         /\ s.hashlock = <<>> \/ s.hashlock = <<s.hashlock[1]>>
         /\ s.locks.time \in Nat /\ s.locks.height \in Nat
         /\ s.ctx.time \in Nat /\ s.ctx.height \in Nat
         /\ Harmless(s.suffix) \/ Spoils(s.suffix)
<1>1. IsSeq(s.keys) /\ IsSeq(s.sigs) /\ IsSeq(s.suffix)
  BY SpendsAssumption DEF IsSeq
<1>2. Len(s.keys) \in Nat /\ Len(s.sigs) \in Nat /\ Len(s.suffix) \in Nat
  BY <1>1, LenProperties DEF IsSeq
<1> QED BY <1>1, <1>2, SpendsAssumption

\* An absolute lock is open at and after its time; zero always is.
LEMMA MatureIs ==
  ASSUME NEW lock \in Nat, NEW now \in Nat
  PROVE  Mature(lock, now) <=> now >= lock
BY DEF Mature

\* One key and one signature.
LEMMA OneSigned ==
  ASSUME NEW sigs, NEW keys, Len(sigs) = 1, Len(keys) = 1, NEW message
  PROVE  Signed(sigs, keys, message) <=> Verifies(sigs[1], keys[1], message)
<1>1. ASSUME Verifies(sigs[1], keys[1], message) PROVE Signed(sigs, keys, message)
  <2> DEFINE f == [i \in 1..Len(sigs) |-> 1]
  <2>1. f \in [1..Len(sigs) -> 1..Len(keys)]
    OBVIOUS
  <2>2. /\ \A i, j \in 1..Len(sigs) : i < j => f[i] < f[j]
        /\ \A i \in 1..Len(sigs) : Verifies(sigs[i], keys[f[i]], message)
    BY <1>1
  <2> HIDE DEF f
  <2> QED BY <2>1, <2>2 DEF Signed
<1>2. ASSUME Signed(sigs, keys, message) PROVE Verifies(sigs[1], keys[1], message)
  <2>1. PICK f \in [1..Len(sigs) -> 1..Len(keys)] :
               \A i \in 1..Len(sigs) : Verifies(sigs[i], keys[f[i]], message)
    BY <1>2 DEF Signed
  <2>2. 1 \in 1..Len(sigs) /\ f[1] = 1
    BY <2>1
  <2> QED BY <2>1, <2>2
<1> QED BY <1>1, <1>2

\* A single key is a multisig of one.
LEMMA SingleValid ==
  ASSUME NEW s \in Spends, s.single
  PROVE  ValidMultisig(s) <=> Is32(s.keys[1])
<1>1. s.threshold = 1 /\ Len(s.keys) = 1 /\ DOMAIN s.keys = 1..1
  BY SpendShape, LenProperties DEF IsSeq
<1>2. Range(s.keys) = {s.keys[1]}
  BY <1>1 DEF Range
<1>3. Distinct(s.keys)
  BY <1>1, <1>2, FS_Singleton DEF Distinct
<1>4. 1 \in 1..MaxKeys
  BY KeysBound
<1> QED BY <1>1, <1>3, <1>4 DEF ValidMultisig

\* The two ends of a concatenation.
LEMMA Behind ==
  ASSUME NEW q, IsSeq(q), NEW x
  PROVE  /\ q \o <<>> = q /\ <<>> \o q = q
         /\ q \o <<x>> = Append(q, x)
         /\ <<x>> \o q # <<>> /\ (<<x>> \o q)[1] = x /\ Tail(<<x>> \o q) = q
         /\ IsSeq(<<x>> \o q) /\ Len(<<x>> \o q) = Len(q) + 1
<1> DEFINE S == Range(q) \union {x}
           a == <<x>> \o q
<1>1. q \in Seq(S) /\ x \in S /\ <<x>> \in Seq(S) /\ Len(<<x>>) = 1 /\ Len(q) \in Nat
  BY SeqMonotonic, LenProperties DEF IsSeq
<1> HIDE DEF S
<1>2. q \o <<>> = q /\ <<>> \o q = q /\ q \o <<x>> = Append(q, x)
  BY <1>1, ConcatEmptySeq, AppendIsConcat
<1>3. a \in Seq(S) /\ Len(a) = Len(q) + 1 /\ \A i \in 1..(Len(q) + 1) : a[i] = IF i <= 1 THEN x ELSE q[i - 1]
  BY <1>1, ConcatProperties
<1> HIDE DEF a
<1>4. a # <<>> /\ a[1] = x /\ IsSeq(a)
  BY <1>1, <1>3, SeqOwn
<1>5. Tail(a) \in Seq(S) /\ Len(Tail(a)) = Len(q) /\ \A i \in 1..Len(q) : Tail(a)[i] = q[i]
  <2>1. Tail(a) \in Seq(S) /\ Len(Tail(a)) = Len(a) - 1 /\ \A i \in 1..Len(Tail(a)) : Tail(a)[i] = a[i + 1]
    BY <1>3, <1>4, HeadTailProperties
  <2> QED BY <1>1, <1>3, <2>1
<1>6. Tail(a) = q
  BY <1>1, <1>5, SeqEqual
<1> QED BY <1>2, <1>3, <1>4, <1>6 DEF a

\* Concatenation is associative.
LEMMA Regrouped ==
  ASSUME NEW S, NEW p \in Seq(S), NEW q \in Seq(S), NEW t \in Seq(S)
  PROVE  (p \o q) \o t = p \o (q \o t)
<1> DEFINE a == p \o q
           b == q \o t
           x == a \o t
           y == p \o b
<1>0. Len(p) \in Nat /\ Len(q) \in Nat /\ Len(t) \in Nat
  BY LenProperties
<1>1. a \in Seq(S) /\ Len(a) = Len(p) + Len(q)
      /\ \A i \in 1..(Len(p) + Len(q)) : a[i] = IF i <= Len(p) THEN p[i] ELSE q[i - Len(p)]
  BY ConcatProperties
<1>2. b \in Seq(S) /\ Len(b) = Len(q) + Len(t)
      /\ \A i \in 1..(Len(q) + Len(t)) : b[i] = IF i <= Len(q) THEN q[i] ELSE t[i - Len(q)]
  BY ConcatProperties
<1> HIDE DEF a, b
<1>2a. a \in Seq(S) /\ b \in Seq(S)
  BY <1>1, <1>2
<1>3. x \in Seq(S) /\ Len(x) = Len(a) + Len(t)
      /\ \A i \in 1..(Len(a) + Len(t)) : x[i] = IF i <= Len(a) THEN a[i] ELSE t[i - Len(a)]
  BY <1>2a, ConcatProperties
<1>4. y \in Seq(S) /\ Len(y) = Len(p) + Len(b)
      /\ \A i \in 1..(Len(p) + Len(b)) : y[i] = IF i <= Len(p) THEN p[i] ELSE b[i - Len(p)]
  BY <1>2a, ConcatProperties
<1> HIDE DEF x, y
<1>5. Len(x) = Len(y)
  BY <1>0, <1>1, <1>2, <1>3, <1>4
<1>6. \A i \in 1..Len(x) : x[i] = y[i]
  <2> TAKE i \in 1..Len(x)
  <2>1. CASE i <= Len(p)
    <3>1. /\ i \in 1..(Len(p) + Len(q)) /\ i \in 1..(Len(a) + Len(t)) /\ i \in 1..(Len(p) + Len(b))
          /\ i <= Len(a)
      BY <1>0, <1>1, <1>2, <1>3, <2>1
    <3>2. x[i] = a[i] /\ y[i] = p[i]
      BY <1>3, <1>4, <2>1, <3>1
    <3> QED BY <1>1, <2>1, <3>1, <3>2
  <2>2. CASE ~(i <= Len(p)) /\ i <= Len(p) + Len(q)
    <3>1. i - Len(p) \in 1..(Len(q) + Len(t)) /\ i - Len(p) <= Len(q) /\ i \in 1..(Len(p) + Len(q))
          /\ i \in 1..(Len(a) + Len(t)) /\ i \in 1..(Len(p) + Len(b)) /\ i <= Len(a)
      BY <1>0, <1>1, <1>2, <1>3, <2>2
    <3>2. b[i - Len(p)] = q[i - Len(p)] /\ a[i] = q[i - Len(p)]
      BY <1>1, <1>2, <2>2, <3>1
    <3>3. x[i] = a[i] /\ y[i] = b[i - Len(p)]
      BY <1>3, <1>4, <2>2, <3>1
    <3> QED BY <3>2, <3>3
  <2>3. CASE ~(i <= Len(p) + Len(q))
    <3>1. i - Len(p) \in 1..(Len(q) + Len(t)) /\ ~(i - Len(p) <= Len(q))
          /\ (i - Len(p)) - Len(q) = i - Len(a)
      BY <1>0, <1>1, <1>3, <2>3
    <3>2. b[i - Len(p)] = t[(i - Len(p)) - Len(q)]
      BY <1>2, <3>1
    <3>3. x[i] = t[i - Len(a)] /\ y[i] = b[i - Len(p)]
      BY <1>0, <1>1, <1>2, <1>3, <1>4, <2>3
    <3> QED BY <3>1, <3>2, <3>3
  <2> QED BY <1>0, <1>3, <1>1, <2>1, <2>2, <2>3
<1>7. x = y
  BY <1>3, <1>4, <1>5, <1>6, SeqEqual
<1> QED BY <1>7 DEF x, y, a, b

\* What verify_template decides of a spend is its policy.
LEMMA TemplateDecides ==
  ASSUME NEW s \in Spends
  PROVE  VerifyTemplate(TemplateOf(s), WitnessOf(s), s.locks, s.ctx) <=> Policy(s, s.sigs)
<1> DEFINE base == IF s.single THEN [template |-> "pkh", hash |-> Hash(s.keys[1])]
                   ELSE [template |-> "multisig", threshold |-> s.threshold, keys |-> s.keys]
           w == s.sigs \o (IF s.single THEN <<s.keys[1]>> ELSE <<>>)
           BaseOk == \/ base.template = "pkh" /\ Is32(base.hash) /\ VerifyPkh(base, w, s.ctx.message)
                     \/ base.template = "multisig" /\ ValidMultisig(base) /\ VerifyMultisig(base, w, s.ctx.message)
           SigsOk == ValidMultisig(s) /\ Len(s.sigs) = s.threshold /\ Signed(s.sigs, s.keys, s.ctx.message)
           LocksOk == s.ctx.time >= s.locks.time /\ s.ctx.height >= s.locks.height
<1>1. Mature(s.locks.time, s.ctx.time) /\ Mature(s.locks.height, s.ctx.height) <=> LocksOk
  BY SpendShape, MatureIs
<1>2. BaseOk <=> SigsOk
  <2>1. CASE s.single
    <3>1. w = Append(s.sigs, s.keys[1]) /\ Len(w) = Len(s.sigs) + 1 /\ w[Len(s.sigs) + 1] = s.keys[1]
          /\ \A i \in 1..Len(s.sigs) : w[i] = s.sigs[i]
      <4>1. IsSeq(s.sigs) /\ w = s.sigs \o <<s.keys[1]>>
        BY <2>1, SpendShape
      <4>2. w = Append(s.sigs, s.keys[1])
        BY <4>1, Behind
      <4> HIDE DEF w
      <4> QED BY <4>1, <4>2, Pushed
    <3>2. base = [template |-> "pkh", hash |-> Hash(s.keys[1])]
      BY <2>1
    <3>3. s.threshold = 1 /\ Len(s.keys) = 1 /\ Len(s.sigs) \in Nat
      BY <2>1, SpendShape
    <3> HIDE DEF w, base
    <3>4. base.template = "pkh" /\ base.hash = Hash(s.keys[1]) /\ Is32(base.hash)
      BY <3>2 DEF Hash, Is32
    <3>5. BaseOk <=> VerifyPkh(base, w, s.ctx.message)
      BY <3>4
    <3>6. CASE Len(s.sigs) # 1
      <4>1. Len(w) # 2 /\ Len(s.sigs) # s.threshold
        <5>1. Len(w) = Len(s.sigs) + 1
          BY <3>1
        <5> DEFINE n == Len(s.sigs)
                   l == Len(w)
        <5>2. l = n + 1 /\ n \in Nat /\ n # 1
          BY <3>3, <3>6, <5>1
        <5>3. l # 2
          <6> HIDE DEF l, n
          <6> QED BY <5>2
        <5> QED BY <3>3, <3>6, <5>3
      <4>2. ~VerifyPkh(base, w, s.ctx.message)
        BY <4>1 DEF VerifyPkh
      <4> HIDE DEF BaseOk
      <4> QED BY <3>5, <4>1, <4>2
    <3>7. CASE Len(s.sigs) = 1
      <4>1. Len(w) = 2 /\ w[1] = s.sigs[1] /\ w[2] = s.keys[1]
        BY <3>1, <3>7
      <4>2. VerifyPkh(base, w, s.ctx.message) <=> Is32(s.keys[1]) /\ Verifies(s.sigs[1], s.keys[1], s.ctx.message)
        BY <3>4, <4>1 DEF VerifyPkh, Verifies
      <4> QED BY <2>1, <3>3, <3>5, <3>7, <4>2, SingleValid, OneSigned
    <3> QED BY <3>6, <3>7
  <2>2. CASE ~s.single
    <3>1. w = s.sigs
      BY <2>2, SpendShape, Behind
    <3>2. base = [template |-> "multisig", threshold |-> s.threshold, keys |-> s.keys]
      BY <2>2
    <3> HIDE DEF w, base
    <3>3. base.template = "multisig" /\ base.threshold = s.threshold /\ base.keys = s.keys
      BY <3>2
    <3>4. ValidMultisig(base) <=> ValidMultisig(s)
      BY <3>3 DEF ValidMultisig
    <3>5. VerifyMultisig(base, w, s.ctx.message)
            <=> /\ Len(s.sigs) = s.threshold /\ \A i \in 1..Len(s.sigs) : IsSig(s.sigs[i])
                /\ Signed(s.sigs, s.keys, s.ctx.message)
      BY <3>1, <3>3, SpendShape, GreedyMatches DEF VerifyMultisig
    <3>6. Signed(s.sigs, s.keys, s.ctx.message) => \A i \in 1..Len(s.sigs) : IsSig(s.sigs[i])
      BY DEF Signed, Verifies
    <3> QED BY <3>3, <3>4, <3>5, <3>6
  <2> QED BY <2>1, <2>2, SpendShape
<1>3. IsSeq(w)
  <2>1. s.single \in BOOLEAN /\ IsSeq(s.sigs)
    BY SpendShape
  <2>2. CASE s.single
    <3>1. w = Append(s.sigs, s.keys[1])
      BY <2>1, <2>2, Behind
    <3> HIDE DEF w
    <3> QED BY <2>1, <3>1, Pushed
  <2>3. CASE ~s.single
    <3>1. w = s.sigs
      BY <2>1, <2>3, Behind
    <3> QED BY <2>1, <3>1
  <2> QED BY <2>1, <2>2, <2>3
<1>4. CASE s.hashlock = <<>>
  <2>1. TemplateOf(s) = base /\ WitnessOf(s) = w
    <3>1. <<>> \o s.sigs = s.sigs
      BY SpendShape, Behind
    <3> QED BY <1>4, <3>1 DEF TemplateOf, WitnessOf
  <2>2. base.template \in {"pkh", "multisig"}
    OBVIOUS
  <2> HIDE DEF base, w
  <2>3. VerifyTemplate(base, w, s.locks, s.ctx) <=> LocksOk /\ BaseOk
    BY <1>1, <2>2 DEF VerifyTemplate, ValidPayload
  <2> QED BY <1>2, <1>4, <2>1, <2>3 DEF Policy
<1>5. CASE s.hashlock # <<>>
  <2> DEFINE p == [template |-> "hashlock", hash |-> s.hashlock[1], inner |-> base]
             v == <<s.preimage>> \o w
  <2>1. TemplateOf(s) = p
    BY <1>5 DEF TemplateOf
  <2>2. WitnessOf(s) = v
    <3> DEFINE tail == IF s.single THEN <<s.keys[1]>> ELSE <<>>
               S == Range(s.sigs) \union {s.preimage, s.keys[1]}
    <3>1. <<s.preimage>> \in Seq(S) /\ tail \in Seq(S)
      <4>1. <<>> \in Seq(S) /\ <<s.keys[1]>> \in Seq(S) /\ <<s.preimage>> \in Seq(S)
        OBVIOUS
      <4> QED BY <4>1
    <3>2. s.sigs \in Seq(S)
      BY SpendShape, SeqMonotonic DEF IsSeq
    <3>3. WitnessOf(s) = (<<s.preimage>> \o s.sigs) \o tail
      BY <1>5 DEF WitnessOf
    <3>4. v = <<s.preimage>> \o (s.sigs \o tail)
      OBVIOUS
    <3> HIDE DEF S, tail, v
    <3>5. (<<s.preimage>> \o s.sigs) \o tail = <<s.preimage>> \o (s.sigs \o tail)
      <4> DEFINE x == <<s.preimage>>
                 q == s.sigs
      <4>1. x \in Seq(S) /\ q \in Seq(S) /\ tail \in Seq(S)
        BY <3>1, <3>2
      <4>2. (x \o q) \o tail = x \o (q \o tail)
        <5> HIDE DEF x, q
        <5> QED BY <4>1, Regrouped
      <4> QED BY <4>2
    <3> QED BY <3>3, <3>4, <3>5
  <2>3. v # <<>> /\ v[1] = s.preimage /\ Tail(v) = w
    BY <1>3, Behind
  <2>4. base.template \in {"pkh", "multisig"}
    OBVIOUS
  <2> HIDE DEF base, w, v
  <2>5. p.template = "hashlock" /\ p.hash = s.hashlock[1] /\ p.inner = base
    OBVIOUS
  <2> HIDE DEF p
  <2>6. VerifyTemplate(p, v, s.locks, s.ctx)
          <=> LocksOk /\ Is32(s.hashlock[1]) /\ Hash(s.preimage) = s.hashlock[1] /\ BaseOk
    BY <1>1, <2>3, <2>4, <2>5 DEF VerifyTemplate, ValidPayload, VerifyHashlock
  <2>7. Hash(s.preimage) = s.hashlock[1] => Is32(s.hashlock[1])
    BY DEF Hash, Is32
  <2> QED BY <1>2, <1>5, <2>1, <2>2, <2>6, <2>7 DEF Policy
<1> QED BY <1>4, <1>5

-----------------------------------------------------------------------------
(* The interpreter.  What is on the stack after k operations is determined *)
(* by the spend, as long as every check so far has passed.                 *)

PreLen(s) == IF s.hashlock = <<>> THEN 0 ELSE 8
SigLen(s) == IF s.single THEN 2 ELSE Len(s.keys) + 3

\* The operations before the signatures are looked at, and until they are.
Unlocked(s) == 6 + PreLen(s)
Decided(s)  == Unlocked(s) + SigLen(s)

OpensLock(s) == Hash(s.preimage) = s.hashlock[1]

Wanted(s) == LastOf(s.sigs, s.threshold)

SigsOk(s) ==
  /\ ValidMultisig(s)
  /\ Len(Wanted(s)) = s.threshold
  /\ Signed(Wanted(s), s.keys, s.ctx.message)

\* What SpendVerdictsAgree says of the script's verdict.
Good(s) ==
  /\ Policy(s, Wanted(s))
  /\ Harmless(s.suffix) /\ Len(ScriptOf(s)) <= MaxOps /\ StackFits(s)

\* The checks that k operations have passed.
Passed(s, k) ==
  /\ k >= 1 => Len(InitialStack(s)) + 1 <= MaxStackItems
  /\ k >= 3 => Mature(s.locks.time, s.ctx.time)
  /\ k >= 6 => Mature(s.locks.height, s.ctx.height)
  /\ s.hashlock # <<>> => /\ k >= 8 => Len(s.sigs) + 3 <= MaxStackItems
                          /\ k >= 10 => OpensLock(s)
  /\ ~s.single /\ k >= Unlocked(s) + Len(s.keys) + 2
       => Len(s.sigs) + Len(s.keys) + 2 <= MaxStackItems

\* The stack after k operations, by the parts of the script.
InLocks(s, k, st) ==
  /\ k \in {0, 3, 6} => st = InitialStack(s)
  /\ k = 1 => st = Append(InitialStack(s), <<"lock", s.locks.time>>)
  /\ k = 2 => st = Append(InitialStack(s), Bool(Mature(s.locks.time, s.ctx.time)))
  /\ k = 4 => st = Append(InitialStack(s), <<"lock", s.locks.height>>)
  /\ k = 5 => st = Append(InitialStack(s), Bool(Mature(s.locks.height, s.ctx.height)))

InPreimage(s, k, st) ==
  s.hashlock # <<>> =>
    /\ k = 7 => st = Append(Append(s.sigs, s.preimage), s.preimage)
    /\ k = 8 => st = Append(Append(Append(s.sigs, s.preimage), s.preimage), s.hashlock[1])
    /\ k = 9 => st = Append(Append(s.sigs, s.preimage), Bool(OpensLock(s)))
    /\ k = 10 => st = Append(s.sigs, s.preimage)
    /\ k = 11 => st = Append(s.sigs, Hash(s.preimage))
    /\ k = 12 => st = Append(Append(s.sigs, Hash(s.preimage)), Hash(s.hashlock[1]))
    /\ k = 13 => st = Append(s.sigs, True)

\* The signatures, the threshold and i keys.
Holds(s, i, st) ==
  /\ IsSeq(st) /\ Len(st) >= Len(s.sigs) + 1 + i
  /\ \A j \in 1..Len(s.sigs) : st[j] = s.sigs[j]
  /\ st[Len(s.sigs) + 1] = <<"byte", s.threshold>>
  /\ \A j \in 1..i : st[Len(s.sigs) + 1 + j] = s.keys[j]

\* Nothing else, and what OP_CHECKMULTISIG finds.
JustHolds(s, i, st) == Holds(s, i, st) /\ Len(st) = Len(s.sigs) + 1 + i
Complete(s, st) ==
  LET n == Len(s.keys) IN
  Holds(s, n, st) /\ Len(st) = Len(s.sigs) + n + 2 /\ st[Len(st)] = <<"byte", n>>

InSigs(s, k, st) ==
  LET n == Len(s.keys) IN
  /\ k = Unlocked(s) => st = s.sigs
  /\ s.single /\ k = Unlocked(s) + 1 => st = Append(s.sigs, s.keys[1])
  /\ ~s.single /\ k \in (Unlocked(s) + 1)..(Unlocked(s) + 1 + n)
       => JustHolds(s, k - Unlocked(s) - 1, st)
  /\ ~s.single /\ k = Unlocked(s) + n + 2 => Complete(s, st)

\* After j operations of the suffix.
InSuffix(s, j, st) ==
  \E rest :
    /\ IsSeq(rest) /\ Len(rest) + 2 <= MaxStackItems
    /\ j = 0 => st = Append(rest, Bool(SigsOk(s)))
    /\ Harmless(s.suffix) =>
         /\ st = IF j % 2 = 0 THEN Append(rest, Bool(SigsOk(s)))
                 ELSE Append(Append(rest, Bool(SigsOk(s))), Bool(SigsOk(s)))
         /\ j >= 2 => SigsOk(s)
    /\ ~Harmless(s.suffix) /\ j >= 1 =>
         \/ s.suffix[1].name = "PUSH" /\ j = 1 /\ st = Append(Append(rest, Bool(SigsOk(s))), s.suffix[1].item)
         \/ s.suffix[1].name = "DUP" /\ IsSeq(st) /\ j < Len(st) /\ Len(st) <= MaxStackItems

Reached(s, k, st) ==
  /\ Passed(s, k)
  /\ InLocks(s, k, st) /\ InPreimage(s, k, st) /\ InSigs(s, k, st)
  /\ k >= Decided(s) => InSuffix(s, k - Decided(s), st)

ScriptInv ==
  /\ spend \in Spends
  /\ opCount \in 0..MaxOps
  /\ verdict \in {"running", "true", "false"}
  /\ verdict = "running" =>
       /\ opCount <= Len(ScriptOf(spend)) /\ Len(ops) = Len(ScriptOf(spend)) - opCount
       /\ IsSeq(ops) /\ \A i \in 1..Len(ops) : ops[i] = ScriptOf(spend)[opCount + i]
       /\ Reached(spend, opCount, stack)
  /\ verdict = "true" => Good(spend)
  /\ verdict = "false" => ~Good(spend)

\* Two lists, one after the other.
LEMMA Joined ==
  ASSUME NEW p, NEW q, IsSeq(p), IsSeq(q)
  PROVE  /\ IsSeq(p \o q) /\ Len(p) \in Nat /\ Len(q) \in Nat /\ Len(p \o q) = Len(p) + Len(q)
         /\ \A i \in 1..Len(p) : (p \o q)[i] = p[i]
         /\ \A i \in 1..Len(q) : (p \o q)[Len(p) + i] = q[i]
<1> DEFINE S == Range(p) \union Range(q)
           a == p \o q
<1>1. p \in Seq(S) /\ q \in Seq(S) /\ Len(p) \in Nat /\ Len(q) \in Nat
  BY SeqMonotonic, LenProperties DEF IsSeq
<1> HIDE DEF S
<1>2. a \in Seq(S) /\ Len(a) = Len(p) + Len(q)
      /\ \A i \in 1..(Len(p) + Len(q)) : a[i] = IF i <= Len(p) THEN p[i] ELSE q[i - Len(p)]
  BY <1>1, ConcatProperties
<1> HIDE DEF a
<1>3. IsSeq(a)
  BY <1>2, SeqOwn
<1>4. \A i \in 1..Len(p) : a[i] = p[i]
  BY <1>1, <1>2
<1>5. \A i \in 1..Len(q) : a[Len(p) + i] = q[i]
  <2> TAKE i \in 1..Len(q)
  <2>1. Len(p) + i \in 1..(Len(p) + Len(q)) /\ ~(Len(p) + i <= Len(p)) /\ (Len(p) + i) - Len(p) = i
    BY <1>1
  <2> QED BY <1>2, <2>1
<1> QED BY <1>1, <1>2, <1>3, <1>4, <1>5 DEF a

\* The parts of a script are where they belong.
LEMMA ScriptParts ==
  ASSUME NEW s \in Spends
  PROVE  /\ Unlocked(s) \in {6, 14} /\ Decided(s) \in Nat /\ Decided(s) > Unlocked(s)
         /\ IsSeq(ScriptOf(s)) /\ Len(ScriptOf(s)) = Decided(s) + Len(s.suffix)
         /\ \A i \in 1..6 : ScriptOf(s)[i] = LockOps(s)[i]
         /\ \A i \in 1..PreLen(s) : ScriptOf(s)[6 + i] = PreimageOps(s)[i]
         /\ \A i \in 1..SigLen(s) : ScriptOf(s)[Unlocked(s) + i] = SignatureOps(s)[i]
         /\ \A i \in 1..Len(s.suffix) : ScriptOf(s)[Decided(s) + i] = s.suffix[i]
<1> DEFINE a == LockOps(s)
           b == PreimageOps(s)
           c == SignatureOps(s)
           d == s.suffix
<1>1. IsSeq(a) /\ Len(a) = 6
  <2>1. a \in Seq({a[i] : i \in 1..6}) /\ Len(a) = 6
    BY DEF LockOps
  <2> QED BY <2>1, SeqOwn
<1>2. IsSeq(b) /\ Len(b) = PreLen(s)
  <2>1. CASE s.hashlock = <<>>
    BY <2>1, SeqOwn DEF PreimageOps, PreLen, IsSeq
  <2>2. CASE s.hashlock # <<>>
    <3>1. b \in Seq({b[i] : i \in 1..8}) /\ Len(b) = 8
      BY <2>2 DEF PreimageOps
    <3> QED BY <2>2, <3>1, SeqOwn DEF PreLen
  <2> QED BY <2>1, <2>2
<1>3. IsSeq(c) /\ Len(c) = SigLen(s) /\ SigLen(s) \in Nat /\ SigLen(s) >= 2
  <2>1. CASE s.single
    <3>1. c \in Seq({c[1], c[2]}) /\ Len(c) = 2
      BY <2>1 DEF SignatureOps
    <3> QED BY <2>1, <3>1, SeqOwn DEF SigLen
  <2>2. CASE ~s.single
    <3> DEFINE n == Len(s.keys)
               x == <<Push(<<"byte", s.threshold>>)>>
               y == [i \in 1..n |-> Push(s.keys[i])]
               z == <<Push(<<"byte", n>>), Op("CHECKMULTISIG")>>
    <3>0. n \in Nat
      BY SpendShape
    <3>1. IsSeq(x) /\ Len(x) = 1
      <4>1. x \in Seq({x[1]}) /\ Len(x) = 1
        OBVIOUS
      <4> HIDE DEF x
      <4> QED BY <4>1, SeqOwn
    <3>2. IsSeq(y) /\ Len(y) = n
      <4>1. y \in Seq({y[i] : i \in 1..n}) /\ Len(y) = n
        BY <3>0
      <4> HIDE DEF y
      <4> QED BY <4>1, SeqOwn
    <3>3. IsSeq(z) /\ Len(z) = 2
      <4>1. z \in Seq({z[1], z[2]}) /\ Len(z) = 2
        OBVIOUS
      <4> HIDE DEF z
      <4> QED BY <4>1, SeqOwn
    <3>4. c = (x \o y) \o z
      BY <2>2 DEF SignatureOps
    <3> HIDE DEF x, y, z, c
    <3>5. IsSeq(x \o y) /\ Len(x \o y) = n + 1
      <4>1. IsSeq(x \o y) /\ Len(x \o y) = Len(x) + Len(y)
        BY <3>1, <3>2, Joined
      <4> QED BY <3>0, <3>1, <3>2, <4>1
    <3>6. IsSeq(c) /\ Len(c) = n + 3
      <4> DEFINE w == x \o y
      <4>0. IsSeq(w) /\ Len(w) = n + 1 /\ c = w \o z
        BY <3>4, <3>5
      <4> HIDE DEF w
      <4>1. IsSeq(w \o z) /\ Len(w \o z) = Len(w) + Len(z)
        BY <3>3, <4>0, Joined
      <4> QED BY <3>0, <3>3, <4>0, <4>1
    <3> QED BY <2>2, <3>0, <3>6 DEF SigLen
  <2> QED BY <2>1, <2>2, SpendShape
<1>4. IsSeq(d) /\ Len(d) \in Nat
  BY SpendShape
<1>5. PreLen(s) \in {0, 8}
  BY DEF PreLen
<1>6. ScriptOf(s) = ((a \o b) \o c) \o d
  BY DEF ScriptOf
<1> HIDE DEF a, b, c, d
<1>7. IsSeq(a \o b) /\ Len(a \o b) = Unlocked(s) /\ Unlocked(s) \in {6, 14}
      /\ (\A i \in 1..6 : (a \o b)[i] = a[i]) /\ (\A i \in 1..PreLen(s) : (a \o b)[6 + i] = b[i])
  <2>1. /\ IsSeq(a \o b) /\ Len(a \o b) = Len(a) + Len(b)
        /\ \A i \in 1..Len(a) : (a \o b)[i] = a[i]
        /\ \A i \in 1..Len(b) : (a \o b)[Len(a) + i] = b[i]
    <3>1. IsSeq(a) /\ IsSeq(b)
      BY <1>1, <1>2
    <3> QED BY <3>1, Joined
  <2> QED BY <1>1, <1>2, <1>5, <2>1 DEF Unlocked
<1> DEFINE e == a \o b
           f == e \o c
           g == f \o d
<1> HIDE DEF e
<1>8. IsSeq(e) /\ Len(e) = Unlocked(s) /\ Unlocked(s) \in {6, 14}
      /\ (\A i \in 1..6 : e[i] = a[i]) /\ (\A i \in 1..PreLen(s) : e[6 + i] = b[i])
  BY <1>7 DEF e
<1>9. IsSeq(f) /\ Len(f) = Decided(s)
      /\ (\A i \in 1..Unlocked(s) : f[i] = e[i]) /\ (\A i \in 1..SigLen(s) : f[Unlocked(s) + i] = c[i])
  <2>1. /\ IsSeq(e \o c) /\ Len(e \o c) = Len(e) + Len(c)
        /\ \A i \in 1..Len(e) : (e \o c)[i] = e[i]
        /\ \A i \in 1..Len(c) : (e \o c)[Len(e) + i] = c[i]
    <3>1. IsSeq(e) /\ IsSeq(c)
      BY <1>3, <1>8
    <3> QED BY <3>1, Joined
  <2> QED BY <1>3, <1>8, <2>1 DEF Decided
<1> HIDE DEF f
<1>10. IsSeq(g) /\ Len(g) = Decided(s) + Len(d) /\ Decided(s) \in Nat
      /\ (\A i \in 1..Decided(s) : g[i] = f[i]) /\ (\A i \in 1..Len(d) : g[Decided(s) + i] = d[i])
  BY <1>4, <1>9, Joined
<1> HIDE DEF g
<1>11. ScriptOf(s) = g
  BY <1>6 DEF e, f, g
<1>12. Decided(s) = Unlocked(s) + SigLen(s) /\ Unlocked(s) = 6 + PreLen(s)
  BY DEF Decided, Unlocked
<1>13. \A i \in 1..6 : g[i] = a[i]
  <2> TAKE i \in 1..6
  <2>1. i \in 1..Unlocked(s) /\ i \in 1..Decided(s)
    BY <1>3, <1>5, <1>12
  <2> QED BY <1>8, <1>9, <1>10, <2>1
<1>14. \A i \in 1..PreLen(s) : g[6 + i] = b[i]
  <2> TAKE i \in 1..PreLen(s)
  <2>1. 6 + i \in 1..Unlocked(s) /\ 6 + i \in 1..Decided(s)
    BY <1>3, <1>5, <1>12
  <2> QED BY <1>8, <1>9, <1>10, <2>1
<1>15. \A i \in 1..SigLen(s) : g[Unlocked(s) + i] = c[i]
  <2> TAKE i \in 1..SigLen(s)
  <2>1. Unlocked(s) + i \in 1..Decided(s)
    BY <1>3, <1>8, <1>12
  <2> QED BY <1>9, <1>10, <2>1
<1> QED BY <1>3, <1>8, <1>10, <1>11, <1>12, <1>13, <1>14, <1>15 DEF a, b, c, d

\* The operations of a multisig script.
LEMMA MultisigOps ==
  ASSUME NEW s \in Spends, ~s.single
  PROVE  LET n == Len(s.keys) IN
         /\ SignatureOps(s)[1] = Push(<<"byte", s.threshold>>)
         /\ \A i \in 1..n : SignatureOps(s)[1 + i] = Push(s.keys[i])
         /\ SignatureOps(s)[n + 2] = Push(<<"byte", n>>)
         /\ SignatureOps(s)[n + 3] = Op("CHECKMULTISIG")
<1> DEFINE n == Len(s.keys)
           x == <<Push(<<"byte", s.threshold>>)>>
           y == [i \in 1..n |-> Push(s.keys[i])]
           z == <<Push(<<"byte", n>>), Op("CHECKMULTISIG")>>
           c == SignatureOps(s)
<1>0. n \in Nat
  BY SpendShape
<1>1. IsSeq(x) /\ Len(x) = 1 /\ x[1] = Push(<<"byte", s.threshold>>)
  <2>1. x \in Seq({x[1]}) /\ Len(x) = 1
    OBVIOUS
  <2> QED BY <2>1, SeqOwn
<1>2. IsSeq(y) /\ Len(y) = n /\ \A i \in 1..n : y[i] = Push(s.keys[i])
  <2>1. y \in Seq({y[i] : i \in 1..n}) /\ Len(y) = n
    BY <1>0
  <2> QED BY <2>1, SeqOwn
<1>3. IsSeq(z) /\ Len(z) = 2 /\ z[1] = Push(<<"byte", n>>) /\ z[2] = Op("CHECKMULTISIG")
  <2>1. z \in Seq({z[1], z[2]}) /\ Len(z) = 2
    OBVIOUS
  <2> QED BY <2>1, SeqOwn
<1>4. c = (x \o y) \o z
  BY DEF SignatureOps
<1> DEFINE w == x \o y
<1> HIDE DEF x, y, z, n
<1>5. /\ IsSeq(w) /\ Len(w) = Len(x) + Len(y)
      /\ \A i \in 1..Len(x) : w[i] = x[i]
      /\ \A i \in 1..Len(y) : w[Len(x) + i] = y[i]
  <2>1. IsSeq(x) /\ IsSeq(y)
    BY <1>1, <1>2
  <2> QED BY <2>1, Joined
<1>6. c = w \o z
  BY <1>4
<1> HIDE DEF w, c
<1>7. /\ \A i \in 1..Len(w) : c[i] = w[i]
      /\ \A i \in 1..Len(z) : c[Len(w) + i] = z[i]
  <2>1. IsSeq(w) /\ IsSeq(z)
    BY <1>3, <1>5
  <2>2. /\ \A i \in 1..Len(w) : (w \o z)[i] = w[i]
        /\ \A i \in 1..Len(z) : (w \o z)[Len(w) + i] = z[i]
    BY <2>1, Joined
  <2> QED BY <1>6, <2>2
<1>8. Len(w) = n + 1
  BY <1>0, <1>1, <1>2, <1>5
<1>9. c[1] = x[1]
  BY <1>0, <1>1, <1>5, <1>7, <1>8
<1>10. \A i \in 1..n : c[1 + i] = y[i]
  <2> TAKE i \in 1..n
  <2>1. 1 + i \in 1..Len(w)
    BY <1>0, <1>8
  <2> QED BY <1>1, <1>2, <1>5, <1>7, <2>1
<1>11. c[n + 2] = z[1] /\ c[n + 3] = z[2]
  <2>1. Len(w) + 1 = n + 2 /\ Len(w) + 2 = n + 3
    BY <1>0, <1>8
  <2>2. c[Len(w) + 1] = z[1] /\ c[Len(w) + 2] = z[2]
    BY <1>3, <1>7
  <2> QED BY <2>1, <2>2
<1> QED BY <1>1, <1>2, <1>3, <1>9, <1>10, <1>11 DEF c, n

\* The stack a script starts with.
LEMMA StartsWith ==
  ASSUME NEW s \in Spends
  PROVE  /\ InitialStack(s) = IF s.hashlock = <<>> THEN s.sigs ELSE Append(s.sigs, s.preimage)
         /\ IsSeq(InitialStack(s)) /\ Len(InitialStack(s)) \in Nat
         /\ Len(InitialStack(s)) = Len(s.sigs) + IF s.hashlock = <<>> THEN 0 ELSE 1
<1>0. IsSeq(s.sigs) /\ Len(s.sigs) \in Nat
  BY SpendShape
<1>1. CASE s.hashlock = <<>>
  <2>1. InitialStack(s) = s.sigs
    BY <1>0, <1>1, Behind DEF InitialStack
  <2> QED BY <1>0, <1>1, <2>1
<1>2. CASE s.hashlock # <<>>
  <2>1. InitialStack(s) = Append(s.sigs, s.preimage)
    BY <1>0, <1>2, Behind DEF InitialStack
  <2>2. IsSeq(Append(s.sigs, s.preimage)) /\ Len(Append(s.sigs, s.preimage)) = Len(s.sigs) + 1
    BY <1>0, Pushed
  <2> QED BY <1>0, <1>2, <2>1, <2>2
<1> QED BY <1>1, <1>2

\* What the policy, the suffix and the limits come to.
LEMMA GoodIs ==
  ASSUME NEW s \in Spends
  PROVE  Good(s) <=> /\ SigsOk(s) /\ (s.hashlock # <<>> => OpensLock(s))
                     /\ Mature(s.locks.time, s.ctx.time) /\ Mature(s.locks.height, s.ctx.height)
                     /\ Harmless(s.suffix) /\ Len(ScriptOf(s)) <= MaxOps /\ StackFits(s)
BY SpendShape, MatureIs DEF Good, SigsOk, Policy, OpensLock

\* The operation at hand.
LEMMA HeadIs ==
  ASSUME ScriptInv, verdict = "running", ops # <<>>
  PROVE  /\ opCount \in Nat /\ opCount + 1 <= Len(ScriptOf(spend))
         /\ Head(ops) = ScriptOf(spend)[opCount + 1]
<1>1. IsSeq(ops) /\ \A i \in 1..Len(ops) : ops[i] = ScriptOf(spend)[opCount + i]
  BY DEF ScriptInv
<1>2. opCount \in Nat /\ Len(ops) = Len(ScriptOf(spend)) - opCount /\ Len(ScriptOf(spend)) \in Nat
  <2>1. Len(ScriptOf(spend)) \in Nat
    BY ScriptParts, LenProperties DEF ScriptInv, IsSeq
  <2> QED BY <2>1, ScriptBounds DEF ScriptInv
<1>3. Len(ops) \in Nat \ {0} /\ 1 \in 1..Len(ops)
  <2>1. Len(ops) \in Nat \ {0}
    BY <1>1, EmptySeq DEF IsSeq
  <2> QED BY <2>1
<1>4. Head(ops) = ops[1]
  BY <1>1, <1>3 DEF IsSeq
<1> QED BY <1>1, <1>2, <1>3, <1>4

\* One operation on.
LEMMA Advance ==
  ASSUME ScriptInv, verdict = "running", ops # <<>>, opCount < MaxOps,
         ops' = Tail(ops), opCount' = opCount + 1, UNCHANGED spend,
         \/ verdict' = "running" /\ Reached(spend, opCount + 1, stack')
         \/ verdict' = "false" /\ ~Good(spend)
  PROVE  ScriptInv'
<1>1. /\ spend \in Spends /\ opCount \in Nat /\ IsSeq(ops)
      /\ Len(ops) = Len(ScriptOf(spend)) - opCount
      /\ \A i \in 1..Len(ops) : ops[i] = ScriptOf(spend)[opCount + i]
  BY ScriptBounds DEF ScriptInv
<1>2. Len(ScriptOf(spend)) \in Nat /\ opCount + 1 <= Len(ScriptOf(spend))
  <2>1. Len(ScriptOf(spend)) \in Nat
    BY <1>1, ScriptParts, LenProperties DEF IsSeq
  <2> QED BY <2>1, HeadIs
<1>3. /\ Tail(ops) \in Seq(Range(ops)) /\ Len(Tail(ops)) = Len(ops) - 1
      /\ \A i \in 1..Len(Tail(ops)) : Tail(ops)[i] = ops[i + 1]
  BY <1>1, HeadTailProperties DEF IsSeq
<1> DEFINE t == Tail(ops)
           k == opCount
           q == ScriptOf(spend)
           s == spend
<1>4. IsSeq(t)
  BY <1>3, SeqOwn
<1>5. Len(t) = Len(q) - (k + 1) /\ \A i \in 1..Len(t) : t[i] = q[(k + 1) + i]
  <2>1. Len(t) = Len(q) - (k + 1)
    BY <1>1, <1>2, <1>3
  <2>2. ASSUME NEW i \in 1..Len(t) PROVE t[i] = q[(k + 1) + i]
    <3>1. i + 1 \in 1..Len(ops) /\ k + (i + 1) = (k + 1) + i
      BY <1>1, <1>2, <1>3
    <3>2. t[i] = ops[i + 1] /\ ops[i + 1] = q[k + (i + 1)]
      BY <1>1, <1>3, <3>1
    <3> QED BY <3>1, <3>2
  <2> QED BY <2>1, <2>2
<1>6. k + 1 \in 0..MaxOps
  BY <1>1, ScriptBounds
<1>7. spend' = s /\ ops' = t /\ opCount' = k + 1 /\ ScriptOf(spend)' = q
  <2>1. spend' = spend
    OBVIOUS
  <2> QED BY <2>1 DEF ScriptOf, LockOps, PreimageOps, SignatureOps
<1>8. IsSeq(ops)' <=> IsSeq(t)
  BY <1>7 DEF IsSeq
<1>9. Good(spend)' <=> Good(s)
  BY <1>7 DEF Good, Wanted, Policy, StackFits, Signed
<1>10. Reached(spend, opCount, stack)' <=> Reached(s, k + 1, stack')
  <2>1. spend' = spend /\ opCount' = k + 1
    BY <1>7
  <2> QED BY <2>1 DEF Reached, Passed, InLocks, InPreimage, InSigs, InSuffix
<1> HIDE DEF t, q, s
<1>11. opCount' <= Len(q) /\ Len(ops') = Len(q) - opCount' /\ \A i \in 1..Len(ops') : ops'[i] = q[opCount' + i]
  BY <1>1, <1>2, <1>5, <1>7 DEF q
<1>12. spend' \in Spends /\ opCount' \in 0..MaxOps
  BY <1>1, <1>6, <1>7 DEF s
<1>13. CASE verdict' = "running" /\ Reached(spend, opCount + 1, stack')
  BY <1>4, <1>7, <1>8, <1>10, <1>11, <1>12, <1>13 DEF ScriptInv, s
<1>14. CASE verdict' = "false" /\ ~Good(spend)
  BY <1>9, <1>12, <1>14 DEF ScriptInv, s
<1> QED BY <1>13, <1>14

\* The name of the operation decides which action it is.
LEMMA Dispatch ==
  ASSUME ScriptNext, verdict = "running", ops # <<>>, opCount \in Nat, opCount < MaxOps
  PROVE  /\ Head(ops).name = "PUSH" => OpPush
         /\ Head(ops).name = "DUP" => OpDup
         /\ Head(ops).name = "HASH256" => OpHash256
         /\ Head(ops).name = "CHECKSIG" => OpCheckSig
         /\ Head(ops).name = "CHECKMULTISIG" => OpCheckMultisig
         /\ Head(ops).name = "HASHLOCK" => OpHashlock
         /\ Head(ops).name = "CHECKLOCKTIME" => OpCheckLockTime
         /\ Head(ops).name = "CHECKLOCKHEIGHT" => OpCheckLockHeight
         /\ Head(ops).name = "VERIFY" => OpVerify
         /\ Head(ops).name = "UNKNOWN" => OpUnknown
         /\ ops' = Tail(ops) /\ opCount' = opCount + 1 /\ UNCHANGED spend
<1> DEFINE Does(name) == ScriptNext /\ Head(ops).name = name
<1>1. ~TooManyOps /\ ~Halt
  BY ScriptBounds DEF TooManyOps, Halt
<1>2. /\ OpPush => Head(ops).name = "PUSH" /\ ops' = Tail(ops) /\ opCount' = opCount + 1 /\ UNCHANGED spend
      /\ OpDup => Head(ops).name = "DUP" /\ ops' = Tail(ops) /\ opCount' = opCount + 1 /\ UNCHANGED spend
      /\ OpHash256 => Head(ops).name = "HASH256" /\ ops' = Tail(ops) /\ opCount' = opCount + 1 /\ UNCHANGED spend
      /\ OpCheckSig => Head(ops).name = "CHECKSIG" /\ ops' = Tail(ops) /\ opCount' = opCount + 1 /\ UNCHANGED spend
      /\ OpCheckMultisig => Head(ops).name = "CHECKMULTISIG" /\ ops' = Tail(ops) /\ opCount' = opCount + 1 /\ UNCHANGED spend
      /\ OpHashlock => Head(ops).name = "HASHLOCK" /\ ops' = Tail(ops) /\ opCount' = opCount + 1 /\ UNCHANGED spend
      /\ OpCheckLockTime => Head(ops).name = "CHECKLOCKTIME" /\ ops' = Tail(ops) /\ opCount' = opCount + 1 /\ UNCHANGED spend
      /\ OpCheckLockHeight => Head(ops).name = "CHECKLOCKHEIGHT" /\ ops' = Tail(ops) /\ opCount' = opCount + 1 /\ UNCHANGED spend
      /\ OpVerify => Head(ops).name = "VERIFY" /\ ops' = Tail(ops) /\ opCount' = opCount + 1 /\ UNCHANGED spend
      /\ OpUnknown => Head(ops).name = "UNKNOWN" /\ ops' = Tail(ops) /\ opCount' = opCount + 1 /\ UNCHANGED spend
  BY Zenon DEF OpPush, OpDup, OpHash256, OpCheckSig, OpCheckMultisig, OpHashlock, OpCheckLockTime,
         OpCheckLockHeight, OpVerify, OpUnknown, Running
<1> QED BY <1>1, <1>2 DEF ScriptNext

\* _push onto the stack as it is.
LEMMA PutOn ==
  ASSUME IsSeq(stack)
  PROVE  /\ ~(Len(stack) < 0) /\ Below(0) = stack
         /\ Len(stack) - 0 >= MaxStackItems <=> ~(Len(stack) < MaxStackItems)
<1>1. Len(stack) \in Nat /\ MaxStackItems \in Nat /\ SubSeq(stack, 1, Len(stack)) = stack
  BY LenProperties, SubSeqFull, ScriptBounds DEF IsSeq
<1>2. Below(0) = stack
  <2>1. Len(stack) - 0 = Len(stack)
    BY <1>1
  <2> QED BY <1>1, <2>1 DEF Below
<1> QED BY <1>1, <1>2

\* OP_PUSH puts its item on the stack, or fails when the stack is full.
LEMMA Pushes ==
  ASSUME IsSeq(stack), OpPush, NEW item, Head(ops).item = item
  PROVE  /\ Len(stack) < MaxStackItems => stack' = Append(stack, item) /\ verdict' = verdict
         /\ ~(Len(stack) < MaxStackItems) => verdict' = "false"
BY PutOn DEF OpPush, PopPush, Fail

\* The items an operation sees.
LEMMA TopIs ==
  ASSUME NEW q, IsSeq(q), NEW x, stack = Append(q, x)
  PROVE  /\ Top(0) = x /\ stack # <<>> /\ Below(1) = q
         /\ IsSeq(stack) /\ Len(q) \in Nat /\ Len(stack) = Len(q) + 1
<1>1. /\ Len(q) \in Nat /\ Len(stack) = Len(q) + 1 /\ stack[Len(q) + 1] = x
      /\ stack # <<>> /\ SubSeq(stack, 1, Len(q)) = q /\ IsSeq(stack)
  BY Pushed
<1>2. Len(stack) - 0 = Len(q) + 1 /\ Len(stack) - 1 = Len(q)
  BY <1>1
<1> QED BY <1>1, <1>2 DEF Top, Below

\* An operation on the top item.
LEMMA RoomForOne ==
  ASSUME NEW q, IsSeq(q), NEW x, stack = Append(q, x), Len(q) < MaxStackItems
  PROVE  ~(Len(stack) < 1) /\ ~(Len(stack) - 1 >= MaxStackItems) /\ Below(1) = q /\ Top(0) = x
<1>1. Len(q) \in Nat /\ Len(stack) = Len(q) + 1 /\ Below(1) = q /\ Top(0) = x
  BY TopIs
<1> QED BY <1>1, ScriptBounds

\* An operation on the top two items.
LEMMA RoomForTwo ==
  ASSUME NEW q, IsSeq(q), NEW x, NEW y, stack = Append(Append(q, x), y), Len(q) < MaxStackItems
  PROVE  ~(Len(stack) < 2) /\ ~(Len(stack) - 2 >= MaxStackItems) /\ Below(2) = q
<1> DEFINE a == Append(q, x)
<1>1. /\ IsSeq(a) /\ Len(q) \in Nat /\ Len(a) = Len(q) + 1 /\ SubSeq(a, 1, Len(q)) = q
      /\ \A i \in 1..Len(q) : a[i] = q[i]
  BY Pushed
<1>2. /\ stack = Append(a, y) /\ Len(stack) = Len(a) + 1 /\ \A i \in 1..Len(a) : stack[i] = a[i]
  <2> HIDE DEF a
  <2> QED BY <1>1, Pushed DEF a
<1> HIDE DEF a
<1>3. Len(stack) = Len(q) + 2 /\ ~(Len(stack) < 2) /\ ~(Len(stack) - 2 >= MaxStackItems)
      /\ Len(stack) - 2 = Len(q)
  BY <1>1, <1>2, ScriptBounds
<1>4. SubSeq(stack, 1, Len(q)) = q
  <2> DEFINE u == SubSeq(stack, 1, Len(q))
  <2>1. q \in Seq(Range(q)) /\ \A i \in 1..Len(q) : stack[i] = q[i] /\ stack[i] \in Range(q)
    <3>1. \A i \in 1..Len(q) : q[i] \in Range(q)
      BY ElementOfSeq DEF IsSeq
    <3> QED BY <1>1, <1>2, <3>1 DEF IsSeq
  <2>2. u \in Seq(Range(q)) /\ Len(u) = Len(q) /\ \A i \in 1..Len(q) : u[i] = stack[i]
    BY <1>1, <2>1, SubSeqProperties
  <2> HIDE DEF u
  <2>3. u = q
    BY <2>1, <2>2, SeqEqual
  <2> QED BY <2>3 DEF u
<1>5. Below(2) = q
  BY <1>3, <1>4 DEF Below
<1> QED BY <1>3, <1>5

\* The two items on top.
LEMMA TopTwo ==
  ASSUME NEW q, IsSeq(q), NEW x, NEW y, stack = Append(Append(q, x), y)
  PROVE  Top(0) = y /\ Top(1) = x /\ IsSeq(stack) /\ Len(q) \in Nat /\ Len(stack) = Len(q) + 2
<1> DEFINE a == Append(q, x)
<1>1. IsSeq(a) /\ Len(q) \in Nat /\ Len(a) = Len(q) + 1 /\ a[Len(q) + 1] = x
  BY Pushed
<1>2. stack = Append(a, y) /\ Len(stack) = Len(a) + 1 /\ IsSeq(stack)
      /\ (\A i \in 1..Len(a) : stack[i] = a[i]) /\ stack[Len(a) + 1] = y
  <2> HIDE DEF a
  <2> QED BY <1>1, Pushed DEF a
<1> HIDE DEF a
<1>3. Len(stack) - 0 = Len(a) + 1 /\ Len(stack) - 1 = Len(q) + 1 /\ Len(q) + 1 \in 1..Len(a)
  BY <1>1, <1>2
<1> QED BY <1>1, <1>2, <1>3 DEF Top

\* OP_DUP, the locks, the hashes and OP_CHECKSIG on the items they find.
LEMMA Duplicates ==
  ASSUME NEW q, IsSeq(q), NEW x, stack = Append(q, x), OpDup
  PROVE  /\ Len(stack) < MaxStackItems => stack' = Append(stack, x) /\ verdict' = verdict
         /\ ~(Len(stack) < MaxStackItems) => verdict' = "false"
BY TopIs, PutOn DEF OpDup, PopPush, Fail

\* OP_CHECKLOCKTIME replaces the lock by whether it has matured.
LEMMA ChecksTime ==
  ASSUME NEW q, IsSeq(q), NEW lock, stack = Append(q, <<"lock", lock>>), Len(q) < MaxStackItems,
         OpCheckLockTime
  PROVE  stack' = Append(q, Bool(Mature(lock, spend.ctx.time))) /\ verdict' = verdict
<1>1. ~(Len(stack) < 1) /\ ~(Len(stack) - 1 >= MaxStackItems) /\ Below(1) = q /\ Top(0) = <<"lock", lock>>
  BY RoomForOne
<1>2. Top(0)[1] = "lock" /\ Top(0)[2] = lock
  BY <1>1
<1> QED BY <1>1, <1>2 DEF OpCheckLockTime, PopPush

\* OP_CHECKLOCKHEIGHT, likewise.
LEMMA ChecksHeight ==
  ASSUME NEW q, IsSeq(q), NEW lock, stack = Append(q, <<"lock", lock>>), Len(q) < MaxStackItems,
         OpCheckLockHeight
  PROVE  stack' = Append(q, Bool(Mature(lock, spend.ctx.height))) /\ verdict' = verdict
<1>1. ~(Len(stack) < 1) /\ ~(Len(stack) - 1 >= MaxStackItems) /\ Below(1) = q /\ Top(0) = <<"lock", lock>>
  BY RoomForOne
<1>2. Top(0)[1] = "lock" /\ Top(0)[2] = lock
  BY <1>1
<1> QED BY <1>1, <1>2 DEF OpCheckLockHeight, PopPush

\* OP_HASH256 replaces the item by its hash.
LEMMA Hashed ==
  ASSUME NEW q, IsSeq(q), NEW x, stack = Append(q, x), Len(q) < MaxStackItems, OpHash256
  PROVE  stack' = Append(q, Hash(x)) /\ verdict' = verdict
<1>1. ~(Len(stack) < 1) /\ ~(Len(stack) - 1 >= MaxStackItems) /\ Below(1) = q /\ Top(0) = x
  BY RoomForOne
<1> QED BY <1>1 DEF OpHash256, PopPush

\* OP_HASHLOCK compares the hash of one item with the other, which must be a hash.
LEMMA ChecksHash ==
  ASSUME NEW q, IsSeq(q), NEW x, NEW y, stack = Append(Append(q, x), y), Len(q) < MaxStackItems,
         OpHashlock
  PROVE  /\ Is32(y) => stack' = Append(q, Bool(Hash(x) = y)) /\ verdict' = verdict
         /\ ~Is32(y) => verdict' = "false"
<1>1. ~(Len(stack) < 2) /\ ~(Len(stack) - 2 >= MaxStackItems) /\ Below(2) = q
  BY RoomForTwo
<1>2. Top(0) = y /\ Top(1) = x
  BY TopTwo
<1> QED BY <1>1, <1>2 DEF OpHashlock, PopPush, Fail

\* OP_CHECKSIG takes a signature and a key.
LEMMA ChecksSig ==
  ASSUME NEW q, IsSeq(q), NEW x, NEW y, stack = Append(Append(q, x), y), Len(q) < MaxStackItems,
         OpCheckSig
  PROVE  stack' = Append(q, Bool(Verifies(x, y, spend.ctx.message))) /\ verdict' = verdict
<1>1. ~(Len(stack) < 2) /\ ~(Len(stack) - 2 >= MaxStackItems) /\ Below(2) = q
  BY RoomForTwo
<1>2. Top(0) = y /\ Top(1) = x
  BY TopTwo
<1> QED BY <1>1, <1>2 DEF OpCheckSig, PopPush

\* OP_VERIFY of the item on top.
LEMMA VerifyTop ==
  ASSUME NEW q, IsSeq(q), NEW b \in BOOLEAN, stack = Append(q, Bool(b)), OpVerify
  PROVE  (b => stack' = q /\ verdict' = verdict) /\ (~b => verdict' = "false")
<1>1. Top(0) = Bool(b) /\ stack # <<>> /\ Below(1) = q
  BY TopIs
<1>2. Bool(b) = True <=> b
  BY DEF Bool, True, Empty
<1> QED BY <1>1, <1>2 DEF OpVerify, Fail

\* The limit on the stack, part by part.
LEMMA FitsIs ==
  ASSUME NEW s \in Spends, StackFits(s)
  PROVE  /\ Len(InitialStack(s)) + 1 <= MaxStackItems /\ Len(s.sigs) + 1 <= MaxStackItems
         /\ s.hashlock # <<>> => Len(s.sigs) + 3 <= MaxStackItems
         /\ ~s.single => Len(s.sigs) + Len(s.keys) + 2 <= MaxStackItems
<1>1. Len(s.sigs) \in Nat /\ MaxStackItems \in Nat
  BY SpendShape, ScriptBounds
<1>0. ~s.single => Len(s.sigs) + Len(s.keys) + 2 <= MaxStackItems
  BY DEF StackFits
<1> DEFINE n == Len(s.sigs)
           l == Len(InitialStack(s))
<1>2. CASE s.hashlock = <<>>
  <2>1. Len(InitialStack(s)) = Len(s.sigs) + 0
    BY <1>2, StartsWith
  <2>2. Len(s.sigs) + 1 <= MaxStackItems
    BY <1>2 DEF StackFits
  <2>3. l + 1 <= MaxStackItems /\ n + 1 <= MaxStackItems
    <3>1. l = n + 0 /\ n + 1 <= MaxStackItems /\ n \in Nat
      BY <1>1, <2>1, <2>2
    <3> HIDE DEF n, l
    <3> QED BY <1>1, <3>1
  <2> QED BY <1>0, <1>2, <2>3
<1>3. CASE s.hashlock # <<>>
  <2>1. Len(InitialStack(s)) = Len(s.sigs) + 1
    BY <1>3, StartsWith
  <2>2. Len(s.sigs) + 3 <= MaxStackItems
    BY <1>3 DEF StackFits
  <2>3. l + 1 <= MaxStackItems /\ n + 1 <= MaxStackItems
    <3>1. l = n + 1 /\ n + 3 <= MaxStackItems /\ n \in Nat
      BY <1>1, <2>1, <2>2
    <3> HIDE DEF n, l
    <3> QED BY <1>1, <3>1
  <2> QED BY <1>0, <1>3, <2>2, <2>3
<1> QED BY <1>2, <1>3

\* The script goes on as it should, or stops with FALSE for good reason.
Onward ==
  \/ verdict' = "running" /\ Reached(spend, opCount + 1, stack')
  \/ verdict' = "false" /\ ~Good(spend)

\* What is known at an operation.
LEMMA AtStep ==
  ASSUME ScriptInv, verdict = "running", ops # <<>>
  PROVE  /\ spend \in Spends /\ opCount \in Nat /\ opCount + 1 <= Len(ScriptOf(spend))
         /\ Head(ops) = ScriptOf(spend)[opCount + 1]
         /\ Reached(spend, opCount, stack)
         /\ MaxStackItems \in Nat /\ MaxStackItems >= 1
BY HeadIs, ScriptBounds DEF ScriptInv

\* The first six operations: both locks.
LEMMA LockReached ==
  ASSUME NEW s \in Spends, NEW k \in 1..6, NEW st, InLocks(s, k, st),
         Len(InitialStack(s)) + 1 <= MaxStackItems,
         k >= 3 => Mature(s.locks.time, s.ctx.time), k >= 6 => Mature(s.locks.height, s.ctx.height)
  PROVE  Reached(s, k, st)
<1>1. Unlocked(s) \in {6, 14} /\ Decided(s) \in Nat /\ Decided(s) > Unlocked(s) /\ Len(s.keys) \in Nat
  BY ScriptParts, SpendShape
<1>2. Passed(s, k)
  <2>1. ~(k >= Unlocked(s) + Len(s.keys) + 2) /\ ~(k >= 8) /\ ~(k >= 10)
    BY <1>1
  <2> QED BY <2>1 DEF Passed
<1>3. InPreimage(s, k, st)
  BY DEF InPreimage
<1>4. InSigs(s, k, st)
  <2>1. Unlocked(s) = 6 => s.hashlock = <<>>
    BY DEF Unlocked, PreLen
  <2>2. k = Unlocked(s) => st = s.sigs
    <3>1. k = Unlocked(s) => k = 6 /\ s.hashlock = <<>>
      BY <1>1, <2>1
    <3>2. k = 6 => st = InitialStack(s)
      BY DEF InLocks
    <3> QED BY <3>1, <3>2, StartsWith
  <2>3. k # Unlocked(s) + 1 /\ k \notin (Unlocked(s) + 1)..(Unlocked(s) + 1 + Len(s.keys))
        /\ k # Unlocked(s) + Len(s.keys) + 2
    BY <1>1
  <2> QED BY <2>2, <2>3 DEF InSigs
<1> QED BY <1>1, <1>2, <1>3, <1>4 DEF Reached

\* Every operation on the locks leads on, or the spend is no good one.
LEMMA LockPhase ==
  ASSUME ScriptInv, ScriptNext, verdict = "running", ops # <<>>, opCount < MaxOps, opCount < 6
  PROVE  Onward
<1> DEFINE s == spend
           I == InitialStack(s)
           time == Mature(s.locks.time, s.ctx.time)
           tall == Mature(s.locks.height, s.ctx.height)
           lt == <<"lock", s.locks.time>>
           lh == <<"lock", s.locks.height>>
<1>1. /\ s \in Spends /\ opCount \in Nat /\ Head(ops) = ScriptOf(s)[opCount + 1]
      /\ Passed(s, opCount) /\ InLocks(s, opCount, stack)
      /\ MaxStackItems \in Nat
  BY AtStep DEF Reached
<1>2. IsSeq(I) /\ Len(I) \in Nat
  BY <1>1, StartsWith
<1>3. Head(ops) = LockOps(s)[opCount + 1]
  BY <1>1, ScriptParts
<1>4. time \in BOOLEAN /\ tall \in BOOLEAN
  BY DEF Mature
<1>5. ~(time /\ tall /\ StackFits(s)) => ~Good(s)
  BY <1>1, GoodIs
<1>6. ~(Len(I) < MaxStackItems) => ~StackFits(s)
  <2>1. StackFits(s) => Len(I) + 1 <= MaxStackItems
    BY <1>1, FitsIs
  <2> HIDE DEF I, s
  <2> QED BY <1>1, <1>2, <2>1
<1>7. opCount # 0 => Len(I) + 1 <= MaxStackItems /\ Len(I) < MaxStackItems
  BY <1>1, <1>2 DEF Passed
<1>8. CASE opCount = 0
  <2>1. Head(ops) = Push(lt)
    BY <1>3, <1>8 DEF LockOps
  <2>2. Head(ops).name = "PUSH" /\ Head(ops).item = lt
    BY <2>1 DEF Push
  <2>3. OpPush
    BY <1>1, <2>2, Dispatch
  <2>4. stack = I
    BY <1>1, <1>8 DEF InLocks
  <2>5. /\ Len(I) < MaxStackItems => stack' = Append(I, lt) /\ verdict' = "running"
        /\ ~(Len(I) < MaxStackItems) => verdict' = "false"
    <3> HIDE DEF I, lt
    <3> QED BY <1>2, <2>2, <2>3, <2>4, Pushes
  <2>6. CASE Len(I) < MaxStackItems
    <3>1. InLocks(s, 1, stack')
      BY <2>5, <2>6 DEF InLocks
    <3>2. Len(I) + 1 <= MaxStackItems
      BY <1>1, <1>2, <2>6
    <3>3. Reached(s, 1, stack')
      BY <1>1, <3>1, <3>2, LockReached
    <3> QED BY <1>8, <2>5, <2>6, <3>3 DEF Onward
  <2>7. CASE ~(Len(I) < MaxStackItems)
    BY <1>5, <1>6, <2>5, <2>7 DEF Onward
  <2> QED BY <2>6, <2>7
<1>9. CASE opCount = 1
  <2>1. Head(ops).name = "CHECKLOCKTIME"
    BY <1>3, <1>9 DEF LockOps, Op
  <2>2. OpCheckLockTime
    BY <1>1, <2>1, Dispatch
  <2>3. stack = Append(I, <<"lock", s.locks.time>>)
    BY <1>1, <1>9 DEF InLocks
  <2>4. stack' = Append(I, Bool(time)) /\ verdict' = "running"
    <3> HIDE DEF I
    <3> QED BY <1>2, <1>7, <1>9, <2>2, <2>3, ChecksTime
  <2>5. InLocks(s, 2, stack')
    BY <2>4 DEF InLocks
  <2>6. Reached(s, 2, stack')
    BY <1>1, <1>7, <1>9, <2>5, LockReached
  <2> QED BY <1>9, <2>4, <2>6 DEF Onward
<1>10. CASE opCount = 2
  <2>1. Head(ops).name = "VERIFY"
    BY <1>3, <1>10 DEF LockOps, Op
  <2>2. OpVerify
    BY <1>1, <2>1, Dispatch
  <2>3. stack = Append(I, Bool(time))
    BY <1>1, <1>10 DEF InLocks
  <2>4. (time => stack' = I /\ verdict' = "running") /\ (~time => verdict' = "false")
    <3> HIDE DEF time, I
    <3> QED BY <1>2, <1>4, <2>2, <2>3, VerifyTop
  <2>5. CASE time
    <3>1. InLocks(s, 3, stack')
      BY <2>4, <2>5 DEF InLocks
    <3>2. Reached(s, 3, stack')
      BY <1>1, <1>7, <1>10, <2>5, <3>1, LockReached
    <3> QED BY <1>10, <2>4, <2>5, <3>2 DEF Onward
  <2> QED BY <1>5, <2>4, <2>5 DEF Onward
<1>11. CASE opCount = 3
  <2>1. Head(ops) = Push(lh)
    BY <1>3, <1>11 DEF LockOps
  <2>2. Head(ops).name = "PUSH" /\ Head(ops).item = lh
    BY <2>1 DEF Push
  <2>3. OpPush
    BY <1>1, <2>2, Dispatch
  <2>4. stack = I /\ time
    BY <1>1, <1>11 DEF InLocks, Passed
  <2>5. stack' = Append(I, lh) /\ verdict' = "running"
    <3> HIDE DEF I, lh
    <3> QED BY <1>2, <1>7, <1>11, <2>2, <2>3, <2>4, Pushes
  <2>6. InLocks(s, 4, stack')
    BY <2>5 DEF InLocks
  <2>7. Reached(s, 4, stack')
    BY <1>1, <1>7, <1>11, <2>4, <2>6, LockReached
  <2> QED BY <1>11, <2>5, <2>7 DEF Onward
<1>12. CASE opCount = 4
  <2>1. Head(ops).name = "CHECKLOCKHEIGHT"
    BY <1>3, <1>12 DEF LockOps, Op
  <2>2. OpCheckLockHeight
    BY <1>1, <2>1, Dispatch
  <2>3. stack = Append(I, <<"lock", s.locks.height>>) /\ time
    BY <1>1, <1>12 DEF InLocks, Passed
  <2>4. stack' = Append(I, Bool(tall)) /\ verdict' = "running"
    <3> HIDE DEF I
    <3> QED BY <1>2, <1>7, <1>12, <2>2, <2>3, ChecksHeight
  <2>5. InLocks(s, 5, stack')
    BY <2>4 DEF InLocks
  <2>6. Reached(s, 5, stack')
    BY <1>1, <1>7, <1>12, <2>3, <2>5, LockReached
  <2> QED BY <1>12, <2>4, <2>6 DEF Onward
<1>13. CASE opCount = 5
  <2>1. Head(ops).name = "VERIFY"
    BY <1>3, <1>13 DEF LockOps, Op
  <2>2. OpVerify
    BY <1>1, <2>1, Dispatch
  <2>3. stack = Append(I, Bool(tall)) /\ time
    BY <1>1, <1>13 DEF InLocks, Passed
  <2>4. (tall => stack' = I /\ verdict' = "running") /\ (~tall => verdict' = "false")
    <3> HIDE DEF tall, I
    <3> QED BY <1>2, <1>4, <2>2, <2>3, VerifyTop
  <2>5. CASE tall
    <3>1. InLocks(s, 6, stack')
      BY <2>4, <2>5 DEF InLocks
    <3>2. Reached(s, 6, stack')
      BY <1>1, <1>7, <1>13, <2>3, <2>5, <3>1, LockReached
    <3> QED BY <1>13, <2>4, <2>5, <3>2 DEF Onward
  <2> QED BY <1>5, <2>4, <2>5 DEF Onward
<1> QED BY <1>1, <1>8, <1>9, <1>10, <1>11, <1>12, <1>13

\* The eight operations on the preimage, if there is a hashlock.
LEMMA PreReached ==
  ASSUME NEW s \in Spends, s.hashlock # <<>>, NEW k \in 7..14, NEW st, InPreimage(s, k, st),
         k = 14 => st = s.sigs, Passed(s, 6),
         k >= 8 => Len(s.sigs) + 3 <= MaxStackItems, k >= 10 => OpensLock(s)
  PROVE  Reached(s, k, st)
<1>1. Unlocked(s) = 14 /\ Decided(s) \in Nat /\ Decided(s) > 14 /\ Len(s.keys) \in Nat
  BY ScriptParts, SpendShape DEF Unlocked, PreLen
<1>2. Passed(s, k)
  <2>1. ~(k >= Unlocked(s) + Len(s.keys) + 2)
    BY <1>1
  <2>2. /\ Len(InitialStack(s)) + 1 <= MaxStackItems
        /\ Mature(s.locks.time, s.ctx.time) /\ Mature(s.locks.height, s.ctx.height)
    BY DEF Passed
  <2> QED BY <2>1, <2>2 DEF Passed
<1>3. InLocks(s, k, st)
  BY DEF InLocks
<1>4. InSigs(s, k, st)
  <2> DEFINE n == Len(s.keys)
  <2>0. n \in Nat
    BY <1>1
  <2>1. k # Unlocked(s) + 1 /\ k \notin (Unlocked(s) + 1)..(Unlocked(s) + 1 + Len(s.keys))
        /\ k # Unlocked(s) + Len(s.keys) + 2
    <3>1. k # 14 + 1 /\ k \notin (14 + 1)..(14 + 1 + n) /\ k # 14 + n + 2
      <4> HIDE DEF n
      <4> QED BY <2>0
    <3> QED BY <1>1, <3>1
  <2> QED BY <1>1, <2>1 DEF InSigs
<1> QED BY <1>1, <1>2, <1>3, <1>4 DEF Reached

\* Every operation on the preimage leads on, or the spend is no good one.
LEMMA PreimagePhase ==
  ASSUME ScriptInv, ScriptNext, verdict = "running", ops # <<>>, opCount < MaxOps,
         spend.hashlock # <<>>, opCount >= 6, opCount < 14
  PROVE  Onward
<1> DEFINE s == spend
           q == s.sigs
           p == s.preimage
           h == s.hashlock[1]
           qp == Append(q, p)
           qpp == Append(qp, p)
           qh == Append(q, Hash(p))
           opens == OpensLock(s)
<1>1. /\ s \in Spends /\ opCount \in Nat /\ Head(ops) = ScriptOf(s)[opCount + 1]
      /\ Passed(s, opCount) /\ InLocks(s, opCount, stack) /\ InPreimage(s, opCount, stack)
      /\ MaxStackItems \in Nat
  BY AtStep DEF Reached
<1>2. IsSeq(q) /\ Len(q) \in Nat
  BY <1>1, SpendShape
<1>3. Head(ops) = PreimageOps(s)[opCount - 5]
  <2>1. opCount - 5 \in 1..PreLen(s) /\ 6 + (opCount - 5) = opCount + 1
    BY <1>1 DEF PreLen
  <2>2. ScriptOf(s)[6 + (opCount - 5)] = PreimageOps(s)[opCount - 5]
    BY <1>1, <2>1, ScriptParts
  <2> QED BY <1>1, <2>1, <2>2
<1>4. opens \in BOOLEAN /\ (opens => Is32(h)) /\ (opens <=> Hash(p) = h)
  BY DEF OpensLock, Hash, Is32
<1>5. ~(opens /\ StackFits(s)) => ~Good(s)
  BY <1>1, GoodIs
<1>6. ~(Len(q) + 3 <= MaxStackItems) => ~StackFits(s)
  BY <1>1, FitsIs
<1>7. IsSeq(qp) /\ Len(qp) = Len(q) + 1
  <2> HIDE DEF q, p
  <2> QED BY <1>2, Pushed
<1>8. IsSeq(qpp) /\ Len(qpp) = Len(q) + 2
  <2>1. IsSeq(qpp) /\ Len(qpp) = Len(qp) + 1
    <3> HIDE DEF qp, p
    <3> QED BY <1>7, Pushed
  <2> HIDE DEF qpp, qp, q
  <2> QED BY <1>2, <1>7, <2>1
<1>9. IsSeq(qh) /\ Len(qh) = Len(q) + 1
  <2> HIDE DEF q
  <2> QED BY <1>2, Pushed
<1>10. Passed(s, 6)
  <2>1. ~(6 >= Unlocked(s) + Len(s.keys) + 2)
    <3> DEFINE n == Len(s.keys)
               U == Unlocked(s)
    <3>1. n \in Nat /\ U \in {6, 14}
      BY <1>1, ScriptParts, SpendShape
    <3> HIDE DEF n, U
    <3>2. ~(6 >= U + n + 2)
      BY <3>1
    <3> QED BY <3>2 DEF n, U
  <2>2. /\ Len(InitialStack(s)) + 1 <= MaxStackItems
        /\ Mature(s.locks.time, s.ctx.time) /\ Mature(s.locks.height, s.ctx.height)
    BY <1>1 DEF Passed
  <2>3. ~(6 >= 8) /\ ~(6 >= 10)
    OBVIOUS
  <2> HIDE DEF s
  <2> QED BY <2>1, <2>2, <2>3, Zenon DEF Passed
<1>11. /\ opCount >= 8 => Len(q) + 3 <= MaxStackItems /\ Len(q) < MaxStackItems /\ Len(q) + 1 < MaxStackItems
       /\ opCount >= 10 => opens
  <2>1. (opCount >= 8 => Len(q) + 3 <= MaxStackItems) /\ (opCount >= 10 => opens)
    BY <1>1 DEF Passed
  <2> HIDE DEF q
  <2> QED BY <1>1, <1>2, <2>1
<1>12. PreimageOps(s) = <<Op("DUP"), Push(h), Op("HASHLOCK"), Op("VERIFY"),
                          Op("HASH256"), Push(Hash(h)), Op("HASHLOCK"), Op("VERIFY")>>
  BY DEF PreimageOps
<1>13. CASE opCount = 6
  <2>1. Head(ops).name = "DUP"
    BY <1>3, <1>12, <1>13 DEF Op
  <2>2. OpDup
    BY <1>1, <2>1, Dispatch
  <2>3. stack = qp
    <3>1. stack = InitialStack(s)
      BY <1>1, <1>13 DEF InLocks
    <3> QED BY <1>1, <3>1, StartsWith
  <2>4. /\ Len(stack) < MaxStackItems => stack' = Append(stack, p) /\ verdict' = "running"
        /\ ~(Len(stack) < MaxStackItems) => verdict' = "false"
    <3> HIDE DEF q, p
    <3> QED BY <1>2, <2>2, <2>3, Duplicates
  <2>5. CASE Len(qp) < MaxStackItems
    <3>1. stack' = qpp /\ verdict' = "running"
      BY <2>3, <2>4, <2>5
    <3>2. InPreimage(s, 7, stack')
      BY <3>1 DEF InPreimage
    <3>3. Reached(s, 7, stack')
      BY <1>1, <1>10, <3>2, PreReached
    <3> QED BY <1>13, <3>1, <3>3 DEF Onward
  <2>6. CASE ~(Len(qp) < MaxStackItems)
    <3>1. ~(Len(q) + 3 <= MaxStackItems)
      <4> HIDE DEF qp, q
      <4> QED BY <1>1, <1>2, <1>7, <2>6
    <3> QED BY <1>5, <1>6, <2>3, <2>4, <2>6, <3>1 DEF Onward
  <2> QED BY <2>5, <2>6
<1>14. CASE opCount = 7
  <2>1. Head(ops) = Push(h)
    BY <1>3, <1>12, <1>14
  <2>2. Head(ops).name = "PUSH" /\ Head(ops).item = h
    BY <2>1 DEF Push
  <2>3. OpPush
    BY <1>1, <2>2, Dispatch
  <2>4. stack = qpp
    BY <1>1, <1>14 DEF InPreimage
  <2>5. /\ Len(qpp) < MaxStackItems => stack' = Append(qpp, h) /\ verdict' = "running"
        /\ ~(Len(qpp) < MaxStackItems) => verdict' = "false"
    <3> HIDE DEF qpp, h
    <3> QED BY <1>8, <2>2, <2>3, <2>4, Pushes
  <2>6. Len(qpp) < MaxStackItems <=> Len(q) + 3 <= MaxStackItems
    <3> HIDE DEF qpp, q
    <3> QED BY <1>1, <1>2, <1>8
  <2>7. CASE Len(qpp) < MaxStackItems
    <3>1. stack' = Append(qpp, h) /\ verdict' = "running"
      BY <2>5, <2>7
    <3>2. InPreimage(s, 8, stack')
      BY <3>1 DEF InPreimage
    <3>3. Reached(s, 8, stack')
      BY <1>1, <1>10, <2>6, <2>7, <3>2, PreReached
    <3> QED BY <1>14, <3>1, <3>3 DEF Onward
  <2>8. CASE ~(Len(qpp) < MaxStackItems)
    BY <1>5, <1>6, <2>5, <2>6, <2>8 DEF Onward
  <2> QED BY <2>7, <2>8
<1>15. CASE opCount = 8
  <2>1. Head(ops).name = "HASHLOCK"
    BY <1>3, <1>12, <1>15 DEF Op
  <2>2. OpHashlock
    BY <1>1, <2>1, Dispatch
  <2>3. stack = Append(Append(qp, p), h)
    BY <1>1, <1>15 DEF InPreimage
  <2>4. Len(qp) < MaxStackItems
    <3> HIDE DEF qp, q
    <3> QED BY <1>7, <1>11, <1>15
  <2>5. /\ Is32(h) => stack' = Append(qp, Bool(Hash(p) = h)) /\ verdict' = "running"
        /\ ~Is32(h) => verdict' = "false"
    <3>1. IsSeq(qp) /\ stack = Append(Append(qp, p), h) /\ Len(qp) < MaxStackItems
      BY <1>7, <2>3, <2>4
    <3> HIDE DEF qp, p, h
    <3>2. /\ Is32(h) => stack' = Append(qp, Bool(Hash(p) = h)) /\ verdict' = verdict
          /\ ~Is32(h) => verdict' = "false"
      BY <2>2, <3>1, ChecksHash
    <3> QED BY <3>2
  <2>6. CASE Is32(h)
    <3>1. stack' = Append(qp, Bool(opens)) /\ verdict' = "running"
      BY <2>5, <2>6 DEF OpensLock
    <3>2. InPreimage(s, 9, stack')
      BY <3>1 DEF InPreimage
    <3>3. Reached(s, 9, stack')
      BY <1>1, <1>10, <1>11, <1>15, <3>2, PreReached
    <3> QED BY <1>15, <3>1, <3>3 DEF Onward
  <2>7. CASE ~Is32(h)
    BY <1>4, <1>5, <2>5, <2>7 DEF Onward
  <2> QED BY <2>6, <2>7
<1>16. CASE opCount = 9
  <2>1. Head(ops).name = "VERIFY"
    BY <1>3, <1>12, <1>16 DEF Op
  <2>2. OpVerify
    BY <1>1, <2>1, Dispatch
  <2>3. stack = Append(qp, Bool(opens))
    BY <1>1, <1>16 DEF InPreimage
  <2>4. (opens => stack' = qp /\ verdict' = "running") /\ (~opens => verdict' = "false")
    <3> HIDE DEF opens, qp
    <3> QED BY <1>4, <1>7, <2>2, <2>3, VerifyTop
  <2>5. CASE opens
    <3>1. InPreimage(s, 10, stack')
      BY <2>4, <2>5 DEF InPreimage
    <3>2. Reached(s, 10, stack')
      BY <1>1, <1>10, <1>11, <1>16, <2>5, <3>1, PreReached
    <3> QED BY <1>16, <2>4, <2>5, <3>2 DEF Onward
  <2> QED BY <1>5, <2>4, <2>5 DEF Onward
<1>17. CASE opCount = 10
  <2>1. Head(ops).name = "HASH256"
    BY <1>3, <1>12, <1>17 DEF Op
  <2>2. OpHash256
    BY <1>1, <2>1, Dispatch
  <2>3. stack = qp
    BY <1>1, <1>17 DEF InPreimage
  <2>4. stack' = qh /\ verdict' = "running"
    <3> HIDE DEF q, p
    <3> QED BY <1>2, <1>11, <1>17, <2>2, <2>3, Hashed
  <2>5. InPreimage(s, 11, stack')
    BY <2>4 DEF InPreimage
  <2>6. Reached(s, 11, stack')
    BY <1>1, <1>10, <1>11, <1>17, <2>5, PreReached
  <2> QED BY <1>17, <2>4, <2>6 DEF Onward
<1>18. CASE opCount = 11
  <2> DEFINE hh == Hash(h)
  <2>1. Head(ops) = Push(hh)
    BY <1>3, <1>12, <1>18
  <2>2. Head(ops).name = "PUSH" /\ Head(ops).item = hh
    BY <2>1 DEF Push
  <2>3. OpPush
    BY <1>1, <2>2, Dispatch
  <2>4. stack = qh
    BY <1>1, <1>18 DEF InPreimage
  <2>5. Len(qh) < MaxStackItems
    <3> HIDE DEF qh, q
    <3> QED BY <1>9, <1>11, <1>18
  <2>6. stack' = Append(qh, hh) /\ verdict' = "running"
    <3> HIDE DEF qh, hh
    <3> QED BY <1>9, <2>2, <2>3, <2>4, <2>5, Pushes
  <2>7. InPreimage(s, 12, stack')
    BY <2>6 DEF InPreimage
  <2>8. Reached(s, 12, stack')
    BY <1>1, <1>10, <1>11, <1>18, <2>7, PreReached
  <2> QED BY <1>18, <2>6, <2>8 DEF Onward
<1>19. CASE opCount = 12
  <2> DEFINE x == Hash(p)
             y == Hash(h)
  <2>1. Head(ops).name = "HASHLOCK"
    BY <1>3, <1>12, <1>19 DEF Op
  <2>2. OpHashlock
    BY <1>1, <2>1, Dispatch
  <2>3. stack = Append(Append(q, x), y)
    BY <1>1, <1>19 DEF InPreimage
  <2>4. Is32(y) /\ Hash(x) = y
    <3>1. x = h
      BY <1>4, <1>11, <1>19
    <3>2. Hash(x) = y
      BY <3>1
    <3> QED BY <3>2 DEF Is32, Hash
  <2>5. stack' = Append(q, Bool(Hash(x) = y)) /\ verdict' = "running"
    <3> HIDE DEF q, x, y
    <3> QED BY <1>2, <1>11, <1>19, <2>2, <2>3, <2>4, ChecksHash
  <2>6. stack' = Append(q, True)
    <3> HIDE DEF q, x, y
    <3> QED BY <2>4, <2>5 DEF Bool
  <2>7. InPreimage(s, 13, stack')
    BY <2>6 DEF InPreimage
  <2>8. Reached(s, 13, stack')
    BY <1>1, <1>10, <1>11, <1>19, <2>7, PreReached
  <2> QED BY <1>19, <2>5, <2>8 DEF Onward
<1>20. CASE opCount = 13
  <2>1. Head(ops).name = "VERIFY"
    BY <1>3, <1>12, <1>20 DEF Op
  <2>2. OpVerify
    BY <1>1, <2>1, Dispatch
  <2>3. stack = Append(q, Bool(TRUE))
    BY <1>1, <1>20 DEF InPreimage, Bool
  <2>4. stack' = q /\ verdict' = "running"
    <3> HIDE DEF q
    <3> QED BY <1>2, <2>2, <2>3, VerifyTop
  <2>5. InPreimage(s, 14, stack')
    BY DEF InPreimage
  <2>6. Reached(s, 14, stack')
    BY <1>1, <1>10, <1>11, <1>20, <2>4, <2>5, PreReached
  <2> QED BY <1>20, <2>4, <2>6 DEF Onward
<1> QED BY <1>1, <1>13, <1>14, <1>15, <1>16, <1>17, <1>18, <1>19, <1>20

\* What every operation after the preimage relies on.
Cleared(s) ==
  /\ Len(InitialStack(s)) + 1 <= MaxStackItems
  /\ Mature(s.locks.time, s.ctx.time) /\ Mature(s.locks.height, s.ctx.height)
  /\ s.hashlock # <<>> => Len(s.sigs) + 3 <= MaxStackItems /\ OpensLock(s)

\* Once the signatures are reached, the locks, the preimage and the limits so far hold.
LEMMA ClearedIs ==
  ASSUME NEW s \in Spends, NEW k \in Nat, k >= Unlocked(s), Passed(s, k)
  PROVE  Cleared(s) /\ Len(s.sigs) + 1 <= MaxStackItems
<1>1. Unlocked(s) \in {6, 14} /\ (s.hashlock # <<>> => Unlocked(s) = 14)
  BY ScriptParts DEF Unlocked, PreLen
<1>2. k >= 1 /\ k >= 3 /\ k >= 6 /\ (s.hashlock # <<>> => k >= 8 /\ k >= 10)
  BY <1>1
<1>3. Cleared(s)
  BY <1>2 DEF Passed, Cleared
<1>4. Len(s.sigs) + 1 <= MaxStackItems
  <2> DEFINE n == Len(s.sigs)
             l == Len(InitialStack(s))
  <2>1. l + 1 <= MaxStackItems /\ (l = n \/ l = n + 1) /\ n \in Nat /\ MaxStackItems \in Nat
    <3>1. l = n + (IF s.hashlock = <<>> THEN 0 ELSE 1) /\ n \in Nat
      BY StartsWith, SpendShape
    <3>2. CASE s.hashlock = <<>>
      BY <1>3, <3>1, <3>2, ScriptBounds DEF Cleared
    <3>3. CASE s.hashlock # <<>>
      BY <1>3, <3>1, <3>3, ScriptBounds DEF Cleared
    <3> QED BY <3>2, <3>3
  <2>2. n + 1 <= MaxStackItems
    <3> HIDE DEF n, l
    <3> QED BY <2>1
  <2> QED BY <2>2
<1> QED BY <1>3, <1>4

\* After the preimage only the signatures and the suffix say what is on the stack.
LEMMA SigReached ==
  ASSUME NEW s \in Spends, NEW k \in Nat, k > Unlocked(s), NEW st, Cleared(s),
         ~s.single /\ k >= Unlocked(s) + Len(s.keys) + 2 => Len(s.sigs) + Len(s.keys) + 2 <= MaxStackItems,
         InSigs(s, k, st), k >= Decided(s) => InSuffix(s, k - Decided(s), st)
  PROVE  Reached(s, k, st)
<1>1. Unlocked(s) \in {6, 14} /\ (s.hashlock # <<>> => Unlocked(s) = 14)
  BY ScriptParts DEF Unlocked, PreLen
<1>2. Passed(s, k)
  BY DEF Passed, Cleared
<1>3. InLocks(s, k, st)
  BY <1>1 DEF InLocks
<1>4. InPreimage(s, k, st)
  BY <1>1 DEF InPreimage
<1> QED BY <1>2, <1>3, <1>4 DEF Reached

\* After the signatures the stack is no longer theirs.
LEMMA SigsDone ==
  ASSUME NEW s \in Spends, NEW k \in Nat, k >= Decided(s), NEW st
  PROVE  InSigs(s, k, st) /\ k > Unlocked(s)
<1>1. Unlocked(s) \in Nat /\ Len(s.keys) \in Nat /\ s.single \in BOOLEAN
  BY ScriptParts, SpendShape
<1>2. CASE s.single
  <2>1. Decided(s) = Unlocked(s) + 2
    BY <1>2 DEF Decided, SigLen
  <2> QED BY <1>1, <1>2, <2>1 DEF InSigs
<1>3. CASE ~s.single
  <2>1. Decided(s) = Unlocked(s) + (Len(s.keys) + 3)
    BY <1>3 DEF Decided, SigLen
  <2>2. k # Unlocked(s) /\ k \notin (Unlocked(s) + 1)..(Unlocked(s) + 1 + Len(s.keys))
        /\ k # Unlocked(s) + Len(s.keys) + 2 /\ k > Unlocked(s)
    BY <1>1, <2>1
  <2> QED BY <1>3, <2>2 DEF InSigs
<1> QED BY <1>1, <1>2, <1>3

\* The verdict on the signatures is on top.
LEMMA SuffixStart ==
  ASSUME NEW s \in Spends, NEW rest, IsSeq(rest), Len(rest) + 2 <= MaxStackItems,
         NEW st, st = Append(rest, Bool(SigsOk(s)))
  PROVE  InSuffix(s, 0, st)
<1>1. 0 % 2 = 0 /\ ~(0 >= 2) /\ ~(0 >= 1)
  OBVIOUS
<1> QED BY <1>1 DEF InSuffix

\* A stretch of a stack.
LEMMA Slice ==
  ASSUME NEW st, NEW q, IsSeq(q), NEW a \in Nat, \A j \in 1..Len(q) : st[a + j] = q[j]
  PROVE  SubSeq(st, a + 1, a + Len(q)) = q
<1> DEFINE n == Len(q)
           u == SubSeq(st, a + 1, a + n)
<1>1. q \in Seq(Range(q)) /\ n \in Nat /\ \A j \in 1..n : q[j] \in Range(q)
  BY LenProperties, ElementOfSeq DEF IsSeq
<1>2. \A i \in (a + 1)..(a + n) : st[i] \in Range(q)
  <2> TAKE i \in (a + 1)..(a + n)
  <2>1. i - a \in 1..n /\ a + (i - a) = i
    BY <1>1
  <2>2. st[i] = q[i - a]
    BY <2>1
  <2> QED BY <1>1, <2>1, <2>2
<1>3. /\ u \in Seq(Range(q)) /\ Len(u) = IF a + 1 <= a + n THEN (a + n) - (a + 1) + 1 ELSE 0
      /\ \A i \in 1..((a + n) - (a + 1) + 1) : u[i] = st[(a + 1) + i - 1]
  <2>1. a + 1 \in Int /\ a + n \in Int
    BY <1>1
  <2> HIDE DEF n
  <2> QED BY <1>2, <2>1, SubSeqProperties
<1>4. Len(u) = n /\ \A i \in 1..n : u[i] = q[i]
  <2> HIDE DEF u, n
  <2>1. (a + n) - (a + 1) + 1 = n
    BY <1>1
  <2>2. Len(u) = n
    BY <1>1, <1>3, <2>1
  <2>3. ASSUME NEW i \in 1..n PROVE u[i] = q[i]
    <3>1. (a + 1) + i - 1 = a + i
      BY <1>1
    <3>2. u[i] = st[a + i]
      BY <1>3, <2>1, <3>1
    <3> QED BY <3>2 DEF n
  <2> QED BY <2>2, <2>3
<1>5. u = q
  <2> HIDE DEF u
  <2> QED BY <1>1, <1>3, <1>4, SeqEqual
<1> QED BY <1>5

\* The greater of a number and zero.
LEMMA OverZero ==
  ASSUME NEW a \in Int
  PROVE  Max({0, a}) = IF a >= 0 THEN a ELSE 0
<1> DEFINE T == {0, a}
           m == IF a >= 0 THEN a ELSE 0
<1>1. m \in T /\ \A y \in T : m >= y
  OBVIOUS
<1>2. \A x \in T : (\A y \in T : x >= y) => x = m
  OBVIOUS
<1>3. (CHOOSE x \in T : \A y \in T : x >= y) = m
  <2> HIDE DEF T, m
  <2> QED BY <1>1, <1>2
<1> QED BY <1>3 DEF Max

\* The last signatures: as many as are wanted, if there are.
LEMMA LastIs ==
  ASSUME NEW q, IsSeq(q), NEW n \in Nat
  PROVE  LET w == LastOf(q, n) IN
         /\ IsSeq(w) /\ Len(q) \in Nat
         /\ Len(w) = n <=> Len(q) >= n
         /\ Len(q) >= n => \A i \in 1..n : w[i] = q[(Len(q) - n) + i]
<1> DEFINE l == Len(q)
           a == IF l - n >= 0 THEN l - n ELSE 0
           w == SubSeq(q, a + 1, l)
<1>1. q \in Seq(Range(q)) /\ l \in Nat
  BY LenProperties DEF IsSeq
<1>2. a \in Nat /\ a <= l /\ (l >= n => a = l - n) /\ (~(l >= n) => a = 0)
  BY <1>1
<1>3. LastOf(q, n) = w
  <2>1. Max({0, l - n}) = a
    BY <1>1, OverZero
  <2> HIDE DEF a
  <2> QED BY <2>1 DEF LastOf
<1> HIDE DEF a
<1>4. /\ w \in Seq(Range(q)) /\ Len(w) = IF a + 1 <= l THEN l - (a + 1) + 1 ELSE 0
      /\ \A i \in 1..(l - (a + 1) + 1) : w[i] = q[(a + 1) + i - 1]
  <2>1. a + 1 \in Int /\ l \in Int
    BY <1>1, <1>2
  <2>2. \A i \in (a + 1)..l : q[i] \in Range(q)
    <3> TAKE i \in (a + 1)..l
    <3>1. i \in 1..l
      BY <1>1, <1>2
    <3> QED BY <1>1, <3>1, ElementOfSeq
  <2> HIDE DEF l
  <2> QED BY <2>1, <2>2, SubSeqProperties
<1> HIDE DEF w, l
<1>5. IsSeq(w)
  BY <1>4, SeqOwn
<1>6. Len(w) = l - a
  BY <1>1, <1>2, <1>4
<1>7. Len(w) = n <=> l >= n
  BY <1>1, <1>2, <1>6
<1>8. ASSUME l >= n, NEW i \in 1..n PROVE w[i] = q[(l - n) + i]
  <2>1. i \in 1..(l - (a + 1) + 1) /\ (a + 1) + i - 1 = (l - n) + i
    BY <1>1, <1>2, <1>8
  <2> QED BY <1>4, <2>1
<1> QED BY <1>1, <1>3, <1>5, <1>7, <1>8 DEF l

\* One signature by the one key is what a single-key spend needs.
LEMMA SingleOk ==
  ASSUME NEW s \in Spends, s.single
  PROVE  /\ Len(s.sigs) = 0 => ~SigsOk(s)
         /\ Len(s.sigs) # 0 => (SigsOk(s) <=> Verifies(s.sigs[Len(s.sigs)], s.keys[1], s.ctx.message))
<1> DEFINE q == s.sigs
           l == Len(q)
           w == Wanted(s)
<1>1. s.threshold = 1 /\ Len(s.keys) = 1 /\ IsSeq(q) /\ l \in Nat
  BY SpendShape
<1>2. /\ Len(w) = 1 <=> l >= 1
      /\ l >= 1 => \A i \in 1..1 : w[i] = q[(l - 1) + i]
  <2>1. w = LastOf(q, 1)
    BY <1>1 DEF Wanted
  <2> HIDE DEF q, w
  <2>2. 1 \in Nat /\ IsSeq(q)
    BY <1>1
  <2>3. /\ Len(LastOf(q, 1)) = 1 <=> Len(q) >= 1
        /\ Len(q) >= 1 => \A i \in 1..1 : LastOf(q, 1)[i] = q[(Len(q) - 1) + i]
    BY <2>2, LastIs
  <2> QED BY <2>1, <2>3
<1>3. CASE l = 0
  <2>1. Len(w) # s.threshold
    BY <1>1, <1>2, <1>3
  <2> QED BY <1>3, <2>1 DEF SigsOk
<1>4. CASE l # 0
  <2>1. l >= 1 /\ (l - 1) + 1 = l
    BY <1>1, <1>4
  <2>2. Len(w) = 1 /\ w[1] = q[l]
    BY <1>2, <2>1
  <2>3. Signed(w, s.keys, s.ctx.message) <=> Verifies(w[1], s.keys[1], s.ctx.message)
    <3> HIDE DEF w
    <3> QED BY <1>1, <2>2, OneSigned
  <2>4. Verifies(w[1], s.keys[1], s.ctx.message) => Is32(s.keys[1])
    BY DEF Verifies, IsKey, Is32
  <2>5. ValidMultisig(s) <=> Is32(s.keys[1])
    BY SingleValid
  <2>6. SigsOk(s) <=> Verifies(w[1], s.keys[1], s.ctx.message)
    BY <1>1, <2>2, <2>3, <2>4, <2>5 DEF SigsOk
  <2> QED BY <1>4, <2>2, <2>6
<1> QED BY <1>3, <1>4

\* The two operations of a single-key spend.
LEMMA SinglePhase ==
  ASSUME ScriptInv, ScriptNext, verdict = "running", ops # <<>>, opCount < MaxOps,
         spend.single, opCount >= Unlocked(spend), opCount < Decided(spend)
  PROVE  Onward
<1> DEFINE s == spend
           q == s.sigs
           key == s.keys[1]
           U == Unlocked(s)
           message == s.ctx.message
<1>1. /\ s \in Spends /\ opCount \in Nat /\ Head(ops) = ScriptOf(s)[opCount + 1]
      /\ Passed(s, opCount) /\ InSigs(s, opCount, stack)
      /\ MaxStackItems \in Nat
  BY AtStep DEF Reached
<1>2. IsSeq(q) /\ Len(q) \in Nat
  BY <1>1, SpendShape
<1>3. U \in Nat /\ SigLen(s) = 2 /\ Decided(s) = U + 2 /\ (opCount = U \/ opCount = U + 1)
  <2>1. U \in Nat /\ SigLen(s) = 2 /\ Decided(s) = U + 2
    BY <1>1, ScriptParts DEF SigLen, Decided
  <2> QED BY <1>1, <2>1
<1>4. Cleared(s) /\ Len(q) + 1 <= MaxStackItems
  BY <1>1, ClearedIs
<1>5. ScriptOf(s)[U + 1] = SignatureOps(s)[1] /\ ScriptOf(s)[U + 2] = SignatureOps(s)[2]
  <2>1. \A i \in 1..SigLen(s) : ScriptOf(s)[U + i] = SignatureOps(s)[i]
    BY <1>1, ScriptParts
  <2> HIDE DEF U
  <2> QED BY <1>3, <2>1
<1>6. SignatureOps(s)[1] = Push(key) /\ SignatureOps(s)[2] = Op("CHECKSIG")
  BY DEF SignatureOps
<1>7. CASE opCount = U
  <2>1. Head(ops) = Push(key)
    BY <1>1, <1>5, <1>6, <1>7
  <2>2. Head(ops).name = "PUSH" /\ Head(ops).item = key
    BY <2>1 DEF Push
  <2>3. OpPush
    BY <1>1, <2>2, Dispatch
  <2>4. stack = q
    BY <1>1, <1>7 DEF InSigs
  <2>5. Len(q) < MaxStackItems
    <3> HIDE DEF q
    <3> QED BY <1>1, <1>2, <1>4
  <2>6. stack' = Append(q, key) /\ verdict' = "running"
    <3> HIDE DEF q, key
    <3> QED BY <1>2, <2>2, <2>3, <2>4, <2>5, Pushes
  <2>7. InSigs(s, U + 1, stack')
    <3>1. U + 1 # U
      BY <1>3
    <3> QED BY <2>6, <3>1 DEF InSigs
  <2>8. U + 1 \in Nat /\ U + 1 > U /\ ~(U + 1 >= Decided(s))
    BY <1>3
  <2>9. Reached(s, U + 1, stack')
    BY <1>1, <1>4, <2>7, <2>8, SigReached
  <2> QED BY <1>7, <2>6, <2>9 DEF Onward
<1>8. CASE opCount = U + 1
  <2>1. Head(ops) = Op("CHECKSIG")
    <3>1. (U + 1) + 1 = U + 2
      BY <1>3
    <3> QED BY <1>1, <1>5, <1>6, <1>8, <3>1
  <2>2. OpCheckSig
    <3>1. Head(ops).name = "CHECKSIG"
      BY <2>1 DEF Op
    <3> QED BY <1>1, <3>1, Dispatch
  <2>3. stack = Append(q, key)
    BY <1>1, <1>8 DEF InSigs
  <2>4. CASE Len(q) = 0
    <3>1. Len(stack) < 2
      <4>1. Len(stack) = Len(q) + 1
        <5> HIDE DEF q, key
        <5> QED BY <1>2, <2>3, Pushed
      <4> QED BY <2>4, <4>1
    <3>2. verdict' = "false"
      BY <2>2, <3>1 DEF OpCheckSig, PopPush, Fail
    <3>3. ~SigsOk(s)
      BY <1>1, <2>4, SingleOk
    <3>4. ~Good(s)
      BY <1>1, <3>3, GoodIs
    <3> QED BY <3>2, <3>4 DEF Onward
  <2>5. CASE Len(q) # 0
    <3>1. \E r, x : IsSeq(r) /\ q = Append(r, x)
      <4>1. q \in Seq(Range(q)) /\ q # <<>>
        BY <1>2, <2>5 DEF IsSeq
      <4>2. \E r \in Seq(Range(q)), x \in Range(q) : q = Append(r, x)
        <5> HIDE DEF q
        <5> QED BY <4>1, SequenceEmptyOrAppend
      <4> HIDE DEF q
      <4> QED BY <4>2, SeqOwn
    <3>2. PICK r, x : IsSeq(r) /\ q = Append(r, x)
      BY <3>1
    <3>3. Len(r) \in Nat /\ Len(q) = Len(r) + 1 /\ q[Len(q)] = x
      <4> HIDE DEF q
      <4> QED BY <3>2, Pushed
    <3>4. Len(r) < MaxStackItems /\ Len(r) + 2 <= MaxStackItems
      <4> HIDE DEF q
      <4> QED BY <1>1, <1>4, <3>3
    <3>5. stack = Append(Append(r, x), key)
      BY <2>3, <3>2
    <3>6. stack' = Append(r, Bool(Verifies(x, key, message))) /\ verdict' = "running"
      <4> HIDE DEF q, key
      <4> QED BY <2>2, <3>2, <3>4, <3>5, ChecksSig
    <3>7. SigsOk(s) <=> Verifies(x, key, message)
      BY <1>1, <2>5, <3>3, SingleOk
    <3>8. stack' = Append(r, Bool(SigsOk(s)))
      <4>1. Bool(SigsOk(s)) = Bool(Verifies(x, key, message))
        BY <3>7 DEF Bool
      <4> QED BY <3>6, <4>1
    <3>9. InSuffix(s, 0, stack')
      BY <1>1, <3>2, <3>4, <3>8, SuffixStart
    <3>10. U + 2 \in Nat /\ U + 2 >= Decided(s) /\ (U + 2) - Decided(s) = 0 /\ (U + 1) + 1 = U + 2
      BY <1>3
    <3>11. InSigs(s, U + 2, stack') /\ U + 2 > U
      BY <1>1, <3>10, SigsDone
    <3>12. Reached(s, U + 2, stack')
      BY <1>1, <1>4, <3>9, <3>10, <3>11, SigReached
    <3> QED BY <1>8, <3>6, <3>10, <3>12 DEF Onward
  <2> QED BY <2>4, <2>5
<1> QED BY <1>3, <1>7, <1>8

\* The threshold and the keys go onto the signatures.
LEMMA HoldsFirst ==
  ASSUME NEW s \in Spends
  PROVE  JustHolds(s, 0, Append(s.sigs, <<"byte", s.threshold>>))
<1> DEFINE q == s.sigs
           x == <<"byte", s.threshold>>
           st == Append(q, x)
           l == Len(q)
           m == Len(st)
<1>1. IsSeq(q)
  BY SpendShape
<1>2. IsSeq(st) /\ l \in Nat /\ m = l + 1 /\ (\A j \in 1..l : st[j] = q[j]) /\ st[l + 1] = x
  <2> HIDE DEF q, x
  <2> QED BY <1>1, Pushed
<1> HIDE DEF st, l, m
<1>3. m >= l + 1 + 0 /\ m = l + 1 + 0
  BY <1>2
<1>4. Holds(s, 0, st)
  BY <1>2, <1>3 DEF Holds, l, m
<1>5. JustHolds(s, 0, st)
  BY <1>3, <1>4 DEF JustHolds, l, m
<1> QED BY <1>5 DEF st

\* One more key.
LEMMA HoldsKey ==
  ASSUME NEW s \in Spends, NEW i \in Nat, NEW st, JustHolds(s, i, st)
  PROVE  JustHolds(s, i + 1, Append(st, s.keys[i + 1]))
<1> DEFINE q == s.sigs
           l == Len(q)
           x == s.keys[i + 1]
           byte == <<"byte", s.threshold>>
           more == Append(st, x)
           o == Len(st)
           m == Len(more)
<1>1. l \in Nat /\ IsSeq(st) /\ o = l + 1 + i
      /\ (\A j \in 1..l : st[j] = q[j]) /\ st[l + 1] = byte
      /\ \A j \in 1..i : st[l + 1 + j] = s.keys[j]
  BY SpendShape DEF Holds, JustHolds
<1>2. IsSeq(more) /\ m = o + 1 /\ (\A j \in 1..o : more[j] = st[j]) /\ more[o + 1] = x
  <2>1. IsSeq(st)
    BY <1>1
  <2> HIDE DEF x
  <2> QED BY <2>1, Pushed
<1> HIDE DEF more, x, l, q, byte, o, m
<1>3. m = l + 1 + (i + 1) /\ m >= l + 1 + (i + 1) /\ more[l + 1 + (i + 1)] = x
  <2>1. m = l + 1 + (i + 1) /\ o + 1 = l + 1 + (i + 1)
    BY <1>1, <1>2
  <2> QED BY <1>1, <1>2, <2>1
<1>4. (\A j \in 1..l : more[j] = q[j]) /\ more[l + 1] = byte
  <2>1. (\A j \in 1..l : j \in 1..o) /\ l + 1 \in 1..o
    BY <1>1
  <2> QED BY <1>1, <1>2, <2>1
<1>5. ASSUME NEW j \in 1..(i + 1) PROVE more[l + 1 + j] = s.keys[j]
  <2>1. CASE j = i + 1
    BY <1>3, <2>1 DEF x
  <2>2. CASE j # i + 1
    <3>1. j \in 1..i /\ l + 1 + j \in 1..o
      BY <1>1, <2>2
    <3> QED BY <1>1, <1>2, <3>1
  <2> QED BY <2>1, <2>2
<1>6. Holds(s, i + 1, more)
  BY <1>2, <1>3, <1>4, <1>5 DEF Holds, l, q, byte, m
<1>7. JustHolds(s, i + 1, more)
  BY <1>3, <1>6 DEF JustHolds, l, q, m
<1> QED BY <1>7 DEF more, x

\* All the keys, then their number.
LEMMA HoldsAll ==
  ASSUME NEW s \in Spends, NEW st, JustHolds(s, Len(s.keys), st)
  PROVE  Complete(s, Append(st, <<"byte", Len(s.keys)>>))
<1> DEFINE q == s.sigs
           l == Len(q)
           n == Len(s.keys)
           x == <<"byte", n>>
           byte == <<"byte", s.threshold>>
           more == Append(st, x)
           o == Len(st)
           m == Len(more)
<1>1. l \in Nat /\ n \in Nat /\ IsSeq(st) /\ o = l + 1 + n
      /\ (\A j \in 1..l : st[j] = q[j]) /\ st[l + 1] = byte
      /\ \A j \in 1..n : st[l + 1 + j] = s.keys[j]
  BY SpendShape DEF Holds, JustHolds
<1>2. IsSeq(more) /\ m = o + 1 /\ (\A j \in 1..o : more[j] = st[j]) /\ more[o + 1] = x
  <2>1. IsSeq(st)
    BY <1>1
  <2> HIDE DEF x
  <2> QED BY <2>1, Pushed
<1> HIDE DEF more, x, l, n, q, byte, o, m
<1>3. m = l + n + 2 /\ m >= l + 1 + n /\ more[m] = x
  <2>1. m = l + n + 2 /\ m >= l + 1 + n
    BY <1>1, <1>2
  <2> QED BY <1>2, <2>1
<1>4. (\A j \in 1..l : more[j] = q[j]) /\ more[l + 1] = byte
  <2>1. (\A j \in 1..l : j \in 1..o) /\ l + 1 \in 1..o
    BY <1>1
  <2> QED BY <1>1, <1>2, <2>1
<1>5. ASSUME NEW j \in 1..n PROVE more[l + 1 + j] = s.keys[j]
  <2>1. l + 1 + j \in 1..o
    BY <1>1
  <2> QED BY <1>1, <1>2, <2>1
<1>6. Holds(s, n, more)
  BY <1>2, <1>3, <1>4, <1>5 DEF Holds, l, q, byte, m
<1>7. Complete(s, more)
  BY <1>3, <1>6 DEF Complete, l, q, m, n, x
<1> QED BY <1>7 DEF more, x, n

\* The operations before OP_CHECKMULTISIG.
LEMMA MultiPushes ==
  ASSUME ScriptInv, ScriptNext, verdict = "running", ops # <<>>, opCount < MaxOps,
         ~spend.single, opCount >= Unlocked(spend), opCount + 1 < Decided(spend)
  PROVE  Onward
<1> DEFINE s == spend
           q == s.sigs
           n == Len(s.keys)
           U == Unlocked(s)
           k == opCount
           byte == <<"byte", s.threshold>>
           count == <<"byte", n>>
<1>1. /\ s \in Spends /\ k \in Nat /\ Head(ops) = ScriptOf(s)[k + 1]
      /\ Passed(s, k) /\ InSigs(s, k, stack)
      /\ MaxStackItems \in Nat
  BY AtStep DEF Reached
<1>2. IsSeq(q) /\ Len(q) \in Nat /\ n \in Nat
  BY <1>1, SpendShape
<1>3. /\ U \in Nat /\ SigLen(s) = n + 3 /\ Decided(s) = U + (n + 3)
      /\ k >= U /\ k + 1 < U + (n + 3)
  BY <1>1, ScriptParts DEF SigLen, Decided
<1>4. Cleared(s) /\ Len(q) + 1 <= MaxStackItems
  BY <1>1, ClearedIs
<1>5. \A i \in 1..(n + 3) : ScriptOf(s)[U + i] = SignatureOps(s)[i]
  <2>1. \A i \in 1..SigLen(s) : ScriptOf(s)[U + i] = SignatureOps(s)[i]
    BY <1>1, ScriptParts
  <2> HIDE DEF U, n
  <2> QED BY <1>3, <2>1
<1>6. /\ SignatureOps(s)[1] = Push(byte)
      /\ \A i \in 1..n : SignatureOps(s)[1 + i] = Push(s.keys[i])
      /\ SignatureOps(s)[n + 2] = Push(count)
  BY <1>1, MultisigOps
<1>7. ~(Len(q) + n + 2 <= MaxStackItems) => ~Good(s)
  BY <1>1, FitsIs, GoodIs
<1>8. CASE k = U
  <2>1. Head(ops) = Push(byte)
    <3>1. 1 \in 1..(n + 3)
      <4> HIDE DEF n
      <4> QED BY <1>2
    <3> QED BY <1>1, <1>5, <1>6, <1>8, <3>1
  <2>2. Head(ops).name = "PUSH" /\ Head(ops).item = byte
    BY <2>1 DEF Push
  <2>3. OpPush
    BY <1>1, <2>2, Dispatch
  <2>4. stack = q
    BY <1>1, <1>8 DEF InSigs
  <2>5. Len(q) < MaxStackItems
    <3> HIDE DEF q
    <3> QED BY <1>1, <1>2, <1>4
  <2>6. stack' = Append(q, byte) /\ verdict' = "running"
    <3> HIDE DEF q, byte
    <3> QED BY <1>2, <2>2, <2>3, <2>4, <2>5, Pushes
  <2>7. JustHolds(s, 0, stack')
    BY <1>1, <2>6, HoldsFirst
  <2>8. /\ U + 1 # U /\ (U + 1) - U - 1 = 0
        /\ U + 1 # U + n + 2 /\ U + 1 \in Nat /\ U + 1 > U /\ ~(U + 1 >= Decided(s))
        /\ ~(U + 1 >= U + n + 2)
    <3> HIDE DEF U, n, q
    <3> QED BY <1>2, <1>3
  <2>9. InSigs(s, U + 1, stack')
    BY <2>7, <2>8 DEF InSigs
  <2>10. Reached(s, U + 1, stack')
    BY <1>1, <1>4, <2>8, <2>9, SigReached
  <2> QED BY <1>8, <2>6, <2>10 DEF Onward
<1>9. CASE k # U
  <2> DEFINE i == k - U - 1
             x == IF i < n THEN s.keys[i + 1] ELSE count
  <2>1. i \in Nat /\ i <= n /\ k = U + 1 + i /\ k \in (U + 1)..(U + 1 + n)
    <3> HIDE DEF U, n, q
    <3> QED BY <1>1, <1>2, <1>3, <1>9
  <2>2. JustHolds(s, i, stack) /\ IsSeq(stack) /\ Len(stack) = Len(q) + 1 + i
    <3>1. JustHolds(s, i, stack)
      BY <1>1, <2>1 DEF InSigs
    <3> HIDE DEF i
    <3> QED BY <3>1 DEF JustHolds, Holds
  <2>3. Head(ops) = Push(x)
    <3>1. CASE i < n
      <4>1. i + 1 \in 1..n /\ 1 + (i + 1) \in 1..(n + 3) /\ U + (1 + (i + 1)) = k + 1
        <5> HIDE DEF U, n, i
        <5> QED BY <1>2, <1>3, <2>1, <3>1
      <4> HIDE DEF i, U, n
      <4>2. Head(ops) = SignatureOps(s)[1 + (i + 1)]
        BY <1>1, <1>5, <4>1
      <4>3. SignatureOps(s)[1 + (i + 1)] = Push(s.keys[i + 1])
        BY <1>6, <4>1
      <4> QED BY <3>1, <4>2, <4>3
    <3>2. CASE ~(i < n)
      <4>1. n + 2 \in 1..(n + 3) /\ U + (n + 2) = k + 1
        <5> HIDE DEF U, n, i
        <5> QED BY <1>2, <1>3, <2>1, <3>2
      <4>2. Head(ops) = SignatureOps(s)[n + 2]
        <5> HIDE DEF i, U, n
        <5> QED BY <1>1, <1>5, <4>1
      <4> HIDE DEF i
      <4> QED BY <1>6, <3>2, <4>2
    <3> QED BY <3>1, <3>2
  <2> HIDE DEF x, i
  <2>4. Head(ops).name = "PUSH" /\ Head(ops).item = x
    BY <2>3 DEF Push
  <2>5. OpPush
    BY <1>1, <2>4, Dispatch
  <2>6. /\ Len(stack) < MaxStackItems => stack' = Append(stack, x) /\ verdict' = "running"
        /\ ~(Len(stack) < MaxStackItems) => verdict' = "false"
    BY <2>2, <2>4, <2>5, Pushes
  <2>7. CASE ~(Len(stack) < MaxStackItems)
    <3>1. ~(Len(q) + n + 2 <= MaxStackItems)
      <4> HIDE DEF n, q, U
      <4> QED BY <1>1, <1>2, <2>1, <2>2, <2>7
    <3> QED BY <1>7, <2>6, <2>7, <3>1 DEF Onward
  <2>8. CASE Len(stack) < MaxStackItems
    <3>1. stack' = Append(stack, x) /\ verdict' = "running"
      BY <2>6, <2>8
    <3>3. CASE i < n
      <4>1. /\ k + 1 # U /\ (k + 1) - U - 1 = i + 1
            /\ k + 1 # U + n + 2 /\ k + 1 \in Nat /\ k + 1 > U /\ ~(k + 1 >= Decided(s))
            /\ ~(k + 1 >= U + n + 2)
        <5> HIDE DEF U, n, q
        <5> QED BY <1>1, <1>2, <1>3, <2>1, <3>3
      <4>2. stack' = Append(stack, s.keys[i + 1])
        BY <3>1, <3>3 DEF x
      <4>2a. JustHolds(s, i + 1, stack')
        BY <1>1, <2>1, <2>2, <4>2, HoldsKey
      <4>3. InSigs(s, k + 1, stack')
        BY <4>1, <4>2a DEF InSigs
      <4>4. Reached(s, k + 1, stack')
        BY <1>1, <1>4, <4>1, <4>3, SigReached
      <4> QED BY <3>1, <4>4 DEF Onward
    <3>4. CASE ~(i < n)
      <4>1. /\ i = n /\ k + 1 # U /\ k + 1 \notin (U + 1)..(U + 1 + n)
            /\ k + 1 \in Nat /\ k + 1 > U /\ ~(k + 1 >= Decided(s))
        <5> HIDE DEF U, n, q
        <5> QED BY <1>1, <1>2, <1>3, <2>1, <3>4
      <4>2. stack' = Append(stack, <<"byte", Len(s.keys)>>) /\ JustHolds(s, Len(s.keys), stack)
        BY <2>2, <3>1, <3>4, <4>1 DEF x
      <4>2a. Complete(s, stack')
        BY <1>1, <4>2, HoldsAll
      <4>3. InSigs(s, k + 1, stack')
        BY <4>1, <4>2a DEF InSigs
      <4>4. Len(q) + n + 2 <= MaxStackItems
        <5>1. Len(stack) = Len(q) + 1 + n
          BY <2>2, <4>1
        <5> HIDE DEF n, q
        <5> QED BY <1>1, <1>2, <2>8, <5>1
      <4>5. Reached(s, k + 1, stack')
        BY <1>1, <1>4, <4>1, <4>3, <4>4, SigReached
      <4> QED BY <3>1, <4>5 DEF Onward
    <3> QED BY <3>3, <3>4
  <2> QED BY <2>7, <2>8
<1> QED BY <1>8, <1>9

\* OP_CHECKMULTISIG finds the keys and the last signatures in their order.
LEMMA ArgsFound ==
  ASSUME NEW s \in Spends, Complete(s, stack)
  PROVE  LET n == Len(s.keys)
             t == s.threshold
             l == Len(s.sigs)
             m == Len(stack)
         IN  /\ IsSeq(stack) /\ stack # <<>> /\ n \in Nat /\ t \in Nat /\ l \in Nat /\ m = l + n + 2
             /\ Top(0) = <<"byte", n>> /\ Top(n + 1) = <<"byte", t>>
             /\ \A i \in 1..n : Top(i) = s.keys[n + 1 - i]
             /\ SubSeq(stack, m - n, m - 1) = s.keys
             /\ l >= t => /\ SubSeq(stack, m - n - t - 1, m - n - 2) = Wanted(s)
                          /\ \A i \in (n + 2)..(n + 1 + t) : Top(i) = Wanted(s)[n + 2 + t - i]
<1> DEFINE n == Len(s.keys)
           t == s.threshold
           l == Len(s.sigs)
           m == Len(stack)
           q == s.sigs
           w == Wanted(s)
           byte == <<"byte", t>>
           count == <<"byte", n>>
<1>1. IsSeq(q) /\ IsSeq(s.keys) /\ n \in Nat /\ t \in Nat /\ l \in Nat
  BY SpendShape
<1>2. /\ IsSeq(stack) /\ m = l + n + 2 /\ stack[m] = count
      /\ (\A j \in 1..l : stack[j] = q[j]) /\ stack[l + 1] = byte
      /\ \A j \in 1..n : stack[l + 1 + j] = s.keys[j]
  BY DEF Complete, Holds
<1>3. IsSeq(w) /\ (Len(w) = t <=> l >= t) /\ (l >= t => \A i \in 1..t : w[i] = q[(l - t) + i])
  <2>1. w = LastOf(q, t)
    BY DEF Wanted
  <2> HIDE DEF q, w
  <2>2. /\ IsSeq(LastOf(q, t)) /\ (Len(LastOf(q, t)) = t <=> Len(q) >= t)
        /\ Len(q) >= t => \A i \in 1..t : LastOf(q, t)[i] = q[(Len(q) - t) + i]
    BY <1>1, LastIs
  <2>3. l = Len(q)
    BY DEF q
  <2> HIDE DEF l, t
  <2> QED BY <2>1, <2>2, <2>3
<1>4. stack # <<>>
  <2>1. m # 0
    <3> HIDE DEF m, l, n
    <3> QED BY <1>1, <1>2
  <2> QED BY <2>1
<1>4a. \A i : Top(i) = stack[m - i]
  BY DEF Top
<1>4b. IsSeq(s.keys) /\ Len(s.keys) = n
  BY <1>1
<1> HIDE DEF n, t, l, m, q, w
<1>5. Top(0) = count
  <2>1. m - 0 = m
    BY <1>1, <1>2
  <2> QED BY <1>2, <1>4a, <2>1
<1>6. Top(n + 1) = byte
  <2>1. m - (n + 1) = l + 1
    BY <1>1, <1>2
  <2> QED BY <1>2, <1>4a, <2>1
<1>7. \A i \in 1..n : Top(i) = s.keys[n + 1 - i]
  <2> TAKE i \in 1..n
  <2>1. n + 1 - i \in 1..n /\ m - i = l + 1 + (n + 1 - i)
    BY <1>1, <1>2
  <2> QED BY <1>2, <1>4a, <2>1
<1>8. SubSeq(stack, m - n, m - 1) = s.keys
  <2>1. l + 1 \in Nat /\ (l + 1) + 1 = m - n /\ (l + 1) + n = m - 1
    BY <1>1, <1>2
  <2>2. \A j \in 1..Len(s.keys) : stack[(l + 1) + j] = s.keys[j]
    BY <1>2, <1>4b
  <2> DEFINE a == l + 1
             keys == s.keys
  <2>3. SubSeq(stack, a + 1, a + Len(keys)) = keys
    <3>1. a \in Nat /\ IsSeq(keys) /\ \A j \in 1..Len(keys) : stack[a + j] = keys[j]
      BY <1>4b, <2>1, <2>2
    <3> HIDE DEF a, keys
    <3> QED BY <3>1, Slice
  <2> QED BY <1>4b, <2>1, <2>3
<1>9. ASSUME l >= t PROVE SubSeq(stack, m - n - t - 1, m - n - 2) = w
  <2>0. Len(w) = t
    BY <1>3, <1>9
  <2>1. l - t \in Nat /\ (l - t) + 1 = m - n - t - 1 /\ (l - t) + t = m - n - 2 /\ Len(w) = t
    <3>1. l - t \in Nat /\ (l - t) + 1 = m - n - t - 1 /\ (l - t) + t = m - n - 2
      BY <1>1, <1>2, <1>9
    <3> QED BY <2>0, <3>1
  <2>2. \A j \in 1..Len(w) : stack[(l - t) + j] = w[j]
    <3> TAKE j \in 1..Len(w)
    <3>1. j \in 1..t /\ (l - t) + j \in 1..l
      BY <1>1, <1>9, <2>1
    <3> QED BY <1>2, <1>3, <1>9, <3>1
  <2> DEFINE a == l - t
  <2>3. SubSeq(stack, a + 1, a + Len(w)) = w
    <3>1. a \in Nat /\ IsSeq(w) /\ \A j \in 1..Len(w) : stack[a + j] = w[j]
      BY <1>3, <2>1, <2>2
    <3> HIDE DEF a
    <3> QED BY <3>1, Slice
  <2> QED BY <2>1, <2>3
<1>10. ASSUME l >= t, NEW i \in (n + 2)..(n + 1 + t) PROVE Top(i) = w[n + 2 + t - i]
  <2>1. n + 2 + t - i \in 1..t /\ m - i = (l - t) + (n + 2 + t - i) /\ m - i \in 1..l
    BY <1>1, <1>2, <1>10
  <2> QED BY <1>2, <1>3, <1>10, <1>4a, <2>1
<1> QED BY <1>1, <1>2, <1>4, <1>5, <1>6, <1>7, <1>8, <1>9, <1>10 DEF n, t, l, m, w

\* Its checks are the policy's on the keys, the threshold and the kind of the items.
LEMMA ReadyIs ==
  ASSUME NEW s \in Spends, Complete(s, stack)
  PROVE  MultisigReady <=> /\ ValidMultisig(s) /\ Len(s.sigs) >= s.threshold
                           /\ \A j \in 1..s.threshold : IsSig(Wanted(s)[j])
<1> DEFINE n == Len(s.keys)
           t == s.threshold
           l == Len(s.sigs)
           m == Len(stack)
           w == Wanted(s)
<1>1. /\ stack # <<>> /\ n \in Nat /\ t \in Nat /\ l \in Nat /\ m = l + n + 2
      /\ Top(0) = <<"byte", n>> /\ Top(n + 1) = <<"byte", t>>
      /\ \A i \in 1..n : Top(i) = s.keys[n + 1 - i]
      /\ SubSeq(stack, m - n, m - 1) = s.keys
      /\ l >= t => \A i \in (n + 2)..(n + 1 + t) : Top(i) = w[n + 2 + t - i]
  BY ArgsFound
<1>2. Top(0)[1] = "byte" /\ Top(0)[2] = n /\ Top(n + 1)[1] = "byte" /\ Top(n + 1)[2] = t
  BY <1>1
<1>3. ValidMultisig(s) <=> n \in 1..MaxKeys /\ t \in 1..n /\ (\A i \in 1..n : Is32(s.keys[i])) /\ Distinct(s.keys)
  BY DEF ValidMultisig
<1>4. MultisigReady <=>
        /\ n \in 1..MaxKeys /\ m >= n + 2 /\ (\A i \in 1..n : Is32(Top(i)))
        /\ Distinct(SubSeq(stack, m - n, m - 1)) /\ t \in 1..n /\ m >= n + 2 + t
        /\ \A i \in (n + 2)..(n + 1 + t) : IsSig(Top(i))
  <2> HIDE DEF n, t
  <2> QED BY <1>1, <1>2 DEF MultisigReady
<1> HIDE DEF n, t, l, m, w
<1>5. m >= n + 2 /\ (m >= n + 2 + t <=> l >= t)
  BY <1>1
<1>6. (\A i \in 1..n : Is32(Top(i))) <=> \A i \in 1..n : Is32(s.keys[i])
  <2>1. ASSUME \A i \in 1..n : Is32(Top(i)), NEW i \in 1..n PROVE Is32(s.keys[i])
    <3>1. n + 1 - i \in 1..n /\ n + 1 - (n + 1 - i) = i
      BY <1>1
    <3>2. Top(n + 1 - i) = s.keys[n + 1 - (n + 1 - i)]
      BY <1>1, <3>1
    <3> QED BY <2>1, <3>1, <3>2
  <2>2. ASSUME \A i \in 1..n : Is32(s.keys[i]), NEW i \in 1..n PROVE Is32(Top(i))
    <3>1. n + 1 - i \in 1..n
      BY <1>1
    <3> QED BY <1>1, <2>2, <3>1
  <2> QED BY <2>1, <2>2
<1>7. l >= t => ((\A i \in (n + 2)..(n + 1 + t) : IsSig(Top(i))) <=> \A j \in 1..t : IsSig(w[j]))
  <2> HAVE l >= t
  <2>1. ASSUME \A i \in (n + 2)..(n + 1 + t) : IsSig(Top(i)), NEW j \in 1..t PROVE IsSig(w[j])
    <3>1. n + 2 + t - j \in (n + 2)..(n + 1 + t) /\ n + 2 + t - (n + 2 + t - j) = j
      BY <1>1
    <3>2. Top(n + 2 + t - j) = w[n + 2 + t - (n + 2 + t - j)]
      BY <1>1, <3>1
    <3> QED BY <2>1, <3>1, <3>2
  <2>2. ASSUME \A j \in 1..t : IsSig(w[j]), NEW i \in (n + 2)..(n + 1 + t) PROVE IsSig(Top(i))
    <3>1. n + 2 + t - i \in 1..t
      BY <1>1
    <3> QED BY <1>1, <2>2, <3>1
  <2> QED BY <2>1, <2>2
<1>8. MultisigReady <=> ValidMultisig(s) /\ l >= t /\ \A j \in 1..t : IsSig(w[j])
  BY <1>1, <1>3, <1>4, <1>5, <1>6, <1>7
<1> QED BY <1>8 DEF l, t, w

\* OP_CHECKMULTISIG leaves what lies below its arguments, and its verdict on them.
LEMMA MultisigDecides ==
  ASSUME NEW s \in Spends, Complete(s, stack), spend = s, OpCheckMultisig,
         Len(s.sigs) + Len(s.keys) + 2 <= MaxStackItems
  PROVE  \/ verdict' = "false" /\ ~SigsOk(s)
         \/ /\ verdict' = verdict
            /\ \E rest : IsSeq(rest) /\ Len(rest) + 2 <= MaxStackItems /\ stack' = Append(rest, Bool(SigsOk(s)))
<1> DEFINE n == Len(s.keys)
           t == s.threshold
           l == Len(s.sigs)
           m == Len(stack)
           w == Wanted(s)
           message == s.ctx.message
<1>1. /\ IsSeq(stack) /\ n \in Nat /\ t \in Nat /\ l \in Nat /\ m = l + n + 2
      /\ Top(0) = <<"byte", n>> /\ Top(n + 1) = <<"byte", t>>
      /\ SubSeq(stack, m - n, m - 1) = s.keys
      /\ l >= t => SubSeq(stack, m - n - t - 1, m - n - 2) = w
  BY ArgsFound
<1>2. MultisigReady <=> ValidMultisig(s) /\ l >= t /\ \A j \in 1..t : IsSig(w[j])
  BY ReadyIs
<1>3. IsSeq(w) /\ (Len(w) = t <=> l >= t)
  <2> DEFINE q == s.sigs
  <2>1. IsSeq(q) /\ t \in Nat /\ w = LastOf(q, t) /\ l = Len(q)
    BY SpendShape DEF Wanted
  <2> HIDE DEF q, t, w, l
  <2>2. IsSeq(LastOf(q, t)) /\ (Len(LastOf(q, t)) = t <=> Len(q) >= t)
    BY <2>1, LastIs
  <2> QED BY <2>1, <2>2
<1>4. MaxStackItems \in Nat
  BY ScriptBounds
<1>5. CASE ~MultisigReady
  <2>1. verdict' = "false"
    BY <1>5 DEF OpCheckMultisig, Fail
  <2>2. SigsOk(s) => MultisigReady
    <3>1. Signed(w, s.keys, message) => \A j \in 1..Len(w) : IsSig(w[j])
      BY DEF Signed, Verifies
    <3> HIDE DEF w, l, message
    <3> QED BY <1>2, <1>3, <3>1 DEF SigsOk, w, l, message
  <2> QED BY <1>5, <2>1, <2>2
<1>6. CASE MultisigReady
  <2>1. ValidMultisig(s) /\ l >= t /\ Len(w) = t
    BY <1>2, <1>3, <1>6
  <2>2. t >= 1
    BY <2>1 DEF ValidMultisig
  <2>3. /\ MultisigArgs.keys = s.keys /\ MultisigArgs.sigs = w
        /\ MultisigArgs.used = n + t + 2
    <3>1. Top(0)[2] = n /\ Top(n + 1)[2] = t
      BY <1>1
    <3>2. MultisigArgs = [keys |-> SubSeq(stack, m - n, m - 1),
                          sigs |-> SubSeq(stack, m - n - t - 1, m - n - 2), used |-> n + t + 2]
      <4> HIDE DEF n, t
      <4> QED BY <3>1 DEF MultisigArgs
    <3>3. MultisigArgs = [keys |-> s.keys, sigs |-> w, used |-> n + t + 2]
      <4> HIDE DEF n, t, m, w
      <4> QED BY <1>1, <2>1, <3>2
    <3> QED BY <3>3
  <2> DEFINE verdicts == OrderedMultisig(w, s.keys, message)
             used == n + t + 2
             rest == SubSeq(stack, 1, m - used)
  <2>4. verdicts <=> SigsOk(s)
    <3>1. Len(w) \in Nat /\ Len(s.keys) \in Nat
      BY <1>1, <2>1
    <3>2. verdicts <=> Signed(w, s.keys, message)
      <4> HIDE DEF w, message
      <4> QED BY <3>1, GreedyMatches
    <3> QED BY <2>1, <3>2 DEF SigsOk
  <2>5. Bool(verdicts) = Bool(SigsOk(s))
    BY <2>4 DEF Bool
  <2>6. ~(m < used) /\ ~(m - used >= MaxStackItems) /\ m - used = l - t
        /\ (l - t) + 2 <= MaxStackItems /\ l - t \in Nat /\ l - t <= m
    <3>1. l + n + 2 <= MaxStackItems
      OBVIOUS
    <3> HIDE DEF n, t, l, m
    <3> QED BY <1>1, <1>4, <2>1, <2>2, <3>1
  <2>7. PopPush(used, TRUE, Bool(verdicts))
    <3>1. PopPush(MultisigArgs.used, TRUE,
                  Bool(OrderedMultisig(MultisigArgs.sigs, MultisigArgs.keys, spend.ctx.message)))
      BY <1>6 DEF OpCheckMultisig
    <3> QED BY <2>3, <3>1
  <2>8. stack' = Append(rest, Bool(verdicts)) /\ verdict' = verdict
    <3> HIDE DEF verdicts, used
    <3> QED BY <2>6, <2>7 DEF PopPush, Below
  <2>9. IsSeq(rest) /\ Len(rest) = l - t
    <3> DEFINE a == l - t
               u == SubSeq(stack, 1, a)
    <3>1. rest = u
      BY <2>6
    <3>2. \A i \in 1..a : stack[i] \in Range(stack)
      <4> TAKE i \in 1..a
      <4>1. i \in 1..m
        <5> HIDE DEF l, t, m
        <5> QED BY <1>1, <2>6
      <4> QED BY <1>1, <4>1, ElementOfSeq DEF IsSeq
    <3>3. u \in Seq(Range(stack)) /\ Len(u) = IF 1 <= a THEN a - 1 + 1 ELSE 0
      <4>1. a \in Int /\ 1 \in Int
        BY <2>6
      <4> HIDE DEF a
      <4> QED BY <3>2, <4>1, SubSeqProperties
    <3>4. IsSeq(u)
      <4> HIDE DEF u
      <4> QED BY <3>3, SeqOwn
    <3>5. Len(u) = a
      <4>1. a \in Nat
        BY <2>6
      <4> HIDE DEF a, u
      <4> QED BY <3>3, <4>1
    <3> HIDE DEF rest, u
    <3> QED BY <3>1, <3>4, <3>5
  <2>10. Len(rest) + 2 <= MaxStackItems
    <3> HIDE DEF rest, l, t
    <3> QED BY <2>6, <2>9
  <2>11. stack' = Append(rest, Bool(SigsOk(s)))
    <3> HIDE DEF verdicts, rest
    <3> QED BY <2>5, <2>8
  <2> HIDE DEF rest
  <2> QED BY <2>8, <2>9, <2>10, <2>11
<1> QED BY <1>5, <1>6

\* OP_CHECKMULTISIG leads on to the suffix, or the spend is no good one.
LEMMA MultiCheck ==
  ASSUME ScriptInv, ScriptNext, verdict = "running", ops # <<>>, opCount < MaxOps,
         ~spend.single, opCount + 1 = Decided(spend)
  PROVE  Onward
<1> DEFINE s == spend
           n == Len(s.keys)
           U == Unlocked(s)
           k == opCount
<1>1. /\ s \in Spends /\ k \in Nat /\ Head(ops) = ScriptOf(s)[k + 1]
      /\ Passed(s, k) /\ InSigs(s, k, stack)
  BY AtStep DEF Reached
<1>2. n \in Nat /\ U \in Nat /\ SigLen(s) = n + 3 /\ Decided(s) = U + (n + 3)
  BY <1>1, ScriptParts, SpendShape DEF SigLen, Decided
<1>3. k = U + n + 2 /\ k >= U /\ n + 3 \in 1..(n + 3) /\ k + 1 = U + (n + 3) /\ k + 1 \in Nat
      /\ k + 1 >= Decided(s) /\ (k + 1) - Decided(s) = 0
  <2>1. k + 1 = Decided(s)
    OBVIOUS
  <2> HIDE DEF n, U
  <2> QED BY <1>1, <1>2, <2>1
<1>4. Complete(s, stack)
  BY <1>1, <1>3 DEF InSigs
<1>5. Cleared(s) /\ Len(s.sigs) + Len(s.keys) + 2 <= MaxStackItems
  <2>1. Cleared(s)
    BY <1>1, <1>3, ClearedIs
  <2>2. k >= U + n + 2
    <3> HIDE DEF n, U
    <3> QED BY <1>1, <1>3
  <2> QED BY <1>1, <2>1, <2>2 DEF Passed
<1>6. OpCheckMultisig
  <2>1. ScriptOf(s)[U + (n + 3)] = SignatureOps(s)[n + 3]
    <3>1. \A i \in 1..SigLen(s) : ScriptOf(s)[U + i] = SignatureOps(s)[i]
      BY <1>1, ScriptParts
    <3> HIDE DEF U, n
    <3> QED BY <1>2, <1>3, <3>1
  <2>2. SignatureOps(s)[n + 3] = Op("CHECKMULTISIG")
    BY <1>1, MultisigOps
  <2>3. Head(ops).name = "CHECKMULTISIG"
    BY <1>1, <1>3, <2>1, <2>2 DEF Op
  <2> QED BY <1>1, <2>3, Dispatch
<1>7. \/ verdict' = "false" /\ ~SigsOk(s)
      \/ /\ verdict' = verdict
         /\ \E rest : IsSeq(rest) /\ Len(rest) + 2 <= MaxStackItems /\ stack' = Append(rest, Bool(SigsOk(s)))
  BY <1>1, <1>4, <1>5, <1>6, MultisigDecides
<1>8. CASE verdict' = "false" /\ ~SigsOk(s)
  <2>1. ~Good(s)
    BY <1>1, <1>8, GoodIs
  <2> QED BY <1>8, <2>1 DEF Onward
<1>9. ASSUME verdict' = verdict, NEW rest, IsSeq(rest), Len(rest) + 2 <= MaxStackItems,
             stack' = Append(rest, Bool(SigsOk(s)))
      PROVE  Onward
  <2>1. InSuffix(s, 0, stack')
    BY <1>1, <1>9, SuffixStart
  <2>2. InSigs(s, k + 1, stack') /\ k + 1 > U
    BY <1>1, <1>3, SigsDone
  <2>3. Reached(s, k + 1, stack')
    BY <1>1, <1>3, <1>5, <2>1, <2>2, SigReached
  <2> QED BY <1>9, <2>3 DEF Onward
<1> QED BY <1>7, <1>8, <1>9

\* The operations after the verdict on the signatures.
LEMMA SuffixStep ==
  ASSUME ScriptInv, ScriptNext, verdict = "running", ops # <<>>, opCount < MaxOps,
         opCount >= Decided(spend)
  PROVE  \/ verdict' = "running" /\ InSuffix(spend, (opCount + 1) - Decided(spend), stack')
         \/ verdict' = "false" /\ ~Good(spend)
<1> DEFINE s == spend
           k == opCount
           D == Decided(s)
           j == k - D
           x == s.suffix
           ok == SigsOk(s)
           B == Bool(ok)
<1>1. /\ s \in Spends /\ k \in Nat /\ k + 1 <= Len(ScriptOf(s)) /\ Head(ops) = ScriptOf(s)[k + 1]
      /\ InSuffix(s, j, stack) /\ MaxStackItems \in Nat
  BY AtStep DEF Reached
<1>2. Len(ScriptOf(s)) = D + Len(x) /\ D \in Nat /\ Len(x) \in Nat
  BY <1>1, ScriptParts, SpendShape
<1>3. j \in Nat /\ j + 1 \in 1..Len(x) /\ (k + 1) - D = j + 1 /\ D + (j + 1) = k + 1
  <2>1. k >= D
    OBVIOUS
  <2> HIDE DEF D, x
  <2> QED BY <1>1, <1>2, <2>1
<1>4. Head(ops) = x[j + 1]
  <2>1. \A i \in 1..Len(x) : ScriptOf(s)[D + i] = x[i]
    BY <1>1, ScriptParts
  <2> HIDE DEF D, x, j
  <2> QED BY <1>1, <1>3, <2>1
<1>5. ok \in BOOLEAN /\ (~ok => ~Good(s)) /\ (~Harmless(x) => ~Good(s)) /\ (~Harmless(x) => Spoils(x))
  <2>1. ok \in BOOLEAN
    BY DEF SigsOk
  <2>2. (~ok => ~Good(s)) /\ (~Harmless(x) => ~Good(s))
    BY <1>1, GoodIs
  <2>3. ~Harmless(x) => Spoils(x)
    BY <1>1, SpendsAssumption
  <2> QED BY <2>1, <2>2, <2>3
<1>6. PICK rest :
        /\ IsSeq(rest) /\ Len(rest) + 2 <= MaxStackItems
        /\ j = 0 => stack = Append(rest, B)
        /\ Harmless(x) => /\ stack = IF j % 2 = 0 THEN Append(rest, B) ELSE Append(Append(rest, B), B)
                          /\ j >= 2 => ok
        /\ ~Harmless(x) /\ j >= 1 =>
             \/ x[1].name = "PUSH" /\ j = 1 /\ stack = Append(Append(rest, B), x[1].item)
             \/ x[1].name = "DUP" /\ IsSeq(stack) /\ j < Len(stack) /\ Len(stack) <= MaxStackItems
  <2> HIDE DEF j
  <2> QED BY <1>1 DEF InSuffix
<1>7. InSuffix(s, j + 1, stack') <=>
        \E r :
          /\ IsSeq(r) /\ Len(r) + 2 <= MaxStackItems
          /\ j + 1 = 0 => stack' = Append(r, B)
          /\ Harmless(x) => /\ stack' = IF (j + 1) % 2 = 0 THEN Append(r, B) ELSE Append(Append(r, B), B)
                            /\ j + 1 >= 2 => ok
          /\ ~Harmless(x) /\ j + 1 >= 1 =>
               \/ x[1].name = "PUSH" /\ j + 1 = 1 /\ stack' = Append(Append(r, B), x[1].item)
               \/ x[1].name = "DUP" /\ IsSeq(stack') /\ j + 1 < Len(stack') /\ Len(stack') <= MaxStackItems
  <2> HIDE DEF j
  <2> QED BY DEF InSuffix
<1> DEFINE a == Append(rest, B)
<1>7a. (opCount + 1) - Decided(spend) = j + 1
  BY <1>3
<1>8. IsSeq(a) /\ Len(a) = Len(rest) + 1 /\ Len(rest) \in Nat /\ Len(a) < MaxStackItems
  <2>1. IsSeq(a) /\ Len(a) = Len(rest) + 1 /\ Len(rest) \in Nat
    <3> HIDE DEF B
    <3> QED BY <1>6, Pushed
  <2> HIDE DEF a
  <2> QED BY <1>1, <1>6, <2>1
<1> HIDE DEF ok, x, j, D
<1>9. CASE Harmless(x)
  <2>1. x[j + 1].name = IF (j + 1) % 2 = 1 THEN "DUP" ELSE "VERIFY"
    BY <1>3, <1>9 DEF Harmless
  <2>2. j + 1 # 0
    BY <1>3
  <2>3. CASE j % 2 = 0
    <3>1. (j + 1) % 2 = 1 /\ (j + 1) % 2 # 0 /\ (j + 1 >= 2 => j >= 2)
      BY <1>3, <2>3
    <3>2. OpDup /\ stack = a
      <4>1. Head(ops).name = "DUP"
        BY <1>4, <2>1, <3>1
      <4>2. OpDup
        BY <1>1, <4>1, Dispatch
      <4> QED BY <1>6, <1>9, <2>3, <4>2
    <3>3. stack' = Append(a, B) /\ verdict' = "running"
      <4>1. stack = Append(rest, B)
        BY <3>2
      <4>2. Len(stack) < MaxStackItems
        BY <1>8, <3>2
      <4>3. stack' = Append(stack, B) /\ verdict' = verdict
        <5> HIDE DEF a, B
        <5> QED BY <1>6, <3>2, <4>1, <4>2, Duplicates
      <4> QED BY <3>2, <4>3
    <3>4. InSuffix(s, j + 1, stack')
      <4>1. stack' = IF (j + 1) % 2 = 0 THEN Append(rest, B) ELSE Append(Append(rest, B), B)
        BY <3>1, <3>3
      <4>2. j + 1 >= 2 => ok
        BY <1>6, <1>9, <3>1
      <4> HIDE DEF B
      <4> QED BY <1>6, <1>7, <1>9, <2>2, <4>1, <4>2
    <3> QED BY <1>7a, <3>3, <3>4
  <2>4. CASE j % 2 # 0
    <3>1. (j + 1) % 2 # 1 /\ (j + 1) % 2 = 0
      BY <1>3, <2>4
    <3>2. OpVerify /\ stack = Append(a, B)
      <4>1. Head(ops).name = "VERIFY"
        BY <1>4, <2>1, <3>1
      <4>2. OpVerify
        BY <1>1, <4>1, Dispatch
      <4> QED BY <1>6, <1>9, <2>4, <4>2
    <3>3. (ok => stack' = a /\ verdict' = "running") /\ (~ok => verdict' = "false")
      <4> HIDE DEF a
      <4> QED BY <1>5, <1>8, <3>2, VerifyTop
    <3>4. CASE ok
      <4>1. stack' = IF (j + 1) % 2 = 0 THEN Append(rest, B) ELSE Append(Append(rest, B), B)
        BY <3>1, <3>3, <3>4
      <4>2. InSuffix(s, j + 1, stack')
        <5> HIDE DEF B
        <5> QED BY <1>6, <1>7, <1>9, <2>2, <3>4, <4>1
      <4> QED BY <1>7a, <3>3, <3>4, <4>2
    <3> QED BY <1>5, <3>3, <3>4
  <2> QED BY <2>3, <2>4
<1>10. CASE ~Harmless(x) /\ j = 0
  <2>1. stack = a /\ Head(ops) = x[1] /\ j + 1 = 1 /\ j + 1 # 0
    BY <1>4, <1>6, <1>10
  <2>2. CASE x[1].name = "UNKNOWN"
    <3>1. OpUnknown
      BY <1>1, <2>1, <2>2, Dispatch
    <3>2. verdict' = "false"
      BY <3>1 DEF OpUnknown, Fail
    <3> QED BY <1>5, <1>10, <3>2
  <2>3. CASE x[1].name = "PUSH"
    <3>1. OpPush
      BY <1>1, <2>1, <2>3, Dispatch
    <3> DEFINE item == x[1].item
    <3>2. Head(ops).item = item
      BY <2>1
    <3>3. stack' = Append(a, item) /\ verdict' = "running"
      <4> HIDE DEF a, item
      <4> QED BY <1>8, <2>1, <3>1, <3>2, Pushes
    <3>4. InSuffix(s, j + 1, stack')
      <4> HIDE DEF B
      <4> QED BY <1>6, <1>7, <1>10, <2>1, <2>3, <3>3
    <3> QED BY <1>7a, <3>3, <3>4
  <2>4. CASE x[1].name = "DUP"
    <3>1. OpDup
      BY <1>1, <2>1, <2>4, Dispatch
    <3>2. stack' = Append(a, B) /\ verdict' = "running"
      <4>1. stack = Append(rest, B)
        BY <2>1
      <4>2. Len(stack) < MaxStackItems
        BY <1>8, <2>1
      <4>3. stack' = Append(stack, B) /\ verdict' = verdict
        <5> HIDE DEF a, B
        <5> QED BY <1>6, <3>1, <4>1, <4>2, Duplicates
      <4> QED BY <2>1, <4>3
    <3>3. IsSeq(stack') /\ Len(stack') = Len(a) + 1
      <4> HIDE DEF a, B
      <4> QED BY <1>8, <3>2, Pushed
    <3>4. j + 1 < Len(stack') /\ Len(stack') <= MaxStackItems
      <4> DEFINE n == Len(stack')
                 o == Len(a)
                 r == Len(rest)
      <4>1. n = o + 1 /\ o = r + 1 /\ r \in Nat /\ o < MaxStackItems
        BY <1>8, <3>3
      <4>2. 1 < n /\ n <= MaxStackItems
        <5> HIDE DEF n, o, r
        <5> QED BY <1>1, <4>1
      <4> QED BY <2>1, <4>2
    <3>5. InSuffix(s, j + 1, stack')
      <4> HIDE DEF B
      <4> QED BY <1>6, <1>7, <1>10, <2>1, <2>4, <3>3, <3>4
    <3> QED BY <1>7a, <3>2, <3>5
  <2>5. x[1].name \in {"UNKNOWN", "PUSH", "DUP"}
    <3>1. Spoils(x) /\ 1 \in 1..Len(x)
      BY <1>3, <1>5, <1>10
    <3> QED BY <3>1 DEF Spoils
  <2> QED BY <2>2, <2>3, <2>4, <2>5
<1>11. CASE ~Harmless(x) /\ j # 0
  <2>1. j >= 1 /\ Spoils(x) /\ Len(x) > 1 /\ j + 1 # 0 /\ ~(j + 1 = 1) /\ j + 1 >= 1
    BY <1>2, <1>3, <1>5, <1>11
  <2>2. CASE x[1].name = "PUSH" /\ j = 1 /\ stack = Append(Append(rest, B), x[1].item)
    <3>1. x[1].item # True /\ x[2].name = "VERIFY"
      <4>1. 1 \in 1..Len(x)
        BY <1>2, <2>1
      <4> QED BY <2>1, <2>2, <4>1 DEF Spoils
    <3>2. OpVerify
      <4>1. Head(ops) = x[2]
        BY <1>4, <2>2
      <4> QED BY <1>1, <3>1, <4>1, Dispatch
    <3> DEFINE item == x[1].item
    <3>3. Top(0) = item
      <4>1. stack = Append(a, item)
        BY <2>2
      <4> HIDE DEF a, item
      <4> QED BY <1>8, <4>1, TopIs
    <3>4. verdict' = "false"
      BY <3>1, <3>2, <3>3 DEF OpVerify, Fail
    <3> QED BY <1>5, <1>11, <3>4
  <2>3. CASE x[1].name = "DUP" /\ IsSeq(stack) /\ j < Len(stack) /\ Len(stack) <= MaxStackItems
    <3>1. x[j + 1].name = "DUP"
      <4>1. 1 \in 1..Len(x)
        BY <1>2, <2>1
      <4>2. \A i \in 1..Len(x) : x[i].name = "DUP"
        BY <2>1, <2>3, <4>1 DEF Spoils
      <4> QED BY <1>3, <4>2
    <3>2. OpDup
      BY <1>1, <1>4, <3>1, Dispatch
    <3>3. \E r, y : IsSeq(r) /\ stack = Append(r, y)
      <4>1. stack \in Seq(Range(stack)) /\ stack # <<>>
        BY <1>3, <2>3 DEF IsSeq
      <4>2. \E r \in Seq(Range(stack)), y \in Range(stack) : stack = Append(r, y)
        BY <4>1, SequenceEmptyOrAppend
      <4> QED BY <4>2, SeqOwn
    <3>4. PICK r, y : IsSeq(r) /\ stack = Append(r, y)
      BY <3>3
    <3>5. /\ Len(stack) < MaxStackItems => stack' = Append(stack, y) /\ verdict' = "running"
          /\ ~(Len(stack) < MaxStackItems) => verdict' = "false"
      BY <3>2, <3>4, Duplicates
    <3>6. CASE Len(stack) < MaxStackItems
      <4>1. stack' = Append(stack, y) /\ verdict' = "running"
        BY <3>5, <3>6
      <4> DEFINE st == stack
                 b == Append(st, y)
      <4>2. IsSeq(b) /\ Len(b) = Len(st) + 1 /\ Len(st) \in Nat
        <5>1. IsSeq(st)
          BY <2>3
        <5> HIDE DEF st
        <5> QED BY <5>1, Pushed
      <4>3. stack' = b
        BY <4>1
      <4>4. j < Len(st) /\ Len(st) < MaxStackItems
        BY <2>3, <3>6
      <4> HIDE DEF st, b
      <4>5. j + 1 < Len(b) /\ Len(b) <= MaxStackItems
        BY <1>1, <1>3, <4>2, <4>4
      <4>6. InSuffix(s, j + 1, stack')
        <5>1. IsSeq(stack') /\ j + 1 < Len(stack') /\ Len(stack') <= MaxStackItems
          BY <4>2, <4>3, <4>5
        <5> HIDE DEF B
        <5> QED BY <1>6, <1>7, <1>11, <2>1, <2>3, <5>1
      <4> QED BY <1>7a, <4>1, <4>6
    <3>7. CASE ~(Len(stack) < MaxStackItems)
      BY <1>5, <1>11, <3>5, <3>7
    <3> QED BY <3>6, <3>7
  <2> QED BY <1>6, <1>11, <2>1, <2>2, <2>3
<1> QED BY <1>9, <1>10, <1>11

\* Every operation of the suffix leads on, or the spend is no good one.
LEMMA SuffixPhase ==
  ASSUME ScriptInv, ScriptNext, verdict = "running", ops # <<>>, opCount < MaxOps,
         opCount >= Decided(spend)
  PROVE  Onward
<1> DEFINE s == spend
           k == opCount
<1>1. s \in Spends /\ k \in Nat /\ Passed(s, k)
  BY AtStep DEF Reached
<1>2. /\ Unlocked(s) \in Nat /\ Decided(s) \in Nat /\ Decided(s) > Unlocked(s)
      /\ k >= Unlocked(s) /\ k + 1 \in Nat /\ k + 1 >= Decided(s)
  BY <1>1, ScriptParts
<1>3. Cleared(s)
  BY <1>1, <1>2, ClearedIs
<1>4. ~s.single => Len(s.sigs) + Len(s.keys) + 2 <= MaxStackItems
  <2>1. ASSUME ~s.single PROVE k >= Unlocked(s) + Len(s.keys) + 2
    <3>1. Decided(s) = Unlocked(s) + (Len(s.keys) + 3) /\ Len(s.keys) \in Nat
      BY <1>1, <2>1, SpendShape DEF Decided, SigLen
    <3> DEFINE n == Len(s.keys)
               U == Unlocked(s)
    <3>2. k >= U + (n + 3) /\ n \in Nat /\ U \in Nat
      BY <1>2, <3>1
    <3> HIDE DEF n, U
    <3>3. k >= U + n + 2
      BY <1>1, <3>2
    <3> QED BY <3>3 DEF n, U
  <2> QED BY <1>1, <2>1 DEF Passed
<1>5. InSigs(s, k + 1, stack') /\ k + 1 > Unlocked(s)
  BY <1>1, <1>2, SigsDone
<1>6. CASE verdict' = "running" /\ InSuffix(s, (k + 1) - Decided(s), stack')
  <2>1. Reached(s, k + 1, stack')
    BY <1>1, <1>2, <1>3, <1>4, <1>5, <1>6, SigReached
  <2> QED BY <1>6, <2>1 DEF Onward
<1>7. CASE verdict' = "false" /\ ~Good(s)
  BY <1>7 DEF Onward
<1> QED BY <1>6, <1>7, SuffixStep

\* The script has ended: its top item is the policy's verdict.
LEMMA HaltDecides ==
  ASSUME ScriptInv, verdict = "running", ops = <<>>
  PROVE  (stack # <<>> /\ Top(0) = True) <=> Good(spend)
<1> DEFINE s == spend
           k == opCount
           D == Decided(s)
           j == k - D
           x == s.suffix
           ok == SigsOk(s)
           B == Bool(ok)
<1>1. /\ s \in Spends /\ k \in Nat /\ k <= MaxOps /\ Reached(s, k, stack)
      /\ Len(ops) = Len(ScriptOf(s)) - k /\ MaxStackItems \in Nat
  BY ScriptBounds DEF ScriptInv
<1>2. /\ Len(ScriptOf(s)) = D + Len(x) /\ D \in Nat /\ Len(x) \in Nat
      /\ Unlocked(s) \in Nat /\ D > Unlocked(s)
  BY <1>1, ScriptParts, SpendShape
<1>3. k = D + Len(x) /\ k >= D /\ j = Len(x) /\ k >= Unlocked(s) /\ Len(ScriptOf(s)) = k
  <2>1. Len(ops) = 0
    OBVIOUS
  <2> DEFINE m == Len(ScriptOf(s))
             n == Len(x)
  <2>2. m = D + n /\ D \in Nat /\ n \in Nat /\ 0 = m - k
    BY <1>1, <1>2, <2>1
  <2>3. k = D + n /\ k >= D /\ j = n /\ k >= Unlocked(s) /\ m = k
    <3> HIDE DEF m, n, D
    <3> QED BY <1>1, <1>2, <2>2
  <2> QED BY <2>3
<1>4. Passed(s, k) /\ InSuffix(s, j, stack)
  BY <1>1, <1>3 DEF Reached
<1>5. Cleared(s) /\ Len(s.sigs) + 1 <= MaxStackItems
  BY <1>1, <1>3, <1>4, ClearedIs
<1>6. ~s.single => Len(s.sigs) + Len(s.keys) + 2 <= MaxStackItems
  <2>1. ASSUME ~s.single PROVE k >= Unlocked(s) + Len(s.keys) + 2
    <3>1. D = Unlocked(s) + (Len(s.keys) + 3) /\ Len(s.keys) \in Nat
      BY <1>1, <2>1, SpendShape DEF Decided, SigLen
    <3> DEFINE n == Len(s.keys)
               U == Unlocked(s)
    <3>2. k >= U + (n + 3) /\ n \in Nat /\ U \in Nat
      BY <1>2, <1>3, <3>1
    <3> HIDE DEF n, U
    <3>3. k >= U + n + 2
      BY <1>1, <3>2
    <3> QED BY <3>3 DEF n, U
  <2> QED BY <1>4, <2>1 DEF Passed
<1>7. StackFits(s)
  BY <1>5, <1>6 DEF Cleared, StackFits
<1>8. Good(s) <=> ok /\ Harmless(x)
  BY <1>1, <1>3, <1>5, <1>7, GoodIs DEF Cleared
<1>9. (B = True <=> ok) /\ (~Harmless(x) => Spoils(x))
  <2>1. B = True <=> ok
    BY DEF Bool, True, Empty
  <2>2. ~Harmless(x) => Spoils(x)
    BY <1>1, SpendsAssumption
  <2> QED BY <2>1, <2>2
<1>10. PICK rest :
        /\ IsSeq(rest)
        /\ Harmless(x) => stack = IF j % 2 = 0 THEN Append(rest, B) ELSE Append(Append(rest, B), B)
        /\ ~Harmless(x) /\ j >= 1 =>
             \/ x[1].name = "PUSH" /\ j = 1 /\ stack = Append(Append(rest, B), x[1].item)
             \/ x[1].name = "DUP" /\ IsSeq(stack) /\ j < Len(stack) /\ Len(stack) <= MaxStackItems
  <2> HIDE DEF j
  <2> QED BY <1>4 DEF InSuffix
<1> DEFINE a == Append(rest, B)
<1>11. IsSeq(a)
  <2> HIDE DEF B
  <2> QED BY <1>10, Pushed
<1> HIDE DEF j, D
<1>12. CASE Harmless(x)
  <2>1. stack # <<>> /\ Top(0) = B
    <3>1. stack = Append(rest, B) \/ stack = Append(a, B)
      BY <1>10, <1>12
    <3> HIDE DEF a, B
    <3> QED BY <1>10, <1>11, <3>1, TopIs
  <2> HIDE DEF B, ok
  <2> QED BY <1>8, <1>9, <1>12, <2>1
<1>13. CASE ~Harmless(x)
  <2>1. Spoils(x) /\ j >= 1
    <3>1. Spoils(x) /\ x # <<>>
      BY <1>9, <1>13 DEF Spoils
    <3>2. Len(x) # 0
      BY <1>1, <3>1, SpendShape, EmptySeq DEF IsSeq
    <3> HIDE DEF x
    <3> QED BY <1>2, <1>3, <3>1, <3>2
  <2>2. CASE x[1].name = "PUSH" /\ stack = Append(Append(rest, B), x[1].item)
    <3> DEFINE item == x[1].item
    <3>1. item # True
      BY <2>1, <2>2 DEF Spoils
    <3>2. Top(0) = item
      <4>1. stack = Append(a, item)
        BY <2>2
      <4> HIDE DEF a, item
      <4> QED BY <1>11, <4>1, TopIs
    <3> QED BY <1>8, <1>13, <3>1, <3>2
  <2>3. CASE x[1].name = "DUP" /\ IsSeq(stack) /\ j < Len(stack) /\ Len(stack) <= MaxStackItems
    <3>1. Len(x) > MaxStackItems
      BY <2>1, <2>3 DEF Spoils
    <3>2. FALSE
      <4> DEFINE n == Len(stack)
                 m == Len(x)
      <4>1. n \in Nat /\ m \in Nat /\ j = m /\ j < n /\ n <= MaxStackItems /\ m > MaxStackItems
        BY <1>2, <1>3, <2>3, <3>1, LenProperties DEF IsSeq
      <4> HIDE DEF n, m
      <4> QED BY <1>1, <4>1
    <3> QED BY <3>2
  <2> QED BY <1>10, <1>13, <2>1, <2>2, <2>3
<1> QED BY <1>12, <1>13

\* One step of the interpreter.
LEMMA ScriptStep ==
  ASSUME ScriptInv, ScriptNext
  PROVE  ScriptInv'
<1>1. verdict = "running"
  BY Zenon DEF ScriptNext, OpPush, OpDup, OpHash256, OpCheckSig, OpCheckMultisig, OpHashlock, OpCheckLockTime,
     OpCheckLockHeight, OpVerify, OpUnknown, TooManyOps, Halt, Running
<1>2. /\ spend \in Spends /\ opCount \in Nat /\ opCount <= MaxOps /\ MaxOps \in Nat
      /\ Decided(spend) \in Nat /\ Unlocked(spend) \in {6, 14} /\ Decided(spend) > Unlocked(spend)
      /\ spend.single \in BOOLEAN
  BY ScriptBounds, ScriptParts, SpendShape DEF ScriptInv
<1>3. CASE ops # <<>> /\ opCount < MaxOps
  <2>1. ops' = Tail(ops) /\ opCount' = opCount + 1 /\ UNCHANGED spend
    BY <1>1, <1>2, <1>3, Dispatch
  <2>2. Onward
    <3>1. CASE opCount < 6
      BY <1>1, <1>3, <3>1, LockPhase
    <3>2. CASE opCount >= 6 /\ opCount < Unlocked(spend)
      <4>1. spend.hashlock # <<>> /\ opCount < 14
        <5>1. spend.hashlock = <<>> => Unlocked(spend) = 6
          BY DEF Unlocked, PreLen
        <5> QED BY <1>2, <3>2, <5>1
      <4> QED BY <1>1, <1>3, <3>2, <4>1, PreimagePhase
    <3>3. CASE opCount >= Unlocked(spend) /\ opCount < Decided(spend)
      <4>1. CASE spend.single
        BY <1>1, <1>3, <3>3, <4>1, SinglePhase
      <4>2. CASE ~spend.single
        <5>1. opCount + 1 < Decided(spend) \/ opCount + 1 = Decided(spend)
          BY <1>2, <3>3
        <5> QED BY <1>1, <1>3, <3>3, <4>2, <5>1, MultiPushes, MultiCheck
      <4> QED BY <1>2, <4>1, <4>2
    <3>4. CASE opCount >= Decided(spend)
      BY <1>1, <1>3, <3>4, SuffixPhase
    <3> QED BY <1>2, <3>1, <3>2, <3>3, <3>4
  <2> QED BY <1>1, <1>3, <2>1, <2>2, Advance DEF Onward
<1>4. ASSUME UNCHANGED <<spend, opCount>>,
             \/ verdict' = "true" /\ Good(spend)
             \/ verdict' = "false" /\ ~Good(spend)
      PROVE  ScriptInv'
  <2>1. Good(spend)' <=> Good(spend)
    <3>1. spend' = spend
      BY <1>4
    <3> QED BY <3>1 DEF Good, Wanted, Policy, StackFits, Signed
  <2>2. spend' \in Spends /\ opCount' \in 0..MaxOps
    BY <1>2, <1>4
  <2> QED BY <1>4, <2>1, <2>2 DEF ScriptInv
<1>5. CASE ops # <<>> /\ ~(opCount < MaxOps)
  <2>1. TooManyOps
    BY <1>5, Zenon DEF ScriptNext, OpPush, OpDup, OpHash256, OpCheckSig, OpCheckMultisig, OpHashlock,
       OpCheckLockTime, OpCheckLockHeight, OpVerify, OpUnknown, Halt, Running
  <2>2. verdict' = "false" /\ UNCHANGED <<spend, opCount>>
    BY <2>1 DEF TooManyOps, Fail
  <2>3. ~(Len(ScriptOf(spend)) <= MaxOps)
    <3>1. opCount + 1 <= Len(ScriptOf(spend)) /\ Len(ScriptOf(spend)) \in Nat
      <4>1. Len(ScriptOf(spend)) \in Nat
        BY <1>2, ScriptParts, LenProperties DEF IsSeq
      <4> QED BY <1>1, <1>5, <4>1, HeadIs
    <3> DEFINE m == Len(ScriptOf(spend))
    <3>2. opCount + 1 <= m /\ m \in Nat
      BY <3>1
    <3> HIDE DEF m
    <3>3. ~(m <= MaxOps)
      BY <1>2, <1>5, <3>2
    <3> QED BY <3>3 DEF m
  <2>4. ~Good(spend)
    BY <2>3 DEF Good
  <2> QED BY <1>4, <2>2, <2>4
<1>6. CASE ops = <<>>
  <2>1. Halt
    BY <1>6, Zenon DEF ScriptNext, OpPush, OpDup, OpHash256, OpCheckSig, OpCheckMultisig, OpHashlock,
       OpCheckLockTime, OpCheckLockHeight, OpVerify, OpUnknown, TooManyOps, Running
  <2>2. /\ verdict' = IF stack # <<>> /\ Top(0) = True THEN "true" ELSE "false"
        /\ UNCHANGED <<spend, opCount>>
    BY <2>1 DEF Halt
  <2>3. (stack # <<>> /\ Top(0) = True) <=> Good(spend)
    BY <1>1, <1>6, HaltDecides
  <2>4. (verdict' = "true" /\ Good(spend)) \/ (verdict' = "false" /\ ~Good(spend))
    BY <2>2, <2>3
  <2> QED BY <1>4, <2>2, <2>4
<1> QED BY <1>3, <1>5, <1>6

\* Before the first operation.
LEMMA ScriptStarts ==
  ASSUME ScriptInit
  PROVE  ScriptInv
<1>1. /\ spend \in Spends /\ ops = ScriptOf(spend) /\ stack = InitialStack(spend) /\ opCount = 0
      /\ verdict = IF Len(InitialStack(spend)) > MaxStackItems THEN "false" ELSE "running"
  BY DEF ScriptInit
<1> DEFINE s == spend
<1>2. IsSeq(ScriptOf(s)) /\ Len(ScriptOf(s)) \in Nat /\ Unlocked(s) \in {6, 14} /\ Decided(s) \in Nat
      /\ Decided(s) > Unlocked(s) /\ Len(s.keys) \in Nat
  BY <1>1, ScriptParts, SpendShape, LenProperties DEF IsSeq
<1>3. 0 \in 0..MaxOps
  BY ScriptBounds
<1>4. CASE Len(InitialStack(s)) > MaxStackItems
  <2>1. StackFits(s) => FALSE
    <3> DEFINE l == Len(InitialStack(s))
    <3>1. l \in Nat /\ l > MaxStackItems /\ MaxStackItems \in Nat /\ (StackFits(s) => l + 1 <= MaxStackItems)
      BY <1>1, <1>4, StartsWith, FitsIs, ScriptBounds
    <3> HIDE DEF l
    <3> QED BY <3>1
  <2> QED BY <1>1, <1>3, <1>4, <2>1 DEF ScriptInv, Good
<1>5. CASE ~(Len(InitialStack(s)) > MaxStackItems)
  <2>1. Passed(s, 0)
    <3>1. ~(0 >= Unlocked(s) + Len(s.keys) + 2) /\ ~(0 >= 1) /\ ~(0 >= 3) /\ ~(0 >= 6) /\ ~(0 >= 8) /\ ~(0 >= 10)
      BY <1>2
    <3> HIDE DEF s
    <3> QED BY <3>1, Zenon DEF Passed
  <2>2. InLocks(s, 0, stack)
    BY <1>1 DEF InLocks
  <2>3. InPreimage(s, 0, stack)
    BY DEF InPreimage
  <2>4. InSigs(s, 0, stack)
    <3>1. 0 # Unlocked(s) /\ 0 # Unlocked(s) + 1 /\ 0 \notin (Unlocked(s) + 1)..(Unlocked(s) + 1 + Len(s.keys))
          /\ 0 # Unlocked(s) + Len(s.keys) + 2
      BY <1>2
    <3> QED BY <3>1 DEF InSigs
  <2>5. Reached(s, 0, stack)
    BY <1>2, <2>1, <2>2, <2>3, <2>4 DEF Reached
  <2>6. 0 <= Len(ScriptOf(s)) /\ Len(ScriptOf(s)) = Len(ScriptOf(s)) - 0
        /\ \A i \in 1..Len(ScriptOf(s)) : ScriptOf(s)[i] = ScriptOf(s)[0 + i]
    BY <1>2
  <2> QED BY <1>1, <1>2, <1>3, <1>5, <2>5, <2>6 DEF ScriptInv
<1> QED BY <1>4, <1>5

\* verify_script, verify_template and the policy agree on every spend: the
\* interpreter of tx/script.py lets a spend through exactly when threshold
\* signatures by different keys, in key order, the preimage and the locks are
\* there and the limits are kept, and verify_template exactly when the same is
\* true of all the signatures in its witness.
THEOREM SpendsAgree == ScriptSpec => []SpendVerdictsAgree
<1>1. ScriptInit => ScriptInv
  BY ScriptStarts
<1>2. ScriptInv /\ [ScriptNext]_scriptVars => ScriptInv'
  <2>1. ASSUME ScriptInv, UNCHANGED scriptVars PROVE ScriptInv'
    <3>1. spend' = spend /\ ops' = ops /\ stack' = stack /\ opCount' = opCount /\ verdict' = verdict
      BY <2>1 DEF scriptVars
    <3>2. Good(spend)' <=> Good(spend)
      BY <3>1 DEF Good, Wanted, Policy, StackFits, Signed
    <3>3. ScriptOf(spend)' = ScriptOf(spend)
      BY <3>1 DEF ScriptOf, LockOps, PreimageOps, SignatureOps
    <3>4. Reached(spend, opCount, stack)' <=> Reached(spend, opCount, stack)
      BY <3>1 DEF Reached, Passed, InLocks, InPreimage, InSigs, InSuffix
    <3>5. IsSeq(ops)' <=> IsSeq(ops)
      BY <3>1 DEF IsSeq
    <3> QED BY <2>1, <3>1, <3>2, <3>3, <3>4, <3>5 DEF ScriptInv
  <2> QED BY <2>1, ScriptStep
<1>3. ScriptInv => SpendVerdictsAgree
  <2> HAVE ScriptInv
  <2>1. spend \in Spends /\ verdict \in {"running", "true", "false"}
        /\ (verdict = "true" => Good(spend)) /\ (verdict = "false" => ~Good(spend))
    BY DEF ScriptInv
  <2>2. verdict # "running" => (verdict = "true" <=> Good(spend))
    BY <2>1
  <2>3. VerifyTemplate(TemplateOf(spend), WitnessOf(spend), spend.locks, spend.ctx) <=> Policy(spend, spend.sigs)
    BY <2>1, TemplateDecides
  <2> QED BY <2>2, <2>3 DEF SpendVerdictsAgree, Good, Wanted
<1> QED BY <1>1, <1>2, <1>3, PTL DEF ScriptSpec
=============================================================================
