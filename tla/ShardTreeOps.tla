---------------------------- MODULE ShardTreeOps ----------------------------
(***************************************************************************)
(* apply_operations of mempool/shard_tree.py: a batch of splits and merges *)
(* decided in one anchor, one action per turn of its loop.  An operation   *)
(* is named by the shard it splits or merges into, which is what           *)
(* _operation_parent computes.  The first operation on a shard is applied, *)
(* later ones on the same shard are queued, and one that cannot be applied *)
(* fails the whole batch.  That the constructor of an intermediate tree    *)
(* never refuses it is the invariant ConstructorAccepts.                   *)
(***************************************************************************)
EXTENDS ShardTree

CONSTANT MaxBatch      \* bound on the operations of one batch

ASSUME BatchAssumption == MaxBatch \in Nat

VARIABLES tree,          \* the tree the batch is applied to: its leaf set
          next_tree,     \* the tree so far
          used_parents,  \* shards an operation was applied to
          queued         \* operations left for a later anchor

treeVars == <<tree, next_tree, used_parents, queued>>

Operations == [kind : {"split", "merge"}, shard : ShardIds]

can_apply_operation(leaves, op) ==
  \/ op.kind = "split" /\ can_split(leaves, op.shard)
  \/ op.kind = "merge" /\ can_merge(leaves, Append(op.shard, 0), Append(op.shard, 1))

apply_operation(leaves, op) ==
  IF op.kind = "split" THEN apply_split(leaves, op.shard)
  ELSE apply_merge(leaves, Append(op.shard, 0), Append(op.shard, 1))

TreeInit == /\ tree = ROOT_TREE
            /\ next_tree = tree
            /\ used_parents = {}
            /\ queued = {}

\* A tree decoded from an anchor: any the constructor accepts.
DecodedInit == /\ tree \in {leaves \in SUBSET ShardIds : validate_leaf_partition(leaves)}
               /\ next_tree = tree
               /\ used_parents = {}
               /\ queued = {}

BatchOpen == Cardinality(used_parents) + Cardinality(queued) < MaxBatch

\* Faulty: a later operation on the same shard is applied as well.
apply_despite_conflict(op) ==
  /\ BatchOpen
  /\ can_apply_operation(next_tree, op)
  /\ next_tree' = apply_operation(next_tree, op)
  /\ used_parents' = used_parents \cup {op.shard}
  /\ UNCHANGED <<tree, queued>>

apply_next(op) ==
  /\ BatchOpen
  /\ op.shard \notin used_parents
  /\ can_apply_operation(next_tree, op)
  /\ next_tree' = apply_operation(next_tree, op)
  /\ used_parents' = used_parents \cup {op.shard}
  /\ UNCHANGED <<tree, queued>>

queue_conflict(op) ==
  /\ BatchOpen
  /\ op.shard \in used_parents
  /\ queued' = queued \cup {op}
  /\ UNCHANGED <<tree, next_tree, used_parents>>

\* The batch is applied and becomes the tree of the next one.
return_update ==
  /\ used_parents # {}
  /\ tree' = next_tree
  /\ used_parents' = {}
  /\ queued' = {}
  /\ UNCHANGED next_tree

\* _apply_operation raises: the caller keeps the tree it had.
raise_invalid(op) ==
  /\ BatchOpen
  /\ op.shard \notin used_parents
  /\ ~ can_apply_operation(next_tree, op)
  /\ next_tree' = tree
  /\ used_parents' = {}
  /\ queued' = {}
  /\ UNCHANGED tree

TreeNext == \/ \E op \in Operations : apply_next(op) \/ queue_conflict(op) \/ raise_invalid(op)
            \/ return_update

TreeSpec == TreeInit /\ [][TreeNext]_treeVars
-----------------------------------------------------------------------------
\* Leaves are shards within the depth limit, and so is what a batch touches.
TreeTypeOK == /\ tree \subseteq ShardIds /\ next_tree \subseteq ShardIds
              /\ used_parents \subseteq ShardIds
              /\ queued \subseteq Operations

Partition(leaves) ==
  \A hash \in Hashes : \E shard \in leaves :
    /\ selects(shard, hash)
    /\ \A other \in leaves : selects(other, hash) => other = shard

\* Every transaction hash is routed to exactly one leaf of every tree that the
\* constructor accepts or that batches lead to: route_tx never reaches its
\* AssertionError, and its answer does not depend on the order of the leaves.
RoutesUnique == Partition(tree) /\ Partition(next_tree)

\* A batch that applied anything changes the tree: queueing the later operation
\* on a shard keeps one anchor from splitting a shard and merging it back.
NoUndo == used_parents # {} => next_tree # tree
=============================================================================
