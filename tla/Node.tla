-------------------------------- MODULE Node --------------------------------
(***************************************************************************)
(* class TensorPowNode of node/node.py: the coordinator of one full node.  *)
(* It keeps block bodies, the columns of the active anchor chain and the   *)
(* mempool rows in RocksDB, mirrors the active state in memory, and        *)
(* handles transactions, fruits and anchors one at a time under            *)
(* _state_lock.  A handler's write_batch is one atomic step and the        *)
(* refresh of memory after it another: a crash may fall in between.        *)
(*                                                                         *)
(* A block is offered with any hash not yet stored.  Proof of work and the *)
(* future-drift limit decide only when a block can be offered.             *)
(***************************************************************************)
EXTENDS Ledger

CONSTANTS FruitIds, AnchorIds,         \* block hashes
          FruitPayloads,               \* hash -> set of [shard, coinbase, txs]
          AnchorPayloads,              \* hash -> set of [rewards, tree, floors]
          FruitTimes, AnchorTimes,     \* timestamps a block can be offered with
          EXPECTED_GENESIS,            \* config.expected_genesis_hash
          DYNAMIC_K_MIN,               \* the K of the whole node
          PARENT_CANDIDATE_MAX_COUNT

ASSUME NodeAssumption ==
  /\ FruitIds \subseteq Nat \ {NoHash}
  /\ AnchorIds \subseteq Nat \ {NoHash}
  /\ FruitIds \cap AnchorIds = {}
  /\ FruitTimes \subseteq Nat /\ AnchorTimes \subseteq Nat
  /\ EXPECTED_GENESIS \in AnchorIds
  /\ DYNAMIC_K_MIN \in Nat
  /\ PARENT_CANDIDATE_MAX_COUNT \in Nat
  /\ \A f \in FruitIds : \A payload \in FruitPayloads[f] :
       payload.coinbase \in DOMAIN Coinbase /\ payload.txs \in Seq(DOMAIN Tx)
  /\ \A a \in AnchorIds : \A payload \in AnchorPayloads[a] :
       /\ payload.rewards \in Seq(Outputs)
       /\ \A shard \in DOMAIN payload.floors : payload.floors[shard] \in Nat

VARIABLES
  \* RocksDB
  fruits,        \* fruit hash -> [selected, bitmap, latest, ts, shard, coinbase, txs]
  anchors,       \* anchor hash -> [parent, covered, cands, ts, rewards, tree, floors,
                 \*                 height, target, work]: the body and its _AnchorMeta
  active,        \* columns of the active chain: [tip, height, tree, floors, utxo, minted, claimed]
  rows,          \* COLUMN_MEMPOOL
  \* memory
  utxo_set, shard_tree,
  mempool,
  fruit_dag_cache,
  \* the running handler
  pc,            \* "idle", or which refresh is still to run
  staged         \* its branch_state, NoState when it has none

memory == <<utxo_set, shard_tree, mempool, fruit_dag_cache>>
vars   == <<fruits, anchors, active, rows, utxo_set, shard_tree, mempool,
            fruit_dag_cache, pc, staged>>

NoDag   == [f \in {NoHash} |-> {}]     \* None: no DAG holds NoHash
NoState == [none |-> TRUE]

\* The columns _active_chain_batch writes for a branch state.
active_columns(tip, st) ==
  [tip |-> tip, height |-> st.height, tree |-> st.tree, floors |-> st.floors,
   utxo |-> st.utxo, minted |-> st.minted, claimed |-> st.claimed]

rebuilt(txs, utxo, tree) == rebuild_mempool(txs, utxo, tree, active.floors, active.height)

Init == /\ fruits = << >>
        /\ anchors = << >>
        /\ active = active_columns(NoHash, EmptyBranchState)
        /\ rows = {}
        /\ utxo_set = << >>
        /\ shard_tree = ROOT_TREE
        /\ mempool = {}
        /\ fruit_dag_cache = NoDag
        /\ pc = "idle"
        /\ staged = NoState
-----------------------------------------------------------------------------
(* The fruit DAG of the stored fruits and its cache.                       *)

\* selected parent and the candidates of the latest anchor the bitmap selects
effective_parent_hashes(fruit, cands) == {fruit.selected} \cup {cands[i] : i \in fruit.bitmap}

fruit_parents_for_dag(f) ==
  effective_parent_hashes(fruits[f], anchors[fruits[f].latest].cands) \ {NoHash}

stored_dag ==
  [f \in DOMAIN fruits |->
     [parents |-> fruit_parents_for_dag(f), ts |-> fruits[f].ts, work |-> 1]]

\* When _fruit_dag returns a DAG: BlockDAG.add_fruit accepts every fruit.
dag_builds ==
  \A f \in DOMAIN fruits :
    /\ fruits[f].latest \in DOMAIN anchors
    /\ fruits[f].bitmap \subseteq DOMAIN anchors[fruits[f].latest].cands
    /\ \A p \in fruit_parents_for_dag(f) : p \in DOMAIN fruits /\ fruits[p].ts < fruits[f].ts

fruit_dag == IF fruit_dag_cache # NoDag THEN fruit_dag_cache ELSE stored_dag
has_fruit_dag == fruit_dag_cache # NoDag \/ dag_builds

\* The unreferenced fruits by (highest blue score, hash), at most the maximum.
canonical_parent_candidates ==
  LET referenced == UNION {fruit_parents_for_dag(f) : f \in DOMAIN fruits}
      meta == ghostdag_metadata(fruit_dag, DYNAMIC_K_MIN)
      Before(f, g) == \/ meta[f].blue_score > meta[g].blue_score
                      \/ meta[f].blue_score = meta[g].blue_score /\ f < g
      frontier == SetToSortSeq(DOMAIN fruits \ referenced, Before)
  IN  SubSeq(frontier, 1, IF Len(frontier) <= PARENT_CANDIDATE_MAX_COUNT
                            THEN Len(frontier) ELSE PARENT_CANDIDATE_MAX_COUNT)
-----------------------------------------------------------------------------
(* Anchor chains and fork choice.                                          *)

\* _anchor_history: the records of the chain that ends in a.
anchor_history(a) ==
  LET chain[b \in DOMAIN anchors] ==
        Append(IF anchors[b].parent = NoHash THEN << >> ELSE chain[anchors[b].parent],
               [ts |-> anchors[b].ts, target |-> anchors[b].target])
  IN  chain[a]

\* _is_better_anchor_tip: more work, then greater height, then lesser hash.
is_better_anchor_tip(a, meta, b, best) ==
  \/ meta.work > best.work
  \/ meta.work = best.work /\ meta.height > best.height
  \/ meta.work = best.work /\ meta.height = best.height /\ a < b

\* Faulty: as much work as the active tip is enough.
replaces_equal_work(a, meta) ==
  \A b \in DOMAIN anchors \cap {active.tip} : meta.work >= anchors[b].work

becomes_best_tip(a, meta) ==
  \A b \in DOMAIN anchors : is_better_anchor_tip(a, meta, b, anchors[b])
-----------------------------------------------------------------------------
(* Handlers.  A rejected block or transaction leaves the store and memory  *)
(* as they are, but for the DAG cache and stale mempool rows.              *)

process_raw_tx(t) ==
  LET kept == rebuilt(mempool, utxo_set, shard_tree)
      accepted == admits(kept, t, utxo_set, shard_tree, active.floors, 0)
  IN  /\ pc = "idle"
      /\ rows' = (rows \ (mempool \ kept)) \cup (IF accepted THEN {t} ELSE {})
      /\ mempool' = IF accepted THEN kept \cup {t} ELSE mempool
      /\ UNCHANGED <<fruits, anchors, active, utxo_set, shard_tree, fruit_dag_cache,
                     pc, staged>>

\* Faulty: a parent may be as young as the fruit, or younger.
dependencies_of_any_age(fruit) ==
  /\ fruit.latest \in DOMAIN anchors
  /\ LET cands == anchors[fruit.latest].cands IN
       /\ fruit.bitmap \subseteq DOMAIN cands
       /\ \A i \in fruit.bitmap : cands[i] # fruit.selected
       /\ IF fruit.selected = NoHash THEN fruits = << >> ELSE fruit.selected \in DOMAIN fruits
       /\ effective_parent_hashes(fruit, cands) \ {NoHash} \subseteq DOMAIN fruits

\* _validate_fruit_dependencies: a root fruit only into a DAG without fruits,
\* parents stored and strictly older.
fruit_dependencies_valid(fruit) ==
  /\ fruit.latest \in DOMAIN anchors
  /\ LET cands == anchors[fruit.latest].cands IN
       /\ fruit.bitmap \subseteq DOMAIN cands
       /\ \A i \in fruit.bitmap : cands[i] # fruit.selected
       /\ IF fruit.selected = NoHash THEN fruits = << >> ELSE fruit.selected \in DOMAIN fruits
       /\ \A p \in effective_parent_hashes(fruit, cands) \ {NoHash} :
            p \in DOMAIN fruits /\ fruits[p].ts < fruit.ts

process_fruit(f, fruit) ==
  LET covering_height == active.height + 1
      validated == validate_fruit_txs(utxo_set, shard_tree, active.floors, fruit, covering_height)
  IN  /\ pc = "idle"
      /\ f \notin DOMAIN fruits
      /\ fruit_dependencies_valid(fruit)
      /\ validated.ok
      /\ coinbase_claim(fruit)
           <= interval_subsidy_matoms(covering_height, active.minted) + validated.tips
      /\ fruits' = Extend(fruits, f, fruit)
      /\ rows' = rows \ ToSet(fruit.txs)
      /\ pc' = "fruit"
      /\ UNCHANGED <<anchors, active, utxo_set, shard_tree, mempool, fruit_dag_cache, staged>>

\* After process_fruit's write_batch.
refresh_after_fruit ==
  /\ pc = "fruit"
  /\ fruit_dag_cache' = NoDag
  /\ mempool' = rebuilt(rows, utxo_set, shard_tree)
  /\ rows' = mempool'
  /\ pc' = "idle"
  /\ UNCHANGED <<fruits, anchors, active, utxo_set, shard_tree, staged>>

\* Faulty: outputs of the abandoned branch are not deleted.
batch_keeping_utxos(tip, st) ==
  active_columns(tip, [st EXCEPT !.utxo = Overlay(@, active.utxo)])

\* _active_chain_batch: deletes the keys that the branch state lacks and puts the
\* others; no key is both.
active_chain_batch(tip, st) == active_columns(tip, st)

\* The store after an anchor's batch: the active columns and the mempool rows
\* change only when the anchor is the best tip.
store_anchor(a, anchor, st) ==
  /\ anchors' = Extend(anchors, a, anchor)
  /\ IF becomes_best_tip(a, anchor)
       THEN /\ active' = active_chain_batch(a, st)
            /\ rows' = rows \ st.confirmed
            /\ pc' = "anchor"
            /\ staged' = st
       ELSE UNCHANGED <<active, rows, pc, staged>>
  /\ UNCHANGED <<fruits, utxo_set, shard_tree, mempool>>

\* The genesis anchor: first body of an empty store, with the expected hash.
process_genesis(a, ts) ==
  LET anchor == [parent |-> NoHash, covered |-> {}, cands |-> << >>, ts |-> ts,
                 rewards |-> << >>, tree |-> ROOT_TREE, floors |-> [shard \in ROOT_TREE |-> 0],
                 height |-> 0, target |-> ANCHOR_INITIAL_TARGET,
                 work |-> anchor_work_weight(ANCHOR_INITIAL_TARGET)]
      applied == apply_anchor_to_branch(fruits, fruit_dag, DYNAMIC_K_MIN, a, anchor,
                                        EmptyBranchState)
  IN  /\ pc = "idle"
      /\ fruits = << >> /\ anchors = << >>
      /\ a = EXPECTED_GENESIS
      /\ applied.ok
      /\ fruit_dag_cache' = fruit_dag
      /\ store_anchor(a, anchor, applied.st)

process_anchor(a, parent, covered, ts, payload) ==
  LET target == next_anchor_target(anchor_history(parent))
      anchor == [parent |-> parent, covered |-> covered,
                 cands |-> canonical_parent_candidates, ts |-> ts,
                 rewards |-> payload.rewards, tree |-> payload.tree,
                 floors |-> payload.floors,
                 height |-> anchors[parent].height + 1, target |-> target,
                 work |-> anchors[parent].work + anchor_work_weight(target)]
      branch  == branch_states(fruits, anchors, fruit_dag, DYNAMIC_K_MIN)[parent]
      applied == apply_anchor_to_branch(fruits, fruit_dag, DYNAMIC_K_MIN, a, anchor, branch.st)
  IN  /\ pc = "idle"
      /\ a \notin DOMAIN anchors
      /\ parent \in DOMAIN anchors
      /\ ts > anchors[parent].ts
      /\ covered # {} /\ covered \subseteq DOMAIN fruits
      /\ has_fruit_dag
      /\ validate_leaf_partition(payload.tree)
      /\ DOMAIN payload.floors = payload.tree
      /\ branch.ok /\ applied.ok
      /\ fruit_dag_cache' = fruit_dag
      /\ store_anchor(a, anchor, applied.st)

\* Faulty: rows are loaded without being validated again; spent outputs stay in
\* memory.
refresh_without_validation ==
  /\ pc = "anchor"
  /\ shard_tree' = staged.tree
  /\ utxo_set' = staged.utxo
  /\ mempool' = rows
  /\ pc' = "idle"
  /\ staged' = NoState
  /\ UNCHANGED <<fruits, anchors, active, fruit_dag_cache, rows>>

refresh_merging_utxos ==
  /\ pc = "anchor"
  /\ shard_tree' = staged.tree
  /\ utxo_set' = Overlay(staged.utxo, utxo_set)
  /\ mempool' = rebuilt(rows, utxo_set', shard_tree')
  /\ rows' = mempool'
  /\ pc' = "idle"
  /\ staged' = NoState
  /\ UNCHANGED <<fruits, anchors, active, fruit_dag_cache>>

\* After the write_batch of a new best tip.
refresh_after_anchor ==
  /\ pc = "anchor"
  /\ shard_tree' = staged.tree
  /\ utxo_set' = staged.utxo
  /\ mempool' = rebuilt(rows, utxo_set', shard_tree')
  /\ rows' = mempool'
  /\ pc' = "idle"
  /\ staged' = NoState
  /\ UNCHANGED <<fruits, anchors, active, fruit_dag_cache>>

\* get_finality, and an anchor rejected once its candidates were compared,
\* change nothing but the DAG cache.
get_finality(f) ==
  /\ pc = "idle"
  /\ f \in DOMAIN fruits
  /\ has_fruit_dag
  /\ fruit_dag_cache' = fruit_dag
  /\ UNCHANGED <<fruits, anchors, active, rows, utxo_set, shard_tree, mempool, pc, staged>>

\* The process ends, in a handler or between two, and __init__ loads the store.
restart ==
  /\ shard_tree' = active.tree
  /\ utxo_set' = active.utxo
  /\ mempool' = rebuilt(rows, utxo_set', shard_tree')
  /\ rows' = mempool'
  /\ fruit_dag_cache' = NoDag
  /\ pc' = "idle"
  /\ staged' = NoState
  /\ UNCHANGED <<fruits, anchors, active>>

\* Any fruit that can be offered: headers over stored blocks, payloads by hash.
OfferFruit ==
  \E f \in FruitIds, latest \in DOMAIN anchors, ts \in FruitTimes :
    \E selected \in DOMAIN fruits \cup {NoHash},
       bitmap \in SUBSET DOMAIN anchors[latest].cands, payload \in FruitPayloads[f] :
      process_fruit(f, [selected |-> selected, bitmap |-> bitmap, latest |-> latest,
                        ts |-> ts, shard |-> payload.shard,
                        coinbase |-> payload.coinbase, txs |-> payload.txs])

OfferAnchor ==
  \E a \in AnchorIds, parent \in DOMAIN anchors, covered \in SUBSET DOMAIN fruits,
     ts \in AnchorTimes :
    \E payload \in AnchorPayloads[a] : process_anchor(a, parent, covered, ts, payload)

Next == \/ \E t \in DOMAIN Tx : process_raw_tx(t)
        \/ OfferFruit
        \/ \E a \in AnchorIds, ts \in AnchorTimes : process_genesis(a, ts)
        \/ OfferAnchor
        \/ \E f \in DOMAIN fruits : get_finality(f)
        \/ refresh_after_fruit
        \/ refresh_after_anchor
        \/ restart

Spec == Init /\ [][Next]_vars
-----------------------------------------------------------------------------

\* The shape of the store, the memory and the handler state.
TypeOK ==
  /\ DOMAIN fruits \subseteq FruitIds
  /\ DOMAIN anchors \subseteq AnchorIds
  /\ active.tip \in DOMAIN anchors \cup {NoHash}
  /\ active.height \in Nat /\ active.minted \in Nat
  /\ DOMAIN active.claimed \subseteq DOMAIN fruits
  /\ \A op \in DOMAIN active.utxo : active.utxo[op] \in Outputs
  /\ rows \subseteq DOMAIN Tx /\ mempool \subseteq DOMAIN Tx
  /\ pc \in {"idle", "fruit", "anchor"}
  /\ pc = "anchor" <=> staged # NoState

\* Except in the gap between the batch and the refresh of process_anchor, the
\* UTXO set and the shard tree in memory are those of the active columns: no
\* path through acceptance, rejection, reorganisation or crash parts them.
UtxoMirrorsStore ==
  pc # "anchor" => utxo_set = active.utxo /\ shard_tree = active.tree

\* The active columns are what replaying the tip's chain from genesis over the
\* blocks now stored gives, whatever branches were active before and however
\* many fruits arrived since: nothing of an abandoned branch survives a reorg.
ActiveStateIsReplay ==
  active.tip # NoHash =>
    LET replay == branch_states(fruits, anchors, stored_dag, DYNAMIC_K_MIN)[active.tip]
    IN  replay.ok /\ active = active_columns(active.tip, replay.st)

\* Every stored anchor's branch can still be rebuilt, so a later anchor may
\* extend it, and it rebuilds to the state it had before the step.
BranchReplayStable ==
  [][LET before == branch_states(fruits, anchors, stored_dag, DYNAMIC_K_MIN)
         after  == branch_states(fruits', anchors', stored_dag', DYNAMIC_K_MIN)
     IN  \A a \in DOMAIN anchors : after[a].ok /\ after[a] = before[a]]_<<fruits, anchors>>

\* The active tip is the best of all stored anchors by work, height and hash,
\* although each arrival only compares itself with what is stored.
TipIsBest ==
  /\ active.tip = NoHash => anchors = << >>
  /\ \A a \in DOMAIN anchors \ {active.tip} :
       is_better_anchor_tip(active.tip, anchors[active.tip], a, anchors[a])

\* The stored fruits always form a DAG that _fruit_dag can build, with one root,
\* so a bad fruit never makes every later anchor fail with bad_covered_fruit_order.
DagAlwaysBuilds ==
  /\ dag_builds
  /\ \A f, g \in DOMAIN fruits : fruits[f].selected = NoHash /\ fruits[g].selected = NoHash
                                   => f = g

\* Outside the gap in process_fruit the cached DAG, when there is one, is the
\* DAG of the stored fruits: orders and candidates are never computed on a stale one.
DagCacheFresh == pc # "fruit" => fruit_dag_cache \in {NoDag, stored_dag}

\* _fruit_dag always has a DAG to give, and it is the one of the stored fruits.
DagSound == DagAlwaysBuilds /\ DagCacheFresh

\* What is in the mempool can go into the next fruit: its transactions do not
\* conflict and each is spendable now, so rebuilding it drops nothing.
MempoolSpendable ==
  pc = "idle" =>
    /\ rebuilt(mempool, utxo_set, shard_tree) = mempool
    /\ \A t \in mempool : Tx[t].ins \subseteq DOMAIN utxo_set
    /\ \A t, u \in mempool : t # u => Tx[t].ins \cap Tx[u].ins = {}

\* On every branch the unspent amounts never exceed what was minted, the minted
\* amount never exceeds the supply cap nor the scheduled subsidies up to the
\* height, whatever fees, tips, skipped transactions and underclaims happened.
SupplyConserved ==
  LET states == branch_states(fruits, anchors, stored_dag, DYNAMIC_K_MIN) IN
    \A a \in DOMAIN anchors :
      LET st == states[a].st
          unspent == SumFunction(amounts(st.utxo))
          schedule == SumFunction([h \in 1..st.height |-> interval_subsidy_matoms(h, 0)])
      IN  unspent <= st.minted /\ st.minted <= MAX_SUPPLY_MATOMS /\ st.minted <= schedule

\* Each fruit claimed on the active chain was claimed by exactly one anchor of
\* it, at that anchor's height, so get_finality's anchor depth is defined and at
\* least one; and its coinbase is spent only once it is mature.
ClaimsMature ==
  \A f \in DOMAIN active.claimed :
    /\ active.claimed[f] \in 1..active.height
    /\ \A op \in outpoints("coinbase", fruits[f].coinbase, Coinbase[fruits[f].coinbase].outs) :
         op \notin DOMAIN active.utxo =>
           active.height >= active.claimed[f] + COINBASE_MATURITY_ANCHORS

\* A transaction that spends outputs of the current UTXO view which are mature
\* at the node's anchor height, at the fee floor and without a conflict in the
\* mempool, is one process_raw_tx admits.
SpendableIsRelayable ==
  pc = "idle" => \A t \in DOMAIN Tx :
    admits(mempool, t, utxo_set, shard_tree, active.floors, active.height)
      => admits(mempool, t, utxo_set, shard_tree, active.floors, 0)
=============================================================================
