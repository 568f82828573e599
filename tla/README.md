# TensorPoW: a TLA+ model

TensorPoW is a proof-of-work chain in Python (`src/src/tensorpow`). Miners produce
*fruits*, which carry transactions and form a DAG, and *anchors*, which form a chain,
cover fruits, order them with GHOSTDAG and pay rewards. Around this core are a mempool
sharded by a tree, an in-memory UTXO set with a Merkle commitment, protocols that move
transactions, fruits and state between peers, compression formats, a wallet, a JSON-RPC
server and command-line tools. This directory models the parts that decide what is
accepted, in which order and with which effect, checks them with TLC on small instances,
and proves the central invariants with TLAPS for every value of the constants.

## 1. Inventory

| Component | State | Operations | Interacts with |
| --- | --- | --- | --- |
| GHOSTDAG (`consensus/ghostdag.py`) | blocks, ancestor cache, metadata cache per K | `add_block`, `ghostdag_metadata`, `topological_order`, `dynamic_k` | called by the node under its lock |
| Anchor difficulty (`consensus/anchor_daa.py`) | none: a function of the chain's records | `next_anchor_target`, `anchor_work_weight` | node: target check and fork choice |
| Rewards (`consensus/rewards.py`) | none | subsidy, pools, assignments, maturity | node: claims |
| Finality (`consensus/finality.py`) | none | depths, tiers | node: `get_finality` |
| Node (`node/node.py`) | RocksDB columns, UTXO set, shard tree, mempool, DAG cache, one lock | `process_raw_tx`, `process_fruit`, `process_anchor`, `get_finality`, restart, `sync_from` | everything below; callers are RPC threads and peers |
| Blocks (`chain/`) | none | headers, bodies, roots, Merkle proofs, hashes | node, relay |
| Shard tree (`mempool/shard_tree.py`) | the set of leaves | `route_tx`, split, merge, `apply_operations` | mempool and anchors |
| Mempool (`mempool/mempool.py`) | entries, two indexes, floors, fee history | `add_tx`, `remove`, `evict_below_floor`, `set_fee_floor`, `record_confirmed_fruit`, `select_for_fruit` | node, miner |
| UTXO set (`state/utxo.py`) | coins, two indexes, two Merkle caches | add, spend, root, proofs | node, state sync |
| State sync (`state/sync.py`, `_iblt.py`) | none between calls | build, request, decode, apply a diff | UTXO sets of two peers |
| Scripts (`tx/`) | the stack of one evaluation | opcodes, templates, locks | node, mempool, wallet |
| Erlay (`net/erlay.py`) | time of the last round per shard | sketches, decoding, partition, resolution | two peers' transaction sets |
| Graphene, Turbine (`net/`) | none between calls | announce and rebuild a fruit; cut, relay and join chunks | mempool, peers |
| DAS (`net/das.py`) | none between calls | encode, commit, sample, verify, `is_available` | light node and provider |
| libp2p node (`net/libp2p_node.py`) | host, exit stack, subscriptions | `start`, `stop`, `subscribe` | asynchronous tasks |
| Codec (`codec/`) | none | range coder; template, learned, topology formats | transactions and anchors on the wire |
| Wallet, keystore (`wallet/`, `cli/wallet.py`) | keystore file | listings, coin selection, signing, saving, loading | node, other wallet processes |
| RPC server (`rpc/server.py`) | connection slots, subscriptions with queues and deadlines, fragments per connection | JSON-RPC requests and batches, hub calls from many threads, WebSocket loop | node, clients |
| Command line (`cli/node.py`) | `node.pid`, lock file | start, `_serve`, stop, status | processes that share a data directory |

What is hard in this code, and a unit test would hardly reach:

* the active chain is kept as *columns* that a reorganisation rewrites, while branches
  are replayed on the DAG of all fruits known now rather than those known then;
* blocks arrive in any order, and each arrival is compared with what is stored;
* the process can die between an atomic `write_batch` and the refresh of memory;
* nodes in one process take each other's locks to sync;
* what peers send may be lost, late, repeated, altered or answer another question;
* listings, sketches, diffs and caches are used after what they describe has changed;
* integer difficulty, subsidies, fee floors and the range coder round at every step;
* a start or a save that fails half way leaves something behind;
* several processes race for one pid file or keystore, and not every access is locked.

The hazards, each with its line and the properties that would catch it, are listed in
PROJECT.json.

## 2. Modules

### Consensus and node

| Module | Models | State and actions |
| --- | --- | --- |
| `Ghostdag` | the algorithm of `BlockDAG` as operators on a DAG | past, anticone, selected parent, blues and reds by a fold over the merge order, saturating work, canonical order, blue depth |
| `BlockDAG` | class `BlockDAG` with its caches | `blocks`, `ancestor_cache`, `metadata_cache`; `add_block`, `compute_metadata`, which reads the ancestor cache |
| `Finality` | `finality.py`, `_best_fruit_tip` and `get_finality`'s answer, over `BlockDAG` | operators only |
| `AnchorDAA`, `AnchorChain` | `next_anchor_target` and a chain that obeys it | `history`; `mine_anchor` |
| `Rewards` | `rewards.py` | operators only |
| `Blocks` | headers, bodies, roots, Merkle trees and proofs of `chain/` | `wireBlock`, `accepted`; send, tamper with a field or splice two blocks, receive |
| `Ledger` | applying transactions, fruits and anchors to a branch state; admission | operators only, on `Ghostdag`, `Rewards` and `ShardTree` |
| `Node` | `TensorPowNode` | store: `fruits`, `anchors`, `active`, `rows`; memory: `utxo_set`, `shard_tree`, `mempool`, `fruit_dag_cache`; handler: `pc`, `staged`. One action per handler up to its `write_batch`, one for the refresh after it, `restart` at any point |
| `NodeSync` | the state locks and `sync_from` | `holder`, `call`, `content`, `inMemory`; call, take a lock, copy a column, write the batch, rebuild memory and release |

### Transactions

| Module | Models | State and actions |
| --- | --- | --- |
| `Templates`, `Script` | output templates; the stack interpreter of `tx/script.py` | `ops`, `stack`, `opCount`, `verdict`; one action per opcode and the end of the script |
| `Wallet` | listings, coin selection, change, locks, signing, and every check of `_apply_spend_tx` on the result | `coins`, `height`, `floors` (whose shards are the leaves of the shard tree), `listing`, `sent`; export, send, confirm, an anchor with another tree or floors |
| `Keystore` | commands that write and read one keystore file | `keyFile`, `command`, `saved`, `loaded`; check, open (which empties), write, be killed, load |
| `RangeCoder` | the adaptive range coder of `codec/template.py` | encoder and decoder step by step |
| `Codec` | the template, learned and topology objects | `original`, `wire`, `outcome`; encode, alter a field, decode |
| `ShardTree`, `ShardTreeOps` | routing, splits, merges; the loop of `apply_operations` | `tree`, `next_tree`, `used_parents`, `queued`; one action per turn of the loop, its return and its error |
| `Mempool` | class `Mempool` | `entries`, `entries_by_shard`, `spent_outpoints`, `fee_floors`, `fee_histories`; one action per mutating method |

### Peers

| Module | Models | State and actions |
| --- | --- | --- |
| `UTXOSet` | `state/utxo.py`: indexes, sparse Merkle tree, caches, proofs | the five fields; add, remove, read a root or a proof (which fill the caches) |
| `IBLT` | the tables of `sync.py` and `graphene.py` and `_iblt.py`'s peeling | operators only |
| `StateTransfer` | *abstract specification*: a set jumps from the `from` to the `to` of an open offer, in one step | `local`, `offers` |
| `StateSync` | `state/sync.py`; implements `StateTransfer` | `utxos` and caches, `diffs`; request, apply, discard, own changes |
| `ReedSolomon` | the `reedsolo` library as `das.py` and `turbine.py` use it (external) | operators only |
| `DAS` | encoding, commitment, sampling, verification, `is_available` | `grid`, `missing`, `asked`, `answers`, `outcome`; ask, answer (for this or another sample, with guesses), lose, check, give up |
| `SetSketch` | the sketch arithmetic of `erlay.py` | operators only |
| `Erlay` | one session between two peers | both sets, `since`, messages on the way; start, reconcile, finish, take, lose, tick, disturb |
| `Graphene` | announcement and reconstruction | `pool`, `arrived`, `rebuilt` |
| `Turbine` | chunks, relay tree, arrival, decoding | `dropout`, `arrival`, `box` |
| `LibP2P` | `LibP2PNode`; py-libp2p services are external | `handle`, `stack`, `open`, `task`, `subs`; a task runs alone between two awaits |

### Servers

| Module | Models | State and actions |
| --- | --- | --- |
| `RpcHttp` | connection slots and threads, requests, batches, the unlocked reads of `getbalance`, event delivery | `slots`, `conn`, `answered`, `queue`, `received`, and the node's height and coins in store and memory |
| `SubscriptionHub` | class `SubscriptionHub` | the three dicts, the clock, and what each client has `seen`; every method is one step as it holds `_lock` |
| `WebSocket` | the loop of `_handle_websocket` | `open`, the fragment buffer, the frames `sent` and messages `handled` |
| `NodeCli` | `start`, `_serve`, `stop`, `status` on one data directory | `pid_file`, `lock`, the state of every process and command; a step is what happens between two system calls that others can see |

`Node` composes `Ledger`, `Ghostdag`, `AnchorDAA`, `Rewards` and `ShardTree`; `StateSync`
composes `UTXOSet` and `IBLT`; `Erlay` composes `SetSketch`; `Wallet` and `Script` share
`Templates`, and `Wallet` routes with `ShardTree`; `Finality` reads `BlockDAG`. `MC*` modules hold the instances, `*Proofs`
modules the theorems (`NodeCli` holds its own). Operators marked *Faulty* are used by no
specification: each is a plausible bug of the definition after it, and substituting it
makes the property named in PROJECT.json fail, which shows that the property constrains
the code.

**Focus.** `MCConsensus`, `MCNode`, `MCTransactions`, `MCNetwork` and `MCRpc` each instantiate
several components that share no variable. An initial state picks one of them, the
`focus`, and only that one moves: every behaviour of every component is explored, without
the product of their state spaces, which would show nothing more.

### Abstractions

* A hash is a number (where order matters for tie breaks), a name, or the tuple of what
  is hashed, which makes it collision free. Where the code hashes into few values (IBLT
  and Bloom positions, short ids, Merkle keys) the instance gives a table with collisions.
  Signatures are unforgeable terms. Proof of work is a precondition of offering a block.
* `process_fruit` and `process_anchor` are split only at the write to RocksDB: the
  handler holds `_state_lock`, so nothing else is visible in between except a crash.
  `NodeSync` shows what that lock does between nodes; there a column is the version it
  holds and an operation of one node changes all its columns. `sync_from(self)` returns
  at once and is left out.
* A rejected block leaves no trace but the DAG cache, which `get_finality` fills in the
  same way. The median-time checks are implied by strictly increasing parent timestamps.
* `_active_chain_batch` computes a difference and the model replaces the columns; the
  properties about reorganisations therefore compare the columns with a replay from genesis.
* Every fruit has work 1, as in the node; `OrderIsTopological` depends on it.
* Byte layouts are sequences of fields. Reading a field of another kind stands for being
  out of step with the bytes. Counts, orders, canonicity and presence checks are kept.
* `SetSketch` computes in GF(2^3) in place of GF(2^64), `ReedSolomon` in the integers
  modulo 5 in place of GF(2^8); the algorithms are kept step by step. `UTXOSet` has keys
  of two bits, `RangeCoder` three symbols, five-bit codes and a total of eight, so that
  carries, straddles and halvings all occur in short messages.
* An IBLT cell keeps its XOR as the set of keys that occur an odd number of times; the
  checksum is the test that this set is a singleton.
* In `Erlay` the repository gives the operations and no driver: the order of calls is
  external. `StartRound` follows `should_reconcile` and waits until no message of the last
  round is on the way, which an external driver need not do. In `LibP2P`, `publish` and
  `next_message` leave the node's own state alone and are left out.
* In `RpcHttp` the queue of a subscription stays below its `maxlen`; `SubscriptionHub` models
  the overflow. In `Turbine` every edge transmits a chunk in one millisecond. In `Graphene` an
  IBLT key is the transaction, so ids with equal 8-byte prefixes, for which `_build_iblt`
  raises, are left out.
* A peer's diff in `StateSync` is one of `Answers`: honest, with its last record missing,
  reversed, under another target root or damaged. `apply_utxo_diff` itself is modelled for any records.
* Process ids are not reused in `NodeCli`; `token_hex` never repeats an id in use in
  `SubscriptionHub`. In `WebSocket` a payload is its length; in `Mempool` a UTXO view is
  the set of outpoints that exist and whose scripts and locks pass.

## 3. Runs

All bounds are constants of the cfg files. No bound cuts a behaviour in the middle of an
operation: bounds limit how many blocks, frames, events, messages or commands there are.

| Run | Instance | Shows |
| --- | --- | --- |
| `consensus` | all DAGs of 4 fruits with 3 timestamps and K in {0, 1}; chains of 7 anchors at 5 paces, window 3; fruits and anchors spliced from others | caches equal a recomputation (`CachesCoherent`), canonical order respects ancestry (`OrderIsTopological`), known fruits are never reclassified (`MetadataStable`), a payment loses a tier only when the best tip leaves its branch for one without its fruit among the blues (`TierFallsOnlyByReorg`), targets move by at most the factor (`MovementBounded`), hashes bind every part of a block, and the proof of work binds a fruit through its effective parents, up to zero bytes at the end of its bitmap (`BlocksBound`). Four fruits are the fewest in which a fruit merges parallel ones into a red set for both K |
| `node_forks` | 3 fruits, 4 anchors, a coinbase spend, crashes; apart from them 3 start commands, 1 stop, any number of status commands, crashes | `TipIsBest` for every fork and arrival order, with branches that differ in work, height or only hash; `ClaimsMature` with maturity 2; `DagSound`: the stored fruits always build a DAG, and no stale one is cached. With the one unlocked removal of stop left out, at most one node serves a data directory (`AtMostOneNode`) and a terminated process ends (`TerminatedEnds`) |
| `node_ledger` | conflicting and chained spends, rising fee floor, forks, crashes | memory mirrors the store, the mempool stays spendable, the active columns are a replay of the tip's chain, every branch replays to what it was, supply is conserved |
| `node_relay` | as `node_forks`, maturity 1 | finding 1 |
| `transactions` | some 5,000 spends, with scripts and stacks of just the size their limits allow and past it; coins with locks, wallets that ask for locks and change, two shard trees with different floors; two keystore commands; messages of 7 symbols; transactions, weights and lists with every single altered field; 5 transactions over 3 outputs and 2 shards; the 26 trees of depth 3 with batches of 4 | interpreter, template verifier and policy agree (`SpendVerdictsAgree`), what a wallet sent is refused only for its shard, its locks, its coins being gone or the fee floor (`SentRefusedOnlyByChain`), only what was saved is loaded (`LoadedWasSaved`), every codec gives back what it was given, refuses or returns one value per object (`CodecsRoundTrip`), mempool indexes agree, selection by raw bytes is greedy and within every budget (`SelectionIsGreedy`), floors follow the rate, every hash has one leaf at every turn of the loop, no batch undoes itself |
| `mempool_selection` | as `transactions`, mempool only | finding 6 |
| `rpc` | 3 ids for 2 places, 2 topics, queues of 2, time to live 2; 5 frames of 0 to 2 bytes, limit 3; 3 connections for 2 slots, batches up to one past the limit | queues hold exactly the newest undrained events, deadlines alone decide (`DeadlinesHold`), frames become messages within the limit, slots neither leak nor multiply, batches are answered in order, events arrive at most once and in order. Ids, topics and connections are symmetric; no liveness is checked here |
| `rpc_balance` | one coin with a time lock | finding 5 |
| `network` | 4 coins of 3 outpoints and diffs of up to 2 entries; payloads of up to 4 cells with missing or overwritten ones; 3 transactions and capacity 2; 5 mempool transactions with colliding filters; 5 relay peers, one faulty; two tasks on one host; three nodes and three threads | see below |
| `sync_peel` | as `network`, sync only | finding 3 |
| `libp2p_stop` | as `network`, libp2p only | finding 4 |
| `node_cli_stop` | the commands of `node_forks` with the whole of stop | finding 2 |

The `network` run shows that a root and its proofs speak for the set as it is
(`RootSpeaksForSet`); that sync is the atomic transfer of `StateTransfer`, when a peer
answers honestly, leaves its last removal or addition out, reverses the additions, names a
target root that is not theirs or has its bytes damaged, and however late or often a diff is applied (`SyncIsTransfer`, a refinement with
`local <- utxos` and `offers <- ` the sets under the roots that the diffs held name); that
an accepted sample was committed to, that samples of as many rows as the payload has recover
it, and that a report of `is_available` does when its samples are spread over the rows
(`SamplingSound`); that sketches within the capacity decode to exactly the difference and
others are refused or within the capacity (`DecodesDifference`), and that two peers converge
(`Converges`); that Graphene rebuilds the announced fruit or nothing (`RebuildsAnnounced`);
whom a relay tree reaches and what the chunks decode to (`RelayDelivers`); that no ring of
`sync_from` calls waits for itself (`NoWaitCycle`) and that what is copied is one state
(`SyncCopiesOneState`). For capacity 2 the three transactions are within, at and beyond it. `is_available` counts
successes and not rows: with `ThresholdPct` 60 of three samples the instance holds reports
whose successes are all of one row of a payload of two, which say no more than that this row
and its columns were served as committed.

Where a cfg turns deadlock checking off the system may stop: every block, frame, message
or command of the instance is used up.

**Fairness.** Two properties are about liveness.

* `TerminatedEnds` assumes weak fairness of `Serve(p)` for every process p: a live process
  keeps executing its own code. No fairness is assumed of commands, signals or crashes. Weak
  fairness is enough because only `_write_pid` holds the lock across steps, once per
  process, and its holder releases it by its own next step.
* `Converges` assumes weak fairness of the initiator's rounds and of time, that is, that its
  driver keeps polling `should_reconcile` as the module's interval intends, and strong
  fairness of each kind of delivery: a message that is sent again and again arrives in
  the end. Messages may still be lost any number of times. The property asks for
  convergence only once the sets differ by no more than the capacity and stop changing,
  since the code has no fallback for a sketch that does not decode.

## 4. Findings

1. `process_raw_tx` (`node/node.py:320`) validates a transaction with the default height
   0, whereas `_rebuild_mempool` passes the anchor height. A spend of a mature fruit
   coinbase is valid and would be accepted in a fruit, but the node refuses to relay it
   (`SpendableIsRelayable`). `PROTOCOL_SPEC.md` asks for scripts to pass against the
   current view and calls such an output spendable.
2. `_cmd_stop` (`cli/node.py:197`) removes the pid file without the lock when it had read
   no pid. A node started between the read and the removal loses its pid file, keeps
   serving, and the next start serves the same data directory too (`AtMostOneNode`).
   The theorem `MutualExclusion` shows that this removal is the only way.
3. `build_utxo_diff` (`state/sync.py`) sizes its IBLT by the number of changes and does not
   try to peel it; the receiver does, and refuses the diff when the keys' positions form a
   core. The snapshot fallback covers only equal keys (`BuiltDiffApplies`).
4. `LibP2PNode.start` keeps its exit stack in a local variable until the end. When a later
   service fails to start, the ones entered before run on and `stop`, "Stop all libp2p
   services.", has nothing to close (`StopStopsAll`).
5. `getbalance` asks the node for a clock that `TensorPowNode` does not have and compares
   time locks with 0, so a coin whose time lock has passed is left out of the "spendable
   balance" (`BalanceIsSpendable`). Lock heights are compared with the node's height. The
   property also covers a height and coins that change during the call; no passing run
   checks that half on its own.
6. `select_for_fruit` (`mempool/mempool.py:300`) compares the sum of raw transaction sizes
   with its budget, by default `MAX_FRUIT_PAYLOAD_BYTES`, "without exceeding payload budget".
   The payload that `Fruit` measures also has `tx_count` and a length prefix per transaction, as
   `PROTOCOL_SPEC.md` defines the limit, so a full selection makes a body that `Fruit` refuses
   (`SelectionFitsFruit`). `SelectionIsGreedy` is about the bytes that the code counts.

Two more things the modelling met: `save_keystore` checks that the file is absent and
opens it later, so two concurrent creations both report success and one seed is lost, and a
killed overwrite leaves an empty file (no document promises otherwise, so no run states it);
and the range coder expands incompressible payloads, so that a transaction close to
`MAX_TX_BYTES` may compress to more than `decompress_tx` accepts: `CodecsRoundTrip` says
that exactly the objects within the limit come back. In `Graphene` a fruit mined by the node contains a coinbase
that is in nobody's mempool, so the reconstruction of such fruits always falls back; the
module's fruits are those whose transactions can be known.

## 5. Proofs

Every theorem holds for all values of the constants that satisfy the named ASSUMEs: all
numbers of nodes, threads, clients, fruits and transactions, all K, windows, limits and
arrival orders. Eight modules hold proofs.

* `FoldProofs`, the library. The induction theorems that come with the prover take an
  operator as a parameter, which its backends cannot instantiate, so induction is
  done over *sets*: a caller names the set of numbers (`LeastNat`) or of finite sets
  (`SubsetInduction`) for which its claim holds. From these come what the folds of
  the community modules compute over sets and over sequences (`FoldExists`, `FoldsAgree`,
  `SeqFoldExists`, `SeqFoldsAgree`), sums over finite sets (in any order, by parts, of larger
  terms, of rounded shares), greatest elements, and the ranks of a finite total order
  (`RanksFill`), by which `InOrder` lists a set.
* `GhostdagProofs`. Ancestors and metadata are recursive functions along parents, which are
  strictly older; both are unfolded once (`AncestorsUnfold`, `MetadataUnfold`). The data of a
  fruit is a function of its past, so it is the same in every larger DAG
  (`ClassificationStable`). `SelectParent`, `BluesBetween` and `AllClassified` say what the
  colouring returns whatever the anticones are: a selected parent among the parents, its blues
  and the fruit itself among the blues, the rest from the merge set. `WorkIsScore` and
  `ScoresGrow`: with unit work below the cap the accumulated work is the blue score, so the
  selected parent has the greatest score of the parents and scores grow along *every* parent.
* `ConsensusProofs`. `TypeCorrect`, `MovementIsBounded`: the lower movement limit
  rounds up, so that it never falls below target / factor, and the final clamp to the
  absolute bounds cannot leave the limits as the previous target is within them; the value of the
  moving average does not matter. `CachesStayCoherent`: the DAG is closed under
  parents, so the ancestors of a known fruit do not change when one is added, and with them no
  cached set or classification becomes stale. `ClassificationIsStable` follows from the data
  being a function of the past. `OrderRespectsAncestors` assumes `Works = {1}` and at most
  `WORK_CAP` fruits: the node's only call of `add_fruit` leaves the work at its default of 1
  and the cap is 2^64 - 1. The order sorts by score first, so it follows from
  scores growing along every parent. It would not hold for other works: a heavy parent of low
  score could be selected over a light one of high score. `TiersFallOnlyByReorg`: the
  depths are measured from the best tip of all fruits. A fruit that selected it has the
  greatest score, so it is the next one; from a tip to one that selected it the blues grow and
  the blue score by as much as it must, to any other that has the payment's fruit among its blues
  the score does not fall, and the thresholds are in order (`FinalityOrder`).
  `BlocksAreBound`: no two blocks that `deserialize` accepts share a hash, and the bytes of a
  block decode to it and to nothing else. The ordered Merkle root binds its list
  (`RootBindsList`): the top node tells the height of the tree, and each level determines the
  row below it, because a pad is no node (`AboveBinds`). Encodings are taken apart piece by
  piece (`BlockRead`): bytes that are cut or go on decode to nothing. For the proof of work,
  the ranks of the selected candidates determine the bitmap (`ParentsBind`), given its
  length. The invariant, `BlockInv`: every accepted block is valid, and what is on the wire
  is put together from parts of blocks or decodes to nothing.
* `NodeProofs`. `ForkChoice` from the fact that `_is_better_anchor_tip` is a total order:
  an arrival that loses to any anchor loses to the tip. `DagIsSound`: the parents of a
  stored fruit are stored, older and found through an anchor whose candidates are
  immutable; the cache is dropped with every fruit, which needs the gap between write and
  refresh in the invariant. `MemoryFollowsStore`: what is staged in the gap equals the
  columns just written. `ActiveIsReplay`, `BranchReplay`: a replay is the fold of
  `_apply_anchor` over the branch, one anchor unfolds from its parent's replay
  (`ReplayUnfold`), and it reads only fruits and anchors in the branch's past, which are stored
  already and never change (`ReplayStable`); so the columns, extended by one anchor or
  rebuilt after a reorganisation, are the replay of the tip.
  `SupplyIsConserved` and `CoinbasesMature` rest on `SoundInv`: the replay of *every* stored
  anchor, on the active branch or not, is `Sound` (unspent coins are worth at most what was
  minted, that at most the cap and the emission schedule, and the outputs of a claimed
  coinbase stay unspent and locked until it is mature). One anchor keeps it: through
  the transactions of `apply_anchor_fruits` unspent coins and tips together never exceed the
  coins before (`Accounts`), the shares of the covered fruits add up to at most the fruit pool,
  and so what the coinbases and the anchor's own rewards claim beyond tips is at most the
  subsidy of the interval. An anchor or a fruit stored later changes no
  replay. `MempoolIsSpendable` rests on `PoolInv`: between batches the pool is `Fine` for the
  active state, each entry spendable by itself and no two of one outpoint. Admission keeps it, a
  rebuild establishes it whatever the rows were, and a rebuild of a fine pool drops nothing;
  it needs that memory mirrors the store. `NodeTypes` is the type invariant.
* `NetworkProofs`, what is exchanged with peers. `RootTruthful` and `SyncRefines` share
  `SyncInv`: the set is one of `Sets`, both indexes are computed from it, each cached node
  is the root of its subtree, and a diff held names the roots of two sets (`DiffOk`). The
  recursion of `_subtree_root` is unfolded by induction on the height of a node
  (`RootUnfold`), with any coherent cache it gives what it gives without (`CacheCoherent`),
  and it determines the items under the node (`RootBinds`), since equal hashes have equal
  inputs; so no two sets share a root (`RootsDiffer`). Climbing from a leaf, or from the
  first empty node, along the siblings passes through the roots of the path
  (`ClimbsToRoot`): proofs of the set verify (`ProofVerifies`), and a proof of another set
  that climbs to the same root is about the same leaf (`ProofsSound`). `apply_utxo_diff`
  compares roots, which is comparing sets: a diff that passes leads from the one set to the
  other whatever its records are, which is a step of `StateTransfer`. `GrapheneRebuilds`: a
  result was compared with the sketch; conversely a fruit's own sketch is well formed, its
  table minus the one built from the same ids is empty and peels to nothing (`EmptyPeels`),
  and the listed order is the fruit's. `NoDeadlock` for any number of nodes and
  threads. The invariant says
  that a lock is held by the thread whose call has taken it and that calls take their
  locks in the order of ids. Of the locks a ring of threads waits for take the greatest;
  its holder is in the ring, so it waits too, for a lock that comes after the one it
  holds: a contradiction. `CopiesOneState` adds that what a call has copied is a prefix of
  the other store, which nobody writes while its lock is held, and that memory lags the
  store only between the batch and the reload. `SamplesAreSound`: the digest at the top of a
  Merkle proof names its level and each digest holds the one below it, so a proof that
  climbs to the committed root is about the record at its place, whatever siblings it
  gives (`MerkleSound`); a record carries its cell, so what `verify_sample` accepts are the
  committed cells (`AcceptedCommitted`). The encoding's rows and columns are codewords,
  which `DASEncoding` checks itself; a row with an overwritten cell still agrees with the true
  one in 2k-1 symbols, so if it is a codeword it is the true one, and k rows give back every
  column. A report of `is_available` leaves a share of the samples, which lies in
  k rows when the samples are spread out. `RelayIsSound`: the j-th parent of the queue is the j-th peer in the order and at least
  j peers have joined by then (`JoinedUnfold`), so the tree takes in every peer, under a parent
  before it (`TreeIs`), within its fanout (`WithinFanout`). Arrivals are closed under parents and
  later than theirs (`ArrivalInv`), which bounds the ancestors; if no arrival is left, the
  first peer in the order with a live path that was not reached would have a parent that
  was not reached either. Two payloads of one length with `DataShards` chunks in common are
  equal (`PayloadDetermined`), and words without an error decode only to themselves
  (`DecodesWord`), since a codeword within half the spare redundancy agrees in `DataShards` symbols.
* `RpcProofs`. `QueuesAreNewest`: a queue is a run of consecutive numbers
  that ends in the last published one, of a length determined by what was drained and by
  the bound; appending, dropping the oldest and draining keep that form. `LimitHolds` by
  cardinality of the live ids; `Survival` and `DeadlinesDecide` action by action.
  `SlotsNeverLeak`: the semaphore's count is a cardinality that every path of a
  connection, failed thread starts included, gives back once. `EventsReachOnce`: what a client received,
  what its thread holds and what is queued are increasing, one after the other
  (`EventInv`). `BatchesAreAnswered`: after i items the answers are those of the first
  i that ask for one (`BatchInv`). `MessagesAreFramed`: the fragment buffer is at any time
  the data frames since the last message, and its size their sum (`WsSound`).
* `TransactionProofs`. `RoutingIsUnique`: a child selects a hash iff its parent does and the
  next bit is its own, so a split or merge keeps exactly one leaf per hash, in the tree in the
  making too. `BatchesUndoNothing`: the batch has turned exactly the shards it operated on from
  leaves to inner shards or back (`Turned`), each once, so no two operations cancel. `IndexesStayCoherent` is inductive with the type of `entries`;
  `PoolIsConflictFree` follows, since two spenders of one outpoint would share its mark.
  `FloorsFollowRates`: a rounded weighted mean lies between its arguments (`MeanBetween`).
  `SelectionsAreGreedy`: the loop's state after i entries is the greedy choice among the
  first i. `LoadsAreSaves`: a keystore file is absent, torn or what one command saved whole.
  `WalletSpendsAreValid` rests on `WalletInv`: an outpoint names one coin for as long as anyone
  remembers it, since new coins get unseen outpoints, and each sent transaction is `IsFunded`:
  such of its coins as still exist are the wallet's, mature and worth what they were when
  selected, and it pays what was asked (`Pays`). Against every fruit, the node's checks then
  come down to those of `MayCarry`: the shard of the day, locks, coins and floor. The loop takes a prefix of distinct coins that covers amount and fee
  (`SelectedCoins`), and what the wallet signs per input is what the node recomputes after
  taking the witnesses off (`SignedInputs`). `SpendsAgree`: `verify_template` decides the
  policy directly (`TemplateDecides`), and the interpreter is executed symbolically.
  `ScriptInv` says which stack a spend has after k operations as long as every check so far
  passed, and that a script which stopped early broke the policy or a limit. Both rest on
  `GreedyMatches`: giving each signature the first key left that verifies it finds a matching
  in key order whenever there is one.
* `NodeCli` holds its own: `ServerIsNamed`, `MutualExclusion`. Strengthened by: the lock
  holder found the file free and it is empty until written; a named process is past
  `_write_pid` and never runs it again; a stop removes only the pid of a process it saw
  dead; a start spawns its child once.

The assumptions on constants are the code's own: bounds, windows, weights and limits that
are numbers and positive where the code divides by them, initial targets within their bounds,
thresholds of finality in order, hashes and timestamps that are numbers, markers that are
no id. Payloads have the types the parsers give them (`LedgerAssumption`, `NodeAssumption`):
finitely many inputs, outputs with unsigned amounts and locks, positive sizes, unsigned fee
floors. The wallet's node starts with finitely many coins of different outpoints
and the anchors' floors are for the leaves of a shard tree (`WalletAssumption`). Outpoints hash to different keys of `Depth` bits (`UtxoAssumption`); a
fruit that Graphene announces is not empty and has distinct short ids under some width and
salt, or the code refuses it (`GrapheneAssumption`). A spend has the types of its fields, and
what is appended to its script either only checks the verdict again or is one of three ways
to spoil it (`SpendsAssumption`): these are the scripts whose verdict the policy predicts.
Nothing is assumed of their validity: amounts, inputs and rewards are arbitrary. The blocks
that nodes build have passed `__post_init__`, and a byte has bits (`BlocksAssumption`); nothing
is assumed of what a peer makes of their parts. Of `reedsolo` it is assumed that any k symbols
of a codeword determine the others (`AnyDetermine` in `DasAssumption` and `TurbineAssumption`,
which TLC evaluates for the field and sizes of the runs); relay peers have different ids, and
shard counts and fanouts are those the code accepts.

Only model-checked:

* liveness (`TerminatedEnds`, `Converges`), which the prover does not do;
* the components whose algorithms are RECURSIVE operators, where the prover has no SMT backend:
  `SetSketch` and `Erlay` (`DecodesDifference`), `RangeCoder` and `Codec` (`CodecsRoundTrip`).
  Their claims are about what a recursion over data computes.

## 6. Not modelled

* The matrix proof of work (`pow/`), hash and signature primitives (`crypto/`): numeric and
  beyond TLC; a valid result is a precondition or a term. The miner is a search over them.
* `genesis.py` and `launch_policy.py` build constants; the genesis hash is a CONSTANT.
* `dynamic_k` is never called by the node, which uses the minimum; `should_split` and
  `should_merge` are thresholds that no code in the node calls.
* Byte widths and byte order, HTTP header parsing, the OpenRPC document, the libp2p wire
  envelope and addresses, the RocksDB binding and row encodings: pure I/O or formatting.
* `estimate_finality_seconds` and `availability_confidence_pct` are display values.
* `status.json`, `init` and `peers` of the command line decide nothing.
* `scripts/launch_gates.py` is a release checklist that keeps no state of the system.
