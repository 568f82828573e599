------------------------------- MODULE Ledger -------------------------------
(***************************************************************************)
(* What applying a block does to a UTXO ledger: spending one transaction   *)
(* (_apply_spend_tx), validating a fruit's transactions, applying an       *)
(* anchor's covered fruits in canonical order and claiming its rewards     *)
(* (_apply_anchor_to_branch), and mempool admission (Mempool.add_tx).      *)
(*                                                                         *)
(* Transactions and coinbases are named by their ids: Tx[t] and            *)
(* Coinbase[c] give their contents, as a hash determines what it hashes.   *)
(* Signatures and witnesses are those of an honest environment; a          *)
(* transaction that fails them, or repeats an input, changes nothing.      *)
(***************************************************************************)
EXTENDS Ghostdag, Rewards, ShardTree

CONSTANTS Tx,             \* tx id -> [ins, outs, size, lockheight, locktime]
          Coinbase,       \* coinbase tx id -> [outs, key]
          BYTES_PER_KB

\* What an output holds beside its script.
Outputs == [amount : Nat, lockheight : Nat, locktime : Nat]

\* Ids are compared as numbers; the parsers see to the types of what they hash.
ASSUME LedgerAssumption ==
  /\ BYTES_PER_KB \in Nat \ {0}
  /\ DOMAIN Tx \subseteq Nat
  /\ \A t \in DOMAIN Tx : /\ IsFiniteSet(Tx[t].ins)
                          /\ Tx[t].outs \in Seq(Outputs)
                          /\ Tx[t].size \in Nat \ {0}
                          /\ {Tx[t].lockheight, Tx[t].locktime} \subseteq Nat
  /\ \A c \in DOMAIN Coinbase : Coinbase[c].outs \in Seq(Outputs) /\ Coinbase[c].key \in Nat

\* Some entries put over others, as dict.update does.
Overlay(new, old) ==
  [x \in DOMAIN new \cup DOMAIN old |-> IF x \in DOMAIN new THEN new[x] ELSE old[x]]

\* An outpoint names the kind and id of what created it, and the output's index.
outpoints(kind, id, outs) == {<<kind, id, i>> : i \in DOMAIN outs}

utxos_from_outputs(kind, id, outs, min_lockheight) ==
  [op \in outpoints(kind, id, outs) |->
     [outs[op[3]] EXCEPT !.lockheight = IF @ >= min_lockheight THEN @ ELSE min_lockheight]]

amounts(coins) == [x \in DOMAIN coins |-> coins[x].amount]

output_sum(outs) == SumFunction(amounts(outs))

\* Zero locks never bind, as both clocks are natural numbers.
check_locks(locked, time, height) == locked.locktime <= time /\ locked.lockheight <= height

\* The low-order bits of a transaction id, by which it is routed.
tx_bits(t) == [i \in 1..SHARD_MAX_DEPTH |-> (t \div (2 ^ (i - 1))) % 2]

burned_fee_matoms(floor, size) == (floor * size) \div BYTES_PER_KB

fee_matoms(utxo, t) ==
  SumFunctionOnSet(amounts(utxo), Tx[t].ins) - output_sum(Tx[t].outs)

tip_matoms(utxo, t, floor) ==
  LET tip == fee_matoms(utxo, t) - burned_fee_matoms(floor, Tx[t].size)
  IN  IF tip >= 0 THEN tip ELSE 0

\* Locks, inputs, scripts and fee: what admission and confirmation both check.
is_spendable(utxo, t, floor, time, height) ==
  /\ check_locks(Tx[t], time, height)
  /\ Tx[t].ins \subseteq DOMAIN utxo
  /\ \A op \in Tx[t].ins : check_locks(utxo[op], time, height)
  /\ fee_matoms(utxo, t) >= 0
  /\ (fee_matoms(utxo, t) * BYTES_PER_KB) \div Tx[t].size >= floor

tx_outputs(t) == utxos_from_outputs("tx", t, Tx[t].outs, 0)

\* Remove the inputs, add the outputs.
apply_spend_tx(utxo, t) ==
  Overlay(tx_outputs(t), Restrict(utxo, DOMAIN utxo \ Tx[t].ins))

\* An output whose outpoint is live is refused.
creates_duplicate(utxo, t) ==
  DOMAIN tx_outputs(t) \cap (DOMAIN utxo \ Tx[t].ins) # {}

floor_of(floors, shard) == IF shard \in DOMAIN floors THEN floors[shard] ELSE 0

can_apply(utxo, t, tree, floors, fruit, height) ==
  /\ route_tx(tree, tx_bits(t)) = fruit.shard
  /\ is_spendable(utxo, t, floor_of(floors, fruit.shard), fruit.ts, height)
  /\ ~ creates_duplicate(utxo, t)

(***************************************************************************)
(* A fruit's transactions against a copy of the active view, one after the *)
(* other, and the tips they pay.                                           *)
(***************************************************************************)
validate_fruit_txs(utxo, tree, floors, fruit, height) ==
  LET Step(acc, t) ==
        IF acc.ok /\ can_apply(acc.utxo, t, tree, floors, fruit, height)
          THEN [ok   |-> TRUE,
                utxo |-> apply_spend_tx(acc.utxo, t),
                tips |-> acc.tips
                          + tip_matoms(acc.utxo, t, floor_of(floors, fruit.shard))]
          ELSE [acc EXCEPT !.ok = FALSE]
  IN  FoldLeft(Step, [ok |-> TRUE, utxo |-> utxo, tips |-> 0], fruit.txs)
-----------------------------------------------------------------------------
(* Anchors.  A branch state is what the code rebuilds along an anchor chain. *)

EmptyBranchState ==
  [height |-> 0, tree |-> ROOT_TREE, floors |-> << >>, utxo |-> << >>, minted |-> 0,
   claimed |-> << >>, confirmed |-> {}]

\* The covered fruits by (blue score, timestamp, hash).
canonical_covered_fruit_order(dag, covered, k) ==
  topological_order(Restrict(dag, covered), Restrict(ghostdag_metadata(dag, k), covered),
                    covered)

\* A transaction is left out when an earlier covered one spent an input of
\* it, or was itself left out and creates an input of it.
is_conflicting(acc, t) ==
  \E op \in Tx[t].ins : op \in acc.spent \/ (op[1] = "tx" /\ op[2] \in acc.skipped)

\* One transaction of a covered fruit; the first that fails ends the anchor.
apply_fruit_tx(acc, f, fruit, t, st, height) ==
  IF ~ acc.ok THEN acc
  ELSE IF is_conflicting(acc, t)
    THEN [acc EXCEPT !.skipped = @ \cup {t}]
  ELSE IF ~ can_apply(acc.utxo, t, st.tree, st.floors, fruit, height)
    THEN [acc EXCEPT !.ok = FALSE]
  ELSE [acc EXCEPT !.utxo    = apply_spend_tx(@, t),
                   !.spent   = @ \cup Tx[t].ins,
                   !.tips[f] = @ + tip_matoms(acc.utxo, t, floor_of(st.floors, fruit.shard))]

apply_fruit_txs(acc, f, fruit, st, height) ==
  FoldLeft(LAMBDA before, t : apply_fruit_tx(before, f, fruit, t, st, height), acc, fruit.txs)

apply_anchor_fruits(fruits, ordered, st, height) ==
  FoldLeft(LAMBDA acc, f : apply_fruit_txs(acc, f, fruits[f], st, height),
           [ok |-> TRUE, utxo |-> st.utxo, spent |-> {}, skipped |-> {},
            tips |-> [f \in ToSet(ordered) |-> 0]],
           ordered)

coinbase_claim(fruit) == output_sum(Coinbase[fruit.coinbase].outs)

\* Faulty: coinbase claims are not counted.
minted_reward_only(fruits, anchor, tips) == output_sum(anchor.rewards)

\* New issuance of an anchor: its reward and what coinbases claim above their tips.
minted_increment(fruits, anchor, tips) ==
  output_sum(anchor.rewards)
    + SumFunction([f \in anchor.covered |->
                     LET claim == coinbase_claim(fruits[f])
                     IN  IF claim >= tips[f] THEN claim - tips[f] ELSE 0])

(***************************************************************************)
(* _claim_anchor_rewards: every check of the rewards an anchor claims.     *)
(***************************************************************************)
may_claim_rewards(fruits, a, anchor, st, applied) ==
  LET subsidy == interval_subsidy_matoms(anchor.height, st.minted)
      assigned == fruit_subsidy_assignments(
                    [f \in anchor.covered |-> Coinbase[fruits[f].coinbase].key],
                    subsidy, anchor.target)
      coinbase_outpoints(f) == outpoints("coinbase", fruits[f].coinbase,
                                         Coinbase[fruits[f].coinbase].outs)
  IN  /\ output_sum(anchor.rewards)
           <= anchor_pool(Cardinality(anchor.covered), subsidy, anchor.target)
      /\ \A f \in anchor.covered :
           /\ f \notin DOMAIN st.claimed
           /\ coinbase_claim(fruits[f]) <= assigned[f] + applied.tips[f]
           /\ coinbase_outpoints(f) \cap DOMAIN applied.utxo = {}
           /\ \A g \in anchor.covered \ {f} :
                coinbase_outpoints(f) \cap coinbase_outpoints(g) = {}
      /\ outpoints("anchor", a, anchor.rewards) \cap DOMAIN applied.utxo = {}
      /\ st.minted + minted_increment(fruits, anchor, applied.tips) <= MAX_SUPPLY_MATOMS

reward_utxos(fruits, a, anchor) ==
  LET maturity == coinbase_maturity_height(anchor.height)
      created  == {utxos_from_outputs("coinbase", fruits[f].coinbase,
                                      Coinbase[fruits[f].coinbase].outs, maturity)
                     : f \in anchor.covered}
                  \cup {utxos_from_outputs("anchor", a, anchor.rewards, 0)}
  IN  [op \in UNION {DOMAIN c : c \in created} |->
         (CHOOSE c \in created : op \in DOMAIN c)[op]]

\* The columns that follow the anchor itself.
advance(anchor, st) ==
  [st EXCEPT !.height = anchor.height, !.tree = anchor.tree, !.floors = anchor.floors]

\* The columns once an anchor's rewards are claimed.
state_after_claims(fruits, a, anchor, st, applied) ==
  [height    |-> anchor.height,
   tree      |-> anchor.tree,
   floors    |-> anchor.floors,
   utxo      |-> Overlay(reward_utxos(fruits, a, anchor), applied.utxo),
   minted    |-> st.minted + minted_increment(fruits, anchor, applied.tips),
   claimed   |-> Overlay([f \in anchor.covered |-> anchor.height], st.claimed),
   confirmed |-> st.confirmed \cup UNION {ToSet(fruits[f].txs) : f \in anchor.covered}]

\* The state after an anchor whose fruits were applied, or a refusal.
claim_anchor_rewards(fruits, a, anchor, st, applied) ==
  IF applied.ok /\ may_claim_rewards(fruits, a, anchor, st, applied)
    THEN [ok |-> TRUE, st |-> state_after_claims(fruits, a, anchor, st, applied)]
    ELSE [ok |-> FALSE, st |-> st]

\* The state after an anchor that covers the given fruits.
apply_covering(fruits, dag, k, a, anchor, st) ==
  LET covered == Restrict(fruits, anchor.covered)
      order   == canonical_covered_fruit_order(dag, anchor.covered, k)
  IN  claim_anchor_rewards(covered, a, anchor, st,
                           apply_anchor_fruits(covered, order, st, anchor.height))

\* Faulty: covers what is there at the time, not what the anchor named.
apply_covering_all(fruits, dag, k, a, anchor, st) ==
  IF anchor.covered = {} THEN [ok |-> TRUE, st |-> advance(anchor, st)]
  ELSE apply_covering(fruits, dag, k, a,
                      [anchor EXCEPT !.covered = DOMAIN dag \ DOMAIN st.claimed], st)

(***************************************************************************)
(* _apply_anchor_to_branch: the state after an anchor, or a refusal.  A    *)
(* genesis anchor covers nothing and claims nothing.                       *)
(***************************************************************************)
apply_anchor_to_branch(fruits, dag, k, a, anchor, st) ==
  IF anchor.covered = {} THEN [ok |-> TRUE, st |-> advance(anchor, st)]
  ELSE IF anchor.covered \subseteq DOMAIN dag THEN apply_covering(fruits, dag, k, a, anchor, st)
  ELSE [ok |-> FALSE, st |-> st]

\* One anchor of a replay; an anchor that is refused ends it.
replay_anchor(fruits, dag, k, a, anchor, before) ==
  IF before.ok THEN apply_anchor_to_branch(fruits, dag, k, a, anchor, before.st) ELSE before

\* _rebuild_anchor_branch_state: the replay of every stored anchor's chain.
branch_states(fruits, anchors, dag, k) ==
  LET st[a \in DOMAIN anchors \cup {NoHash}] ==
        IF a = NoHash THEN [ok |-> TRUE, st |-> EmptyBranchState]
        ELSE replay_anchor(fruits, dag, k, a, anchors[a], st[anchors[a].parent])
  IN  st
-----------------------------------------------------------------------------
(* The mempool, as the set of its transactions.                            *)

pool_spends(pool) == UNION {Tx[t].ins : t \in pool}

\* add_tx: no duplicate, no conflict with the pool, spendable at its floor.
admits(pool, t, utxo, tree, floors, height) ==
  /\ t \notin pool
  /\ Tx[t].ins \cap pool_spends(pool) = {}
  /\ is_spendable(utxo, t, floor_of(floors, route_tx(tree, tx_bits(t))), 0, height)

\* _rebuild_mempool: re-admit transactions in id order; the rest is stale.
rebuild_mempool(txs, utxo, tree, floors, height) ==
  FoldLeft(LAMBDA pool, t : IF admits(pool, t, utxo, tree, floors, height)
                              THEN pool \cup {t} ELSE pool,
           {}, InOrder(txs, {p \in txs \X txs : p[1] < p[2]}))
=============================================================================
