------------------------------- MODULE Mempool -------------------------------
(***************************************************************************)
(* class Mempool of mempool/mempool.py: pending transactions of one shard  *)
(* tree, indexed by id, by shard and by the outpoints they spend, and the  *)
(* fee floor of each shard with the window of fruits it follows.           *)
(*                                                                         *)
(* The caller passes a UTXO view with each transaction: here the set of    *)
(* outpoints that exist and whose scripts and locks pass.  Coinbases are   *)
(* never admitted, so the entries' is_coinbase is always false.            *)
(***************************************************************************)
EXTENDS Integers, SequencesExt, FiniteSetsExt

CONSTANTS Tx,                          \* tx id -> [ins, shard, size, fee]
          Shards,
          Views,                       \* UTXO views a caller can pass
          Floors,                      \* floors a caller can set
          Samples,                     \* confirmed fruits: [fees, bytes]
          BYTES_PER_KB, FEE_FLOOR_WINDOW_FRUITS, FEE_FLOOR_MIN_MATOMS_PER_KB,
          FEE_FLOOR_EWMA_PREV_WEIGHT, FEE_FLOOR_EWMA_NEW_WEIGHT, FEE_FLOOR_EWMA_DEN

ASSUME MempoolAssumption ==
  /\ \A t \in DOMAIN Tx : /\ Tx[t].shard \in Shards
                          /\ Tx[t].size \in Nat \ {0} /\ Tx[t].fee \in Int
  /\ DOMAIN Tx \subseteq Nat
  /\ Floors \subseteq Nat
  /\ Samples \subseteq [fees : Nat, bytes : Nat]
  /\ BYTES_PER_KB \in Nat \ {0} /\ FEE_FLOOR_WINDOW_FRUITS \in Nat \ {0}
  /\ FEE_FLOOR_MIN_MATOMS_PER_KB \in Nat
  /\ FEE_FLOOR_EWMA_PREV_WEIGHT \in Nat \ {0} /\ FEE_FLOOR_EWMA_NEW_WEIGHT \in Nat \ {0}
  /\ FEE_FLOOR_EWMA_DEN = FEE_FLOOR_EWMA_PREV_WEIGHT + FEE_FLOOR_EWMA_NEW_WEIGHT

VARIABLES entries,                     \* the ids of the pending transactions
          entries_by_shard,            \* shard -> nonempty set of ids
          spent_outpoints,             \* outpoint -> id of its spender
          fee_floors,                  \* shard -> floor, where one was set
          fee_histories                \* shard -> window of samples, oldest first

poolVars == <<entries, entries_by_shard, spent_outpoints, fee_floors, fee_histories>>

PoolInit == /\ entries = {}
            /\ entries_by_shard = << >>
            /\ spent_outpoints = << >>
            /\ fee_floors = << >>
            /\ fee_histories = << >>
-----------------------------------------------------------------------------
fee_rate_matoms_per_kb(t) == (Tx[t].fee * BYTES_PER_KB) \div Tx[t].size

fee_floor(shard) ==
  IF shard \in DOMAIN fee_floors THEN fee_floors[shard] ELSE FEE_FLOOR_MIN_MATOMS_PER_KB

at_least_min(floor) ==
  IF floor >= FEE_FLOOR_MIN_MATOMS_PER_KB THEN floor ELSE FEE_FLOOR_MIN_MATOMS_PER_KB

with_entry(dict, key, value) ==
  [x \in DOMAIN dict \cup {key} |-> IF x = key THEN value ELSE dict[x]]

bucket(shard) == IF shard \in DOMAIN entries_by_shard THEN entries_by_shard[shard] ELSE {}

\* The buckets without ids, the emptied ones deleted.
buckets_without(ids) ==
  [shard \in {s \in DOMAIN entries_by_shard : ~(entries_by_shard[s] \subseteq ids)} |->
     entries_by_shard[shard] \ ids]

\* Faulty: the outpoints stay spent.
outpoints_kept(ids) == spent_outpoints

\* The outpoints that ids do not spend.
outpoints_without(ids) ==
  [op \in {o \in DOMAIN spent_outpoints : spent_outpoints[o] \notin ids} |-> spent_outpoints[op]]

\* _remove_entry of each of ids.
remove_entries(ids) ==
  /\ entries' = entries \ ids
  /\ entries_by_shard' = buckets_without(ids)
  /\ spent_outpoints' = outpoints_without(ids)

\* _assess_spends
assess_spends(t, view) ==
  /\ Tx[t].ins # {}
  /\ Tx[t].ins \cap DOMAIN spent_outpoints = {}
  /\ Tx[t].ins \subseteq view
  /\ Tx[t].fee >= 0

add_tx(t, view) ==
  /\ t \notin entries
  /\ assess_spends(t, view)
  /\ fee_rate_matoms_per_kb(t) >= fee_floor(Tx[t].shard)
  /\ entries' = entries \cup {t}
  /\ entries_by_shard' =
       with_entry(entries_by_shard, Tx[t].shard, bucket(Tx[t].shard) \cup {t})
  /\ spent_outpoints' =
       [op \in DOMAIN spent_outpoints \cup Tx[t].ins |->
          IF op \in Tx[t].ins THEN t ELSE spent_outpoints[op]]
  /\ UNCHANGED <<fee_floors, fee_histories>>

remove(t) ==
  /\ t \in entries
  /\ remove_entries({t})
  /\ UNCHANGED <<fee_floors, fee_histories>>

set_fee_floor(shard, floor) ==
  fee_floors' = with_entry(fee_floors, shard, at_least_min(floor))

\* evict_below_floor compares with the floor it was given, not the one it set.
evict_below(shard, floor) ==
  remove_entries({t \in bucket(shard) : fee_rate_matoms_per_kb(t) < floor})

evict_below_floor(shard) ==
  evict_below(shard, fee_floor(shard)) /\ UNCHANGED <<fee_floors, fee_histories>>

evict_below_new_floor(shard, floor) ==
  /\ set_fee_floor(shard, floor)
  /\ evict_below(shard, floor)
  /\ UNCHANGED fee_histories
-----------------------------------------------------------------------------
(* The fee floor follows the recent fruits of the shard.                   *)

\* recent_fee_rate of a window, the minimum when it is empty.
recent_fee_rate(window) ==
  LET fees  == SumFunction([i \in DOMAIN window |-> window[i].fees])
      bytes == SumFunction([i \in DOMAIN window |-> window[i].bytes])
  IN  IF window = << >> THEN FEE_FLOOR_MIN_MATOMS_PER_KB
      ELSE (fees * BYTES_PER_KB) \div (IF bytes >= 1 THEN bytes ELSE 1)

\* Faulty: divided by the weight of the previous floor only.
floor_over_previous(previous, rate) ==
  at_least_min((FEE_FLOOR_EWMA_PREV_WEIGHT * previous + FEE_FLOOR_EWMA_NEW_WEIGHT * rate)
                 \div FEE_FLOOR_EWMA_PREV_WEIGHT)

calculate_next_fee_floor(previous, rate) ==
  at_least_min((FEE_FLOOR_EWMA_PREV_WEIGHT * previous + FEE_FLOOR_EWMA_NEW_WEIGHT * rate)
                 \div FEE_FLOOR_EWMA_DEN)

history(shard) == IF shard \in DOMAIN fee_histories THEN fee_histories[shard] ELSE << >>

record_confirmed_fruit(shard, sample) ==
  LET full   == Len(history(shard)) = FEE_FLOOR_WINDOW_FRUITS
      window == Append(IF full THEN Tail(history(shard)) ELSE history(shard), sample)
  IN  /\ fee_histories' = with_entry(fee_histories, shard, window)
      /\ fee_floors' = with_entry(fee_floors, shard,
                         calculate_next_fee_floor(fee_floor(shard), recent_fee_rate(window)))
      /\ UNCHANGED <<entries, entries_by_shard, spent_outpoints>>
-----------------------------------------------------------------------------
(* Selection for a fruit.                                                  *)

\* The raw bytes of transactions, which is what the loop counts.
sizes == [t \in DOMAIN Tx |-> Tx[t].size]
size_of(ids) == SumFunctionOnSet(sizes, ids)

\* _selection_key: better rate first, then lesser id.
selected_before(t, u) ==
  \/ fee_rate_matoms_per_kb(t) > fee_rate_matoms_per_kb(u)
  \/ fee_rate_matoms_per_kb(t) = fee_rate_matoms_per_kb(u) /\ t < u

\* sorted(..., key=_selection_key); appending nothing makes TLC sort only once.
in_selection_order(ids) ==
  [i \in 1..Cardinality(ids) |->
     CHOOSE t \in ids : Cardinality({u \in ids : selected_before(u, t)}) = i - 1] \o << >>

eligible(shard) == {t \in bucket(shard) : fee_rate_matoms_per_kb(t) >= fee_floor(shard)}

\* Faulty: the first transaction that does not fit ends the selection.
select_until_full(shard, budget) ==
  LET order == in_selection_order(eligible(shard))
      upto(n) == {order[i] : i \in 1..n}
      fits == {n \in 0..Len(order) : size_of(upto(n)) <= budget}
  IN  upto(Max(fits))

\* The ids select_for_fruit returns, in _selection_key order.
select_for_fruit(shard, budget) ==
  FoldLeft(LAMBDA selected, t :
             IF size_of(selected) + Tx[t].size > budget THEN selected ELSE selected \cup {t},
           {}, in_selection_order(eligible(shard)))

\* fruit_payload_size_bytes of a fruit of these transactions: their count and
\* their lengths, two bytes each, are in the payload as well.
fruit_payload_size_bytes(ids) == 2 + 2 * Cardinality(ids) + size_of(ids)

PoolNext == \/ \E t \in DOMAIN Tx, view \in Views : add_tx(t, view)
            \/ \E t \in DOMAIN Tx : remove(t)
            \/ \E shard \in Shards : evict_below_floor(shard)
            \/ \E shard \in Shards, floor \in Floors : evict_below_new_floor(shard, floor)
            \/ \E shard \in Shards, floor \in Floors :
                 /\ set_fee_floor(shard, floor)
                 /\ UNCHANGED <<entries, entries_by_shard, spent_outpoints, fee_histories>>
            \/ \E shard \in Shards, sample \in Samples : record_confirmed_fruit(shard, sample)

PoolSpec == PoolInit /\ [][PoolNext]_poolVars
-----------------------------------------------------------------------------
\* The three indexes describe the same transactions after any sequence of
\* additions, removals and evictions: each entry is in its shard's bucket and no
\* other, no bucket is empty, and an outpoint is marked spent exactly while the
\* transaction that spends it is pending.  A leftover mark would refuse every
\* later spender of that outpoint as a conflict.
IndexesAgree ==
  /\ \A shard \in DOMAIN entries_by_shard :
       /\ entries_by_shard[shard] # {}
       /\ entries_by_shard[shard] = {t \in entries : Tx[t].shard = shard}
  /\ \A t \in entries : Tx[t].shard \in DOMAIN entries_by_shard
  /\ \A t \in entries : \A op \in Tx[t].ins :
       op \in DOMAIN spent_outpoints /\ spent_outpoints[op] = t
  /\ \A op \in DOMAIN spent_outpoints :
       spent_outpoints[op] \in entries /\ op \in Tx[spent_outpoints[op]].ins

\* No two pending transactions spend the same output, although each addition
\* looks only at the index of spent outpoints and at its own view.
NoDoubleSpend == \A t, u \in entries : t # u => Tx[t].ins \cap Tx[u].ins = {}

\* For every shard and budget the raw bytes of the selection stay within the
\* budget, and a transaction that pays the floor is left out only if, counted the
\* same way, it does not fit beside the better ones.
SelectionIsGreedy ==
  \A shard \in Shards, budget \in 0..size_of(entries) :
    LET selected == select_for_fruit(shard, budget) IN
      /\ selected \subseteq eligible(shard) /\ size_of(selected) <= budget
      /\ \A t \in eligible(shard) \ selected :
           size_of({u \in selected : selected_before(u, t)}) + Tx[t].size > budget

\* "Select pending transactions for one fruit without exceeding payload budget":
\* the payload of a fruit of the selection, as Fruit's constructor counts it, is
\* within the budget.
SelectionFitsFruit ==
  \A shard \in Shards, budget \in 0..size_of(entries) :
    LET selected == select_for_fruit(shard, budget)
    IN  selected # {} => fruit_payload_size_bytes(selected) <= budget

\* A confirmed fruit moves the floor of its shard towards the recent rate and
\* never past it, in spite of the rounding and of the minimum.
FloorFollowsRate ==
  [][\A shard \in Shards, sample \in Samples :
       record_confirmed_fruit(shard, sample) =>
         LET rate == recent_fee_rate(fee_histories'[shard])
             low  == IF rate <= fee_floor(shard) THEN rate ELSE fee_floor(shard)
             high == at_least_min(IF rate <= fee_floor(shard) THEN fee_floor(shard) ELSE rate)
         IN  low <= fee_floors'[shard] /\ fee_floors'[shard] <= high]_poolVars
=============================================================================
