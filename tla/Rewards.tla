------------------------------ MODULE Rewards -------------------------------
(***************************************************************************)
(* consensus/rewards.py: the subsidy of an anchor interval, its split      *)
(* between the covered fruits and the anchor, and coinbase maturity.       *)
(***************************************************************************)
EXTENDS AnchorDAA, FiniteSets

CONSTANTS MAX_SUPPLY_MATOMS,
          INITIAL_EPOCH_SUBSIDY_MATOMS,   \* issued during the first halving epoch
          HALVING_INTERVAL_ANCHORS,       \* anchor intervals per epoch
          COINBASE_MATURITY_ANCHORS,
          FRUIT_REWARD_WEIGHT

ASSUME RewardsAssumption ==
  /\ {MAX_SUPPLY_MATOMS, INITIAL_EPOCH_SUBSIDY_MATOMS, COINBASE_MATURITY_ANCHORS}
       \subseteq Nat
  /\ {HALVING_INTERVAL_ANCHORS, FRUIT_REWARD_WEIGHT} \subseteq Nat \ {0}

\* INITIAL_EPOCH_SUBSIDY_MATOMS >> epoch
epoch_pool(epoch) ==
  LET shifted[e \in 0..epoch] ==
        IF e = 0 THEN INITIAL_EPOCH_SUBSIDY_MATOMS ELSE shifted[e - 1] \div 2
  IN  shifted[epoch]

\* The share of the epoch's pool of the interval with that index in the epoch.
scheduled_subsidy(epoch, index) ==
  epoch_pool(epoch) \div HALVING_INTERVAL_ANCHORS
    + (IF index < epoch_pool(epoch) % HALVING_INTERVAL_ANCHORS THEN 1 ELSE 0)

interval_subsidy_matoms(anchor_height, minted_supply) ==
  LET scheduled == scheduled_subsidy((anchor_height - 1) \div HALVING_INTERVAL_ANCHORS,
                                     (anchor_height - 1) % HALVING_INTERVAL_ANCHORS)
      remaining == MAX_SUPPLY_MATOMS - minted_supply
  IN  IF scheduled <= remaining THEN scheduled ELSE remaining

fruit_pool(fruit_count, interval_subsidy, anchor_target) ==
  IF fruit_count = 0 THEN 0
  ELSE LET fruit_weight == fruit_count * FRUIT_REWARD_WEIGHT
       IN  (interval_subsidy * fruit_weight)
             \div (fruit_weight + anchor_work_weight(anchor_target))

anchor_pool(fruit_count, interval_subsidy, anchor_target) ==
  interval_subsidy - fruit_pool(fruit_count, interval_subsidy, anchor_target)

(***************************************************************************)
(* The fruit pool in equal parts, the remainder one matom each to the      *)
(* first fruits by (reward key, fruit hash).  keys maps the covered fruits *)
(* to their reward keys.                                                   *)
(***************************************************************************)
fruit_subsidy_assignments(keys, interval_subsidy, anchor_target) ==
  LET fruits == DOMAIN keys
      count  == Cardinality(fruits)
      pool   == fruit_pool(count, interval_subsidy, anchor_target)
      Rank(f) == Cardinality({g \in fruits : keys[g] < keys[f]
                                             \/ (keys[g] = keys[f] /\ g < f)})
  IN  [f \in fruits |-> pool \div count + (IF Rank(f) < pool % count THEN 1 ELSE 0)]

\* Faulty: mature one anchor early.
maturity_one_early(anchor_height) == anchor_height + COINBASE_MATURITY_ANCHORS - 1

coinbase_maturity_height(anchor_height) == anchor_height + COINBASE_MATURITY_ANCHORS
=============================================================================
