----------------------------- MODULE NodeProofs -----------------------------
(***************************************************************************)
(* Invariants of Node for every set of blocks and transactions: fork       *)
(* choice, the fruit DAG and its cache, the memory after a crash, the      *)
(* replay of branches, the supply of coins and the mempool.                *)
(***************************************************************************)
EXTENDS Node, GhostdagProofs, SequenceTheorems, TLAPS

\* An empty column has no keys.
LEMMA EmptyDomain == DOMAIN << >> = {}
OBVIOUS

\* The work of an anchor is a natural number, whatever its target.
LEMMA WorkWeight == \A target : anchor_work_weight(target) \in Nat
BY DAAAssumption DEF anchor_work_weight

-----------------------------------------------------------------------------
(* Fork choice.                                                            *)

IsMeta(m) == m.work \in Nat /\ m.height \in Nat

\* _is_better_anchor_tip is a strict total order on anchors with distinct hashes.
LEMMA BetterIsTotal ==
  ASSUME NEW a \in Nat, NEW b \in Nat, a # b, NEW m, IsMeta(m), NEW n, IsMeta(n),
         ~ is_better_anchor_tip(a, m, b, n)
  PROVE  is_better_anchor_tip(b, n, a, m)
BY DEF is_better_anchor_tip, IsMeta

\* The order is transitive.
LEMMA BetterIsTransitive ==
  ASSUME NEW a \in Nat, NEW b \in Nat, NEW c \in Nat,
         NEW m, IsMeta(m), NEW n, IsMeta(n), NEW o, IsMeta(o),
         is_better_anchor_tip(a, m, b, n), is_better_anchor_tip(b, n, c, o)
  PROVE  is_better_anchor_tip(a, m, c, o)
BY DEF is_better_anchor_tip, IsMeta

\* TipIsBest with what it needs of the stored anchors.
TipInv ==
  /\ \A a \in DOMAIN anchors : a \in Nat \ {NoHash} /\ IsMeta(anchors[a])
  /\ active.tip \in DOMAIN anchors \cup {NoHash}
  /\ TipIsBest

\* The heart of the argument: one arrival compares itself with every stored
\* anchor, and the order is total, so losing to one means losing to the tip.
LEMMA StoreKeepsTip ==
  ASSUME TipInv, NEW a \in AnchorIds, a \notin DOMAIN anchors,
         NEW anchor, IsMeta(anchor), NEW st, store_anchor(a, anchor, st)
  PROVE  TipInv'
<1>1. a \in Nat \ {NoHash}
  BY NodeAssumption
<1>2. /\ DOMAIN anchors' = DOMAIN anchors \cup {a}
      /\ anchors'[a] = anchor
      /\ \A b \in DOMAIN anchors : anchors'[b] = anchors[b]
  <2>1. anchors' = Extend(anchors, a, anchor)
    BY DEF store_anchor
  <2> QED BY <2>1 DEF Extend
<1>3. \A b \in DOMAIN anchors' : b \in Nat \ {NoHash} /\ IsMeta(anchors'[b])
  BY <1>1, <1>2 DEF TipInv
<1>4. CASE becomes_best_tip(a, anchor)
  <2>1. active'.tip = a
    BY <1>4 DEF store_anchor, active_chain_batch, active_columns
  <2>2. \A b \in DOMAIN anchors : is_better_anchor_tip(a, anchor, b, anchors[b])
    BY <1>4 DEF becomes_best_tip
  <2>3. TipIsBest'
    BY <1>1, <1>2, <2>1, <2>2 DEF TipIsBest, is_better_anchor_tip
  <2> QED BY <1>2, <1>3, <2>1, <2>3 DEF TipInv, IsMeta
<1>5. CASE ~ becomes_best_tip(a, anchor)
  <2>1. active' = active
    BY <1>5 DEF store_anchor
  <2>2. PICK b \in DOMAIN anchors : ~ is_better_anchor_tip(a, anchor, b, anchors[b])
    BY <1>5 DEF becomes_best_tip
  <2> DEFINE tip == active.tip
  <2>3. tip \in DOMAIN anchors
    BY <2>2, EmptyDomain DEF TipInv, TipIsBest
  <2>4. is_better_anchor_tip(b, anchors[b], a, anchor)
    BY <1>1, <2>2, BetterIsTotal DEF TipInv
  <2>5. is_better_anchor_tip(tip, anchors[tip], a, anchor)
    <3>1. CASE tip = b
      BY <2>4, <3>1
    <3>2. CASE tip # b
      <4>1. is_better_anchor_tip(tip, anchors[tip], b, anchors[b])
        BY <3>2 DEF TipInv, TipIsBest
      <4> QED BY <1>1, <2>3, <2>4, <4>1, BetterIsTransitive DEF TipInv
    <3> QED BY <3>1, <3>2
  <2>6. TipIsBest'
    <3>1. tip # NoHash
      BY <2>3 DEF TipInv
    <3>2. \A c \in DOMAIN anchors' \ {tip} :
            is_better_anchor_tip(tip, anchors'[tip], c, anchors'[c])
      BY <1>2, <2>3, <2>5 DEF TipInv, TipIsBest
    <3> QED BY <2>1, <3>1, <3>2 DEF TipIsBest, is_better_anchor_tip
  <2> QED BY <1>2, <1>3, <2>1, <2>3, <2>6 DEF TipInv, IsMeta
<1> QED BY <1>4, <1>5

\* The active tip is the best stored anchor by work, height and hash, in every
\* order in which blocks can arrive.
THEOREM ForkChoice == Spec => []TipIsBest
<1>1. Init => TipInv
  BY EmptyDomain DEF Init, TipInv, TipIsBest, active_columns
<1>2. TipInv /\ [Next]_vars => TipInv'
  <2> SUFFICES ASSUME TipInv, [Next]_vars PROVE TipInv'
    OBVIOUS
  <2>1. ASSUME UNCHANGED <<anchors, active>> PROVE TipInv'
    BY <2>1 DEF TipInv, TipIsBest, IsMeta, is_better_anchor_tip
  <2>2. ASSUME NEW a \in AnchorIds, NEW ts \in AnchorTimes, process_genesis(a, ts)
        PROVE  TipInv'
    <3> DEFINE anchor == [parent |-> NoHash, covered |-> {}, cands |-> << >>, ts |-> ts,
                          rewards |-> << >>, tree |-> ROOT_TREE,
                          floors |-> [shard \in ROOT_TREE |-> 0],
                          height |-> 0, target |-> ANCHOR_INITIAL_TARGET,
                          work |-> anchor_work_weight(ANCHOR_INITIAL_TARGET)]
               applied == apply_anchor_to_branch(fruits, fruit_dag, DYNAMIC_K_MIN, a, anchor,
                                                 EmptyBranchState)
    <3>1. a \notin DOMAIN anchors /\ store_anchor(a, anchor, applied.st)
      BY <2>2, EmptyDomain DEF process_genesis
    <3>2. IsMeta(anchor)
      BY WorkWeight DEF IsMeta
    <3> HIDE DEF anchor, applied
    <3> QED BY <3>1, <3>2, StoreKeepsTip
  <2>3. ASSUME NEW a \in AnchorIds, NEW parent \in DOMAIN anchors,
               NEW covered \in SUBSET DOMAIN fruits, NEW ts \in AnchorTimes,
               NEW payload \in AnchorPayloads[a],
               process_anchor(a, parent, covered, ts, payload)
        PROVE  TipInv'
    <3> DEFINE target == next_anchor_target(anchor_history(parent))
               anchor == [parent |-> parent, covered |-> covered,
                          cands |-> canonical_parent_candidates, ts |-> ts,
                          rewards |-> payload.rewards, tree |-> payload.tree,
                          floors |-> payload.floors,
                          height |-> anchors[parent].height + 1, target |-> target,
                          work |-> anchors[parent].work + anchor_work_weight(target)]
               branch == branch_states(fruits, anchors, fruit_dag, DYNAMIC_K_MIN)[parent]
               applied == apply_anchor_to_branch(fruits, fruit_dag, DYNAMIC_K_MIN, a, anchor,
                                                 branch.st)
    <3>1. a \notin DOMAIN anchors /\ store_anchor(a, anchor, applied.st)
      BY <2>3 DEF process_anchor
    <3>2. IsMeta(anchor)
      <4>1. anchors[parent].work \in Nat /\ anchors[parent].height \in Nat
        BY DEF TipInv, IsMeta
      <4>2. anchor_work_weight(target) \in Nat
        BY WorkWeight
      <4> HIDE DEF target
      <4> QED BY <4>1, <4>2 DEF IsMeta
    <3> HIDE DEF anchor, applied
    <3> QED BY <3>1, <3>2, StoreKeepsTip
  <2>4. ASSUME NEW t \in DOMAIN Tx, process_raw_tx(t) PROVE TipInv'
    BY <2>1, <2>4 DEF process_raw_tx
  <2>5. ASSUME NEW f, NEW fruit, process_fruit(f, fruit) PROVE TipInv'
    BY <2>1, <2>5 DEF process_fruit
  <2>6. ASSUME NEW f, get_finality(f) PROVE TipInv'
    BY <2>1, <2>6 DEF get_finality
  <2>7. CASE refresh_after_fruit
    BY <2>1, <2>7 DEF refresh_after_fruit
  <2>8. CASE refresh_after_anchor
    BY <2>1, <2>8 DEF refresh_after_anchor
  <2>9. CASE restart
    BY <2>1, <2>9 DEF restart
  <2>10. CASE UNCHANGED vars
    BY <2>1, <2>10 DEF vars
  <2> QED
    BY <2>2, <2>3, <2>4, <2>5, <2>6, <2>7, <2>8, <2>9, <2>10 DEF Next, OfferFruit, OfferAnchor
<1>3. TipInv => TipIsBest
  BY DEF TipInv
<1> QED BY <1>1, <1>2, <1>3, PTL DEF Spec

-----------------------------------------------------------------------------
(* The fruit DAG and its cache.                                            *)

\* DagAlwaysBuilds makes the DAG of the stored fruits independent of anchors
\* that arrive later, which is what keeps a cached DAG fresh.
DagInv == DagAlwaysBuilds /\ DagCacheFresh

\* Neither stored fruits nor the anchors they build on: the DAG is as before.
LEMMA SameDag ==
  ASSUME DagAlwaysBuilds, fruits' = fruits,
         DOMAIN anchors \subseteq DOMAIN anchors',
         \A b \in DOMAIN anchors : anchors'[b] = anchors[b]
  PROVE  DagAlwaysBuilds' /\ stored_dag' = stored_dag
<1>1. \A f \in DOMAIN fruits : /\ fruits[f].latest \in DOMAIN anchors
                              /\ fruit_parents_for_dag(f)' = fruit_parents_for_dag(f)
  BY DEF DagAlwaysBuilds, dag_builds, fruit_parents_for_dag
<1>2. stored_dag' = stored_dag
  BY <1>1 DEF stored_dag
<1>3. dag_builds'
  BY <1>1 DEF DagAlwaysBuilds, dag_builds
<1>4. DagAlwaysBuilds'
  BY <1>3 DEF DagAlwaysBuilds
<1> QED BY <1>2, <1>4

\* A stored fruit keeps its parents, and the new one has only stored, older ones.
LEMMA FruitKeepsDag ==
  ASSUME DagAlwaysBuilds, NEW f, NEW fruit, process_fruit(f, fruit)
  PROVE  DagAlwaysBuilds'
<1>1. /\ f \notin DOMAIN fruits
      /\ anchors' = anchors
      /\ fruits' = Extend(fruits, f, fruit)
      /\ fruit_dependencies_valid(fruit)
  BY DEF process_fruit
<1>2. /\ DOMAIN fruits' = DOMAIN fruits \cup {f}
      /\ fruits'[f] = fruit
      /\ \A g \in DOMAIN fruits : fruits'[g] = fruits[g]
  BY <1>1 DEF Extend
<1>3. /\ fruit.latest \in DOMAIN anchors
      /\ fruit.bitmap \subseteq DOMAIN anchors[fruit.latest].cands
      /\ fruit.selected = NoHash => fruits = << >>
      /\ \A p \in effective_parent_hashes(fruit, anchors[fruit.latest].cands) \ {NoHash} :
           p \in DOMAIN fruits /\ fruits[p].ts < fruit.ts
  BY <1>1 DEF fruit_dependencies_valid
<1>4. \A g \in DOMAIN fruits : fruit_parents_for_dag(g)' = fruit_parents_for_dag(g)
  BY <1>1, <1>2 DEF fruit_parents_for_dag
<1>5. fruit_parents_for_dag(f)'
        = effective_parent_hashes(fruit, anchors[fruit.latest].cands) \ {NoHash}
  BY <1>1, <1>2 DEF fruit_parents_for_dag
<1>6. dag_builds'
  <2> SUFFICES ASSUME NEW g \in DOMAIN fruits'
               PROVE  /\ fruits'[g].latest \in DOMAIN anchors'
                      /\ fruits'[g].bitmap \subseteq DOMAIN anchors'[fruits'[g].latest].cands
                      /\ \A p \in fruit_parents_for_dag(g)' :
                           p \in DOMAIN fruits' /\ fruits'[p].ts < fruits'[g].ts
    BY DEF dag_builds
  <2>1. CASE g = f
    BY <1>1, <1>2, <1>3, <1>5, <2>1
  <2>2. CASE g \in DOMAIN fruits
    BY <1>1, <1>2, <1>4, <2>2 DEF DagAlwaysBuilds, dag_builds
  <2> QED BY <1>2, <2>1, <2>2
<1>7. \A g, h \in DOMAIN fruits' :
        fruits'[g].selected = NoHash /\ fruits'[h].selected = NoHash => g = h
  <2>1. CASE fruit.selected = NoHash
    <3>1. DOMAIN fruits = {}
      BY <1>3, <2>1, EmptyDomain
    <3> QED BY <1>2, <3>1
  <2>2. CASE fruit.selected # NoHash
    BY <1>2, <2>2 DEF DagAlwaysBuilds
  <2> QED BY <2>1, <2>2
<1> QED BY <1>6, <1>7 DEF DagAlwaysBuilds

\* Every stored fruit's parents are stored and older, there is one root, and no
\* order, score or candidate list is computed from a cached DAG that misses a
\* stored fruit.
THEOREM DagIsSound == Spec => []DagSound
<1>1. Init => DagInv
  BY EmptyDomain DEF Init, DagInv, DagAlwaysBuilds, DagCacheFresh, dag_builds
<1>2. DagInv /\ [Next]_vars => DagInv'
  <2> SUFFICES ASSUME DagInv, [Next]_vars PROVE DagInv'
    OBVIOUS
  <2>1. ASSUME UNCHANGED <<fruits, anchors>>
        PROVE  DagAlwaysBuilds' /\ stored_dag' = stored_dag
    BY <2>1, SameDag DEF DagInv
  <2>2. ASSUME pc = "idle", fruit_dag_cache' = fruit_dag, stored_dag' = stored_dag
        PROVE  DagCacheFresh'
    BY <2>2 DEF DagInv, DagCacheFresh, fruit_dag
  <2>3. ASSUME NEW a, a \notin DOMAIN anchors, NEW anchor, NEW st, store_anchor(a, anchor, st),
               pc = "idle", fruit_dag_cache' = fruit_dag
        PROVE  DagInv'
    <3>1. /\ fruits' = fruits
          /\ anchors' = Extend(anchors, a, anchor)
      BY <2>3 DEF store_anchor
    <3>2. /\ DOMAIN anchors \subseteq DOMAIN anchors'
          /\ \A b \in DOMAIN anchors : anchors'[b] = anchors[b]
      BY <2>3, <3>1 DEF Extend
    <3> QED BY <2>2, <2>3, <3>1, <3>2, SameDag DEF DagInv
  <2>4. ASSUME NEW a, NEW ts, process_genesis(a, ts) PROVE DagInv'
    <3>1. pc = "idle" /\ a \notin DOMAIN anchors /\ fruit_dag_cache' = fruit_dag
      BY <2>4, EmptyDomain DEF process_genesis
    <3>2. PICK anchor, st : store_anchor(a, anchor, st)
      BY <2>4 DEF process_genesis
    <3> QED BY <2>3, <3>1, <3>2
  <2>5. ASSUME NEW a, NEW parent, NEW covered, NEW ts, NEW payload,
               process_anchor(a, parent, covered, ts, payload)
        PROVE  DagInv'
    <3>1. pc = "idle" /\ a \notin DOMAIN anchors /\ fruit_dag_cache' = fruit_dag
      BY <2>5 DEF process_anchor
    <3>2. PICK anchor, st : store_anchor(a, anchor, st)
      BY <2>5 DEF process_anchor
    <3> QED BY <2>3, <3>1, <3>2
  <2>6. ASSUME NEW t, process_raw_tx(t) PROVE DagInv'
    BY <2>1, <2>6 DEF process_raw_tx, DagInv, DagCacheFresh
  <2>7. ASSUME NEW f, NEW fruit, process_fruit(f, fruit) PROVE DagInv'
    <3>1. pc' = "fruit"
      BY <2>7 DEF process_fruit
    <3> QED BY <2>7, <3>1, FruitKeepsDag DEF DagInv, DagCacheFresh
  <2>8. ASSUME NEW f, get_finality(f) PROVE DagInv'
    BY <2>1, <2>2, <2>8 DEF get_finality, DagInv
  <2>9. CASE refresh_after_fruit
    BY <2>1, <2>9 DEF refresh_after_fruit, DagInv, DagCacheFresh
  <2>10. CASE refresh_after_anchor
    BY <2>1, <2>10 DEF refresh_after_anchor, DagInv, DagCacheFresh
  <2>11. CASE restart
    BY <2>1, <2>11 DEF restart, DagInv, DagCacheFresh
  <2>12. CASE UNCHANGED vars
    BY <2>1, <2>12 DEF vars, DagInv, DagCacheFresh
  <2> QED
    BY <2>4, <2>5, <2>6, <2>7, <2>8, <2>9, <2>10, <2>11, <2>12 DEF Next, OfferFruit, OfferAnchor
<1> QED BY <1>1, <1>2, PTL DEF Spec, DagInv, DagSound

-----------------------------------------------------------------------------
(* Memory and store.                                                       *)

\* In the gap of process_anchor it is the staged state that the store holds.
MirrorInv ==
  /\ UtxoMirrorsStore
  /\ pc = "anchor" => staged.utxo = active.utxo /\ staged.tree = active.tree

\* Memory follows the active columns through reorganisations and crashes.
THEOREM MemoryFollowsStore == Spec => []UtxoMirrorsStore
<1>1. Init => MirrorInv
  BY DEF Init, MirrorInv, UtxoMirrorsStore, active_columns, EmptyBranchState
<1>2. MirrorInv /\ [Next]_vars => MirrorInv'
  <2> SUFFICES ASSUME MirrorInv, [Next]_vars PROVE MirrorInv'
    OBVIOUS
  <2> USE DEF MirrorInv, UtxoMirrorsStore
  <2>1. ASSUME NEW a, NEW anchor, NEW st, store_anchor(a, anchor, st), pc = "idle"
        PROVE  MirrorInv'
    <3>1. CASE becomes_best_tip(a, anchor)
      BY <2>1, <3>1 DEF store_anchor, active_chain_batch, active_columns
    <3>2. CASE ~ becomes_best_tip(a, anchor)
      BY <2>1, <3>2 DEF store_anchor
    <3> QED BY <3>1, <3>2
  <2>2. ASSUME NEW a, NEW ts, process_genesis(a, ts) PROVE MirrorInv'
    <3>1. pc = "idle"
      BY <2>2 DEF process_genesis
    <3>2. PICK anchor, st : store_anchor(a, anchor, st)
      BY <2>2 DEF process_genesis
    <3> QED BY <2>1, <3>1, <3>2
  <2>3. ASSUME NEW a, NEW parent, NEW covered, NEW ts, NEW payload,
               process_anchor(a, parent, covered, ts, payload)
        PROVE  MirrorInv'
    <3>1. pc = "idle"
      BY <2>3 DEF process_anchor
    <3>2. PICK anchor, st : store_anchor(a, anchor, st)
      BY <2>3 DEF process_anchor
    <3> QED BY <2>1, <3>1, <3>2
  <2>4. ASSUME NEW t, process_raw_tx(t) PROVE MirrorInv'
    BY <2>4 DEF process_raw_tx
  <2>5. ASSUME NEW f, NEW fruit, process_fruit(f, fruit) PROVE MirrorInv'
    BY <2>5 DEF process_fruit
  <2>6. ASSUME NEW f, get_finality(f) PROVE MirrorInv'
    BY <2>6 DEF get_finality
  <2>7. CASE refresh_after_fruit
    BY <2>7 DEF refresh_after_fruit
  <2>8. CASE refresh_after_anchor
    BY <2>8 DEF refresh_after_anchor
  <2>9. CASE restart
    BY <2>9 DEF restart
  <2>10. CASE UNCHANGED vars
    BY <2>10 DEF vars
  <2> QED
    BY <2>2, <2>3, <2>4, <2>5, <2>6, <2>7, <2>8, <2>9, <2>10 DEF Next, OfferFruit, OfferAnchor
<1>3. MirrorInv => UtxoMirrorsStore
  BY DEF MirrorInv
<1> QED BY <1>1, <1>2, <1>3, PTL DEF Spec
-----------------------------------------------------------------------------
(* Replay: the state of a branch depends on the blocks of its chain alone.  *)

\* Anchors whose parents are stored, one height below.
Chains(stored) ==
  /\ NoHash \notin DOMAIN stored
  /\ \A a \in DOMAIN stored :
       /\ stored[a].height \in Nat
       /\ stored[a].parent \in DOMAIN stored \cup {NoHash}
       /\ stored[a].parent # NoHash => stored[stored[a].parent].height < stored[a].height
  /\ \E n \in Nat : \A a \in DOMAIN stored : stored[a].height < n

StartOfReplay == [ok |-> TRUE, st |-> EmptyBranchState]

\* Every anchor applied to what g gives for its parent.
ReplayOver(bodies, stored, dag, k, g) ==
  [a \in DOMAIN stored \cup {NoHash} |->
     IF a = NoHash THEN StartOfReplay
     ELSE replay_anchor(bodies, dag, k, a, stored[a], g[stored[a].parent])]

\* The replay of an anchor continues that of its parent.
LEMMA ReplayUnfold ==
  ASSUME NEW bodies, NEW stored, Chains(stored), NEW dag, NEW k
  PROVE  branch_states(bodies, stored, dag, k) =
           ReplayOver(bodies, stored, dag, k, branch_states(bodies, stored, dag, k))
<1> DEFINE Below(n) == {NoHash} \cup {a \in DOMAIN stored : stored[a].height < n}
           Replays(g, S) ==
             g = [a \in S |-> IF a = NoHash THEN StartOfReplay
                              ELSE replay_anchor(bodies, dag, k, a, stored[a], g[stored[a].parent])]
           Reached(n) == \E g : Replays(g, Below(n))
           Fails == {n \in Nat : ~ Reached(n)}
<1>0. \A a \in DOMAIN stored :
        /\ a # NoHash /\ stored[a].height \in Nat
        /\ stored[a].parent = NoHash
             \/ (stored[a].parent \in DOMAIN stored
                   /\ stored[stored[a].parent].height < stored[a].height)
  BY DEF Chains
<1>1. Reached(0)
  <2> DEFINE g == [a \in {NoHash} |-> StartOfReplay]
  <2>1. Below(0) = {NoHash}
    BY <1>0
  <2>2. Replays(g, {NoHash})
    OBVIOUS
  <2> HIDE DEF Replays, g, Below
  <2> QED BY <2>1, <2>2
<1>2. ASSUME NEW n \in Nat, Reached(n) PROVE Reached(n + 1)
  <2>1. PICK g : Replays(g, Below(n))
    BY <1>2
  <2> DEFINE h == [a \in Below(n + 1) |->
                     IF a = NoHash THEN StartOfReplay
                     ELSE replay_anchor(bodies, dag, k, a, stored[a], g[stored[a].parent])]
  <2>2. \A a \in Below(n + 1) \ {NoHash} : stored[a].parent \in Below(n)
    BY <1>0
  <2>3. \A a \in Below(n) : a \in Below(n + 1) /\ h[a] = g[a]
    <3>1. Below(n) \subseteq Below(n + 1)
      BY <1>0
    <3>2. \A a \in Below(n) :
            g[a] = IF a = NoHash THEN StartOfReplay
                   ELSE replay_anchor(bodies, dag, k, a, stored[a], g[stored[a].parent])
      <4> HIDE DEF Below
      <4> QED BY <2>1, Zenon
    <3> HIDE DEF Below
    <3> QED BY <3>1, <3>2, Zenon
  <2>4. \A a \in Below(n + 1) \ {NoHash} : g[stored[a].parent] = h[stored[a].parent]
    <3> HIDE DEF h, Below
    <3> QED BY <2>2, <2>3
  <2>5. Replays(h, Below(n + 1))
    <3>1. h = [a \in Below(n + 1) |->
                 IF a = NoHash THEN StartOfReplay
                 ELSE replay_anchor(bodies, dag, k, a, stored[a], g[stored[a].parent])]
      OBVIOUS
    <3> HIDE DEF h, Below
    <3> QED BY <2>4, <3>1
  <2> HIDE DEF Replays, h
  <2> QED BY <2>5
<1>3. Fails = {}
  <2> HIDE DEF Reached
  <2>1. ASSUME Fails # {} PROVE FALSE
    <3>1. PICK n \in Fails : \A m \in Fails : n <= m
      BY <2>1, LeastNat
    <3>2. n # 0 /\ n - 1 \in Nat /\ n - 1 \notin Fails
      BY <3>1, <1>1
    <3> QED BY <3>1, <3>2, <1>2
  <2> QED BY <2>1
<1>4. PICK n \in Nat : \A a \in DOMAIN stored : stored[a].height < n
  BY DEF Chains
<1>5. Below(n) = DOMAIN stored \cup {NoHash}
  BY <1>4
<1>6. \E g : Replays(g, DOMAIN stored \cup {NoHash})
  <2>1. Reached(n)
    <3> HIDE DEF Reached
    <3> QED BY <1>3
  <2> HIDE DEF Replays, Below
  <2> QED BY <1>5, <2>1, Zenon
<1>7. Replays(CHOOSE g : Replays(g, DOMAIN stored \cup {NoHash}), DOMAIN stored \cup {NoHash})
  <2> HIDE DEF Replays
  <2> QED BY <1>6, Zenon
<1>8. branch_states(bodies, stored, dag, k) = CHOOSE g : Replays(g, DOMAIN stored \cup {NoHash})
  BY DEF branch_states, StartOfReplay
<1> QED BY <1>7, <1>8 DEF ReplayOver

\* The same, for one anchor.
LEMMA ReplayOf ==
  ASSUME NEW bodies, NEW stored, Chains(stored), NEW dag, NEW k
  PROVE  /\ branch_states(bodies, stored, dag, k)[NoHash] = StartOfReplay
         /\ \A a \in DOMAIN stored :
              branch_states(bodies, stored, dag, k)[a] =
                replay_anchor(bodies, dag, k, a, stored[a],
                              branch_states(bodies, stored, dag, k)[stored[a].parent])
<1> DEFINE st == branch_states(bodies, stored, dag, k)
<1>1. st = ReplayOver(bodies, stored, dag, k, st)
  BY ReplayUnfold
<1>2. \A a \in DOMAIN stored : a # NoHash
  BY DEF Chains
<1> HIDE DEF st
<1>3. /\ st[NoHash] = StartOfReplay
      /\ \A a \in DOMAIN stored :
           st[a] = replay_anchor(bodies, dag, k, a, stored[a], st[stored[a].parent])
  BY <1>1, <1>2, Zenon DEF ReplayOver
<1> QED BY <1>3 DEF st

\* Applying an anchor looks at the fruits it covers and at nothing else.
LEMMA ApplyStable ==
  ASSUME NEW dag, IsDag(dag), NEW larger, IsDag(larger), Grows(dag, larger),
         NEW bodies, NEW more, Grows(bodies, more), NEW k, NEW a, NEW before,
         NEW anchor, anchor.covered \subseteq DOMAIN dag, anchor.covered \subseteq DOMAIN bodies
  PROVE  replay_anchor(more, larger, k, a, anchor, before)
           = replay_anchor(bodies, dag, k, a, anchor, before)
<1>1. Restrict(more, anchor.covered) = Restrict(bodies, anchor.covered)
  BY DEF Restrict, Grows
<1>2. Restrict(larger, anchor.covered) = Restrict(dag, anchor.covered)
  BY DEF Restrict, Grows
<1>3. Restrict(ghostdag_metadata(larger, k), anchor.covered)
        = Restrict(ghostdag_metadata(dag, k), anchor.covered)
  <2>1. \A f \in anchor.covered : ghostdag_metadata(larger, k)[f] = ghostdag_metadata(dag, k)[f]
    BY ClassificationStable
  <2> QED BY <2>1 DEF Restrict
<1>4. canonical_covered_fruit_order(larger, anchor.covered, k)
        = canonical_covered_fruit_order(dag, anchor.covered, k)
  BY <1>2, <1>3 DEF canonical_covered_fruit_order
<1>5. ASSUME NEW st
      PROVE  apply_covering(more, larger, k, a, anchor, st) = apply_covering(bodies, dag, k, a, anchor, st)
  BY <1>1, <1>4 DEF apply_covering
<1>6. anchor.covered \subseteq DOMAIN larger
  BY DEF Grows
<1>7. ASSUME NEW st
      PROVE  apply_anchor_to_branch(more, larger, k, a, anchor, st)
               = apply_anchor_to_branch(bodies, dag, k, a, anchor, st)
  BY <1>5, <1>6 DEF apply_anchor_to_branch
<1> QED BY <1>7 DEF replay_anchor

\* Blocks stored later leave the replay of the anchors stored before as it was.
LEMMA ReplayStable ==
  ASSUME NEW dag, IsDag(dag), NEW larger, IsDag(larger), Grows(dag, larger),
         NEW bodies, NEW more, Grows(bodies, more), NEW k,
         NEW stored, Chains(stored), NEW later, Chains(later), Grows(stored, later),
         \A a \in DOMAIN stored : /\ stored[a].covered \subseteq DOMAIN dag
                                  /\ stored[a].covered \subseteq DOMAIN bodies
  PROVE  \A a \in DOMAIN stored :
           branch_states(more, later, larger, k)[a] = branch_states(bodies, stored, dag, k)[a]
<1> DEFINE old == branch_states(bodies, stored, dag, k)
           new == branch_states(more, later, larger, k)
           Bad == {n \in Nat : \E a \in DOMAIN stored : stored[a].height = n /\ new[a] # old[a]}
<1>1. \A a \in DOMAIN stored :
        /\ a # NoHash /\ stored[a].height \in Nat
        /\ later[a] = stored[a] /\ a \in DOMAIN later
        /\ stored[a].parent = NoHash
             \/ (stored[a].parent \in DOMAIN stored
                   /\ stored[stored[a].parent].height < stored[a].height)
  BY DEF Chains, Grows
<1>2. new[NoHash] = old[NoHash]
  BY ReplayOf
<1>3. \A a \in DOMAIN stored : old[a] = replay_anchor(bodies, dag, k, a, stored[a], old[stored[a].parent])
  BY ReplayOf
<1>4. \A a \in DOMAIN stored : new[a] = replay_anchor(more, larger, k, a, stored[a], new[stored[a].parent])
  BY ReplayOf, <1>1
<1>5. \A a \in DOMAIN stored : \A before :
        replay_anchor(more, larger, k, a, stored[a], before)
          = replay_anchor(bodies, dag, k, a, stored[a], before)
  BY ApplyStable
<1> HIDE DEF old, new
<1>6. Bad = {}
  <2>1. ASSUME Bad # {} PROVE FALSE
    <3>1. PICK n \in Bad : \A m \in Bad : n <= m
      BY <2>1, LeastNat
    <3>2. PICK a \in DOMAIN stored : stored[a].height = n /\ new[a] # old[a]
      BY <3>1
    <3>3. new[stored[a].parent] = old[stored[a].parent]
      <4>1. CASE stored[a].parent = NoHash
        BY <1>2, <4>1
      <4>2. CASE stored[a].parent # NoHash
        <5> DEFINE p == stored[a].parent
        <5>1. p \in DOMAIN stored /\ stored[p].height \in Nat /\ stored[p].height < n
          BY <1>1, <3>2, <4>2
        <5>2. stored[p].height \notin Bad
          BY <3>1, <5>1
        <5> QED BY <5>1, <5>2
      <4> QED BY <4>1, <4>2
    <3>4. new[a] = old[a]
      BY <1>3, <1>4, <1>5, <3>3, Zenon
    <3> QED BY <3>2, <3>4
  <2> QED BY <2>1
<1>7. \A a \in DOMAIN stored : new[a] = old[a]
  BY <1>1, <1>6
<1> QED BY <1>7 DEF old, new

\* The replay of every stored anchor, as the properties speak of it.
Replays == branch_states(fruits, anchors, stored_dag, DYNAMIC_K_MIN)

\* ActiveStateIsReplay, with what replay needs of the stored blocks.
ReplayInv ==
  /\ \A f \in DOMAIN fruits : fruits[f].ts \in Nat
  /\ \E n \in Nat : \A f \in DOMAIN fruits : fruits[f].ts < n
  /\ Chains(anchors)
  /\ \A a \in DOMAIN anchors : anchors[a].covered \subseteq DOMAIN fruits
  /\ \A a \in DOMAIN anchors : Replays[a].ok
  /\ active.tip \in DOMAIN anchors \cup {NoHash}
  /\ ActiveStateIsReplay

\* The stored fruits form a DAG in the sense of Ghostdag's lemmas.
LEMMA StoredIsDag ==
  ASSUME DagSound, ReplayInv
  PROVE  IsDag(stored_dag) /\ DOMAIN stored_dag = DOMAIN fruits
<1>1. DOMAIN stored_dag = DOMAIN fruits
  BY DEF stored_dag
<1>2. \A f \in DOMAIN fruits : stored_dag[f].ts = fruits[f].ts
                               /\ stored_dag[f].parents = fruit_parents_for_dag(f)
  BY DEF stored_dag
<1>3. \A f \in DOMAIN fruits : \A p \in fruit_parents_for_dag(f) :
        p \in DOMAIN fruits /\ fruits[p].ts < fruits[f].ts
  BY DEF DagSound, DagAlwaysBuilds, dag_builds
<1> QED BY <1>1, <1>2, <1>3 DEF IsDag, ReplayInv

\* What a step keeps: every stored branch rebuilds to the state it had.
KeepsReplays == \A a \in DOMAIN anchors : Replays'[a] = Replays[a]

\* A stored fruit changes no replay.
LEMMA FruitKeepsReplay ==
  ASSUME ReplayInv, DagSound, DagSound', NEW f, NEW fruit, fruit.ts \in Nat,
         process_fruit(f, fruit)
  PROVE  ReplayInv' /\ KeepsReplays
<1>1. /\ f \notin DOMAIN fruits
      /\ anchors' = anchors /\ active' = active
      /\ fruits' = Extend(fruits, f, fruit)
  BY DEF process_fruit
<1>2. /\ DOMAIN fruits' = DOMAIN fruits \cup {f}
      /\ fruits'[f] = fruit
      /\ \A g \in DOMAIN fruits : fruits'[g] = fruits[g]
  BY <1>1 DEF Extend
<1>3. /\ \A g \in DOMAIN fruits' : fruits'[g].ts \in Nat
      /\ \E n \in Nat : \A g \in DOMAIN fruits' : fruits'[g].ts < n
  <2>1. PICK n \in Nat : \A g \in DOMAIN fruits : fruits[g].ts < n
    BY DEF ReplayInv
  <2> DEFINE m == IF n > fruit.ts THEN n ELSE fruit.ts + 1
  <2>2. m \in Nat /\ \A g \in DOMAIN fruits' : fruits'[g].ts < m
    BY <1>2, <2>1 DEF ReplayInv
  <2> HIDE DEF m
  <2> QED BY <1>2, <2>2 DEF ReplayInv
<1>4. Grows(fruits, fruits')
  BY <1>2 DEF Grows
<1>5. IsDag(stored_dag) /\ DOMAIN stored_dag = DOMAIN fruits
  BY StoredIsDag
<1>6. IsDag(stored_dag') /\ DOMAIN stored_dag' = DOMAIN fruits'
  <2>1. DOMAIN stored_dag' = DOMAIN fruits'
    BY DEF stored_dag
  <2>2. \A g \in DOMAIN fruits' : stored_dag'[g].ts = fruits'[g].ts
                                  /\ stored_dag'[g].parents = fruit_parents_for_dag(g)'
    BY DEF stored_dag
  <2>3. \A g \in DOMAIN fruits' : \A p \in fruit_parents_for_dag(g)' :
          p \in DOMAIN fruits' /\ fruits'[p].ts < fruits'[g].ts
    BY DEF DagSound, DagAlwaysBuilds, dag_builds
  <2> QED BY <1>3, <2>1, <2>2, <2>3 DEF IsDag
<1>7. Grows(stored_dag, stored_dag')
  <2>1. \A g \in DOMAIN fruits : fruit_parents_for_dag(g)' = fruit_parents_for_dag(g)
    BY <1>1, <1>2 DEF fruit_parents_for_dag
  <2>2. \A g \in DOMAIN fruits : stored_dag'[g] = stored_dag[g]
    BY <1>2, <2>1 DEF stored_dag
  <2> QED BY <1>2, <1>5, <1>6, <2>2 DEF Grows
<1>8. KeepsReplays
  <2>1. Grows(anchors, anchors) /\ Chains(anchors)
    BY DEF Grows, ReplayInv
  <2>2. \A a \in DOMAIN anchors : anchors[a].covered \subseteq DOMAIN fruits
    BY DEF ReplayInv
  <2>3. \A a \in DOMAIN anchors :
          branch_states(fruits', anchors, stored_dag', DYNAMIC_K_MIN)[a] = Replays[a]
    BY <1>4, <1>5, <1>6, <1>7, <2>1, <2>2, ReplayStable DEF Replays
  <2> QED BY <1>1, <2>3 DEF KeepsReplays, Replays
<1>9. \A a \in DOMAIN anchors' : Replays'[a].ok
  BY <1>1, <1>8 DEF KeepsReplays, ReplayInv
<1>10. ActiveStateIsReplay'
  <2> SUFFICES ASSUME active.tip # NoHash
               PROVE  Replays'[active.tip].ok
                        /\ active = active_columns(active.tip, Replays'[active.tip].st)
    BY <1>1 DEF ActiveStateIsReplay, Replays
  <2>1. Replays[active.tip].ok /\ active = active_columns(active.tip, Replays[active.tip].st)
    BY DEF ReplayInv, ActiveStateIsReplay, Replays
  <2>2. Replays'[active.tip] = Replays[active.tip]
    BY <1>8 DEF KeepsReplays, ReplayInv
  <2> QED BY <2>1, <2>2
<1> QED BY <1>1, <1>2, <1>3, <1>8, <1>9, <1>10 DEF ReplayInv

\* An anchor that applies to its parent's replay changes no other one, and what
\* it makes active is its own replay.
LEMMA AnchorKeepsReplay ==
  ASSUME ReplayInv, DagSound, NEW a, a \notin DOMAIN anchors, a # NoHash,
         NEW anchor, anchor.height \in Nat, anchor.covered \subseteq DOMAIN fruits,
         anchor.parent \in DOMAIN anchors \cup {NoHash},
         anchor.parent # NoHash => anchors[anchor.parent].height < anchor.height,
         NEW applied, applied.ok,
         applied = replay_anchor(fruits, stored_dag, DYNAMIC_K_MIN, a, anchor,
                                 Replays[anchor.parent]),
         store_anchor(a, anchor, applied.st)
  PROVE  ReplayInv' /\ KeepsReplays /\ Replays'[a] = applied
<1>1. fruits' = fruits /\ anchors' = Extend(anchors, a, anchor)
  BY DEF store_anchor
<1>2. /\ DOMAIN anchors' = DOMAIN anchors \cup {a}
      /\ anchors'[a] = anchor
      /\ \A b \in DOMAIN anchors : anchors'[b] = anchors[b]
  BY <1>1 DEF Extend
<1>3. stored_dag' = stored_dag
  BY <1>1, <1>2, SameDag DEF DagSound
<1>4. Chains(anchors) /\ Chains(anchors')
  <2>1. Chains(anchors)
    BY DEF ReplayInv
  <2>2. PICK n \in Nat : \A b \in DOMAIN anchors : anchors[b].height < n
    BY <2>1 DEF Chains
  <2> DEFINE m == IF n > anchor.height THEN n ELSE anchor.height + 1
  <2>3. m \in Nat /\ \A b \in DOMAIN anchors' : anchors'[b].height < m
    BY <1>2, <2>1, <2>2 DEF Chains
  <2> HIDE DEF m
  <2>4. \A b \in DOMAIN anchors' :
          /\ anchors'[b].height \in Nat
          /\ anchors'[b].parent \in DOMAIN anchors' \cup {NoHash}
          /\ anchors'[b].parent # NoHash => anchors'[anchors'[b].parent].height < anchors'[b].height
    BY <1>2, <2>1 DEF Chains
  <2> QED BY <1>2, <2>1, <2>3, <2>4 DEF Chains
<1>5. IsDag(stored_dag) /\ DOMAIN stored_dag = DOMAIN fruits
  BY StoredIsDag
<1>6. Replays' = branch_states(fruits, anchors', stored_dag, DYNAMIC_K_MIN)
  BY <1>1, <1>3 DEF Replays
<1>7. KeepsReplays
  <2>1. Grows(anchors, anchors') /\ Grows(fruits, fruits) /\ Grows(stored_dag, stored_dag)
    BY <1>2 DEF Grows
  <2>2. \A b \in DOMAIN anchors : anchors[b].covered \subseteq DOMAIN fruits
    BY DEF ReplayInv
  <2>3. \A b \in DOMAIN anchors :
          branch_states(fruits, anchors', stored_dag, DYNAMIC_K_MIN)[b] = Replays[b]
    BY <1>4, <1>5, <2>1, <2>2, ReplayStable DEF Replays
  <2> QED BY <1>6, <2>3 DEF KeepsReplays
<1>8. Replays'[anchor.parent] = Replays[anchor.parent]
  <2>1. CASE anchor.parent = NoHash
    BY <1>4, <1>6, <2>1, ReplayOf DEF Replays
  <2>2. CASE anchor.parent \in DOMAIN anchors
    BY <1>7, <2>2 DEF KeepsReplays
  <2> QED BY <2>1, <2>2
<1>9. Replays'[a] = applied
  <2>1. Replays'[a] = replay_anchor(fruits, stored_dag, DYNAMIC_K_MIN, a, anchors'[a],
                                    Replays'[anchors'[a].parent])
    BY <1>2, <1>4, <1>6, ReplayOf
  <2> QED BY <1>2, <1>8, <2>1
<1>10. \A b \in DOMAIN anchors' : Replays'[b].ok
  BY <1>2, <1>7, <1>9 DEF KeepsReplays, ReplayInv
<1>11. ActiveStateIsReplay' /\ active'.tip \in DOMAIN anchors' \cup {NoHash}
  <2>1. CASE becomes_best_tip(a, anchor)
    <3>1. active' = active_columns(a, applied.st)
      BY <2>1 DEF store_anchor, active_chain_batch
    <3>2. active'.tip = a
      BY <3>1 DEF active_columns
    <3>3. Replays'[active'.tip].ok
            /\ active' = active_columns(active'.tip, Replays'[active'.tip].st)
      BY <1>9, <3>1, <3>2
    <3> QED BY <1>2, <3>2, <3>3 DEF ActiveStateIsReplay, Replays
  <2>2. CASE ~ becomes_best_tip(a, anchor)
    <3>1. active' = active
      BY <2>2 DEF store_anchor
    <3> SUFFICES ASSUME active.tip # NoHash
                 PROVE  Replays'[active.tip].ok
                          /\ active = active_columns(active.tip, Replays'[active.tip].st)
      BY <1>2, <3>1 DEF ActiveStateIsReplay, Replays, ReplayInv
    <3>2. Replays[active.tip].ok /\ active = active_columns(active.tip, Replays[active.tip].st)
      BY DEF ReplayInv, ActiveStateIsReplay, Replays
    <3>3. Replays'[active.tip] = Replays[active.tip]
      BY <1>7 DEF KeepsReplays, ReplayInv
    <3> QED BY <3>2, <3>3
  <2> QED BY <2>1, <2>2
<1>12. \A b \in DOMAIN anchors' : anchors'[b].covered \subseteq DOMAIN fruits'
  BY <1>1, <1>2 DEF ReplayInv
<1> QED BY <1>1, <1>4, <1>7, <1>9, <1>10, <1>11, <1>12 DEF ReplayInv

\* Every step keeps ReplayInv and every replay.
LEMMA ReplayStep ==
  ASSUME ReplayInv, DagSound, DagSound', [Next]_vars
  PROVE  ReplayInv' /\ KeepsReplays
<1>1. ASSUME UNCHANGED <<fruits, anchors, active>> PROVE ReplayInv' /\ KeepsReplays
  <2>1. stored_dag' = stored_dag
    BY <1>1, SameDag DEF DagSound
  <2>2. Replays' = Replays
    BY <1>1, <2>1 DEF Replays
  <2>3. ActiveStateIsReplay'
    <3> SUFFICES ASSUME active.tip # NoHash
                 PROVE  Replays'[active.tip].ok
                          /\ active = active_columns(active.tip, Replays'[active.tip].st)
      BY <1>1 DEF ActiveStateIsReplay, Replays
    <3>1. Replays[active.tip].ok /\ active = active_columns(active.tip, Replays[active.tip].st)
      BY DEF ReplayInv, ActiveStateIsReplay, Replays
    <3> QED BY <2>2, <3>1
  <2> QED BY <1>1, <2>2, <2>3 DEF ReplayInv, KeepsReplays
<1>2. ASSUME pc = "idle", has_fruit_dag PROVE fruit_dag = stored_dag
  BY <1>2 DEF DagSound, DagCacheFresh, fruit_dag
<1>3. has_fruit_dag
  BY DEF DagSound, DagAlwaysBuilds, has_fruit_dag
<1>4. ASSUME NEW a \in AnchorIds, NEW ts \in AnchorTimes, process_genesis(a, ts)
      PROVE  ReplayInv' /\ KeepsReplays
  <2> DEFINE anchor == [parent |-> NoHash, covered |-> {}, cands |-> << >>, ts |-> ts,
                        rewards |-> << >>, tree |-> ROOT_TREE,
                        floors |-> [shard \in ROOT_TREE |-> 0],
                        height |-> 0, target |-> ANCHOR_INITIAL_TARGET,
                        work |-> anchor_work_weight(ANCHOR_INITIAL_TARGET)]
             applied == apply_anchor_to_branch(fruits, stored_dag, DYNAMIC_K_MIN, a, anchor,
                                               EmptyBranchState)
  <2>1. a \notin DOMAIN anchors /\ applied.ok /\ store_anchor(a, anchor, applied.st)
    BY <1>2, <1>3, <1>4, EmptyDomain DEF process_genesis
  <2>2. anchor.height \in Nat /\ anchor.covered = {} /\ anchor.parent = NoHash
    OBVIOUS
  <2>3. Replays[NoHash] = StartOfReplay
    BY ReplayOf DEF Replays, ReplayInv
  <2>4. applied = replay_anchor(fruits, stored_dag, DYNAMIC_K_MIN, a, anchor, Replays[anchor.parent])
    BY <2>2, <2>3 DEF replay_anchor, StartOfReplay
  <2>5. a # NoHash
    BY NodeAssumption
  <2> HIDE DEF anchor, applied
  <2> QED BY <2>1, <2>2, <2>4, <2>5, AnchorKeepsReplay
<1>5. ASSUME NEW a \in AnchorIds, NEW parent \in DOMAIN anchors,
             NEW covered \in SUBSET DOMAIN fruits, NEW ts \in AnchorTimes,
             NEW payload \in AnchorPayloads[a],
             process_anchor(a, parent, covered, ts, payload)
      PROVE  ReplayInv' /\ KeepsReplays
  <2> DEFINE target == next_anchor_target(anchor_history(parent))
             anchor == [parent |-> parent, covered |-> covered,
                        cands |-> canonical_parent_candidates, ts |-> ts,
                        rewards |-> payload.rewards, tree |-> payload.tree,
                        floors |-> payload.floors,
                        height |-> anchors[parent].height + 1, target |-> target,
                        work |-> anchors[parent].work + anchor_work_weight(target)]
             applied == apply_anchor_to_branch(fruits, stored_dag, DYNAMIC_K_MIN, a, anchor,
                                               Replays[parent].st)
  <2>1. /\ a \notin DOMAIN anchors
        /\ Replays[parent].ok /\ applied.ok
        /\ store_anchor(a, anchor, applied.st)
    BY <1>2, <1>3, <1>5 DEF process_anchor, Replays
  <2>2. /\ anchor.height = anchors[parent].height + 1
        /\ anchor.covered = covered /\ anchor.parent = parent
    OBVIOUS
  <2>3. anchors[parent].height \in Nat /\ parent # NoHash
    BY DEF ReplayInv, Chains
  <2>4. applied = replay_anchor(fruits, stored_dag, DYNAMIC_K_MIN, a, anchor, Replays[anchor.parent])
    BY <2>1, <2>2 DEF replay_anchor
  <2>5. a # NoHash
    BY NodeAssumption
  <2> HIDE DEF anchor, applied
  <2>6. anchor.height \in Nat /\ anchors[parent].height < anchor.height
    BY <2>2, <2>3
  <2> QED BY <2>1, <2>2, <2>4, <2>5, <2>6, AnchorKeepsReplay
<1>6. ASSUME NEW t, process_raw_tx(t) PROVE ReplayInv' /\ KeepsReplays
  BY <1>1, <1>6 DEF process_raw_tx
<1>7. CASE OfferFruit
  <2>1. PICK f, fruit : process_fruit(f, fruit) /\ fruit.ts \in FruitTimes
    BY <1>7 DEF OfferFruit
  <2> QED BY <2>1, FruitKeepsReplay, NodeAssumption
<1>8. ASSUME NEW f, get_finality(f) PROVE ReplayInv' /\ KeepsReplays
  BY <1>1, <1>8 DEF get_finality
<1>9. CASE refresh_after_fruit
  BY <1>1, <1>9 DEF refresh_after_fruit
<1>10. CASE refresh_after_anchor
  BY <1>1, <1>10 DEF refresh_after_anchor
<1>11. CASE restart
  BY <1>1, <1>11 DEF restart
<1>12. CASE UNCHANGED vars
  BY <1>1, <1>12 DEF vars
<1> QED BY <1>4, <1>5, <1>6, <1>7, <1>8, <1>9, <1>10, <1>11, <1>12 DEF Next, OfferAnchor

\* ReplayInv holds of the empty store.
LEMMA ReplayInit == ASSUME Init PROVE ReplayInv
<1>1. DOMAIN fruits = {} /\ DOMAIN anchors = {} /\ active.tip = NoHash
  BY EmptyDomain DEF Init, active_columns
<1>2. Chains(anchors)
  BY <1>1 DEF Chains
<1> QED BY <1>1, <1>2 DEF ReplayInv, ActiveStateIsReplay

\* The active columns are always the replay of the tip's chain from genesis: no
\* reorganisation leaves anything of an abandoned branch, and no fruit stored
\* later changes what a chain gives.
THEOREM ActiveIsReplay == Spec => []ActiveStateIsReplay
<1>1. Init => ReplayInv
  BY ReplayInit
<1>2. ReplayInv /\ DagSound /\ DagSound' /\ [Next]_vars => ReplayInv'
  BY ReplayStep
<1>3. ReplayInv => ActiveStateIsReplay
  BY DEF ReplayInv
<1> QED BY <1>1, <1>2, <1>3, DagIsSound, PTL DEF Spec

\* Every stored anchor's branch stays rebuildable, and rebuilds to the state it
\* had, whatever is stored after it.
THEOREM BranchReplay == Spec => BranchReplayStable
<1>1. Init => ReplayInv
  BY ReplayInit
<1>2. ReplayInv /\ DagSound /\ DagSound' /\ [Next]_vars => ReplayInv'
  BY ReplayStep
<1>3. ReplayInv /\ DagSound /\ DagSound' /\ [Next]_vars
        => [LET before == branch_states(fruits, anchors, stored_dag, DYNAMIC_K_MIN)
                after  == branch_states(fruits', anchors', stored_dag', DYNAMIC_K_MIN)
            IN  \A a \in DOMAIN anchors : after[a].ok /\ after[a] = before[a]]_<<fruits, anchors>>
  <2> SUFFICES ASSUME ReplayInv, DagSound, DagSound', [Next]_vars, NEW a \in DOMAIN anchors
               PROVE  Replays'[a].ok /\ Replays'[a] = Replays[a]
    BY DEF Replays
  <2>1. Replays'[a] = Replays[a]
    BY ReplayStep DEF KeepsReplays
  <2> QED BY <2>1 DEF ReplayInv
<1> QED BY <1>1, <1>2, <1>3, DagIsSound, PTL DEF Spec, BranchReplayStable

-----------------------------------------------------------------------------
(* Coins.                                                                  *)

\* Outputs by their outpoints, finitely many.
IsUtxo(u) == u \in [DOMAIN u -> Outputs] /\ IsFiniteSet(DOMAIN u)

Total(u) == SumFunction(amounts(u))

\* What a UTXO set or a list of outputs is worth.
LEMMA TotalOf ==
  ASSUME NEW u, \A x \in DOMAIN u : u[x] \in Outputs, IsFiniteSet(DOMAIN u)
  PROVE  /\ \A x \in DOMAIN u : amounts(u)[x] = u[x].amount /\ amounts(u)[x] \in Nat
         /\ Total(u) = SumFunctionOnSet(amounts(u), DOMAIN u)
         /\ Total(u) \in Nat
<1>1. DOMAIN amounts(u) = DOMAIN u
  BY DEF amounts
<1>2. \A x \in DOMAIN u : amounts(u)[x] = u[x].amount /\ u[x].amount \in Nat
  BY DEF amounts, Outputs
<1>3. Total(u) = SumFunctionOnSet(amounts(u), DOMAIN u)
  BY <1>1 DEF Total, SumFunction
<1>4. \A x \in DOMAIN u : amounts(u)[x] \in Nat
  BY <1>2
<1>5. SumFunctionOnSet(amounts(u), DOMAIN u) \in Nat
  BY <1>4, SumNat
<1> QED BY <1>2, <1>3, <1>5

\* The outputs of a transaction, under their outpoints: worth the same, locked
\* at least until the given height.
LEMMA OutputsTyped ==
  ASSUME NEW kind, NEW id, NEW outs \in Seq(Outputs), NEW low \in Nat,
         NEW u, u = utxos_from_outputs(kind, id, outs, low)
  PROVE  /\ IsUtxo(u) /\ DOMAIN u = outpoints(kind, id, outs)
         /\ \A op \in DOMAIN u : op[1] = kind /\ u[op].lockheight >= low
         /\ Total(u) = output_sum(outs) /\ output_sum(outs) \in Nat
<1> DEFINE n == Len(outs)
           name == [i \in 1..n |-> <<kind, id, i>>]
<1>1. n \in Nat /\ DOMAIN outs = 1..n /\ \A i \in 1..n : outs[i] \in Outputs
  BY LenProperties
<1>2. IsFiniteSet(1..n)
  BY <1>1, FS_Interval
<1>3. /\ outpoints(kind, id, outs) = {name[i] : i \in 1..n}
      /\ \A i \in 1..n : name[i] = <<kind, id, i>>
      /\ \A i, j \in 1..n : name[i] = name[j] => i = j
  BY <1>1 DEF outpoints
<1>4. DOMAIN u = {name[i] : i \in 1..n} /\ DOMAIN u = outpoints(kind, id, outs)
  BY <1>3 DEF utxos_from_outputs
<1>5. ASSUME NEW i \in 1..n
      PROVE  /\ u[name[i]] \in Outputs /\ u[name[i]].amount = outs[i].amount
             /\ u[name[i]].lockheight >= low /\ name[i][1] = kind
  <2>1. name[i] \in outpoints(kind, id, outs) /\ name[i][3] = i /\ name[i][1] = kind
    BY <1>3
  <2>2. u[name[i]] = [outs[i] EXCEPT !.lockheight = IF @ >= low THEN @ ELSE low]
    BY <2>1 DEF utxos_from_outputs
  <2>3. outs[i] \in Outputs
    BY <1>1
  <2> DEFINE coin == outs[i]
             lock == IF coin.lockheight >= low THEN coin.lockheight ELSE low
  <2>4. u[name[i]] = [coin EXCEPT !.lockheight = lock]
    BY <2>2
  <2>5. coin \in [amount : Nat, lockheight : Nat, locktime : Nat]
    BY <2>3 DEF Outputs
  <2>6. lock \in Nat /\ lock >= low
    BY <2>5
  <2> HIDE DEF name, coin, lock
  <2>7. /\ [coin EXCEPT !.lockheight = lock] \in [amount : Nat, lockheight : Nat, locktime : Nat]
        /\ [coin EXCEPT !.lockheight = lock].amount = coin.amount
        /\ [coin EXCEPT !.lockheight = lock].lockheight = lock
    BY <2>5, <2>6
  <2> QED BY <2>1, <2>4, <2>6, <2>7 DEF Outputs, coin
<1> HIDE DEF name
<1>6. \A op \in DOMAIN u : u[op] \in Outputs /\ op[1] = kind /\ u[op].lockheight >= low
  BY <1>4, <1>5
<1>7. \A x \in DOMAIN outs : amounts(outs)[x] = outs[x].amount /\ amounts(outs)[x] \in Nat
  <2>1. \A x \in DOMAIN outs : outs[x] \in Outputs
    BY <1>1
  <2> QED BY <1>1, <1>2, <2>1, TotalOf
<1>8. output_sum(outs) = SumFunctionOnSet(amounts(outs), 1..n) /\ output_sum(outs) \in Nat
  <2>1. \A x \in DOMAIN outs : outs[x] \in Outputs
    BY <1>1
  <2>2. Total(outs) = SumFunctionOnSet(amounts(outs), DOMAIN outs) /\ Total(outs) \in Nat
    BY <1>1, <1>2, <2>1, TotalOf
  <2> QED BY <1>1, <2>2 DEF Total, output_sum
<1>9. ASSUME NEW i \in 1..n
      PROVE  amounts(outs)[i] \in Int /\ amounts(u)[name[i]] = amounts(outs)[i]
  <2>1. name[i] \in DOMAIN u
    BY <1>4
  <2>2. amounts(u)[name[i]] = u[name[i]].amount
    BY <2>1 DEF amounts
  <2> QED BY <1>1, <1>5, <1>7, <2>2
<1>10. /\ IsFiniteSet({name[i] : i \in 1..n})
       /\ SumFunctionOnSet(amounts(u), {name[i] : i \in 1..n}) = SumFunctionOnSet(amounts(outs), 1..n)
  <2> DEFINE S == 1..n
             worth == amounts(u)
             listed == amounts(outs)
  <2>1. \A i \in S : listed[i] \in Int /\ worth[name[i]] = listed[i]
    BY <1>9
  <2>2. IsFiniteSet(S) /\ \A i, j \in S : name[i] = name[j] => i = j
    BY <1>2, <1>3
  <2> HIDE DEF S, worth, listed
  <2>3. /\ IsFiniteSet({name[i] : i \in S})
        /\ SumFunctionOnSet(worth, {name[i] : i \in S}) = SumFunctionOnSet(listed, S)
    BY <2>1, <2>2, SumRenamed
  <2> QED BY <2>3 DEF S, worth, listed
<1>11. IsUtxo(u)
  <2>1. u = [op \in DOMAIN u |-> u[op]]
    BY DEF utxos_from_outputs
  <2> QED BY <1>4, <1>6, <1>10, <2>1 DEF IsUtxo
<1>12. Total(u) = output_sum(outs)
  <2>1. Total(u) = SumFunctionOnSet(amounts(u), DOMAIN u)
    BY <1>6, <1>11, TotalOf DEF IsUtxo
  <2> QED BY <1>4, <1>8, <1>10, <2>1
<1> QED BY <1>4, <1>6, <1>8, <1>11, <1>12

\* Two sets of outputs without a common outpoint.
LEMMA JoinUtxo ==
  ASSUME NEW u, IsUtxo(u), NEW v, IsUtxo(v), DOMAIN u \cap DOMAIN v = {}, NEW w, w = Overlay(u, v)
  PROVE  /\ IsUtxo(w) /\ DOMAIN w = DOMAIN u \cup DOMAIN v
         /\ \A op \in DOMAIN u : w[op] = u[op]
         /\ \A op \in DOMAIN v : w[op] = v[op]
         /\ Total(w) = Total(u) + Total(v)
<1>1. /\ DOMAIN w = DOMAIN u \cup DOMAIN v
      /\ \A op \in DOMAIN u : w[op] = u[op]
      /\ \A op \in DOMAIN v : w[op] = v[op]
      /\ w = [op \in DOMAIN w |-> w[op]]
  BY Zenon DEF Overlay
<1>2. IsFiniteSet(DOMAIN w) /\ \A op \in DOMAIN w : w[op] \in Outputs
  <2>1. IsFiniteSet(DOMAIN u \cup DOMAIN v)
    BY FS_Union DEF IsUtxo
  <2> QED BY <1>1, <2>1 DEF IsUtxo
<1>3. IsUtxo(w)
  BY <1>1, <1>2 DEF IsUtxo
<1>4. /\ \A x \in DOMAIN w : amounts(w)[x] = w[x].amount /\ amounts(w)[x] \in Nat
      /\ Total(w) = SumFunctionOnSet(amounts(w), DOMAIN w)
  BY <1>2, TotalOf
<1>5. /\ \A x \in DOMAIN u : amounts(u)[x] = u[x].amount /\ amounts(u)[x] \in Nat
      /\ Total(u) = SumFunctionOnSet(amounts(u), DOMAIN u)
  BY TotalOf DEF IsUtxo
<1>6. /\ \A x \in DOMAIN v : amounts(v)[x] = v[x].amount /\ amounts(v)[x] \in Nat
      /\ Total(v) = SumFunctionOnSet(amounts(v), DOMAIN v)
  BY TotalOf DEF IsUtxo
<1>7. SumFunctionOnSet(amounts(w), DOMAIN w) =
        SumFunctionOnSet(amounts(w), DOMAIN u) + SumFunctionOnSet(amounts(w), DOMAIN w \ DOMAIN u)
  <2>1. DOMAIN u \in SUBSET DOMAIN w /\ \A x \in DOMAIN w : amounts(w)[x] \in Int
    BY <1>1, <1>4
  <2> QED BY <1>2, <2>1, SumSplit
<1>8. DOMAIN w \ DOMAIN u = DOMAIN v
  BY <1>1
<1>9. SumFunctionOnSet(amounts(w), DOMAIN u) = SumFunctionOnSet(amounts(u), DOMAIN u)
  <2>1. \A x \in DOMAIN u : amounts(u)[x] \in Int /\ amounts(u)[x] = amounts(w)[x]
    BY <1>1, <1>4, <1>5
  <2>2. IsFiniteSet(DOMAIN u)
    BY DEF IsUtxo
  <2> QED BY <2>1, <2>2, SumSame
<1>10. SumFunctionOnSet(amounts(w), DOMAIN v) = SumFunctionOnSet(amounts(v), DOMAIN v)
  <2>1. \A x \in DOMAIN v : amounts(v)[x] \in Int /\ amounts(v)[x] = amounts(w)[x]
    BY <1>1, <1>4, <1>6
  <2>2. IsFiniteSet(DOMAIN v)
    BY DEF IsUtxo
  <2> QED BY <2>1, <2>2, SumSame
<1> QED BY <1>1, <1>3, <1>4, <1>5, <1>6, <1>7, <1>8, <1>9, <1>10

\* Taking outputs out of a set.
LEMMA WithoutInputs ==
  ASSUME NEW u, IsUtxo(u), NEW ins \in SUBSET DOMAIN u, NEW w, w = Restrict(u, DOMAIN u \ ins)
  PROVE  /\ IsUtxo(w) /\ DOMAIN w = DOMAIN u \ ins
         /\ \A op \in DOMAIN w : w[op] = u[op]
         /\ Total(u) = SumFunctionOnSet(amounts(u), ins) + Total(w)
         /\ SumFunctionOnSet(amounts(u), ins) \in Nat
<1>1. /\ DOMAIN w = DOMAIN u \ ins
      /\ \A op \in DOMAIN w : w[op] = u[op]
      /\ w = [op \in DOMAIN w |-> w[op]]
  BY DEF Restrict
<1>2. IsFiniteSet(DOMAIN u) /\ \A op \in DOMAIN u : u[op] \in Outputs
  BY DEF IsUtxo
<1>3. IsFiniteSet(DOMAIN w) /\ \A op \in DOMAIN w : w[op] \in Outputs
  BY <1>1, <1>2, FS_Subset
<1>4. /\ \A x \in DOMAIN w : amounts(w)[x] = w[x].amount /\ amounts(w)[x] \in Nat
      /\ Total(w) = SumFunctionOnSet(amounts(w), DOMAIN w)
  BY <1>3, TotalOf
<1>5. /\ \A x \in DOMAIN u : amounts(u)[x] = u[x].amount /\ amounts(u)[x] \in Nat
      /\ Total(u) = SumFunctionOnSet(amounts(u), DOMAIN u)
  BY <1>2, TotalOf
<1>6. SumFunctionOnSet(amounts(u), DOMAIN u) =
        SumFunctionOnSet(amounts(u), ins) + SumFunctionOnSet(amounts(u), DOMAIN u \ ins)
  <2>1. \A x \in DOMAIN u : amounts(u)[x] \in Int
    BY <1>5
  <2> QED BY <1>2, <2>1, SumSplit
<1>7. SumFunctionOnSet(amounts(w), DOMAIN w) = SumFunctionOnSet(amounts(u), DOMAIN w)
  <2>1. ASSUME NEW x \in DOMAIN w
        PROVE  amounts(w)[x] \in Int /\ amounts(w)[x] = amounts(u)[x]
    <3>1. x \in DOMAIN u /\ w[x] = u[x]
      BY <1>1
    <3>2. amounts(w)[x] = w[x].amount /\ amounts(w)[x] \in Nat
      BY <1>4
    <3>3. amounts(u)[x] = u[x].amount
      BY <1>5, <3>1
    <3> QED BY <3>1, <3>2, <3>3
  <2> QED BY <1>3, <2>1, SumSame
<1>8. SumFunctionOnSet(amounts(u), ins) \in Nat
  <2>1. IsFiniteSet(ins) /\ \A x \in ins : amounts(u)[x] \in Nat
    BY <1>2, <1>5, FS_Subset
  <2> QED BY <2>1, SumNat
<1> QED BY <1>1, <1>3, <1>4, <1>5, <1>6, <1>7, <1>8 DEF IsUtxo

\* A quotient of natural numbers is one.
LEMMA Quotient ==
  ASSUME NEW x \in Nat, NEW y \in Nat, NEW d \in Nat \ {0}
  PROVE  (x * y) \div d \in Nat
<1>1. x * y \in Nat
  OBVIOUS
<1> DEFINE p == x * y
<1>2. p \in Nat
  BY <1>1
<1> HIDE DEF p
<1>3. p \div d \in Nat
  BY <1>2
<1> QED BY <1>3 DEF p

\* A transaction that may be applied moves what it spends to its outputs, but
\* for a fee, of which the tip is a part; of other kinds it spends only what is
\* unlocked.
LEMMA SpendOne ==
  ASSUME NEW u, IsUtxo(u), NEW t \in DOMAIN Tx, NEW floor \in Nat, NEW time, NEW height,
         is_spendable(u, t, floor, time, height), ~ creates_duplicate(u, t),
         NEW w, w = apply_spend_tx(u, t)
  PROVE  /\ IsUtxo(w)
         /\ DOMAIN w = outpoints("tx", t, Tx[t].outs) \cup (DOMAIN u \ Tx[t].ins)
         /\ Tx[t].ins \subseteq DOMAIN u
         /\ fee_matoms(u, t) \in Nat /\ Total(u) = Total(w) + fee_matoms(u, t)
         /\ tip_matoms(u, t, floor) \in 0..fee_matoms(u, t)
         /\ \A op \in DOMAIN u : op[1] # "tx" =>
              \/ op \in DOMAIN w /\ w[op] = u[op]
              \/ u[op].lockheight <= height
<1> DEFINE ins  == Tx[t].ins
           outs == Tx[t].outs
           new  == tx_outputs(t)
           rest == Restrict(u, DOMAIN u \ ins)
           fee  == fee_matoms(u, t)
<1>1. /\ ins \subseteq DOMAIN u /\ fee >= 0
      /\ \A op \in ins : u[op].lockheight <= height
  BY DEF is_spendable, check_locks
<1>2. outs \in Seq(Outputs) /\ Tx[t].size \in Nat
  BY LedgerAssumption
<1>3. /\ IsUtxo(new) /\ DOMAIN new = outpoints("tx", t, outs)
      /\ \A op \in DOMAIN new : op[1] = "tx"
      /\ Total(new) = output_sum(outs) /\ output_sum(outs) \in Nat
  <2>1. new = utxos_from_outputs("tx", t, outs, 0)
    BY DEF tx_outputs
  <2> HIDE DEF new, outs, ins, rest, fee
  <2>2. outs \in Seq(Outputs) /\ 0 \in Nat
    BY <1>2
  <2>3. /\ IsUtxo(new) /\ DOMAIN new = outpoints("tx", t, outs)
        /\ \A op \in DOMAIN new : op[1] = "tx" /\ new[op].lockheight >= 0
        /\ Total(new) = output_sum(outs) /\ output_sum(outs) \in Nat
    BY <2>1, <2>2, OutputsTyped, SMTT(30)
  <2> QED BY <2>3, Zenon
<1>4. /\ IsUtxo(rest) /\ DOMAIN rest = DOMAIN u \ ins
      /\ \A op \in DOMAIN rest : rest[op] = u[op]
      /\ Total(u) = SumFunctionOnSet(amounts(u), ins) + Total(rest)
      /\ SumFunctionOnSet(amounts(u), ins) \in Nat
  <2>1. ins \in SUBSET DOMAIN u
    BY <1>1
  <2> HIDE DEF ins
  <2> QED BY <2>1, WithoutInputs
<1>5. DOMAIN new \cap DOMAIN rest = {}
  BY <1>4 DEF creates_duplicate
<1>6. w = Overlay(new, rest)
  BY DEF apply_spend_tx
<1>7. fee = SumFunctionOnSet(amounts(u), ins) - output_sum(outs)
  BY DEF fee_matoms
<1>8. burned_fee_matoms(floor, Tx[t].size) \in Nat
  BY <1>2, LedgerAssumption, Quotient DEF burned_fee_matoms
<1>9. tip_matoms(u, t, floor) = LET tip == fee - burned_fee_matoms(floor, Tx[t].size)
                                IN  IF tip >= 0 THEN tip ELSE 0
  BY DEF tip_matoms
<1> HIDE DEF new, rest, ins, outs, fee
<1>10. /\ IsUtxo(w) /\ DOMAIN w = DOMAIN new \cup DOMAIN rest
       /\ \A op \in DOMAIN rest : w[op] = rest[op]
       /\ Total(w) = Total(new) + Total(rest)
  <2>1. IsUtxo(new) /\ IsUtxo(rest)
    BY <1>3, <1>4
  <2> QED BY <1>5, <1>6, <2>1, JoinUtxo
<1>11. Total(rest) \in Nat
  BY <1>4, TotalOf DEF IsUtxo
<1>12. fee \in Nat /\ Total(u) = Total(w) + fee
  BY <1>1, <1>3, <1>4, <1>7, <1>10, <1>11
<1>13. tip_matoms(u, t, floor) \in 0..fee
  BY <1>8, <1>9, <1>12
<1>14. \A op \in DOMAIN u : \/ op \in DOMAIN w /\ w[op] = u[op]
                           \/ u[op].lockheight <= height
  BY <1>1, <1>4, <1>10
<1> QED BY <1>1, <1>3, <1>4, <1>10, <1>12, <1>13, <1>14 DEF ins, outs, fee

\* The outpoints and UTXO sets there can be while an anchor is applied.
Points(before) == DOMAIN before \cup {<<"tx", t, i>> : t \in DOMAIN Tx, i \in Nat}
Ledgers(before) == UNION {[D -> Outputs] : D \in SUBSET Points(before)}

\* What has been spent, paid in tips and burned so far came from the coins that
\* were there, and a coinbase left the set only once it was unlocked.
Accounts(before, covered, height) ==
  {acc \in [ok : BOOLEAN, utxo : Ledgers(before), spent : SUBSET Points(before),
            skipped : SUBSET DOMAIN Tx, tips : [covered -> Nat]] :
     /\ IsUtxo(acc.utxo)
     /\ Total(acc.utxo) + SumFunctionOnSet(acc.tips, covered) <= Total(before)
     /\ \A op \in DOMAIN before : op[1] = "coinbase" =>
          \/ op \in DOMAIN acc.utxo /\ acc.utxo[op] = before[op]
          \/ before[op].lockheight <= height}

\* One term of a sum grows.
LEMMA SumRaised ==
  ASSUME NEW S, IsFiniteSet(S), NEW fun \in [S -> Nat], NEW x \in S, NEW d \in Nat
  PROVE  /\ [fun EXCEPT ![x] = @ + d] \in [S -> Nat]
         /\ SumFunctionOnSet([fun EXCEPT ![x] = @ + d], S) = SumFunctionOnSet(fun, S) + d
         /\ SumFunctionOnSet(fun, S) \in Nat
<1> DEFINE new == [fun EXCEPT ![x] = @ + d]
           rest == S \ {x}
<1>1. new \in [S -> Nat] /\ new[x] = fun[x] + d /\ \A y \in rest : new[y] = fun[y]
  OBVIOUS
<1>2. /\ \A y \in S : fun[y] \in Int /\ new[y] \in Int
      /\ \A y \in S : fun[y] \in Nat
  BY <1>1
<1> HIDE DEF new
<1>3. SumFunctionOnSet(fun, S) = fun[x] + SumFunctionOnSet(fun, rest)
      /\ SumFunctionOnSet(fun, rest) \in Int
  BY <1>2, SumAdd
<1>4. SumFunctionOnSet(new, S) = new[x] + SumFunctionOnSet(new, rest)
  BY <1>2, SumAdd
<1>5. SumFunctionOnSet(new, rest) = SumFunctionOnSet(fun, rest)
  <2>1. IsFiniteSet(rest) /\ \A y \in rest : new[y] \in Int /\ new[y] = fun[y]
    BY <1>1, <1>2, FS_Subset
  <2> HIDE DEF rest
  <2> QED BY <2>1, SumSame
<1>6. SumFunctionOnSet(fun, S) \in Nat
  BY <1>2, SumNat
<1>7. SumFunctionOnSet(new, S) = SumFunctionOnSet(fun, S) + d
  BY <1>1, <1>3, <1>4, <1>5
<1> QED BY <1>1, <1>6, <1>7 DEF new

\* The fee floors of a tree are natural numbers, and so is what is read of them.
LEMMA FloorOf ==
  ASSUME NEW floors, \A s \in DOMAIN floors : floors[s] \in Nat, NEW shard
  PROVE  floor_of(floors, shard) \in Nat
BY DEF floor_of

\* One transaction of a covered fruit keeps the accounts.
LEMMA ApplyOne ==
  ASSUME NEW before, IsUtxo(before), NEW covered, IsFiniteSet(covered), NEW height,
         NEW acc \in Accounts(before, covered, height),
         NEW st, \A s \in DOMAIN st.floors : st.floors[s] \in Nat,
         NEW f \in covered, NEW fruit, NEW t \in DOMAIN Tx
  PROVE  apply_fruit_tx(acc, f, fruit, t, st, height) \in Accounts(before, covered, height)
<1> DEFINE next == apply_fruit_tx(acc, f, fruit, t, st, height)
           floor == floor_of(st.floors, fruit.shard)
           Shape == [ok : BOOLEAN, utxo : Ledgers(before), spent : SUBSET Points(before),
                     skipped : SUBSET DOMAIN Tx, tips : [covered -> Nat]]
<1> SUFFICES next \in Accounts(before, covered, height)
  OBVIOUS
<1>1. /\ acc \in Shape /\ IsUtxo(acc.utxo)
      /\ Total(acc.utxo) + SumFunctionOnSet(acc.tips, covered) <= Total(before)
      /\ \A op \in DOMAIN before : op[1] = "coinbase" =>
           \/ op \in DOMAIN acc.utxo /\ acc.utxo[op] = before[op]
           \/ before[op].lockheight <= height
  BY DEF Accounts
<1>2. CASE next = acc
  BY <1>2
<1>3. CASE next = [acc EXCEPT !.skipped = @ \cup {t}]
  <2>1. /\ next \in Shape /\ next.utxo = acc.utxo /\ next.tips = acc.tips
    BY <1>1, <1>3
  <2> QED BY <1>1, <2>1 DEF Accounts
<1>4. CASE next = [acc EXCEPT !.ok = FALSE]
  <2>1. /\ next \in Shape /\ next.utxo = acc.utxo /\ next.tips = acc.tips
    BY <1>1, <1>4
  <2> QED BY <1>1, <2>1 DEF Accounts
<1>5. CASE /\ acc.ok /\ can_apply(acc.utxo, t, st.tree, st.floors, fruit, height)
           /\ next = [acc EXCEPT !.utxo    = apply_spend_tx(@, t),
                                 !.spent   = @ \cup Tx[t].ins,
                                 !.tips[f] = @ + tip_matoms(acc.utxo, t, floor)]
  <2> DEFINE u   == acc.utxo
             w   == apply_spend_tx(u, t)
             tip == tip_matoms(u, t, floor)
             fee == fee_matoms(u, t)
             ins == Tx[t].ins
             tips == [acc.tips EXCEPT ![f] = @ + tip]
  <2>1. is_spendable(u, t, floor, fruit.ts, height) /\ ~ creates_duplicate(u, t)
    BY <1>5 DEF can_apply
  <2>2. floor \in Nat
    BY FloorOf
  <2> HIDE DEF floor, u, w
  <2>3. /\ IsUtxo(w)
        /\ DOMAIN w = outpoints("tx", t, Tx[t].outs) \cup (DOMAIN u \ ins)
        /\ ins \subseteq DOMAIN u
        /\ fee \in Nat /\ Total(u) = Total(w) + fee
        /\ tip \in 0..fee
        /\ \A op \in DOMAIN u : op[1] # "tx" =>
             \/ op \in DOMAIN w /\ w[op] = u[op]
             \/ u[op].lockheight <= height
    <3>1. IsUtxo(u) /\ w = apply_spend_tx(u, t)
      BY <1>1 DEF u, w
    <3> QED BY <2>1, <2>2, <3>1, SpendOne
  <2>4. u \in Ledgers(before) /\ acc.spent \subseteq Points(before) /\ acc.tips \in [covered -> Nat]
    BY <1>1 DEF u
  <2>5. DOMAIN u \subseteq Points(before)
    BY <2>4 DEF Ledgers
  <2>6. DOMAIN w \subseteq Points(before)
    <3>1. Tx[t].outs \in Seq(Outputs)
      BY LedgerAssumption
    <3>2. DOMAIN Tx[t].outs \subseteq Nat
      BY <3>1, LenProperties
    <3>3. outpoints("tx", t, Tx[t].outs) \subseteq Points(before)
      BY <3>2 DEF outpoints, Points
    <3> QED BY <2>3, <2>5, <3>3
  <2>7. w \in Ledgers(before)
    BY <2>3, <2>6 DEF Ledgers, IsUtxo
  <2>8. /\ tips \in [covered -> Nat]
        /\ SumFunctionOnSet(tips, covered) = SumFunctionOnSet(acc.tips, covered) + tip
        /\ SumFunctionOnSet(acc.tips, covered) \in Nat
    <3>1. tip \in Nat
      BY <2>3
    <3> HIDE DEF tip
    <3> QED BY <2>4, <3>1, SumRaised
  <2> HIDE DEF tip, fee, ins, tips
  <2>9. /\ next.ok \in BOOLEAN /\ next.utxo = w /\ next.tips = tips
        /\ next \in Shape
    <3>1. next = [acc EXCEPT !.utxo = w, !.spent = @ \cup ins, !.tips = tips]
      BY <1>1, <1>5 DEF u, w, tip, ins, tips
    <3>2. acc.spent \cup ins \in SUBSET Points(before)
      BY <2>3, <2>4, <2>5
    <3> HIDE DEF next
    <3> QED BY <1>1, <2>7, <2>8, <3>1, <3>2
  <2>10. Total(w) + SumFunctionOnSet(tips, covered) <= Total(before)
    <3>1. Total(w) \in Nat
      BY <2>3, TotalOf DEF IsUtxo
    <3>2. Total(u) + SumFunctionOnSet(acc.tips, covered) <= Total(before)
      BY <1>1 DEF u
    <3>3. tip \in Nat /\ tip <= fee
      BY <2>3
    <3>4. Total(before) \in Nat
      BY TotalOf DEF IsUtxo
    <3> QED BY <2>3, <2>8, <3>1, <3>2, <3>3, <3>4
  <2>11. ASSUME NEW op \in DOMAIN before, op[1] = "coinbase"
         PROVE  \/ op \in DOMAIN w /\ w[op] = before[op]
                \/ before[op].lockheight <= height
    <3>1. \/ op \in DOMAIN u /\ u[op] = before[op]
          \/ before[op].lockheight <= height
      BY <1>1, <2>11 DEF u
    <3> QED BY <2>3, <2>11, <3>1
  <2> HIDE DEF next
  <2> QED BY <2>3, <2>9, <2>10, <2>11 DEF Accounts
<1>6. \/ next = acc
      \/ next = [acc EXCEPT !.skipped = @ \cup {t}]
      \/ next = [acc EXCEPT !.ok = FALSE]
      \/ /\ acc.ok /\ can_apply(acc.utxo, t, st.tree, st.floors, fruit, height)
         /\ next = [acc EXCEPT !.utxo    = apply_spend_tx(@, t),
                               !.spent   = @ \cup Tx[t].ins,
                               !.tips[f] = @ + tip_matoms(acc.utxo, t, floor)]
  BY Zenon DEF apply_fruit_tx
<1> HIDE DEF next
<1> QED BY <1>2, <1>3, <1>4, <1>5, <1>6

\* The last index of a part of a sequence is one of its indices.
LEMMA LastIndex ==
  ASSUME NEW n \in Nat
  PROVE  \A s \in SUBSET (1..n) : s # {} => Max(s) \in s
<1> SUFFICES ASSUME NEW s \in SUBSET (1..n), s # {} PROVE Max(s) \in s
  OBVIOUS
<1>1. s \subseteq Nat /\ \A x \in s : x <= n
  OBVIOUS
<1> QED BY <1>1, MaxInSet

\* One fruit's transactions keep the accounts, however many of them apply.
LEMMA ApplyFruit ==
  ASSUME NEW before, IsUtxo(before), NEW covered, IsFiniteSet(covered), NEW height,
         NEW acc \in Accounts(before, covered, height),
         NEW st, \A s \in DOMAIN st.floors : st.floors[s] \in Nat,
         NEW f \in covered, NEW fruit, fruit.txs \in Seq(DOMAIN Tx)
  PROVE  apply_fruit_txs(acc, f, fruit, st, height) \in Accounts(before, covered, height)
<1> DEFINE txs == fruit.txs
           n   == Len(txs)
           S   == 1..n
           All == Accounts(before, covered, height)
           Op(v, t) == apply_fruit_tx(v, f, fruit, t, st, height)
           step == [p \in S \X All |-> Op(p[2], txs[p[1]])]
           P    == [m \in 0..n |-> All]
           Body(g, s) == IF s = {} THEN acc ELSE Op(g[s \ {Max(s)}], txs[Max(s)])
           IsIter(g) == g = [s \in SUBSET S |-> Body(g, s)]
<1>1. n \in Nat /\ DOMAIN txs = S /\ \A i \in S : txs[i] \in DOMAIN Tx
  BY LenProperties
<1>2. \A s \in SUBSET S : s # {} => Max(s) \in s
  BY <1>1, LastIndex
<1>3. ASSUME NEW i \in S, NEW v \in All
      PROVE  step[<<i, v>>] = Op(v, txs[i]) /\ Op(v, txs[i]) \in All
  <2>1. step[<<i, v>>] = Op(v, txs[i])
    <3> HIDE DEF Op, All, S
    <3> QED OBVIOUS
  <2>2. Op(v, txs[i]) \in All
    BY <1>1, ApplyOne
  <2> QED BY <2>1, <2>2
<1>4. \A m \in 0..n : P[m] = All
  <2> HIDE DEF All
  <2> QED OBVIOUS
<1> HIDE DEF step, P, All, Op
<1>5. PICK g : /\ IsSeqFold(g, acc, step, n)
               /\ \A s \in SUBSET S : g[s] \in All
               /\ g[S] \in P[n]
  <2>1. acc \in All /\ acc \in P[0]
    BY <1>1, <1>4 DEF All
  <2>2. \A i \in 1..n : \A v \in All :
          step[<<i, v>>] \in All /\ (v \in P[i - 1] => step[<<i, v>>] \in P[i])
    <3>1. \A i \in 1..n : i \in 0..n
      BY <1>1
    <3> QED BY <1>3, <1>4, <3>1
  <2> HIDE DEF n
  <2> QED BY <1>1, <2>1, <2>2, SeqFoldExists
<1> HIDE DEF S
<1>6. IsIter(g)
  <2>1. \A s \in SUBSET S : s # {} => step[<<Max(s), g[s \ {Max(s)}]>>] = Op(g[s \ {Max(s)}], txs[Max(s)])
    BY <1>2, <1>3, <1>5
  <2>2. g = [s \in SUBSET S |-> IF s = {} THEN acc ELSE step[<<Max(s), g[s \ {Max(s)}]>>]]
    BY <1>5 DEF IsSeqFold, S
  <2> QED BY <2>1, <2>2
<1> DEFINE it == CHOOSE h : IsIter(h)
<1>7. IsIter(it)
  <2> HIDE DEF IsIter
  <2> QED BY <1>6, Zenon
<1>8. apply_fruit_txs(acc, f, fruit, st, height) = it[S]
  BY <1>1 DEF apply_fruit_txs, FoldLeft, MapThenFoldSet, Op
<1> HIDE DEF it
<1>9. it[S] = g[S]
  <2>1. \A s \in SUBSET S : it[s] = Body(it, s) /\ g[s] = Body(g, s)
    <3> HIDE DEF Body
    <3> QED BY <1>6, <1>7, Zenon
  <2>2. it[{}] = g[{}]
    BY <2>1
  <2>3. \A s \in SUBSET S : s # {} => (it[s \ {Max(s)}] = g[s \ {Max(s)}] => it[s] = g[s])
    BY <2>1
  <2> HIDE DEF n
  <2> QED BY <1>1, <2>2, <2>3, SeqFoldsAgree DEF S
<1>10. g[S] \in All
  BY <1>5
<1> QED BY <1>8, <1>9, <1>10 DEF All

\* So do all fruits an anchor covers.
LEMMA ApplyFruits ==
  ASSUME NEW st, IsUtxo(st.utxo), \A s \in DOMAIN st.floors : st.floors[s] \in Nat,
         NEW covered, IsFiniteSet(covered), NEW height, NEW ordered \in Seq(covered),
         ToSet(ordered) = covered,
         NEW bodies, \A f \in covered : bodies[f].txs \in Seq(DOMAIN Tx)
  PROVE  apply_anchor_fruits(bodies, ordered, st, height) \in Accounts(st.utxo, covered, height)
<1> DEFINE n   == Len(ordered)
           S   == 1..n
           All == Accounts(st.utxo, covered, height)
           base == [ok |-> TRUE, utxo |-> st.utxo, spent |-> {}, skipped |-> {},
                    tips |-> [f \in covered |-> 0]]
           Op(v, f) == apply_fruit_txs(v, f, bodies[f], st, height)
           step == [p \in S \X All |-> Op(p[2], ordered[p[1]])]
           P    == [m \in 0..n |-> All]
           Body(g, s) == IF s = {} THEN base ELSE Op(g[s \ {Max(s)}], ordered[Max(s)])
           IsIter(g) == g = [s \in SUBSET S |-> Body(g, s)]
<1>1. n \in Nat /\ DOMAIN ordered = S /\ \A i \in S : ordered[i] \in covered
  BY LenProperties
<1>2. \A s \in SUBSET S : s # {} => Max(s) \in s
  BY <1>1, LastIndex
<1>3. ASSUME NEW i \in S, NEW v \in All
      PROVE  step[<<i, v>>] = Op(v, ordered[i]) /\ Op(v, ordered[i]) \in All
  <2>1. step[<<i, v>>] = Op(v, ordered[i])
    <3> HIDE DEF Op, All, S
    <3> QED OBVIOUS
  <2>2. Op(v, ordered[i]) \in All
    BY <1>1, ApplyFruit
  <2> QED BY <2>1, <2>2
<1>4. \A m \in 0..n : P[m] = All
  <2> HIDE DEF All
  <2> QED OBVIOUS
<1>5. base \in All
  <2> DEFINE tips == [f \in covered |-> 0]
  <2>1. tips \in [covered -> Nat] /\ \A f \in covered : tips[f] \in Int /\ tips[f] = 0
    OBVIOUS
  <2> HIDE DEF tips
  <2>2. SumFunctionOnSet(tips, covered) = 0
    BY <2>1, SumZero
  <2>3. Total(st.utxo) \in Nat
    BY TotalOf DEF IsUtxo
  <2>4. st.utxo \in Ledgers(st.utxo)
    BY DEF Ledgers, Points, IsUtxo
  <2>5. base = [ok |-> TRUE, utxo |-> st.utxo, spent |-> {}, skipped |-> {}, tips |-> tips]
    BY DEF tips
  <2> HIDE DEF base
  <2> QED BY <2>1, <2>2, <2>3, <2>4, <2>5 DEF Accounts
<1> HIDE DEF step, P, All, Op, base
<1>6. PICK g : /\ IsSeqFold(g, base, step, n)
               /\ \A s \in SUBSET S : g[s] \in All
               /\ g[S] \in P[n]
  <2>1. base \in All /\ base \in P[0]
    BY <1>1, <1>4, <1>5
  <2>2. \A i \in 1..n : \A v \in All :
          step[<<i, v>>] \in All /\ (v \in P[i - 1] => step[<<i, v>>] \in P[i])
    <3>1. \A i \in 1..n : i \in 0..n
      BY <1>1
    <3> QED BY <1>3, <1>4, <3>1
  <2> HIDE DEF n
  <2> QED BY <1>1, <2>1, <2>2, SeqFoldExists
<1> HIDE DEF S
<1>7. IsIter(g)
  <2>1. \A s \in SUBSET S : s # {} =>
          step[<<Max(s), g[s \ {Max(s)}]>>] = Op(g[s \ {Max(s)}], ordered[Max(s)])
    BY <1>2, <1>3, <1>6
  <2>2. g = [s \in SUBSET S |-> IF s = {} THEN base ELSE step[<<Max(s), g[s \ {Max(s)}]>>]]
    BY <1>6 DEF IsSeqFold, S
  <2> QED BY <2>1, <2>2
<1> DEFINE it == CHOOSE h : IsIter(h)
<1>8. IsIter(it)
  <2> HIDE DEF IsIter
  <2> QED BY <1>7, Zenon
<1>9. apply_anchor_fruits(bodies, ordered, st, height) = it[S]
  BY <1>1 DEF apply_anchor_fruits, FoldLeft, MapThenFoldSet, Op, base
<1> HIDE DEF it
<1>10. it[S] = g[S]
  <2>1. \A s \in SUBSET S : it[s] = Body(it, s) /\ g[s] = Body(g, s)
    <3> HIDE DEF Body
    <3> QED BY <1>7, <1>8, Zenon
  <2>2. it[{}] = g[{}]
    BY <2>1
  <2>3. \A s \in SUBSET S : s # {} => (it[s \ {Max(s)}] = g[s \ {Max(s)}] => it[s] = g[s])
    BY <2>1
  <2> HIDE DEF n
  <2> QED BY <1>1, <2>2, <2>3, SeqFoldsAgree DEF S
<1>11. g[S] \in All
  BY <1>6
<1> QED BY <1>9, <1>10, <1>11 DEF All

-----------------------------------------------------------------------------
(* The subsidy of an interval.                                             *)

\* Halving a natural number gives natural numbers, however often.
LEMMA EpochPool == \A epoch \in Nat : epoch_pool(epoch) \in Nat
<1> SUFFICES ASSUME NEW epoch \in Nat PROVE epoch_pool(epoch) \in Nat
  OBVIOUS
<1> DEFINE init == INITIAL_EPOCH_SUBSIDY_MATOMS
           Value(g, e) == IF e = 0 THEN init ELSE g[e - 1] \div 2
           Halves(g, n) == g = [e \in 0..n |-> Value(g, e)]
           Reached(n) == \E g : Halves(g, n)
           Fails == {n \in Nat : ~ Reached(n)}
<1>1. init \in Nat
  BY RewardsAssumption
<1>2. Reached(0)
  <2> DEFINE g == [e \in 0..0 |-> init]
  <2>1. Halves(g, 0)
    OBVIOUS
  <2> HIDE DEF Halves, g
  <2> QED BY <2>1
<1>3. ASSUME NEW n \in Nat, Reached(n) PROVE Reached(n + 1)
  <2>1. PICK g : Halves(g, n)
    BY <1>3
  <2> DEFINE h == [e \in 0..(n + 1) |-> Value(g, e)]
  <2>2. \A e \in 0..n : e \in 0..(n + 1) /\ h[e] = g[e]
    <3>1. \A e \in 0..n : g[e] = Value(g, e)
      <4> HIDE DEF Value
      <4> QED BY <2>1, Zenon
    <3>2. 0..n \subseteq 0..(n + 1)
      OBVIOUS
    <3> HIDE DEF Value
    <3> QED BY <3>1, <3>2
  <2>3. \A e \in 0..(n + 1) : e # 0 => e - 1 \in 0..n
    OBVIOUS
  <2>4. \A e \in 0..(n + 1) : Value(g, e) = Value(h, e)
    <3> HIDE DEF h
    <3> QED BY <2>2, <2>3
  <2>5. Halves(h, n + 1)
    <3>1. h = [e \in 0..(n + 1) |-> Value(g, e)]
      OBVIOUS
    <3> HIDE DEF h, Value
    <3> QED BY <2>4, <3>1
  <2> HIDE DEF Halves, h
  <2> QED BY <2>5
<1>4. Fails = {}
  <2> HIDE DEF Reached
  <2>1. ASSUME Fails # {} PROVE FALSE
    <3>1. PICK n \in Fails : \A m \in Fails : n <= m
      BY <2>1, LeastNat
    <3>2. n # 0 /\ n - 1 \in Nat /\ n - 1 \notin Fails
      BY <3>1, <1>2
    <3> QED BY <3>1, <3>2, <1>3
  <2> QED BY <2>1
<1> DEFINE it == CHOOSE g : Halves(g, epoch)
<1>5. Halves(it, epoch)
  <2>1. Reached(epoch)
    <3> HIDE DEF Reached
    <3> QED BY <1>4
  <2> HIDE DEF Halves
  <2> QED BY <2>1, Zenon
<1>6. epoch_pool(epoch) = it[epoch]
  BY DEF epoch_pool
<1> HIDE DEF it
<1>7. \A e \in 0..epoch : it[e] = Value(it, e)
  <2> HIDE DEF Value
  <2> QED BY <1>5, Zenon
<1> DEFINE Bad == {e \in Nat : e <= epoch /\ it[e] \notin Nat}
<1>8. Bad = {}
  <2>1. ASSUME Bad # {} PROVE FALSE
    <3>1. PICK e \in Bad : \A m \in Bad : e <= m
      BY <2>1, LeastNat
    <3>2. e # 0
      BY <1>1, <1>7, <3>1
    <3>3. e - 1 \in 0..epoch /\ e - 1 \notin Bad
      BY <3>1, <3>2
    <3>4. it[e - 1] \in Nat /\ it[e] = it[e - 1] \div 2
      BY <1>7, <3>1, <3>2, <3>3
    <3>5. it[e] \in Nat
      BY <3>4
    <3> QED BY <3>1, <3>5
  <2> QED BY <2>1
<1> QED BY <1>6, <1>8

\* The subsidy of an interval is what is scheduled, or what is left to mint.
LEMMA SubsidyBounds ==
  ASSUME NEW h \in Nat \ {0}, NEW minted \in 0..MAX_SUPPLY_MATOMS
  PROVE  /\ interval_subsidy_matoms(h, minted) \in Nat
         /\ interval_subsidy_matoms(h, minted) <= MAX_SUPPLY_MATOMS - minted
         /\ interval_subsidy_matoms(h, 0) \in Nat
         /\ interval_subsidy_matoms(h, minted) <= interval_subsidy_matoms(h, 0)
<1> DEFINE H == HALVING_INTERVAL_ANCHORS
           epoch == (h - 1) \div H
           index == (h - 1) % H
           pool == epoch_pool(epoch)
           scheduled == scheduled_subsidy(epoch, index)
<1>1. H \in Nat \ {0} /\ MAX_SUPPLY_MATOMS \in Nat
  BY RewardsAssumption
<1>2. epoch \in Nat
  BY <1>1
<1> HIDE DEF epoch, index
<1>3. pool \in Nat
  BY <1>2, EpochPool
<1> HIDE DEF pool
<1>4. pool \div H \in Nat
  BY <1>1, <1>3
<1>5. scheduled = pool \div H + (IF index < pool % H THEN 1 ELSE 0)
  BY DEF scheduled_subsidy, pool
<1>6. scheduled \in Nat
  BY <1>4, <1>5
<1>7. ASSUME NEW m
      PROVE  interval_subsidy_matoms(h, m)
               = IF scheduled <= MAX_SUPPLY_MATOMS - m THEN scheduled ELSE MAX_SUPPLY_MATOMS - m
  BY DEF interval_subsidy_matoms, epoch, index
<1> HIDE DEF scheduled
<1> QED BY <1>1, <1>6, <1>7

\* What the first n intervals may issue.
Schedule(n) == SumFunction([h \in 1..n |-> interval_subsidy_matoms(h, 0)])

\* One interval more.
LEMMA ScheduleNext ==
  ASSUME NEW n \in Nat
  PROVE  /\ Schedule(n) \in Nat
         /\ Schedule(n + 1) = Schedule(n) + interval_subsidy_matoms(n + 1, 0)
<1> DEFINE old == [h \in 1..n |-> interval_subsidy_matoms(h, 0)]
           new == [h \in 1..(n + 1) |-> interval_subsidy_matoms(h, 0)]
<1>1. \A h \in 1..(n + 1) : interval_subsidy_matoms(h, 0) \in Nat
  <2>1. 0 \in 0..MAX_SUPPLY_MATOMS /\ \A h \in 1..(n + 1) : h \in Nat \ {0}
    BY RewardsAssumption
  <2> QED BY <2>1, SubsidyBounds
<1>2. /\ \A h \in 1..(n + 1) : new[h] \in Nat /\ new[h] \in Int
      /\ \A h \in 1..n : old[h] \in Nat /\ old[h] \in Int /\ old[h] = new[h]
      /\ new[n + 1] = interval_subsidy_matoms(n + 1, 0)
  BY <1>1
<1>3. Schedule(n) = SumFunctionOnSet(old, 1..n) /\ Schedule(n + 1) = SumFunctionOnSet(new, 1..(n + 1))
  BY DEF Schedule, SumFunction
<1> HIDE DEF old, new
<1>4. IsFiniteSet(1..n) /\ IsFiniteSet(1..(n + 1))
  BY FS_Interval
<1>5. n + 1 \in 1..(n + 1) /\ (1..(n + 1)) \ {n + 1} = 1..n
  OBVIOUS
<1>6. SumFunctionOnSet(new, 1..(n + 1)) = new[n + 1] + SumFunctionOnSet(new, 1..n)
  <2> DEFINE S == 1..(n + 1)
  <2>1. IsFiniteSet(S) /\ \A h \in S : new[h] \in Int
    BY <1>2, <1>4
  <2>2. SumFunctionOnSet(new, S) = new[n + 1] + SumFunctionOnSet(new, S \ {n + 1})
    <3>1. n + 1 \in S
      BY <1>5
    <3> HIDE DEF S
    <3> QED BY <2>1, <3>1, SumAdd
  <2> QED BY <1>5, <2>2
<1>7. SumFunctionOnSet(old, 1..n) = SumFunctionOnSet(new, 1..n)
  <2> DEFINE S == 1..n
  <2>1. IsFiniteSet(S) /\ \A h \in S : old[h] \in Int /\ old[h] = new[h]
    BY <1>2, <1>4
  <2> HIDE DEF S
  <2>2. SumFunctionOnSet(old, S) = SumFunctionOnSet(new, S)
    BY <2>1, SumSame
  <2> QED BY <2>2 DEF S
<1>8. SumFunctionOnSet(old, 1..n) \in Nat
  <2> DEFINE S == 1..n
  <2>1. IsFiniteSet(S) /\ \A h \in S : old[h] \in Nat
    BY <1>2, <1>4
  <2> HIDE DEF S
  <2>2. SumFunctionOnSet(old, S) \in Nat
    BY <2>1, SumNat
  <2> QED BY <2>2 DEF S
<1>9. interval_subsidy_matoms(n + 1, 0) \in Nat
  BY <1>1, <1>5
<1> QED BY <1>2, <1>3, <1>6, <1>7, <1>8, <1>9

\* A share of s by weight is between nothing and s.
LEMMA ShareOf ==
  ASSUME NEW s \in Nat, NEW w \in Nat \ {0}, NEW a \in Nat
  PROVE  (s * w) \div (w + a) \in 0..s
<1> DEFINE p == s * w
           d == w + a
           q == p \div d
<1>1. p \in Nat /\ d \in Nat \ {0}
  OBVIOUS
<1>2. p <= s * d
  <2>1. s * d = s * w + s * a
    OBVIOUS
  <2>2. s * a \in Nat
    OBVIOUS
  <2> QED BY <1>1, <2>1, <2>2
<1> HIDE DEF p, d
<1>3. q \in Nat /\ q * d <= p
  BY <1>1
<1> HIDE DEF q
<1>4. ASSUME q > s PROVE FALSE
  <2>1. PICK e \in Nat : q = s + 1 + e
    <3>1. q - s - 1 \in Nat /\ q = s + 1 + (q - s - 1)
      BY <1>3, <1>4
    <3> QED BY <3>1
  <2>2. q * d = s * d + d + e * d
    BY <1>1, <2>1
  <2>3. e * d \in Nat /\ s * d \in Nat
    BY <1>1, <2>1
  <2> QED BY <1>1, <1>2, <1>3, <2>2, <2>3
<1> QED BY <1>3, <1>4 DEF q, p, d

\* The fruits' share of a subsidy.
LEMMA FruitPool ==
  ASSUME NEW count \in Nat, NEW subsidy \in Nat, NEW target
  PROVE  fruit_pool(count, subsidy, target) \in 0..subsidy
<1>1. CASE count = 0
  BY <1>1 DEF fruit_pool
<1>2. CASE count # 0
  <2> DEFINE w == count * FRUIT_REWARD_WEIGHT
             a == anchor_work_weight(target)
  <2>1. w \in Nat \ {0}
    <3>1. FRUIT_REWARD_WEIGHT \in Nat \ {0}
      BY RewardsAssumption
    <3>2. \A x, y \in Nat \ {0} : x * y \in Nat \ {0}
      OBVIOUS
    <3> QED BY <1>2, <3>1, <3>2
  <2>2. a \in Nat
    BY DAAAssumption DEF anchor_work_weight
  <2>3. fruit_pool(count, subsidy, target) = (subsidy * w) \div (w + a)
    BY <1>2 DEF fruit_pool
  <2> HIDE DEF w, a
  <2> QED BY <2>1, <2>2, <2>3, ShareOf
<1> QED BY <1>1, <1>2

\* The fruits' shares of their pool add up to it.
LEMMA SharesOfPool ==
  ASSUME NEW covered, IsFiniteSet(covered), covered # {}, covered \subseteq Nat,
         NEW keys \in [covered -> Nat], NEW subsidy \in Nat, NEW target,
         NEW assigned, assigned = fruit_subsidy_assignments(keys, subsidy, target)
  PROVE  /\ assigned \in [covered -> Nat]
         /\ SumFunctionOnSet(assigned, covered)
              <= fruit_pool(Cardinality(covered), subsidy, target)
<1> DEFINE count == Cardinality(covered)
           pool == fruit_pool(count, subsidy, target)
           Before(g, f) == keys[g] < keys[f] \/ (keys[g] = keys[f] /\ g < f)
           R == {p \in covered \X covered : Before(p[1], p[2])}
           Rank(f) == Cardinality({g \in covered : Before(g, f)})
           q == pool \div count
           r == pool % count
           T == {f \in covered : Rank(f) < r}
<1>1. count \in Nat \ {0}
  BY FS_CardinalityType, FS_EmptySet
<1>2. pool \in Nat
  BY <1>1, FruitPool
<1> HIDE DEF pool, count
<1>3. q \in Nat /\ r \in Nat /\ pool = q * count + r
  BY <1>1, <1>2
<1>4. \A g, f \in covered : <<g, f>> \in R <=> Before(g, f)
  <2> HIDE DEF Before
  <2> QED OBVIOUS
<1>5. IsStrictOrder(R, covered)
  <2>1. \A f \in covered : keys[f] \in Nat /\ f \in Nat
    OBVIOUS
  <2>2. \A x \in covered : ~ Before(x, x)
    BY <2>1
  <2>3. \A x, y, z \in covered : Before(x, y) /\ Before(y, z) => Before(x, z)
    BY <2>1
  <2>4. \A x, y \in covered : x = y \/ Before(x, y) \/ Before(y, x)
    BY <2>1
  <2> HIDE DEF R, Before
  <2> QED BY <1>4, <2>2, <2>3, <2>4 DEF IsStrictOrder
<1>6. \A f \in covered : Rank(f) = RankIn(covered, R, f)
  <2> SUFFICES ASSUME NEW f \in covered PROVE Rank(f) = RankIn(covered, R, f)
    OBVIOUS
  <2>1. {g \in covered : Before(g, f)} = {g \in covered : <<g, f>> \in R}
    <3> HIDE DEF R, Before
    <3> QED BY <1>4
  <2> QED BY <2>1 DEF RankIn
<1> HIDE DEF R
<1>7. /\ \A f \in covered : Rank(f) \in Nat
      /\ \A f, g \in covered : Rank(f) = Rank(g) => f = g
  <2> DEFINE rank == [f \in covered |-> RankIn(covered, R, f)]
  <2>1. /\ \A f \in covered : rank[f] \in 0..(count - 1)
        /\ \A f, g \in covered : <<f, g>> \in R <=> rank[f] < rank[g]
    BY <1>5, RanksFill DEF count
  <2>2. \A f \in covered : Rank(f) = rank[f]
    BY <1>6
  <2> HIDE DEF rank, Rank
  <2>3. \A f \in covered : rank[f] \in Nat
    BY <1>1, <2>1
  <2>4. \A f, g \in covered : rank[f] = rank[g] => f = g
    BY <1>5, <2>1, <2>3 DEF IsStrictOrder
  <2> QED BY <2>2, <2>3, <2>4
<1>8. Cardinality(T) <= r /\ Cardinality(T) \in Nat
  <2> DEFINE place == [f \in T |-> Rank(f) + 1]
  <2> HIDE DEF r, Rank
  <2>1. place \in Injection(T, 1..r)
    <3>1. \A f \in T : place[f] = Rank(f) + 1 /\ Rank(f) \in Nat /\ Rank(f) < r /\ f \in covered
      BY <1>7
    <3>2. place \in [T -> 1..r]
      <4>1. \A f \in T : Rank(f) + 1 \in 1..r
        BY <1>3, <3>1
      <4> HIDE DEF T
      <4> QED BY <4>1
    <3>3. \A f, g \in T : place[f] = place[g] => f = g
      BY <1>7, <3>1
    <3> HIDE DEF place, T
    <3> QED BY <3>2, <3>3 DEF Injection, IsInjective
  <2>2. IsFiniteSet(1..r) /\ Cardinality(1..r) = r
    BY <1>3, FS_Interval
  <2>3. IsFiniteSet(T)
    BY FS_Subset
  <2> HIDE DEF place, T
  <2> QED BY <2>1, <2>2, <2>3, FS_Injection, FS_CardinalityType
<1>9. assigned = [f \in covered |-> q + (IF Rank(f) < r THEN 1 ELSE 0)]
  BY DEF fruit_subsidy_assignments, pool, count
<1> HIDE DEF q, r, Rank
<1>10. assigned \in [covered -> Nat]
  BY <1>3, <1>9
<1>11. SumFunctionOnSet(assigned, covered) = q * count + Cardinality(T)
  <2>1. \A f \in covered : assigned[f] = q + (IF f \in T THEN 1 ELSE 0)
    BY <1>9
  <2>2. T \in SUBSET covered /\ q \in Int
    BY <1>3
  <2> HIDE DEF T
  <2> QED BY <2>1, <2>2, SumShares DEF count
<1>12. q * count \in Nat
  BY <1>1, <1>3
<1>13. SumFunctionOnSet(assigned, covered) <= pool
  BY <1>3, <1>8, <1>11, <1>12
<1> QED BY <1>10, <1>13 DEF pool, count

-----------------------------------------------------------------------------
(* What an anchor issues.                                                  *)

\* The outpoints of a fruit's coinbase.
CoinbasePoints(bodies, f) ==
  outpoints("coinbase", bodies[f].coinbase, Coinbase[bodies[f].coinbase].outs)

\* An anchor whose payload and covered fruits the parsers accepted.
IsClaim(bodies, anchor) ==
  /\ IsFiniteSet(anchor.covered) /\ anchor.covered \subseteq Nat \ {NoHash}
  /\ \A f \in anchor.covered : bodies[f].coinbase \in DOMAIN Coinbase
  /\ anchor.rewards \in Seq(Outputs)
  /\ anchor.height \in Nat
  /\ \A f, g \in anchor.covered : f # g => CoinbasePoints(bodies, f) \cap CoinbasePoints(bodies, g) = {}

\* What the covered fruits' coinbases pay.
Claims(bodies, anchor) == [f \in anchor.covered |-> coinbase_claim(bodies[f])]

\* The coins an anchor makes: its rewards and the coinbases of the fruits it
\* covers, each at its own outpoint and the coinbases locked until maturity.
LEMMA RewardCoins ==
  ASSUME NEW bodies, NEW a, NEW anchor, IsClaim(bodies, anchor),
         NEW made, made = reward_utxos(bodies, a, anchor)
  PROVE  /\ IsUtxo(made)
         /\ DOMAIN made = (UNION {CoinbasePoints(bodies, f) : f \in anchor.covered})
                            \cup outpoints("anchor", a, anchor.rewards)
         /\ \A f \in anchor.covered : \A op \in CoinbasePoints(bodies, f) :
              op \in DOMAIN made
                /\ made[op].lockheight >= anchor.height + COINBASE_MATURITY_ANCHORS
         /\ Claims(bodies, anchor) \in [anchor.covered -> Nat] /\ output_sum(anchor.rewards) \in Nat
         /\ Total(made) = output_sum(anchor.rewards)
                            + SumFunctionOnSet(Claims(bodies, anchor), anchor.covered)
<1> DEFINE covered == anchor.covered
           claims == Claims(bodies, anchor)
           rewards == anchor.rewards
           I == covered \cup {NoHash}
           maturity == coinbase_maturity_height(anchor.height)
           paid(f) == utxos_from_outputs("coinbase", bodies[f].coinbase,
                                         Coinbase[bodies[f].coinbase].outs, maturity)
           earned == utxos_from_outputs("anchor", a, rewards, 0)
           coin == [i \in I |-> IF i = NoHash THEN earned ELSE paid(i)]
           created == {paid(f) : f \in covered} \cup {earned}
           part == [i \in I |-> DOMAIN coin[i]]
           worth == [i \in I |-> IF i = NoHash THEN output_sum(rewards) ELSE claims[i]]
<1>1. /\ IsFiniteSet(covered) /\ NoHash \notin covered /\ rewards \in Seq(Outputs)
      /\ \A f \in covered : Coinbase[bodies[f].coinbase].outs \in Seq(Outputs)
      /\ maturity \in Nat /\ maturity = anchor.height + COINBASE_MATURITY_ANCHORS
  BY RewardsAssumption, LedgerAssumption DEF IsClaim, coinbase_maturity_height
<1>2. ASSUME NEW f \in covered
      PROVE  /\ IsUtxo(paid(f)) /\ DOMAIN paid(f) = CoinbasePoints(bodies, f)
             /\ \A op \in DOMAIN paid(f) : op[1] = "coinbase" /\ paid(f)[op].lockheight >= maturity
             /\ Total(paid(f)) = claims[f] /\ claims[f] \in Nat
  <2> DEFINE outs == Coinbase[bodies[f].coinbase].outs
             u == paid(f)
  <2>1. outs \in Seq(Outputs) /\ maturity \in Nat
    BY <1>1
  <2>2. u = utxos_from_outputs("coinbase", bodies[f].coinbase, outs, maturity)
    OBVIOUS
  <2> HIDE DEF u, outs, maturity
  <2>3. /\ IsUtxo(u) /\ DOMAIN u = outpoints("coinbase", bodies[f].coinbase, outs)
        /\ \A op \in DOMAIN u : op[1] = "coinbase" /\ u[op].lockheight >= maturity
        /\ Total(u) = output_sum(outs) /\ output_sum(outs) \in Nat
    BY <2>1, <2>2, OutputsTyped
  <2>4. claims[f] = output_sum(outs)
    BY DEF Claims, coinbase_claim, outs
  <2>5. DOMAIN u = CoinbasePoints(bodies, f)
    BY <2>3 DEF CoinbasePoints, outs
  <2>6. /\ IsUtxo(u) /\ DOMAIN u = CoinbasePoints(bodies, f)
        /\ \A op \in DOMAIN u : op[1] = "coinbase" /\ u[op].lockheight >= maturity
        /\ Total(u) = claims[f] /\ claims[f] \in Nat
    BY <2>3, <2>4, <2>5
  <2> QED BY <2>6 DEF u
<1>3. /\ IsUtxo(earned) /\ DOMAIN earned = outpoints("anchor", a, rewards)
      /\ \A op \in DOMAIN earned : op[1] = "anchor"
      /\ Total(earned) = output_sum(rewards) /\ output_sum(rewards) \in Nat
  <2>1. earned = utxos_from_outputs("anchor", a, rewards, 0) /\ rewards \in Seq(Outputs)
    BY <1>1
  <2> HIDE DEF earned, rewards
  <2> QED BY <2>1, OutputsTyped
<1> HIDE DEF paid, earned, maturity, claims
<1>4. /\ coin[NoHash] = earned /\ \A f \in covered : coin[f] = paid(f)
      /\ part[NoHash] = DOMAIN earned /\ \A f \in covered : part[f] = CoinbasePoints(bodies, f)
      /\ worth[NoHash] = output_sum(rewards) /\ \A f \in covered : worth[f] = claims[f]
  BY <1>1, <1>2
<1>5. \A i \in I : IsUtxo(coin[i]) /\ part[i] = DOMAIN coin[i]
                   /\ Total(coin[i]) = worth[i] /\ worth[i] \in Nat
  BY <1>2, <1>3, <1>4
<1>6. created = {coin[i] : i \in I}
  BY <1>4
<1>7. \A i, j \in I : i # j => part[i] \cap part[j] = {}
  <2>1. \A f, g \in covered : f # g => part[f] \cap part[g] = {}
    BY <1>4 DEF IsClaim
  <2>2. \A f \in covered : part[f] \cap part[NoHash] = {}
    BY <1>2, <1>3, <1>4
  <2> HIDE DEF part
  <2> QED BY <2>1, <2>2
<1>8. made = [op \in UNION {DOMAIN c : c \in created} |-> (CHOOSE c \in created : op \in DOMAIN c)[op]]
  BY DEF reward_utxos, paid, earned, maturity
<1> HIDE DEF coin, created, part, worth, covered, rewards
<1>9. DOMAIN made = UNION {part[i] : i \in I}
  <2>1. UNION {DOMAIN c : c \in created} = UNION {part[i] : i \in I}
    BY <1>5, <1>6
  <2> QED BY <1>8, <2>1
<1>10. ASSUME NEW i \in I, NEW op \in part[i] PROVE op \in DOMAIN made /\ made[op] = coin[i][op]
  <2>1. op \in DOMAIN made
    BY <1>9
  <2> DEFINE Holds(c) == c \in created /\ op \in DOMAIN c
             c == CHOOSE d : Holds(d)
  <2>2. Holds(coin[i])
    BY <1>5, <1>6
  <2>3. Holds(c)
    <3> HIDE DEF Holds
    <3> QED BY <2>2, Zenon
  <2>4. made[op] = c[op]
    BY <1>8, <2>1
  <2> HIDE DEF c
  <2>5. PICK j \in I : c = coin[j]
    BY <1>6, <2>3
  <2>6. op \in part[j]
    BY <1>5, <2>3, <2>5
  <2>7. j = i
    BY <1>7, <2>6
  <2> QED BY <2>1, <2>4, <2>5, <2>7
<1>11. IsFiniteSet(I)
  BY <1>1, FS_AddElement
<1> DEFINE value == amounts(made)
           total == [i \in I |-> SumFunctionOnSet(value, part[i])]
<1>12. ASSUME NEW i \in I
       PROVE  /\ IsFiniteSet(part[i]) /\ \A op \in part[i] : made[op] \in Outputs
              /\ \A op \in part[i] : value[op] \in Int
              /\ total[i] = SumFunctionOnSet(value, part[i]) /\ total[i] = worth[i]
  <2>1. IsUtxo(coin[i]) /\ part[i] = DOMAIN coin[i] /\ Total(coin[i]) = worth[i]
    BY <1>5
  <2>2. IsFiniteSet(part[i]) /\ \A op \in part[i] : coin[i][op] \in Outputs
    BY <2>1 DEF IsUtxo
  <2>3. \A op \in part[i] : made[op] \in Outputs
    BY <1>10, <2>2
  <2>4. /\ \A op \in part[i] : amounts(coin[i])[op] = coin[i][op].amount /\ amounts(coin[i])[op] \in Nat
        /\ Total(coin[i]) = SumFunctionOnSet(amounts(coin[i]), part[i])
    BY <2>1, <2>2, TotalOf
  <2>5. ASSUME NEW op \in part[i]
        PROVE  value[op] \in Int /\ value[op] = amounts(coin[i])[op]
    <3>1. op \in DOMAIN made /\ made[op] = coin[i][op]
      BY <1>10
    <3>2. value[op] = made[op].amount
      BY <3>1 DEF amounts
    <3> QED BY <2>4, <3>1, <3>2
  <2> HIDE DEF value
  <2>6. SumFunctionOnSet(value, part[i]) = SumFunctionOnSet(amounts(coin[i]), part[i])
    BY <2>2, <2>5, SumSame
  <2>7. total[i] = SumFunctionOnSet(value, part[i])
    OBVIOUS
  <2> QED BY <2>1, <2>2, <2>3, <2>4, <2>5, <2>6, <2>7
<1> HIDE DEF value, total
<1>13. /\ IsFiniteSet(UNION {part[i] : i \in I})
       /\ SumFunctionOnSet(value, UNION {part[i] : i \in I}) = SumFunctionOnSet(total, I)
  <2>1. IsSplit(I, part, value, total)
    BY <1>7, <1>11, <1>12 DEF IsSplit
  <2> HIDE DEF I
  <2> QED BY <2>1, SumByParts
<1>14. IsUtxo(made)
  <2>1. made = [op \in DOMAIN made |-> made[op]]
    BY <1>8
  <2>2. \A op \in DOMAIN made : made[op] \in Outputs
    BY <1>9, <1>12
  <2>3. IsFiniteSet(DOMAIN made)
    BY <1>9, <1>13
  <2> QED BY <2>1, <2>2, <2>3 DEF IsUtxo
<1>15. Total(made) = SumFunctionOnSet(total, I)
  <2>1. Total(made) = SumFunctionOnSet(amounts(made), DOMAIN made)
    BY <1>14, TotalOf DEF IsUtxo
  <2> QED BY <1>9, <1>13, <2>1 DEF value
<1>16. SumFunctionOnSet(total, I) = output_sum(rewards) + SumFunctionOnSet(claims, covered)
  <2>1. \A i \in I : total[i] \in Int
    BY <1>5, <1>12
  <2>2. NoHash \in I /\ I \ {NoHash} = covered
    BY <1>1
  <2>3. SumFunctionOnSet(total, I) = total[NoHash] + SumFunctionOnSet(total, I \ {NoHash})
    <3>1. NoHash \in I
      BY <2>2
    <3> HIDE DEF I
    <3> QED BY <1>11, <2>1, <3>1, SumAdd
  <2>4. SumFunctionOnSet(total, covered) = SumFunctionOnSet(claims, covered)
    <3>1. \A f \in covered : total[f] \in Int /\ total[f] = claims[f]
      BY <1>4, <1>12, <2>1
    <3> QED BY <1>1, <3>1, SumSame
  <2> QED BY <1>4, <1>12, <2>2, <2>3, <2>4
<1>17. DOMAIN made = (UNION {CoinbasePoints(bodies, f) : f \in covered})
                        \cup outpoints("anchor", a, rewards)
  BY <1>3, <1>4, <1>9
<1>18. ASSUME NEW f \in covered, NEW op \in CoinbasePoints(bodies, f)
       PROVE  op \in DOMAIN made /\ made[op].lockheight >= anchor.height + COINBASE_MATURITY_ANCHORS
  <2>1. f \in I /\ op \in part[f]
    BY <1>4
  <2>2. op \in DOMAIN made /\ made[op] = coin[f][op]
    BY <1>10, <2>1
  <2>3. paid(f)[op].lockheight >= maturity
    BY <1>2, <2>1
  <2> QED BY <1>1, <1>4, <2>2, <2>3
<1>19. claims \in [covered -> Nat]
  <2>1. claims = [f \in covered |-> claims[f]]
    BY DEF covered, claims, Claims
  <2> QED BY <1>2, <2>1
<1> QED BY <1>3, <1>14, <1>15, <1>16, <1>17, <1>18, <1>19 DEF covered, rewards, claims

\* Claims that the tips and the assigned shares allow, and what is above the tips.
MayClaim(S, claims, tips, assigned) ==
  /\ IsFiniteSet(S)
  /\ claims \in [S -> Nat] /\ tips \in [S -> Nat] /\ assigned \in [S -> Nat]
  /\ \A f \in S : claims[f] <= assigned[f] + tips[f]

AboveTips(S, claims, tips) ==
  [f \in S |-> IF claims[f] >= tips[f] THEN claims[f] - tips[f] ELSE 0]

\* What fruits claim above their tips is issued: with the tips it covers the
\* claims, and it is no more than the shares the fruits were assigned.
LEMMA IssueOf ==
  ASSUME NEW S, NEW claims, NEW tips, NEW assigned, MayClaim(S, claims, tips, assigned),
         NEW extra, extra = AboveTips(S, claims, tips)
  PROVE  /\ SumFunction(extra) = SumFunctionOnSet(extra, S) /\ SumFunctionOnSet(extra, S) \in Nat
         /\ SumFunctionOnSet(tips, S) \in Nat /\ SumFunctionOnSet(claims, S) \in Nat
         /\ SumFunctionOnSet(claims, S) <= SumFunctionOnSet(extra, S) + SumFunctionOnSet(tips, S)
         /\ SumFunctionOnSet(extra, S) <= SumFunctionOnSet(assigned, S)
<1>1. /\ IsFiniteSet(S)
      /\ \A f \in S : claims[f] \in Nat /\ tips[f] \in Nat /\ assigned[f] \in Nat
      /\ \A f \in S : claims[f] <= assigned[f] + tips[f]
  BY DEF MayClaim
<1>2. \A f \in S : /\ extra[f] \in Nat /\ extra[f] <= assigned[f]
                   /\ claims[f] <= extra[f] + tips[f]
  BY <1>1 DEF AboveTips
<1>3. DOMAIN extra = S
  BY DEF AboveTips
<1> DEFINE both == [f \in S |-> extra[f] + tips[f]]
<1>4. /\ \A f \in S : both[f] \in Int /\ claims[f] \in Int /\ claims[f] <= both[f]
      /\ \A f \in S : extra[f] \in Int /\ assigned[f] \in Int /\ extra[f] <= assigned[f]
      /\ AddUp(extra, tips, both, S)
  BY <1>1, <1>2 DEF AddUp
<1> HIDE DEF both
<1>5. SumFunctionOnSet(claims, S) <= SumFunctionOnSet(both, S)
  BY <1>1, <1>4, SumMonotone
<1>6. SumFunctionOnSet(both, S) = SumFunctionOnSet(extra, S) + SumFunctionOnSet(tips, S)
  BY <1>1, <1>4, SumOfSums
<1>7. SumFunctionOnSet(extra, S) <= SumFunctionOnSet(assigned, S)
  BY <1>1, <1>4, SumMonotone
<1>8. /\ SumFunctionOnSet(extra, S) \in Nat
      /\ SumFunctionOnSet(tips, S) \in Nat /\ SumFunctionOnSet(claims, S) \in Nat
  BY <1>1, <1>2, SumNat
<1>9. SumFunction(extra) = SumFunctionOnSet(extra, S)
  BY <1>3 DEF SumFunction
<1> QED BY <1>5, <1>6, <1>7, <1>8, <1>9

\* What holds of a branch state: no coin without issuance, no issuance above the
\* cap or the schedule, and no coinbase gone before it was mature.
Sound(st, bodies) ==
  /\ st = [height |-> st.height, tree |-> st.tree, floors |-> st.floors, utxo |-> st.utxo,
           minted |-> st.minted, claimed |-> st.claimed, confirmed |-> st.confirmed]
  /\ st.height \in Nat
  /\ \A s \in DOMAIN st.floors : st.floors[s] \in Nat
  /\ IsUtxo(st.utxo)
  /\ st.minted \in 0..MAX_SUPPLY_MATOMS
  /\ Total(st.utxo) <= st.minted /\ st.minted <= Schedule(st.height)
  /\ DOMAIN st.claimed \subseteq DOMAIN bodies
  /\ \A f \in DOMAIN st.claimed :
       /\ st.claimed[f] \in 1..st.height
       /\ \A op \in CoinbasePoints(bodies, f) :
            \/ /\ op \in DOMAIN st.utxo
               /\ st.utxo[op].lockheight >= st.claimed[f] + COINBASE_MATURITY_ANCHORS
            \/ st.height >= st.claimed[f] + COINBASE_MATURITY_ANCHORS

\* An anchor over stored fruits, one above the branch it extends.
Extends(anchor, st, bodies) ==
  /\ IsFiniteSet(anchor.covered) /\ anchor.covered # {} /\ anchor.covered \subseteq DOMAIN bodies
  /\ anchor.covered \subseteq Nat \ {NoHash}
  /\ \A f \in anchor.covered : bodies[f].coinbase \in DOMAIN Coinbase
  /\ anchor.rewards \in Seq(Outputs)
  /\ \A s \in DOMAIN anchor.floors : anchor.floors[s] \in Nat
  /\ anchor.height = st.height + 1

\* The checks on an anchor's rewards bound what it issues.
LEMMA ClaimBounds ==
  ASSUME NEW bodies, NEW st, Sound(st, bodies), NEW anchor, Extends(anchor, st, bodies),
         NEW local, local = Restrict(bodies, anchor.covered),
         NEW applied \in Accounts(st.utxo, anchor.covered, anchor.height), NEW a,
         may_claim_rewards(local, a, anchor, st, applied),
         NEW made, made = reward_utxos(local, a, anchor),
         NEW issued, issued = minted_increment(local, anchor, applied.tips)
  PROVE  /\ IsUtxo(made) /\ DOMAIN made \cap DOMAIN applied.utxo = {}
         /\ issued \in Nat /\ st.minted + issued <= MAX_SUPPLY_MATOMS
         /\ issued <= interval_subsidy_matoms(anchor.height, 0)
         /\ Total(made) + Total(applied.utxo) <= st.minted + issued
         /\ \A f \in anchor.covered : \A op \in CoinbasePoints(bodies, f) :
              op \in DOMAIN made
                /\ made[op].lockheight >= anchor.height + COINBASE_MATURITY_ANCHORS
         /\ \A f \in anchor.covered : f \notin DOMAIN st.claimed
<1> DEFINE covered == anchor.covered
           subsidy == interval_subsidy_matoms(anchor.height, st.minted)
           keys == [f \in covered |-> Coinbase[local[f].coinbase].key]
           assigned == fruit_subsidy_assignments(keys, subsidy, anchor.target)
           claims == Claims(local, anchor)
           tips == applied.tips
           count == Cardinality(covered)
           fpool == fruit_pool(count, subsidy, anchor.target)
           reward == output_sum(anchor.rewards)
           extra == AboveTips(covered, claims, tips)
<1>1. \A f \in covered : local[f] = bodies[f] /\ local[f].coinbase \in DOMAIN Coinbase
                         /\ CoinbasePoints(local, f) = CoinbasePoints(bodies, f)
  BY DEF Extends, Restrict, CoinbasePoints
<1>2. /\ IsFiniteSet(covered) /\ covered # {} /\ covered \subseteq Nat \ {NoHash}
      /\ anchor.height \in Nat \ {0} /\ st.minted \in 0..MAX_SUPPLY_MATOMS
      /\ IsUtxo(st.utxo) /\ Total(st.utxo) <= st.minted
  BY DEF Extends, Sound
<1>3. /\ tips \in [covered -> Nat] /\ IsUtxo(applied.utxo)
      /\ Total(applied.utxo) + SumFunctionOnSet(tips, covered) <= Total(st.utxo)
  BY DEF Accounts
<1>4. /\ reward <= subsidy - fpool
      /\ \A f \in covered :
           /\ f \notin DOMAIN st.claimed
           /\ claims[f] <= assigned[f] + tips[f]
           /\ CoinbasePoints(local, f) \cap DOMAIN applied.utxo = {}
           /\ \A g \in covered \ {f} : CoinbasePoints(local, f) \cap CoinbasePoints(local, g) = {}
      /\ outpoints("anchor", a, anchor.rewards) \cap DOMAIN applied.utxo = {}
      /\ st.minted + issued <= MAX_SUPPLY_MATOMS
  BY DEF may_claim_rewards, anchor_pool, CoinbasePoints, Claims
<1>5. issued = reward + SumFunction(extra)
  BY DEF minted_increment, AboveTips, Claims
<1>6. subsidy \in Nat /\ subsidy <= interval_subsidy_matoms(anchor.height, 0)
      /\ interval_subsidy_matoms(anchor.height, 0) \in Nat
  BY <1>2, SubsidyBounds
<1>7. count \in Nat
  BY <1>2, FS_CardinalityType
<1> HIDE DEF subsidy, count
<1>8. fpool \in 0..subsidy
  BY <1>6, <1>7, FruitPool
<1>9. assigned \in [covered -> Nat] /\ SumFunctionOnSet(assigned, covered) <= fpool
  <2>1. keys \in [covered -> Nat]
    BY <1>1, LedgerAssumption
  <2>2. covered \subseteq Nat
    BY <1>2
  <2> HIDE DEF keys, covered
  <2> QED BY <1>2, <1>6, <2>1, <2>2, SharesOfPool DEF count
<1>10. IsClaim(local, anchor)
  BY <1>1, <1>2, <1>4 DEF IsClaim, Extends
<1>11. /\ IsUtxo(made)
       /\ DOMAIN made = (UNION {CoinbasePoints(local, f) : f \in anchor.covered})
                          \cup outpoints("anchor", a, anchor.rewards)
       /\ \A f \in anchor.covered : \A op \in CoinbasePoints(local, f) :
            op \in DOMAIN made
              /\ made[op].lockheight >= anchor.height + COINBASE_MATURITY_ANCHORS
       /\ claims \in [anchor.covered -> Nat] /\ reward \in Nat
       /\ Total(made) = reward + SumFunctionOnSet(claims, anchor.covered)
  <2> HIDE DEF covered, keys, assigned, claims, fpool, reward, tips, extra
  <2>1. /\ IsUtxo(made)
        /\ DOMAIN made = (UNION {CoinbasePoints(local, f) : f \in anchor.covered})
                           \cup outpoints("anchor", a, anchor.rewards)
        /\ \A f \in anchor.covered : \A op \in CoinbasePoints(local, f) :
             op \in DOMAIN made
               /\ made[op].lockheight >= anchor.height + COINBASE_MATURITY_ANCHORS
        /\ Claims(local, anchor) \in [anchor.covered -> Nat] /\ output_sum(anchor.rewards) \in Nat
        /\ Total(made) = output_sum(anchor.rewards)
                           + SumFunctionOnSet(Claims(local, anchor), anchor.covered)
    BY <1>10, RewardCoins, SMTT(30)
  <2> QED BY <2>1, Zenon DEF claims, reward
<1> HIDE DEF assigned, claims, fpool, reward, tips, extra
<1>12. /\ SumFunction(extra) = SumFunctionOnSet(extra, covered) /\ SumFunctionOnSet(extra, covered) \in Nat
       /\ SumFunctionOnSet(tips, covered) \in Nat /\ SumFunctionOnSet(claims, covered) \in Nat
       /\ SumFunctionOnSet(claims, covered) <= SumFunctionOnSet(extra, covered) + SumFunctionOnSet(tips, covered)
       /\ SumFunctionOnSet(extra, covered) <= SumFunctionOnSet(assigned, covered)
  <2>1. MayClaim(covered, claims, tips, assigned)
    BY <1>2, <1>3, <1>4, <1>9, <1>11 DEF MayClaim
  <2> HIDE DEF covered
  <2> QED BY <2>1, IssueOf DEF extra
<1>13. DOMAIN made \cap DOMAIN applied.utxo = {}
  BY <1>4, <1>11
<1>14. issued \in Nat /\ issued <= interval_subsidy_matoms(anchor.height, 0)
  <2>1. SumFunctionOnSet(assigned, covered) \in Nat
    BY <1>2, <1>9, SumNat
  <2> HIDE DEF covered
  <2> QED BY <1>4, <1>5, <1>6, <1>8, <1>9, <1>11, <1>12, <2>1
<1>15. Total(made) + Total(applied.utxo) <= st.minted + issued
  <2>1. Total(applied.utxo) \in Nat /\ Total(st.utxo) \in Nat
    BY <1>2, <1>3, TotalOf DEF IsUtxo
  <2>2. Total(made) = reward + SumFunctionOnSet(claims, covered)
    BY <1>11
  <2>3. st.minted \in Nat
    BY <1>2, RewardsAssumption
  <2> HIDE DEF covered
  <2> QED BY <1>2, <1>3, <1>5, <1>11, <1>12, <2>1, <2>2, <2>3
<1> QED BY <1>1, <1>4, <1>11, <1>13, <1>14, <1>15

\* An accepted anchor keeps a branch sound.
LEMMA ClaimKeeps ==
  ASSUME NEW bodies, NEW st, Sound(st, bodies), NEW anchor, Extends(anchor, st, bodies),
         NEW local, local = Restrict(bodies, anchor.covered),
         NEW applied \in Accounts(st.utxo, anchor.covered, anchor.height), NEW a,
         may_claim_rewards(local, a, anchor, st, applied),
         NEW made, made = reward_utxos(local, a, anchor),
         NEW issued, issued = minted_increment(local, anchor, applied.tips),
         NEW utxo, utxo = Overlay(made, applied.utxo),
         NEW claimed, claimed = Overlay([f \in anchor.covered |-> anchor.height], st.claimed),
         NEW tree, NEW confirmed,
         NEW new, new = [height |-> anchor.height, tree |-> tree, floors |-> anchor.floors,
                         utxo |-> utxo, minted |-> st.minted + issued, claimed |-> claimed,
                         confirmed |-> confirmed]
  PROVE  Sound(new, bodies) /\ new.height = anchor.height
<1> DEFINE M == COINBASE_MATURITY_ANCHORS
<1>1. /\ IsUtxo(made) /\ DOMAIN made \cap DOMAIN applied.utxo = {}
      /\ issued \in Nat /\ st.minted + issued <= MAX_SUPPLY_MATOMS
      /\ issued <= interval_subsidy_matoms(anchor.height, 0)
      /\ Total(made) + Total(applied.utxo) <= st.minted + issued
      /\ \A f \in anchor.covered : \A op \in CoinbasePoints(bodies, f) :
           op \in DOMAIN made /\ made[op].lockheight >= anchor.height + M
      /\ \A f \in anchor.covered : f \notin DOMAIN st.claimed
  BY ClaimBounds
<1>2. /\ IsUtxo(applied.utxo)
      /\ \A op \in DOMAIN st.utxo : op[1] = "coinbase" =>
           \/ op \in DOMAIN applied.utxo /\ applied.utxo[op] = st.utxo[op]
           \/ st.utxo[op].lockheight <= anchor.height
  BY DEF Accounts
<1>3. /\ IsUtxo(utxo) /\ DOMAIN utxo = DOMAIN made \cup DOMAIN applied.utxo
      /\ \A op \in DOMAIN made : utxo[op] = made[op]
      /\ \A op \in DOMAIN applied.utxo : utxo[op] = applied.utxo[op]
      /\ Total(utxo) = Total(made) + Total(applied.utxo)
  <2> DEFINE left == applied.utxo
  <2>1. IsUtxo(made) /\ IsUtxo(left) /\ DOMAIN made \cap DOMAIN left = {}
    BY <1>1, <1>2
  <2>2. utxo = Overlay(made, left)
    OBVIOUS
  <2> HIDE DEF left
  <2>3. /\ IsUtxo(utxo) /\ DOMAIN utxo = DOMAIN made \cup DOMAIN left
        /\ \A op \in DOMAIN made : utxo[op] = made[op]
        /\ \A op \in DOMAIN left : utxo[op] = left[op]
        /\ Total(utxo) = Total(made) + Total(left)
    BY ONLY <2>1, <2>2, JoinUtxo
  <2> QED BY <2>3 DEF left
<1>4. /\ DOMAIN claimed = anchor.covered \cup DOMAIN st.claimed
      /\ \A f \in anchor.covered : claimed[f] = anchor.height
      /\ \A f \in DOMAIN st.claimed : claimed[f] = st.claimed[f]
  BY <1>1 DEF Overlay
<1>5. /\ st.height \in Nat /\ anchor.height = st.height + 1
      /\ st.minted \in Nat /\ st.minted <= Schedule(st.height)
      /\ M \in Nat /\ MAX_SUPPLY_MATOMS \in Nat
      /\ \A s \in DOMAIN anchor.floors : anchor.floors[s] \in Nat
      /\ anchor.covered \cup DOMAIN st.claimed \subseteq DOMAIN bodies
  BY RewardsAssumption DEF Sound, Extends
<1>6. st.minted + issued <= Schedule(anchor.height)
  <2>1. Schedule(st.height) \in Nat
        /\ Schedule(st.height + 1) = Schedule(st.height) + interval_subsidy_matoms(st.height + 1, 0)
    BY <1>5, ScheduleNext
  <2>2. interval_subsidy_matoms(anchor.height, 0) \in Nat
    <3>1. 0 \in 0..MAX_SUPPLY_MATOMS /\ anchor.height \in Nat \ {0}
      BY <1>5
    <3> QED BY <3>1, SubsidyBounds
  <2> QED BY <1>1, <1>5, <2>1, <2>2
<1>7. ASSUME NEW f \in DOMAIN claimed
      PROVE  /\ claimed[f] \in 1..anchor.height
             /\ \A op \in CoinbasePoints(bodies, f) :
                  \/ op \in DOMAIN utxo /\ utxo[op].lockheight >= claimed[f] + M
                  \/ anchor.height >= claimed[f] + M
  <2>1. CASE f \in anchor.covered
    BY <1>1, <1>3, <1>4, <1>5, <2>1
  <2>2. CASE f \in DOMAIN st.claimed
    <3>1. /\ st.claimed[f] \in 1..st.height
          /\ \A op \in CoinbasePoints(bodies, f) :
               \/ op \in DOMAIN st.utxo /\ st.utxo[op].lockheight >= st.claimed[f] + M
               \/ st.height >= st.claimed[f] + M
      BY <2>2 DEF Sound
    <3>2. claimed[f] = st.claimed[f] /\ claimed[f] \in 1..anchor.height
      BY <1>4, <1>5, <2>2, <3>1
    <3>3. ASSUME NEW op \in CoinbasePoints(bodies, f)
          PROVE  \/ op \in DOMAIN utxo /\ utxo[op].lockheight >= claimed[f] + M
                 \/ anchor.height >= claimed[f] + M
      <4>1. CASE st.height >= st.claimed[f] + M
        BY <1>5, <3>1, <3>2, <4>1
      <4>2. CASE op \in DOMAIN st.utxo /\ st.utxo[op].lockheight >= st.claimed[f] + M
        <5>1. op[1] = "coinbase"
          BY DEF CoinbasePoints, outpoints
        <5>2. st.utxo[op].lockheight \in Nat
          BY <4>2 DEF Sound, IsUtxo, Outputs
        <5>3. CASE op \in DOMAIN applied.utxo /\ applied.utxo[op] = st.utxo[op]
          BY <1>3, <3>2, <4>2, <5>3
        <5>4. CASE st.utxo[op].lockheight <= anchor.height
          BY <1>5, <3>1, <3>2, <4>2, <5>2, <5>4
        <5> QED BY <1>2, <4>2, <5>1, <5>3, <5>4
      <4> QED BY <3>1, <4>1, <4>2
    <3> QED BY <3>2, <3>3
  <2> QED BY <1>4, <2>1, <2>2
<1>8. st.minted + issued \in 0..MAX_SUPPLY_MATOMS
  BY <1>1, <1>5
<1>9. /\ new.height = anchor.height /\ new.floors = anchor.floors /\ new.utxo = utxo
       /\ new.minted = st.minted + issued /\ new.claimed = claimed
       /\ new = [height |-> new.height, tree |-> new.tree, floors |-> new.floors, utxo |-> new.utxo,
                 minted |-> new.minted, claimed |-> new.claimed, confirmed |-> new.confirmed]
  OBVIOUS
<1>10. anchor.height \in Nat /\ Total(utxo) <= st.minted + issued /\ DOMAIN claimed \subseteq DOMAIN bodies
  BY <1>1, <1>3, <1>4, <1>5
<1>11. Sound(new, bodies)
  BY <1>3, <1>5, <1>6, <1>7, <1>8, <1>9, <1>10 DEF Sound
<1> QED BY <1>9, <1>11

-----------------------------------------------------------------------------
(* The supply.                                                             *)

\* The branch before the genesis anchor is empty.
LEMMA EmptySound == ASSUME NEW bodies PROVE Sound(EmptyBranchState, bodies)
<1> DEFINE st == EmptyBranchState
           none == amounts(<< >>)
           years == [h \in 1..0 |-> interval_subsidy_matoms(h, 0)]
<1>1. /\ st.height = 0 /\ st.floors = << >> /\ st.utxo = << >> /\ st.minted = 0
      /\ st.claimed = << >>
      /\ st = [height |-> st.height, tree |-> st.tree, floors |-> st.floors, utxo |-> st.utxo,
               minted |-> st.minted, claimed |-> st.claimed, confirmed |-> st.confirmed]
  BY DEF EmptyBranchState
<1>2. IsUtxo(<< >>)
  <2>1. << >> \in [{} -> Outputs] /\ IsFiniteSet({})
    BY FS_EmptySet
  <2> QED BY <2>1, EmptyDomain DEF IsUtxo
<1>3. Total(<< >>) = 0
  <2>1. DOMAIN none = {}
    BY EmptyDomain DEF amounts
  <2> HIDE DEF none
  <2>2. SumFunction(none) = 0
    BY <2>1, SumEmpty DEF SumFunction
  <2> QED BY <2>2 DEF Total, none
<1>4. Schedule(0) = 0
  <2>1. DOMAIN years = {}
    OBVIOUS
  <2> HIDE DEF years
  <2>2. SumFunction(years) = 0
    BY <2>1, SumEmpty DEF SumFunction
  <2> QED BY <2>2 DEF Schedule, years
<1>5. MAX_SUPPLY_MATOMS \in Nat
  BY RewardsAssumption
<1> HIDE DEF st
<1>6. Sound(st, bodies)
  BY <1>1, <1>2, <1>3, <1>4, <1>5, EmptyDomain DEF Sound
<1> QED BY <1>6 DEF st

\* A sound branch stays so when nothing but the anchor's own columns change.
LEMMA AdvanceKeeps ==
  ASSUME NEW bodies, NEW anchor, anchor.height = 0,
         \A s \in DOMAIN anchor.floors : anchor.floors[s] \in Nat,
         NEW new, new = advance(anchor, EmptyBranchState)
  PROVE  Sound(new, bodies) /\ new.height = anchor.height
<1> DEFINE st == EmptyBranchState
<1>1. Sound(st, bodies)
  BY EmptySound
<1>2. new = [height |-> 0, tree |-> anchor.tree, floors |-> anchor.floors, utxo |-> << >>,
             minted |-> 0, claimed |-> << >>, confirmed |-> {}]
  BY DEF advance, EmptyBranchState
<1>3. st.height = 0 /\ st.utxo = << >> /\ st.minted = 0 /\ st.claimed = << >>
  BY DEF EmptyBranchState
<1>4. /\ new.height = 0 /\ new.floors = anchor.floors /\ new.utxo = << >>
      /\ new.minted = 0 /\ new.claimed = << >>
      /\ new = [height |-> new.height, tree |-> new.tree, floors |-> new.floors, utxo |-> new.utxo,
                minted |-> new.minted, claimed |-> new.claimed, confirmed |-> new.confirmed]
  BY <1>2
<1> HIDE DEF st
<1>5. Sound(new, bodies)
  BY <1>1, <1>3, <1>4, EmptyDomain DEF Sound
<1> QED BY <1>4, <1>5

\* The canonical order lists the covered fruits, each of them.
LEMMA CoveredOrder ==
  ASSUME NEW dag, IsFiniteDag(dag), NEW k, NEW covered \in SUBSET DOMAIN dag,
         NEW order, order = canonical_covered_fruit_order(dag, covered, k)
  PROVE  IsFiniteSet(covered) /\ order \in Seq(covered) /\ ToSet(order) = covered
<1> DEFINE part == Restrict(dag, covered)
           meta == Restrict(ghostdag_metadata(dag, k), covered)
           n == Cardinality(covered)
<1>1. IsFiniteSet(covered)
  BY FS_Subset DEF IsFiniteDag
<1>2. order = topological_order(part, meta, covered)
  BY DEF canonical_covered_fruit_order
<1>3. Scored(part, meta, covered)
  <2>1. \A f \in DOMAIN dag : IsClassified(dag, ghostdag_metadata(dag, k), f)
    BY AllClassified
  <2>2. \A f \in covered : part[f] = dag[f] /\ meta[f] = ghostdag_metadata(dag, k)[f]
    BY DEF Restrict
  <2>3. \A f \in covered : ghostdag_metadata(dag, k)[f].blue_score \in Nat
    BY <2>1, FS_CardinalityType DEF IsClassified
  <2> HIDE DEF part, meta
  <2> QED BY <2>2, <2>3 DEF Scored, IsFiniteDag, IsDag
<1> HIDE DEF part, meta
<1>4. /\ n \in Nat /\ order \in [1..n -> covered]
      /\ \A x \in covered : \E i \in 1..n : order[i] = x
  BY <1>1, <1>2, <1>3, CanonicalLists
<1> HIDE DEF n
<1>5. order \in Seq(covered)
  BY <1>4, SeqDef
<1>6. DOMAIN order = 1..n /\ ToSet(order) = covered
  BY <1>4 DEF ToSet
<1> QED BY <1>1, <1>5, <1>6

\* The fruits a store holds, as the parsers let them through.
TypedFruits(bodies) ==
  /\ IsFiniteSet(DOMAIN bodies) /\ DOMAIN bodies \subseteq Nat \ {NoHash}
  /\ \A f \in DOMAIN bodies : /\ bodies[f].coinbase \in DOMAIN Coinbase
                              /\ bodies[f].txs \in Seq(DOMAIN Tx)

\* An anchor accepted on a sound branch gives a sound branch.
LEMMA ApplyKeeps ==
  ASSUME NEW bodies, TypedFruits(bodies), NEW dag, IsFiniteDag(dag), DOMAIN dag = DOMAIN bodies,
         NEW st, Sound(st, bodies), NEW anchor, Extends(anchor, st, bodies), NEW k, NEW a,
         NEW res, res = apply_anchor_to_branch(bodies, dag, k, a, anchor, st), res.ok
  PROVE  Sound(res.st, bodies) /\ res.st.height = anchor.height
<1> DEFINE covered == anchor.covered
           local == Restrict(bodies, covered)
           order == canonical_covered_fruit_order(dag, covered, k)
           applied == apply_anchor_fruits(local, order, st, anchor.height)
           accepted == applied.ok /\ may_claim_rewards(local, a, anchor, st, applied)
           new == state_after_claims(local, a, anchor, st, applied)
<1>1. covered \in SUBSET DOMAIN dag /\ covered # {}
  BY DEF Extends
<1>2. IsFiniteSet(covered) /\ order \in Seq(covered) /\ ToSet(order) = covered
  BY <1>1, CoveredOrder
<1>3. res = claim_anchor_rewards(local, a, anchor, st, applied)
  BY <1>1 DEF apply_anchor_to_branch, apply_covering
<1>4. applied \in Accounts(st.utxo, covered, anchor.height)
  <2>1. IsUtxo(st.utxo) /\ \A s \in DOMAIN st.floors : st.floors[s] \in Nat
    BY DEF Sound
  <2>2. \A f \in covered : local[f].txs \in Seq(DOMAIN Tx)
    BY <1>1 DEF Restrict, TypedFruits
  <2> HIDE DEF local, order, covered
  <2> QED BY <1>2, <2>1, <2>2, ApplyFruits
<1> HIDE DEF local, order, applied
<1>5. accepted /\ res.st = new
  <2>1. res = IF accepted THEN [ok |-> TRUE, st |-> new] ELSE [ok |-> FALSE, st |-> st]
    BY <1>3 DEF claim_anchor_rewards
  <2> HIDE DEF accepted, new
  <2> QED BY <2>1
<1>6. local = Restrict(bodies, anchor.covered)
  BY DEF local
<1> DEFINE made == reward_utxos(local, a, anchor)
           issued == minted_increment(local, anchor, applied.tips)
           utxo == Overlay(made, applied.utxo)
           claimed == Overlay([f \in anchor.covered |-> anchor.height], st.claimed)
           confirmed == st.confirmed \cup UNION {ToSet(local[f].txs) : f \in anchor.covered}
<1>7. new = [height |-> anchor.height, tree |-> anchor.tree, floors |-> anchor.floors,
             utxo |-> utxo, minted |-> st.minted + issued, claimed |-> claimed,
             confirmed |-> confirmed]
  BY DEF state_after_claims
<1>8. /\ made = reward_utxos(local, a, anchor)
      /\ issued = minted_increment(local, anchor, applied.tips)
      /\ utxo = Overlay(made, applied.utxo)
      /\ claimed = Overlay([f \in anchor.covered |-> anchor.height], st.claimed)
  OBVIOUS
<1> HIDE DEF made, issued, utxo, claimed, confirmed, new
<1>9. Sound(new, bodies) /\ new.height = anchor.height
  BY <1>4, <1>5, <1>6, <1>7, <1>8, ClaimKeeps
<1> QED BY <1>5, <1>9

\* Blocks stored later leave a branch sound.
LEMMA SoundGrows ==
  ASSUME NEW bodies, NEW more, Grows(bodies, more), NEW st, Sound(st, bodies)
  PROVE  Sound(st, more)
<1>1. DOMAIN st.claimed \subseteq DOMAIN bodies
  BY DEF Sound
<1>2. /\ DOMAIN bodies \subseteq DOMAIN more
      /\ \A f \in DOMAIN st.claimed : CoinbasePoints(more, f) = CoinbasePoints(bodies, f)
  BY <1>1 DEF Grows, CoinbasePoints
<1> QED BY <1>1, <1>2 DEF Sound

\* A branch state is staged for exactly as long as its refresh is due.
StagedWhileDue == pc \in {"idle", "fruit", "anchor"} /\ (pc = "anchor" <=> staged # NoState)

\* Every stored branch is sound, and as high as its anchor says.
SoundInv ==
  /\ StagedWhileDue
  /\ TypedFruits(fruits)
  /\ \A a \in DOMAIN anchors : /\ Sound(Replays[a].st, fruits)
                               /\ Replays[a].st.height = anchors[a].height
  /\ active.tip = NoHash => active = active_columns(NoHash, EmptyBranchState)

\* The stored fruits are finitely many.
LEMMA StoredIsFinite ==
  ASSUME DagSound, ReplayInv, TypedFruits(fruits)
  PROVE  IsFiniteDag(stored_dag) /\ DOMAIN stored_dag = DOMAIN fruits
<1>1. IsDag(stored_dag) /\ DOMAIN stored_dag = DOMAIN fruits
  BY StoredIsDag
<1>2. \A f \in DOMAIN fruits : stored_dag[f].work = 1
  BY DEF stored_dag
<1> QED BY <1>1, <1>2 DEF IsFiniteDag, TypedFruits

\* A new fruit touches no branch.
LEMMA FruitKeepsSound ==
  ASSUME SoundInv, KeepsReplays, NEW f \in FruitIds, NEW fruit,
         fruit.coinbase \in DOMAIN Coinbase, fruit.txs \in Seq(DOMAIN Tx), process_fruit(f, fruit)
  PROVE  SoundInv'
<1>1. /\ f \notin DOMAIN fruits
      /\ anchors' = anchors /\ active' = active
      /\ fruits' = Extend(fruits, f, fruit)
  BY DEF process_fruit
<1>2. /\ DOMAIN fruits' = DOMAIN fruits \cup {f}
      /\ fruits'[f] = fruit
      /\ \A g \in DOMAIN fruits : fruits'[g] = fruits[g]
  BY <1>1 DEF Extend
<1>3. TypedFruits(fruits')
  <2>1. IsFiniteSet(DOMAIN fruits \cup {f})
    BY FS_AddElement DEF SoundInv, TypedFruits
  <2>2. f \in Nat \ {NoHash}
    BY NodeAssumption
  <2> QED BY <1>2, <2>1, <2>2 DEF SoundInv, TypedFruits
<1>4. Grows(fruits, fruits') /\ StagedWhileDue'
  BY <1>2 DEF Grows, process_fruit, SoundInv, StagedWhileDue
<1>5. \A a \in DOMAIN anchors : Sound(Replays[a].st, fruits')
  BY <1>4, SoundGrows DEF SoundInv
<1>6. \A a \in DOMAIN anchors' : /\ Sound(Replays'[a].st, fruits')
                                /\ Replays'[a].st.height = anchors'[a].height
  BY <1>1, <1>5 DEF SoundInv, KeepsReplays
<1> QED BY <1>1, <1>3, <1>4, <1>6 DEF SoundInv

\* Neither does an anchor any other branch than its own.
LEMMA AnchorKeepsSound ==
  ASSUME SoundInv, KeepsReplays, pc = "idle",
         NEW a, a # NoHash, a \notin DOMAIN anchors, NEW anchor,
         NEW applied, store_anchor(a, anchor, applied.st), Replays'[a] = applied,
         Sound(applied.st, fruits), applied.st.height = anchor.height
  PROVE  SoundInv'
<1>1. fruits' = fruits /\ anchors' = Extend(anchors, a, anchor)
  BY DEF store_anchor
<1>2. /\ DOMAIN anchors' = DOMAIN anchors \cup {a}
      /\ anchors'[a] = anchor
      /\ \A b \in DOMAIN anchors : anchors'[b] = anchors[b]
  BY <1>1 DEF Extend
<1>3. \A b \in DOMAIN anchors' : /\ Sound(Replays'[b].st, fruits')
                                /\ Replays'[b].st.height = anchors'[b].height
  BY <1>1, <1>2 DEF SoundInv, KeepsReplays
<1>4. active'.tip = NoHash => active' = active_columns(NoHash, EmptyBranchState)
  <2>1. CASE becomes_best_tip(a, anchor)
    <3>1. active' = active_columns(a, applied.st)
      BY <2>1 DEF store_anchor, active_chain_batch
    <3> QED BY <3>1 DEF active_columns
  <2>2. CASE ~ becomes_best_tip(a, anchor)
    BY <2>2 DEF store_anchor, SoundInv
  <2> QED BY <2>1, <2>2
<1>5. StagedWhileDue'
  <2>1. CASE becomes_best_tip(a, anchor)
    <3>1. pc' = "anchor" /\ staged' = applied.st
      BY <2>1 DEF store_anchor
    <3>2. "height" \in DOMAIN applied.st
      <4> DEFINE st == applied.st
      <4>1. Sound(st, fruits)
        OBVIOUS
      <4> HIDE DEF st
      <4>2. st = [height |-> st.height, tree |-> st.tree, floors |-> st.floors, utxo |-> st.utxo,
                  minted |-> st.minted, claimed |-> st.claimed, confirmed |-> st.confirmed]
        BY <4>1 DEF Sound
      <4>3. "height" \in DOMAIN st
        BY <4>2
      <4> QED BY <4>3 DEF st
    <3>3. "height" \notin DOMAIN NoState
      BY DEF NoState
    <3> QED BY <3>1, <3>2, <3>3 DEF StagedWhileDue
  <2>2. CASE ~ becomes_best_tip(a, anchor)
    BY <2>2 DEF store_anchor, SoundInv, StagedWhileDue
  <2> QED BY <2>1, <2>2
<1> QED BY <1>1, <1>3, <1>4, <1>5 DEF SoundInv

\* Every step keeps every branch sound.
LEMMA SoundStep ==
  ASSUME SoundInv, ReplayInv, DagSound, DagSound', [Next]_vars
  PROVE  SoundInv'
<1>0. KeepsReplays
  BY ReplayStep
<1>1. ASSUME UNCHANGED <<fruits, anchors, active>>, StagedWhileDue' PROVE SoundInv'
  <2>1. \A a \in DOMAIN anchors' : /\ Sound(Replays'[a].st, fruits')
                                  /\ Replays'[a].st.height = anchors'[a].height
    BY <1>0, <1>1 DEF SoundInv, KeepsReplays
  <2> QED BY <1>1, <2>1 DEF SoundInv
<1>2. pc = "idle" => fruit_dag = stored_dag
  BY DEF DagSound, DagCacheFresh, fruit_dag
<1>3. IsFiniteDag(stored_dag) /\ DOMAIN stored_dag = DOMAIN fruits
  BY StoredIsFinite DEF SoundInv
<1>4. ASSUME NEW a \in AnchorIds, NEW ts \in AnchorTimes, process_genesis(a, ts)
      PROVE  SoundInv'
  <2> DEFINE anchor == [parent |-> NoHash, covered |-> {}, cands |-> << >>, ts |-> ts,
                        rewards |-> << >>, tree |-> ROOT_TREE,
                        floors |-> [shard \in ROOT_TREE |-> 0],
                        height |-> 0, target |-> ANCHOR_INITIAL_TARGET,
                        work |-> anchor_work_weight(ANCHOR_INITIAL_TARGET)]
             applied == apply_anchor_to_branch(fruits, stored_dag, DYNAMIC_K_MIN, a, anchor,
                                               EmptyBranchState)
  <2>1. pc = "idle" /\ a \notin DOMAIN anchors /\ applied.ok /\ store_anchor(a, anchor, applied.st)
    BY <1>2, <1>4, EmptyDomain DEF process_genesis
  <2>2. /\ anchor.height = 0 /\ anchor.covered = {} /\ anchor.parent = NoHash
        /\ \A s \in DOMAIN anchor.floors : anchor.floors[s] \in Nat
    OBVIOUS
  <2>3. applied = replay_anchor(fruits, stored_dag, DYNAMIC_K_MIN, a, anchor, Replays[anchor.parent])
    <3>1. Replays[NoHash] = StartOfReplay
      BY ReplayOf DEF Replays, ReplayInv
    <3> QED BY <2>2, <3>1 DEF replay_anchor, StartOfReplay
  <2>4. a # NoHash
    BY NodeAssumption
  <2>5. applied.st = advance(anchor, EmptyBranchState)
    BY <2>2 DEF apply_anchor_to_branch
  <2> HIDE DEF anchor, applied
  <2>6. Sound(applied.st, fruits) /\ applied.st.height = anchor.height
    BY <2>2, <2>5, AdvanceKeeps
  <2>7. Replays'[a] = applied
    BY <2>1, <2>2, <2>3, <2>4, AnchorKeepsReplay
  <2> QED BY <1>0, <2>1, <2>4, <2>6, <2>7, AnchorKeepsSound
<1>5. ASSUME NEW a \in AnchorIds, NEW parent \in DOMAIN anchors,
             NEW covered \in SUBSET DOMAIN fruits, NEW ts \in AnchorTimes,
             NEW payload \in AnchorPayloads[a],
             process_anchor(a, parent, covered, ts, payload)
      PROVE  SoundInv'
  <2> DEFINE target == next_anchor_target(anchor_history(parent))
             anchor == [parent |-> parent, covered |-> covered,
                        cands |-> canonical_parent_candidates, ts |-> ts,
                        rewards |-> payload.rewards, tree |-> payload.tree,
                        floors |-> payload.floors,
                        height |-> anchors[parent].height + 1, target |-> target,
                        work |-> anchors[parent].work + anchor_work_weight(target)]
             before == Replays[parent].st
             applied == apply_anchor_to_branch(fruits, stored_dag, DYNAMIC_K_MIN, a, anchor, before)
  <2>1. /\ pc = "idle" /\ a \notin DOMAIN anchors /\ covered # {}
        /\ Replays[parent].ok /\ applied.ok
        /\ store_anchor(a, anchor, applied.st)
    BY <1>2, <1>5 DEF process_anchor, Replays
  <2>2. /\ anchor.height = anchors[parent].height + 1
        /\ anchor.covered = covered /\ anchor.parent = parent
        /\ anchor.rewards = payload.rewards /\ anchor.floors = payload.floors
    OBVIOUS
  <2>3. anchors[parent].height \in Nat /\ parent # NoHash
    BY DEF ReplayInv, Chains
  <2>4. applied = replay_anchor(fruits, stored_dag, DYNAMIC_K_MIN, a, anchor, Replays[anchor.parent])
    BY <2>1, <2>2 DEF replay_anchor
  <2>5. a # NoHash
    BY NodeAssumption
  <2>6. applied = apply_anchor_to_branch(fruits, stored_dag, DYNAMIC_K_MIN, a, anchor, before)
    OBVIOUS
  <2>7. Sound(before, fruits) /\ before.height = anchors[parent].height
    BY DEF SoundInv
  <2> HIDE DEF anchor, applied, before
  <2>8. Extends(anchor, before, fruits)
    <3>1. IsFiniteSet(covered) /\ covered \subseteq Nat \ {NoHash}
      BY FS_Subset DEF SoundInv, TypedFruits
    <3>2. payload.rewards \in Seq(Outputs)
          /\ \A shard \in DOMAIN payload.floors : payload.floors[shard] \in Nat
      BY NodeAssumption
    <3>3. \A f \in covered : fruits[f].coinbase \in DOMAIN Coinbase
      BY DEF SoundInv, TypedFruits
    <3> QED BY <2>1, <2>2, <2>7, <3>1, <3>2, <3>3 DEF Extends
  <2>9. Sound(applied.st, fruits) /\ applied.st.height = anchor.height
    <3>1. TypedFruits(fruits)
      BY DEF SoundInv
    <3> QED BY <1>3, <2>1, <2>6, <2>7, <2>8, <3>1, ApplyKeeps
  <2>10. Replays'[a] = applied
    <3>1. anchor.height \in Nat /\ anchors[parent].height < anchor.height
      BY <2>2, <2>3
    <3> QED BY <2>1, <2>2, <2>4, <2>5, <3>1, AnchorKeepsReplay
  <2> QED BY <1>0, <2>1, <2>5, <2>9, <2>10, AnchorKeepsSound
<1>6. ASSUME NEW t, process_raw_tx(t) PROVE SoundInv'
  BY <1>1, <1>6 DEF process_raw_tx, SoundInv, StagedWhileDue
<1>7. CASE OfferFruit
  <2>1. PICK f \in FruitIds, latest \in DOMAIN anchors, ts \in FruitTimes :
          \E selected \in DOMAIN fruits \cup {NoHash},
             bitmap \in SUBSET DOMAIN anchors[latest].cands, payload \in FruitPayloads[f] :
            process_fruit(f, [selected |-> selected, bitmap |-> bitmap, latest |-> latest,
                              ts |-> ts, shard |-> payload.shard,
                              coinbase |-> payload.coinbase, txs |-> payload.txs])
    BY <1>7 DEF OfferFruit
  <2>2. \A payload \in FruitPayloads[f] :
          payload.coinbase \in DOMAIN Coinbase /\ payload.txs \in Seq(DOMAIN Tx)
    BY NodeAssumption
  <2>3. PICK fruit : /\ process_fruit(f, fruit) /\ fruit.coinbase \in DOMAIN Coinbase
                     /\ fruit.txs \in Seq(DOMAIN Tx)
    BY <2>1, <2>2
  <2> QED BY <1>0, <2>3, FruitKeepsSound
<1>8. ASSUME NEW f, get_finality(f) PROVE SoundInv'
  BY <1>1, <1>8 DEF get_finality, SoundInv, StagedWhileDue
<1>9. CASE refresh_after_fruit
  BY <1>1, <1>9 DEF refresh_after_fruit, SoundInv, StagedWhileDue
<1>10. CASE refresh_after_anchor
  BY <1>1, <1>10 DEF refresh_after_anchor, SoundInv, StagedWhileDue
<1>11. CASE restart
  BY <1>1, <1>11 DEF restart, SoundInv, StagedWhileDue
<1>12. CASE UNCHANGED vars
  BY <1>1, <1>12 DEF vars, SoundInv, StagedWhileDue
<1> QED BY <1>4, <1>5, <1>6, <1>7, <1>8, <1>9, <1>10, <1>11, <1>12 DEF Next, OfferAnchor

\* SoundInv holds of the empty store.
LEMMA SoundInit == ASSUME Init PROVE SoundInv
<1>1. DOMAIN fruits = {} /\ DOMAIN anchors = {} /\ active = active_columns(NoHash, EmptyBranchState)
  BY EmptyDomain DEF Init
<1>2. TypedFruits(fruits)
  BY <1>1, FS_EmptySet DEF TypedFruits
<1>3. StagedWhileDue
  BY DEF Init, StagedWhileDue
<1> QED BY <1>1, <1>2, <1>3 DEF SoundInv

\* SoundInv holds in every reachable state.
LEMMA BranchesSound == Spec => [](SoundInv /\ ReplayInv)
<1>1. Init => SoundInv /\ ReplayInv
  BY SoundInit, ReplayInit
<1>2. SoundInv /\ ReplayInv /\ DagSound /\ DagSound' /\ [Next]_vars => SoundInv' /\ ReplayInv'
  BY SoundStep, ReplayStep
<1> QED BY <1>1, <1>2, DagIsSound, PTL DEF Spec

\* On every branch the node stores, unspent coins never exceed what was issued,
\* nor issuance the cap or the schedule up to the branch's height.
THEOREM SupplyIsConserved == Spec => []SupplyConserved
<1>1. SoundInv => SupplyConserved
  <2> SUFFICES ASSUME SoundInv, NEW a \in DOMAIN anchors
               PROVE  LET st == Replays[a].st IN
                        /\ Total(st.utxo) <= st.minted /\ st.minted <= MAX_SUPPLY_MATOMS
                        /\ st.minted <= Schedule(st.height)
    BY DEF SupplyConserved, Replays, Total, Schedule
  <2> DEFINE st == Replays[a].st
  <2>1. Sound(st, fruits)
    BY DEF SoundInv
  <2> HIDE DEF st
  <2>2. /\ Total(st.utxo) <= st.minted /\ st.minted <= MAX_SUPPLY_MATOMS
        /\ st.minted <= Schedule(st.height)
    BY <2>1, RewardsAssumption DEF Sound
  <2> QED BY <2>2 DEF st
<1> QED BY <1>1, BranchesSound, PTL

\* The active columns are those of a sound branch.
LEMMA ActiveIsSound ==
  ASSUME SoundInv, ReplayInv
  PROVE  \E st : Sound(st, fruits) /\ active = active_columns(active.tip, st)
<1>1. CASE active.tip = NoHash
  BY <1>1, EmptySound DEF SoundInv
<1>2. CASE active.tip # NoHash
  <2>1. active = active_columns(active.tip, Replays[active.tip].st) /\ active.tip \in DOMAIN anchors
    BY <1>2 DEF ReplayInv, ActiveStateIsReplay, Replays
  <2> QED BY <2>1 DEF SoundInv
<1> QED BY <1>1, <1>2

\* A fruit of the active chain was claimed at a height of the chain, and its
\* coinbase leaves the UTXO set only once it is mature.
THEOREM CoinbasesMature == Spec => []ClaimsMature
<1>1. SoundInv /\ ReplayInv => ClaimsMature
  <2> SUFFICES ASSUME SoundInv, ReplayInv PROVE ClaimsMature
    OBVIOUS
  <2>1. PICK st : Sound(st, fruits) /\ active = active_columns(active.tip, st)
    BY ActiveIsSound
  <2>2. active.height = st.height /\ active.utxo = st.utxo /\ active.claimed = st.claimed
    BY <2>1 DEF active_columns
  <2> QED BY <2>1, <2>2 DEF ClaimsMature, Sound, CoinbasePoints
<1> QED BY <1>1, BranchesSound, PTL

-----------------------------------------------------------------------------
(* The mempool.                                                            *)

\* A transaction that could be admitted to an empty pool.
Spends(t, utxo, tree, floors, height) ==
  is_spendable(utxo, t, floor_of(floors, route_tx(tree, tx_bits(t))), 0, height)

\* Spendable transactions without a conflict.
Fine(pool, utxo, tree, floors, height) ==
  /\ \A t \in pool : Spends(t, utxo, tree, floors, height)
  /\ \A t, u \in pool : t # u => Tx[t].ins \cap Tx[u].ins = {}

\* What admission adds to a fine pool keeps it fine.
LEMMA AdmitOne ==
  ASSUME NEW utxo, NEW tree, NEW floors, NEW height, NEW pool,
         Fine(pool, utxo, tree, floors, height), NEW t
  PROVE  /\ admits(pool, t, utxo, tree, floors, height)
              => Fine(pool \cup {t}, utxo, tree, floors, height)
         /\ t \notin pool /\ Fine(pool \cup {t}, utxo, tree, floors, height)
              => admits(pool, t, utxo, tree, floors, height)
<1>1. admits(pool, t, utxo, tree, floors, height)
        <=> /\ t \notin pool /\ \A u \in pool : Tx[t].ins \cap Tx[u].ins = {}
            /\ Spends(t, utxo, tree, floors, height)
  <2>1. Tx[t].ins \cap pool_spends(pool) = {} <=> \A u \in pool : Tx[t].ins \cap Tx[u].ins = {}
    BY DEF pool_spends
  <2> QED BY <2>1 DEF admits, Spends
<1>2. ASSUME admits(pool, t, utxo, tree, floors, height)
      PROVE  Fine(pool \cup {t}, utxo, tree, floors, height)
  BY <1>1, <1>2 DEF Fine
<1>3. ASSUME t \notin pool, Fine(pool \cup {t}, utxo, tree, floors, height)
      PROVE  admits(pool, t, utxo, tree, floors, height)
  BY <1>1, <1>3 DEF Fine
<1> QED BY <1>2, <1>3

\* Rebuilding gives a fine pool, and drops nothing of a pool that is fine.
LEMMA RebuildMempool ==
  ASSUME NEW txs \in SUBSET DOMAIN Tx, IsFiniteSet(txs),
         NEW utxo, NEW tree, NEW floors, NEW height,
         NEW kept, kept = rebuild_mempool(txs, utxo, tree, floors, height)
  PROVE  /\ kept \subseteq txs /\ Fine(kept, utxo, tree, floors, height)
         /\ Fine(txs, utxo, tree, floors, height) => kept = txs
<1> DEFINE R == {p \in txs \X txs : p[1] < p[2]}
           q == InOrder(txs, R)
           n == Cardinality(txs)
           S == 1..n
           All == SUBSET txs
           F(pool) == Fine(pool, utxo, tree, floors, height)
           Op(v, t) == IF admits(v, t, utxo, tree, floors, height) THEN v \cup {t} ELSE v
           step == [p \in S \X All |-> Op(p[2], q[p[1]])]
           First(m) == {q[i] : i \in 1..m}
           P == [m \in 0..n |-> {v \in All : F(v) /\ v \subseteq First(m)
                                             /\ (F(txs) => v = First(m))}]
           Body(g, s) == IF s = {} THEN {} ELSE Op(g[s \ {Max(s)}], q[Max(s)])
           IsIter(g) == g = [s \in SUBSET S |-> Body(g, s)]
<1>1. IsStrictOrder(R, txs)
  <2>1. txs \subseteq Nat
    BY LedgerAssumption
  <2>2. \A x, y \in txs : <<x, y>> \in R <=> x < y
    OBVIOUS
  <2> HIDE DEF R
  <2> QED BY <2>1, <2>2 DEF IsStrictOrder
<1>2. /\ n \in Nat /\ q \in [S -> txs]
      /\ \A x \in txs : \E i \in S : q[i] = x
      /\ \A i, j \in S : i < j => q[i] # q[j]
  <2> HIDE DEF R, q
  <2>1. q = InOrder(txs, R)
    BY DEF q
  <2>2. /\ n \in Nat /\ q \in [1..n -> txs]
        /\ \A x \in txs : \E i \in 1..n : q[i] = x
        /\ \A i, j \in 1..n : i < j => q[i] # q[j] /\ <<q[i], q[j]>> \in R
    BY ONLY <1>1, <2>1, IsFiniteSet(txs), InOrderLists
  <2> HIDE DEF n
  <2> QED BY <2>2
<1> HIDE DEF q, n
<1>3. DOMAIN q = S /\ \A i \in S : q[i] \in txs
  BY <1>2
<1>4. Len(q) = n
  BY <1>2
<1>5. \A s \in SUBSET S : s # {} => Max(s) \in s
  BY <1>2, LastIndex
<1>6. \A i \in S : i - 1 \in 0..n /\ i \in 0..n /\ First(i) = First(i - 1) \cup {q[i]}
                   /\ q[i] \notin First(i - 1) /\ First(i) \subseteq txs
  <2> SUFFICES ASSUME NEW i \in S
               PROVE  /\ i - 1 \in 0..n /\ i \in 0..n /\ First(i) = First(i - 1) \cup {q[i]}
                      /\ q[i] \notin First(i - 1) /\ First(i) \subseteq txs
    OBVIOUS
  <2>1. i - 1 \in 0..n /\ i \in 0..n /\ 1..i = 1..(i - 1) \cup {i} /\ 1..i \subseteq S
        /\ \A j \in 1..(i - 1) : j \in S /\ j < i
    BY <1>2
  <2>2. First(i) = First(i - 1) \cup {q[i]}
    BY <2>1
  <2> HIDE DEF S
  <2> QED BY <1>2, <1>3, <2>1, <2>2
<1>7. ASSUME NEW i \in S, NEW v \in All
      PROVE  step[<<i, v>>] = Op(v, q[i]) /\ Op(v, q[i]) \in All
  <2>1. step[<<i, v>>] = Op(v, q[i])
    <3> HIDE DEF Op, All, S
    <3> QED OBVIOUS
  <2>2. Op(v, q[i]) \in All
    BY <1>3
  <2> QED BY <2>1, <2>2
<1>8. ASSUME NEW i \in S, NEW v \in P[i - 1] PROVE Op(v, q[i]) \in P[i]
  <2>1. /\ i - 1 \in 0..n /\ i \in 0..n /\ First(i) = First(i - 1) \cup {q[i]}
        /\ q[i] \notin First(i - 1) /\ First(i) \subseteq txs
    BY <1>6
  <2> HIDE DEF First, F, Op
  <2>2. v \in All /\ F(v) /\ v \subseteq First(i - 1) /\ (F(txs) => v = First(i - 1))
    BY <2>1
  <2> DEFINE t == q[i]
             w == Op(v, t)
  <2>3. /\ admits(v, t, utxo, tree, floors, height) => F(v \cup {t})
        /\ t \notin v /\ F(v \cup {t}) => admits(v, t, utxo, tree, floors, height)
    BY <2>2, AdmitOne DEF F
  <2>4. w = IF admits(v, t, utxo, tree, floors, height) THEN v \cup {t} ELSE v
    BY DEF Op
  <2>5. F(txs) => F(First(i))
    BY <2>1 DEF F, Fine
  <2>6. t \in txs
    BY <1>3
  <2> HIDE DEF w, t
  <2>7. w \in All /\ F(w) /\ w \subseteq First(i)
    BY <2>1, <2>2, <2>3, <2>4, <2>6 DEF t
  <2>8. F(txs) => w = First(i)
    BY <2>1, <2>2, <2>3, <2>4, <2>5 DEF t
  <2> HIDE DEF All
  <2>9. w \in P[i]
    BY <2>1, <2>7, <2>8
  <2> QED BY <2>9 DEF w, t
<1>9. {} \in All /\ {} \in P[0]
  <2>1. First(0) = {} /\ F({})
    BY DEF Fine
  <2>2. 0 \in 0..n
    BY <1>2
  <2> HIDE DEF First, F
  <2> QED BY <2>1, <2>2
<1>10. \A v \in P[n] : F(v) /\ v \subseteq txs /\ (F(txs) => v = txs)
  <2>1. First(n) = txs
    BY <1>2, <1>3
  <2>2. n \in 0..n
    BY <1>2
  <2> HIDE DEF First, F
  <2> QED BY <2>1, <2>2
<1> HIDE DEF step, P, All, Op, F
<1>11. PICK g : /\ IsSeqFold(g, {}, step, n)
                /\ \A s \in SUBSET S : g[s] \in All
                /\ g[S] \in P[n]
  <2>1. \A i \in 1..n : \A v \in All :
          step[<<i, v>>] \in All /\ (v \in P[i - 1] => step[<<i, v>>] \in P[i])
    BY <1>7, <1>8
  <2> QED BY <1>2, <1>9, <2>1, SeqFoldExists
<1> HIDE DEF S
<1>12. IsIter(g)
  <2>1. \A s \in SUBSET S : s # {} => step[<<Max(s), g[s \ {Max(s)}]>>] = Op(g[s \ {Max(s)}], q[Max(s)])
    BY <1>5, <1>7, <1>11
  <2>2. g = [s \in SUBSET S |-> IF s = {} THEN {} ELSE step[<<Max(s), g[s \ {Max(s)}]>>]]
    BY <1>11 DEF IsSeqFold, S
  <2> QED BY <2>1, <2>2
<1> DEFINE it == CHOOSE h : IsIter(h)
<1>13. IsIter(it)
  <2> HIDE DEF IsIter
  <2> QED BY <1>12, Zenon
<1>14. kept = it[S]
  BY <1>3 DEF rebuild_mempool, FoldLeft, MapThenFoldSet, Op, q
<1> HIDE DEF it
<1>15. it[S] = g[S]
  <2>1. \A s \in SUBSET S : it[s] = Body(it, s) /\ g[s] = Body(g, s)
    <3> HIDE DEF Body
    <3> QED BY <1>12, <1>13, Zenon
  <2>2. it[{}] = g[{}]
    BY <2>1
  <2>3. \A s \in SUBSET S : s # {} => (it[s \ {Max(s)}] = g[s \ {Max(s)}] => it[s] = g[s])
    BY <2>1
  <2> QED BY <1>2, <2>2, <2>3, SeqFoldsAgree DEF S
<1> QED BY <1>10, <1>11, <1>14, <1>15 DEF F

\* What is spendable at height zero is so at every height.
LEMMA SpendsLater ==
  ASSUME NEW utxo, IsUtxo(utxo), NEW tree, NEW floors, NEW height \in Nat, NEW t \in DOMAIN Tx,
         Spends(t, utxo, tree, floors, 0)
  PROVE  Spends(t, utxo, tree, floors, height)
<1>1. Tx[t].lockheight \in Nat /\ Tx[t].ins \subseteq DOMAIN utxo
  BY LedgerAssumption DEF Spends, is_spendable
<1>2. \A op \in Tx[t].ins : utxo[op].lockheight \in Nat
  BY <1>1 DEF IsUtxo, Outputs
<1>3. check_locks(Tx[t], 0, 0) => check_locks(Tx[t], 0, height)
  BY <1>1 DEF check_locks
<1>4. \A op \in Tx[t].ins : check_locks(utxo[op], 0, 0) => check_locks(utxo[op], 0, height)
  BY <1>2 DEF check_locks
<1> QED BY <1>3, <1>4 DEF Spends, is_spendable

\* Outside the gap of process_anchor the mempool is fine at the active height.
PoolInv ==
  /\ rows \subseteq DOMAIN Tx /\ IsFiniteSet(rows)
  /\ mempool \subseteq DOMAIN Tx /\ IsFiniteSet(mempool)
  /\ pc # "anchor" => Fine(mempool, utxo_set, shard_tree, active.floors, active.height)

\* Rebuilding the mempool from the rows makes it fine, whatever they were.
LEMMA RebuildKeepsPool ==
  ASSUME rows \subseteq DOMAIN Tx, IsFiniteSet(rows), active' = active,
         mempool' = rebuilt(rows, utxo_set', shard_tree'), rows' = mempool'
  PROVE  PoolInv'
<1> DEFINE kept == rebuild_mempool(rows, utxo_set', shard_tree', active.floors, active.height)
<1>1. mempool' = kept
  BY DEF rebuilt
<1>2. kept = rebuild_mempool(rows, utxo_set', shard_tree', active.floors, active.height)
  OBVIOUS
<1> HIDE DEF kept
<1>3. kept \subseteq rows /\ Fine(kept, utxo_set', shard_tree', active.floors, active.height)
  BY <1>2, RebuildMempool
<1>4. IsFiniteSet(kept) /\ kept \subseteq DOMAIN Tx
  BY <1>3, FS_Subset
<1> QED BY <1>1, <1>3, <1>4 DEF PoolInv

\* Nor does storing an anchor, until memory is refreshed.
LEMMA AnchorKeepsPool ==
  ASSUME PoolInv, NEW a, NEW anchor, NEW st, store_anchor(a, anchor, st)
  PROVE  PoolInv'
<1>1. UNCHANGED <<utxo_set, shard_tree, mempool>>
  BY DEF store_anchor
<1>2. CASE becomes_best_tip(a, anchor)
  <2>1. rows' = rows \ st.confirmed /\ pc' = "anchor"
    BY <1>2 DEF store_anchor
  <2>2. rows' \subseteq DOMAIN Tx /\ IsFiniteSet(rows')
    BY <2>1, FS_Subset DEF PoolInv
  <2> QED BY <1>1, <2>1, <2>2 DEF PoolInv
<1>3. CASE ~ becomes_best_tip(a, anchor)
  <2>1. UNCHANGED <<active, rows, pc>>
    BY <1>3 DEF store_anchor
  <2> QED BY <1>1, <2>1 DEF PoolInv
<1> QED BY <1>2, <1>3

\* A relayed transaction joins a pool of which rebuilding has dropped nothing.
LEMMA RelayKeepsPool ==
  ASSUME PoolInv, SoundInv, ReplayInv, UtxoMirrorsStore, NEW t \in DOMAIN Tx, process_raw_tx(t)
  PROVE  PoolInv'
<1> DEFINE kept == rebuild_mempool(mempool, utxo_set, shard_tree, active.floors, active.height)
           accepted == admits(kept, t, utxo_set, shard_tree, active.floors, 0)
<1>1. /\ pc = "idle"
      /\ rows' = (rows \ (mempool \ kept)) \cup (IF accepted THEN {t} ELSE {})
      /\ mempool' = IF accepted THEN kept \cup {t} ELSE mempool
      /\ UNCHANGED <<active, utxo_set, shard_tree, pc>>
  BY DEF process_raw_tx, rebuilt
<1>2. Fine(mempool, utxo_set, shard_tree, active.floors, active.height)
  BY <1>1 DEF PoolInv
<1>3. kept = mempool
  <2>1. kept = rebuild_mempool(mempool, utxo_set, shard_tree, active.floors, active.height)
    OBVIOUS
  <2> HIDE DEF kept
  <2> QED BY <1>2, <2>1, RebuildMempool DEF PoolInv
<1> HIDE DEF kept
<1>4. IsUtxo(utxo_set) /\ active.height \in Nat
  <2>1. PICK st : Sound(st, fruits) /\ active = active_columns(active.tip, st)
    BY ActiveIsSound
  <2>2. active.height = st.height /\ active.utxo = st.utxo
    BY <2>1 DEF active_columns
  <2> QED BY <1>1, <2>1, <2>2 DEF Sound, UtxoMirrorsStore
<1>5. ASSUME accepted
      PROVE  Fine(mempool \cup {t}, utxo_set, shard_tree, active.floors, active.height)
  <2>1. admits(mempool, t, utxo_set, shard_tree, active.floors, 0)
    BY <1>3, <1>5
  <2>2. Spends(t, utxo_set, shard_tree, active.floors, 0)
    BY <2>1 DEF admits, Spends
  <2>3. Spends(t, utxo_set, shard_tree, active.floors, active.height)
    BY <1>4, <2>2, SpendsLater
  <2>4. admits(mempool, t, utxo_set, shard_tree, active.floors, active.height)
    BY <2>1, <2>3 DEF admits, Spends
  <2> QED BY <1>2, <2>4, AdmitOne
<1>6. /\ IsFiniteSet(rows') /\ rows' \subseteq DOMAIN Tx
      /\ IsFiniteSet(mempool') /\ mempool' \subseteq DOMAIN Tx
  <2>1. IsFiniteSet(rows \cup {t}) /\ IsFiniteSet(mempool \cup {t})
    BY FS_AddElement DEF PoolInv
  <2>2. rows' \subseteq rows \cup {t} /\ mempool' \subseteq mempool \cup {t}
    BY <1>1, <1>3
  <2> QED BY <2>1, <2>2, FS_Subset DEF PoolInv
<1>7. Fine(mempool', utxo_set, shard_tree, active.floors, active.height)
  BY <1>1, <1>2, <1>3, <1>5
<1> QED BY <1>1, <1>6, <1>7 DEF PoolInv

\* Every step keeps the mempool fine.
LEMMA PoolStep ==
  ASSUME PoolInv, SoundInv, ReplayInv, UtxoMirrorsStore, [Next]_vars
  PROVE  PoolInv'
<1>1. ASSUME NEW t \in DOMAIN Tx, process_raw_tx(t) PROVE PoolInv'
  BY <1>1, RelayKeepsPool
<1>2. ASSUME NEW f, NEW fruit, process_fruit(f, fruit) PROVE PoolInv'
  <2>1. /\ pc = "idle" /\ rows' = rows \ ToSet(fruit.txs)
        /\ UNCHANGED <<active, utxo_set, shard_tree, mempool>>
    BY <1>2 DEF process_fruit
  <2>2. rows' \subseteq DOMAIN Tx /\ IsFiniteSet(rows')
    BY <2>1, FS_Subset DEF PoolInv
  <2> QED BY <2>1, <2>2 DEF PoolInv
<1>3. ASSUME NEW a, NEW ts, process_genesis(a, ts) PROVE PoolInv'
  <2>1. PICK anchor, st : store_anchor(a, anchor, st)
    BY <1>3 DEF process_genesis
  <2> QED BY <2>1, AnchorKeepsPool
<1>4. ASSUME NEW a, NEW parent, NEW covered, NEW ts, NEW payload,
             process_anchor(a, parent, covered, ts, payload)
      PROVE  PoolInv'
  <2>1. PICK anchor, st : store_anchor(a, anchor, st)
    BY <1>4 DEF process_anchor
  <2> QED BY <2>1, AnchorKeepsPool
<1>5. ASSUME NEW f, get_finality(f) PROVE PoolInv'
  BY <1>5 DEF get_finality, PoolInv
<1>6. CASE refresh_after_fruit
  <2>1. /\ active' = active /\ utxo_set' = utxo_set /\ shard_tree' = shard_tree
        /\ mempool' = rebuilt(rows, utxo_set, shard_tree) /\ rows' = mempool'
    BY <1>6 DEF refresh_after_fruit
  <2> QED BY <2>1, RebuildKeepsPool DEF PoolInv
<1>7. CASE refresh_after_anchor
  BY <1>7, RebuildKeepsPool DEF refresh_after_anchor, PoolInv
<1>8. CASE restart
  BY <1>8, RebuildKeepsPool DEF restart, PoolInv
<1>9. CASE UNCHANGED vars
  BY <1>9 DEF vars, PoolInv
<1> QED BY <1>1, <1>2, <1>3, <1>4, <1>5, <1>6, <1>7, <1>8, <1>9 DEF Next, OfferFruit, OfferAnchor

\* PoolInv holds in every reachable state.
LEMMA PoolIsFine == Spec => []PoolInv
<1>1. Init => PoolInv
  <2> SUFFICES ASSUME Init PROVE PoolInv
    OBVIOUS
  <2>1. rows = {} /\ mempool = {}
    BY DEF Init
  <2> QED BY <2>1, FS_EmptySet DEF PoolInv, Fine
<1>2. PoolInv /\ SoundInv /\ ReplayInv /\ UtxoMirrorsStore /\ [Next]_vars => PoolInv'
  BY PoolStep
<1> QED BY <1>1, <1>2, BranchesSound, MemoryFollowsStore, PTL DEF Spec

\* Between two handlers the mempool holds spendable transactions without a
\* conflict, and rebuilding it drops none: reorganisations, spends confirmed
\* elsewhere and crashes leave nothing stale in it.
THEOREM MempoolIsSpendable == Spec => []MempoolSpendable
<1>1. PoolInv => MempoolSpendable
  <2> SUFFICES ASSUME PoolInv, pc = "idle"
               PROVE  /\ rebuilt(mempool, utxo_set, shard_tree) = mempool
                      /\ \A t \in mempool : Tx[t].ins \subseteq DOMAIN utxo_set
                      /\ \A t, u \in mempool : t # u => Tx[t].ins \cap Tx[u].ins = {}
    BY DEF MempoolSpendable
  <2> DEFINE kept == rebuild_mempool(mempool, utxo_set, shard_tree, active.floors, active.height)
  <2>1. Fine(mempool, utxo_set, shard_tree, active.floors, active.height)
    BY DEF PoolInv
  <2>2. kept = mempool
    <3>1. kept = rebuild_mempool(mempool, utxo_set, shard_tree, active.floors, active.height)
      OBVIOUS
    <3> HIDE DEF kept
    <3> QED BY <2>1, <3>1, RebuildMempool DEF PoolInv
  <2>3. \A t \in mempool : Tx[t].ins \subseteq DOMAIN utxo_set
    BY <2>1 DEF Fine, Spends, is_spendable
  <2> QED BY <2>1, <2>2, <2>3 DEF Fine, rebuilt
<1> QED BY <1>1, PoolIsFine, PTL

\* Only blocks that were offered are stored.
IdsInv == DOMAIN fruits \subseteq FruitIds /\ DOMAIN anchors \subseteq AnchorIds

\* A handler adds its own block and no other.
LEMMA IdsKept == Spec => []IdsInv
<1>1. Init => IdsInv
  BY EmptyDomain DEF Init, IdsInv
<1>2. IdsInv /\ [Next]_vars => IdsInv'
  <2> SUFFICES ASSUME IdsInv, [Next]_vars PROVE IdsInv'
    OBVIOUS
  <2>1. ASSUME NEW f \in FruitIds, NEW fruit, process_fruit(f, fruit) PROVE IdsInv'
    <3>1. fruits' = Extend(fruits, f, fruit) /\ anchors' = anchors
      BY <2>1 DEF process_fruit
    <3> QED BY <3>1 DEF Extend, IdsInv
  <2>2. ASSUME NEW a \in AnchorIds, NEW anchor, NEW st, store_anchor(a, anchor, st) PROVE IdsInv'
    <3>1. anchors' = Extend(anchors, a, anchor) /\ fruits' = fruits
      BY <2>2 DEF store_anchor
    <3> QED BY <3>1 DEF Extend, IdsInv
  <2>3. ASSUME NEW a \in AnchorIds, NEW ts, process_genesis(a, ts) PROVE IdsInv'
    <3>1. PICK anchor, st : store_anchor(a, anchor, st)
      BY <2>3 DEF process_genesis
    <3> QED BY <2>2, <3>1
  <2>4. ASSUME NEW a \in AnchorIds, NEW parent, NEW covered, NEW ts, NEW payload,
               process_anchor(a, parent, covered, ts, payload)
        PROVE  IdsInv'
    <3>1. PICK anchor, st : store_anchor(a, anchor, st)
      BY <2>4 DEF process_anchor
    <3> QED BY <2>2, <3>1
  <2>5. ASSUME UNCHANGED <<fruits, anchors>> PROVE IdsInv'
    BY <2>5 DEF IdsInv
  <2>6. ASSUME NEW t, process_raw_tx(t) PROVE IdsInv'
    BY <2>5, <2>6 DEF process_raw_tx
  <2>7. ASSUME NEW f, get_finality(f) PROVE IdsInv'
    BY <2>5, <2>7 DEF get_finality
  <2>8. CASE refresh_after_fruit
    BY <2>5, <2>8 DEF refresh_after_fruit
  <2>9. CASE refresh_after_anchor
    BY <2>5, <2>9 DEF refresh_after_anchor
  <2>10. CASE restart
    BY <2>5, <2>10 DEF restart
  <2>11. CASE UNCHANGED vars
    BY <2>5, <2>11 DEF vars
  <2> QED BY <2>1, <2>3, <2>4, <2>6, <2>7, <2>8, <2>9, <2>10, <2>11 DEF Next, OfferFruit, OfferAnchor
<1> QED BY <1>1, <1>2, PTL DEF Spec

\* The store, the memory and the handler state keep their shape.
THEOREM NodeTypes == Spec => []TypeOK
<1>1. SoundInv /\ ReplayInv /\ PoolInv /\ IdsInv => TypeOK
  <2> SUFFICES ASSUME SoundInv, ReplayInv, PoolInv, IdsInv PROVE TypeOK
    OBVIOUS
  <2>1. PICK st : Sound(st, fruits) /\ active = active_columns(active.tip, st)
    BY ActiveIsSound
  <2>2. /\ active.height = st.height /\ active.utxo = st.utxo /\ active.minted = st.minted
        /\ active.claimed = st.claimed
    BY <2>1 DEF active_columns
  <2>3. /\ active.height \in Nat /\ active.minted \in Nat
        /\ DOMAIN active.claimed \subseteq DOMAIN fruits
        /\ \A op \in DOMAIN active.utxo : active.utxo[op] \in Outputs
    BY <2>1, <2>2, RewardsAssumption DEF Sound, IsUtxo
  <2> QED BY <2>3 DEF TypeOK, SoundInv, StagedWhileDue, ReplayInv, PoolInv, IdsInv
<1> QED BY <1>1, BranchesSound, PoolIsFine, IdsKept, PTL
=============================================================================
