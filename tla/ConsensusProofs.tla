--------------------------- MODULE ConsensusProofs --------------------------
(***************************************************************************)
(* Consensus for every value of the constants: the fruit DAG's caches and  *)
(* classification, the finality tiers, the anchor difficulty (target       *)
(* bounds and movement limit, whatever the moving average is), and what    *)
(* the hashes of blocks bind.                                              *)
(***************************************************************************)
EXTENDS Finality, AnchorChain, Blocks, GhostdagProofs, SequenceTheorems, TLAPS

-----------------------------------------------------------------------------
(* The fruit DAG and its caches.                                           *)

\* add_block accepts DAGs only; the ancestor cache closes the parents, and a
\* metadata cache, hit or not, describes the current DAG.
DagInv ==
  /\ IsFiniteDag(blocks)
  /\ ancestor_cache = ancestors(blocks)
  /\ \A k \in DOMAIN metadata_cache : metadata_cache[k] = ghostdag_metadata(blocks, k)

\* One more fruit: the DAG grows, and its ancestors are its parents' and theirs.
LEMMA AddBlock ==
  ASSUME DagInv, NEW f \in Fruits, NEW block \in FruitBlock, add_block(f, block)
  PROVE  DagInv' /\ Grows(blocks, blocks')
<1> USE DEF IsFiniteDag
<1>1. /\ f \notin DOMAIN blocks
      /\ block.parents \subseteq DOMAIN blocks
      /\ \A p \in block.parents : block.ts > blocks[p].ts
      /\ blocks' = Extend(blocks, f, block)
      /\ ancestor_cache' = Extend(ancestor_cache, f, cached_ancestors(block))
      /\ metadata_cache' = << >>
  BY DEF add_block
<1>2. block.ts \in Nat /\ block.work \in Nat /\ f \in Nat \ {NoHash}
  BY DagAssumption DEF FruitBlock
<1>3. /\ DOMAIN blocks' = DOMAIN blocks \cup {f}
      /\ blocks'[f] = block
      /\ \A g \in DOMAIN blocks : blocks'[g] = blocks[g]
  BY <1>1 DEF Extend
<1>4. Grows(blocks, blocks')
  BY <1>3 DEF Grows
<1>5. IsDag(blocks')
  <2>1. PICK n \in Nat : \A g \in DOMAIN blocks : blocks[g].ts < n
    BY DEF DagInv, IsDag
  <2> DEFINE m == IF n > block.ts THEN n ELSE block.ts + 1
  <2>2. m \in Nat /\ \A g \in DOMAIN blocks' : blocks'[g].ts < m
    BY <1>2, <1>3, <2>1 DEF DagInv, IsDag
  <2> HIDE DEF m
  <2>3. \A g \in DOMAIN blocks' : blocks'[g].ts \in Nat
    BY <1>2, <1>3 DEF DagInv, IsDag
  <2>4. \A g \in DOMAIN blocks' : \A p \in blocks'[g].parents :
          p \in DOMAIN blocks' /\ blocks'[p].ts < blocks'[g].ts
    <3> SUFFICES ASSUME NEW g \in DOMAIN blocks', NEW p \in blocks'[g].parents
                 PROVE  p \in DOMAIN blocks' /\ blocks'[p].ts < blocks'[g].ts
      OBVIOUS
    <3>1. CASE g = f
      <4>1. p \in DOMAIN blocks /\ block.ts > blocks[p].ts /\ blocks[p].ts \in Nat
        BY <1>1, <1>3, <3>1 DEF DagInv, IsDag
      <4> QED BY <1>2, <1>3, <3>1, <4>1
    <3>2. CASE g \in DOMAIN blocks
      BY <1>3, <3>2 DEF DagInv, IsDag
    <3> QED BY <1>3, <3>1, <3>2
  <2> QED BY <2>2, <2>3, <2>4 DEF IsDag
<1>6. \A g \in DOMAIN blocks : ancestors(blocks')[g] = ancestors(blocks)[g]
  BY <1>4, <1>5, AncestorsStable DEF DagInv
<1>7. ancestors(blocks')[f] = block.parents \cup UNION {ancestors(blocks)[p] : p \in block.parents}
  <2>1. ancestors(blocks')[f]
          = block.parents \cup UNION {ancestors(blocks')[p] : p \in block.parents}
    BY <1>3, <1>5, AncestorsOf
  <2>2. \A p \in block.parents : ancestors(blocks')[p] = ancestors(blocks)[p]
    BY <1>1, <1>6
  <2> QED BY <2>1, <2>2
<1>8. ancestor_cache' = ancestors(blocks')
  <2>1. /\ ancestors(blocks) = [g \in DOMAIN blocks |-> ancestors(blocks)[g]]
        /\ ancestors(blocks') = [g \in DOMAIN blocks' |-> ancestors(blocks')[g]]
    <3>1. \A dag : IsDag(dag) => ancestors(dag) = [g \in DOMAIN dag |-> ancestors(dag)[g]]
      <4> SUFFICES ASSUME NEW dag, IsDag(dag)
                   PROVE  ancestors(dag) = [g \in DOMAIN dag |-> ancestors(dag)[g]]
        OBVIOUS
      <4> DEFINE anc == ancestors(dag)
      <4>1. anc = [g \in DOMAIN dag |-> dag[g].parents \cup UNION {anc[p] : p \in dag[g].parents}]
        BY AncestorsUnfold
      <4> HIDE DEF anc
      <4>2. anc = [g \in DOMAIN dag |-> anc[g]]
        BY <4>1
      <4> QED BY <4>2 DEF anc
    <3> QED BY <1>5, <3>1 DEF DagInv
  <2>2. cached_ancestors(block) = ancestors(blocks')[f]
    BY <1>7 DEF cached_ancestors, DagInv
  <2> DEFINE old == ancestors(blocks)
             new == ancestors(blocks')
  <2>3. /\ ancestor_cache = old /\ DOMAIN old = DOMAIN blocks
        /\ new = [g \in DOMAIN blocks \cup {f} |-> new[g]]
        /\ \A g \in DOMAIN blocks : new[g] = old[g]
    BY <1>3, <1>6, <2>1 DEF DagInv
  <2>4. ancestor_cache' = Extend(old, f, new[f])
    BY <1>1, <2>2, <2>3
  <2> HIDE DEF old, new
  <2>5. ancestor_cache' = new
    BY <1>1, <2>3, <2>4 DEF Extend
  <2> QED BY <2>5 DEF new
<1>9. DOMAIN metadata_cache' = {}
  BY <1>1
<1>10. IsFiniteDag(blocks')
  <2>1. IsFiniteSet(DOMAIN blocks')
    BY <1>3, FS_AddElement DEF DagInv
  <2> QED BY <1>2, <1>3, <1>5, <2>1 DEF DagInv
<1> QED BY <1>4, <1>8, <1>9, <1>10 DEF DagInv

\* Filling the metadata cache for one K changes nothing of the DAG.
LEMMA ComputeMetadata ==
  ASSUME DagInv, NEW k, compute_metadata(k) PROVE DagInv'
<1>1. /\ metadata_cache' = Extend(metadata_cache, k, ghostdag_metadata(blocks, k))
      /\ UNCHANGED <<blocks, ancestor_cache>>
  BY DEF compute_metadata, ghostdag_metadata, DagInv
<1>2. \A j \in DOMAIN metadata_cache' : metadata_cache'[j] = ghostdag_metadata(blocks, j)
  BY <1>1 DEF Extend, DagInv
<1> QED BY <1>1, <1>2 DEF DagInv

\* In every reachable state of the fruit DAG.
LEMMA DagInvHolds == DagSpec => []DagInv
<1>1. DagInit => DagInv
  <2> SUFFICES ASSUME DagInit PROVE DagInv
    OBVIOUS
  <2>1. DOMAIN blocks = {} /\ DOMAIN metadata_cache = {}
    BY DEF DagInit
  <2>2. IsFiniteDag(blocks) /\ IsDag(blocks)
    BY <2>1, FS_EmptySet DEF IsDag, IsFiniteDag
  <2>3. ancestor_cache = ancestors(blocks)
    <3> DEFINE anc == ancestors(blocks)
    <3>1. anc = [g \in DOMAIN blocks |-> blocks[g].parents
                                          \cup UNION {anc[p] : p \in blocks[g].parents}]
      BY <2>2, AncestorsUnfold
    <3> HIDE DEF anc
    <3>2. anc = << >>
      BY <2>1, <3>1
    <3> QED BY <3>2 DEF anc, DagInit
  <2> QED BY <2>1, <2>2, <2>3 DEF DagInv
<1>2. DagInv /\ [DagNext]_dagVars => DagInv'
  <2> SUFFICES ASSUME DagInv, [DagNext]_dagVars PROVE DagInv'
    OBVIOUS
  <2>1. ASSUME NEW f \in Fruits, NEW block \in FruitBlock, add_block(f, block) PROVE DagInv'
    BY <2>1, AddBlock
  <2>2. ASSUME NEW k \in Ks, compute_metadata(k) PROVE DagInv'
    BY <2>2, ComputeMetadata
  <2>3. CASE UNCHANGED dagVars
    BY <2>3 DEF dagVars, DagInv
  <2> QED BY <2>1, <2>2, <2>3 DEF DagNext
<1> QED BY <1>1, <1>2, PTL DEF DagSpec

\* What the ancestor and metadata caches answer is what a recomputation gives,
\* after every sequence of fruits and queries.
THEOREM CachesStayCoherent == DagSpec => []CachesCoherent
<1>1. DagInv => CachesCoherent
  <2> SUFFICES ASSUME DagInv PROVE CachesCoherent
    OBVIOUS
  <2>1. DOMAIN ancestors(blocks) = DOMAIN blocks
    <3> DEFINE anc == ancestors(blocks)
    <3>1. anc = [g \in DOMAIN blocks |-> blocks[g].parents
                                          \cup UNION {anc[p] : p \in blocks[g].parents}]
      BY AncestorsUnfold DEF DagInv, IsFiniteDag
    <3> HIDE DEF anc
    <3>2. DOMAIN anc = DOMAIN blocks
      BY <3>1
    <3> QED BY <3>2 DEF anc
  <2> QED BY <2>1 DEF DagInv, CachesCoherent
<1> QED BY <1>1, DagInvHolds, PTL

\* Learning of a fruit never changes the classification of a known one, for
\* every K: an anchor that is applied again is applied in the same order.
THEOREM ClassificationIsStable == DagSpec => MetadataStable
<1>1. DagInv /\ DagInv' /\ [DagNext]_dagVars
        => [\A k \in Ks :
            \A old \in {ghostdag_metadata(blocks, k)}, new \in {ghostdag_metadata(blocks', k)} :
              \A f \in DOMAIN blocks : new[f] = old[f]]_blocks
  <2> SUFFICES ASSUME DagInv, DagInv', [DagNext]_dagVars, blocks' # blocks,
                      NEW k \in Ks, NEW f \in DOMAIN blocks
               PROVE  ghostdag_metadata(blocks', k)[f] = ghostdag_metadata(blocks, k)[f]
    OBVIOUS
  <2>1. PICK g \in Fruits, block \in FruitBlock : add_block(g, block)
    BY DEF DagNext, dagVars, compute_metadata
  <2> QED BY <2>1, AddBlock, ClassificationStable DEF DagInv, IsFiniteDag
<1> QED BY <1>1, DagInvHolds, PTL DEF DagSpec, MetadataStable

\* The canonical order puts every fruit after all its ancestors, for every K.
\* The hypotheses are what node.py gives the DAG: its only call of add_fruit
\* leaves work at the default 1, so that a parent is selected by its score, and
\* work counts up to 2^64 - 1, beyond the number of fruits.  With other works the
\* order is not topological: a heavy parent outweighs a longer past.
THEOREM OrderRespectsAncestors ==
  ASSUME Works = {1}, IsFiniteSet(Fruits), Cardinality(Fruits) <= WORK_CAP
  PROVE  DagSpec => []OrderIsTopological
<1> DEFINE Stored == /\ DOMAIN blocks \subseteq Fruits
                     /\ \A f \in DOMAIN blocks : blocks[f].work = 1
<1>1. DagInit => Stored
  BY DEF DagInit
<1>2. Stored /\ [DagNext]_dagVars => Stored'
  <2> SUFFICES ASSUME Stored, [DagNext]_dagVars PROVE Stored'
    OBVIOUS
  <2>1. ASSUME NEW g \in Fruits, NEW block \in FruitBlock, add_block(g, block)
        PROVE  Stored'
    <3>1. blocks' = Extend(blocks, g, block) /\ block.work = 1
      BY <2>1 DEF add_block, FruitBlock
    <3> QED BY <3>1 DEF Extend
  <2>2. ASSUME NEW j \in Ks, compute_metadata(j) PROVE Stored'
    BY <2>2 DEF compute_metadata
  <2>3. CASE UNCHANGED dagVars
    BY <2>3 DEF dagVars
  <2> QED BY <2>1, <2>2, <2>3 DEF DagNext
<1>3. DagInv /\ Stored => OrderIsTopological
  <2> SUFFICES ASSUME DagInv, Stored, NEW k \in Ks, NEW f \in DOMAIN blocks,
                      NEW a \in ancestors(blocks)[f]
               PROVE  ScoreOrder(blocks, ghostdag_metadata(blocks, k), a, f)
    BY DEF OrderIsTopological
  <2>1. Cardinality(DOMAIN blocks) <= WORK_CAP
    <3>1. Cardinality(DOMAIN blocks) <= Cardinality(Fruits)
      BY FS_Subset
    <3>2. Cardinality(DOMAIN blocks) \in Nat /\ Cardinality(Fruits) \in Nat
      BY FS_Subset, FS_CardinalityType
    <3> QED BY <3>1, <3>2, WorkCapAssumption
  <2>2. ghostdag_metadata(blocks, k)[a].blue_score < ghostdag_metadata(blocks, k)[f].blue_score
    BY <2>1, ScoresGrow DEF DagInv
  <2> QED BY <2>2 DEF ScoreOrder
<1> HIDE DEF Stored
<1> QED BY <1>1, <1>2, <1>3, DagInvHolds, PTL DEF DagSpec

-----------------------------------------------------------------------------
(* Finality.                                                               *)

\* Both depths grow: no tier is lost, and the tier reported is the strongest.
LEMMA TierMonotone ==
  ASSUME NEW blue \in Nat, NEW deeper \in Nat, blue <= deeper,
         NEW anchored \in Nat, NEW secured \in Nat, anchored <= secured
  PROVE  Keeps(finality_result(deeper, secured, TRUE), finality_result(blue, anchored, TRUE))
<1> DEFINE before == finality_result(blue, anchored, TRUE)
           later  == finality_result(deeper, secured, TRUE)
<1>0. /\ FAST_BLUE_DEPTH \in Nat /\ ECONOMIC_BLUE_DEPTH \in Nat /\ SETTLEMENT_BLUE_DEPTH \in Nat
      /\ ANCHOR_SECURED_DEPTH \in Nat /\ SETTLEMENT_ANCHOR_DEPTH \in Nat
  BY FinalityOrder
<1>1. ASSUME NEW b \in Nat, NEW a \in Nat, NEW r, r = finality_result(b, a, TRUE)
      PROVE  r.tier \in r.satisfied /\ \A t \in r.satisfied : Rank[t] <= Rank[r.tier]
  BY <1>0, <1>1, FinalityOrder
     DEF Rank, finality_result, finality_tier_from_depths, satisfied_finality_tiers
<1>2. before.satisfied \subseteq later.satisfied
  BY <1>0, FinalityOrder DEF finality_result, satisfied_finality_tiers
<1>3. Rank[before.tier] <= Rank[later.tier]
  BY <1>1, <1>2
<1>4. /\ later.tier \in later.satisfied /\ \A t \in later.satisfied : Rank[t] <= Rank[later.tier]
  BY <1>1
<1> HIDE DEF before, later
<1>5. Keeps(later, before)
  BY <1>2, <1>3, <1>4 DEF Keeps
<1> QED BY <1>5 DEF before, later

\* What rests on anchors alone is kept when their depth does not shrink.
LEMMA AnchoredKept ==
  ASSUME NEW blue, NEW deeper, NEW anchored \in Nat, NEW secured \in Nat, anchored <= secured
  PROVE  {"Seen", "AnchorSecured"} \cap finality_result(blue, anchored, TRUE).satisfied
           \subseteq finality_result(deeper, secured, TRUE).satisfied
<1>1. ANCHOR_SECURED_DEPTH \in Nat
  BY FinalityOrder
<1> QED BY <1>1 DEF finality_result, satisfied_finality_tiers

\* The key of _best_fruit_tip's order: score down, timestamp down, hash up.
Ahead(w, t, x, v, u, y) == w > v \/ (w = v /\ (t > u \/ (t = u /\ x < y)))

LEMMA AheadOrders ==
  ASSUME NEW w \in Nat, NEW t \in Nat, NEW x \in Nat, NEW v \in Nat, NEW u \in Nat, NEW y \in Nat
  PROVE  /\ x = y \/ Ahead(w, t, x, v, u, y) \/ Ahead(v, u, y, w, t, x)
         /\ Ahead(w, t, x, v, u, y) => v <= w
BY DEF Ahead

LEMMA AheadTransitive ==
  ASSUME NEW w \in Nat, NEW t \in Nat, NEW x \in Nat, NEW v \in Nat, NEW u \in Nat, NEW y \in Nat,
         NEW m \in Nat, NEW n \in Nat, NEW z \in Nat,
         Ahead(w, t, x, v, u, y), Ahead(v, u, y, m, n, z)
  PROVE  Ahead(w, t, x, m, n, z)
BY DEF Ahead

\* A fruit of the highest score exists, and best_fruit_tip is one.
LEMMA BestTip ==
  ASSUME NEW dag, IsFiniteDag(dag), DOMAIN dag # {},
         NEW meta, \A f \in DOMAIN dag : meta[f].blue_score \in Nat
  PROVE  /\ best_fruit_tip(dag, meta) \in DOMAIN dag
         /\ \A g \in DOMAIN dag : meta[g].blue_score <= meta[best_fruit_tip(dag, meta)].blue_score
<1> DEFINE S == DOMAIN dag
           Beats(f, g) == Ahead(meta[f].blue_score, dag[f].ts, f, meta[g].blue_score, dag[g].ts, g)
           Best(f, s) == f \in s /\ \A g \in s \ {f} : Beats(f, g)
           Good == {s \in SUBSET S : s = {} \/ \E f \in s : Best(f, s)}
<1>0. \A f \in S : meta[f].blue_score \in Nat /\ dag[f].ts \in Nat /\ f \in Nat
  BY DEF IsFiniteDag, IsDag
<1>1. ASSUME NEW f \in S, NEW g \in S
      PROVE  /\ f = g \/ Beats(f, g) \/ Beats(g, f)
             /\ Beats(f, g) => meta[g].blue_score <= meta[f].blue_score
  <2> DEFINE w == meta[f].blue_score
             t == dag[f].ts
             v == meta[g].blue_score
             u == dag[g].ts
  <2>1. w \in Nat /\ t \in Nat /\ v \in Nat /\ u \in Nat /\ f \in Nat /\ g \in Nat
    BY <1>0
  <2>2. /\ f = g \/ Ahead(w, t, f, v, u, g) \/ Ahead(v, u, g, w, t, f)
        /\ Ahead(w, t, f, v, u, g) => v <= w
    <3> HIDE DEF w, t, v, u
    <3> QED BY <2>1, AheadOrders
  <2> QED BY <2>2, Zenon
<1>2. ASSUME NEW e \in S, NEW f \in S, NEW g \in S, Beats(e, f), Beats(f, g) PROVE Beats(e, g)
  <2> DEFINE w == meta[e].blue_score
             t == dag[e].ts
             v == meta[f].blue_score
             u == dag[f].ts
             m == meta[g].blue_score
             n == dag[g].ts
  <2>1. /\ w \in Nat /\ t \in Nat /\ v \in Nat /\ u \in Nat /\ m \in Nat /\ n \in Nat
        /\ e \in Nat /\ f \in Nat /\ g \in Nat
    BY <1>0
  <2>2. Ahead(w, t, e, v, u, f) /\ Ahead(v, u, f, m, n, g)
    BY <1>2, Zenon
  <2>3. Ahead(w, t, e, m, n, g)
    <3> HIDE DEF w, t, v, u, m, n
    <3> QED BY <2>1, <2>2, AheadTransitive
  <2> QED BY <2>3, Zenon
<1>6. best_fruit_tip(dag, meta) = CHOOSE f : Best(f, S)
  BY DEF best_fruit_tip, Ahead
<1> HIDE DEF Beats
<1>3. ASSUME NEW s \in SUBSET S, \A x \in s : s \ {x} \in Good PROVE s \in Good
  <2>1. CASE s = {}
    BY <2>1
  <2>2. ASSUME NEW x \in s PROVE s \in Good
    <3>1. CASE s \ {x} = {}
      <4>1. Best(x, s)
        BY <3>1
      <4> QED BY <4>1
    <3>2. CASE s \ {x} # {}
      <4>1. PICK p \in s \ {x} : Best(p, s \ {x})
        BY <1>3, <3>2
      <4>2. CASE Beats(p, x)
        <5>1. Best(p, s)
          BY <4>1, <4>2
        <5> QED BY <5>1
      <4>3. CASE Beats(x, p)
        <5>1. Best(x, s)
          BY <1>2, <4>1, <4>3
        <5> QED BY <5>1
      <4> QED BY <1>1, <4>2, <4>3
    <3> QED BY <3>1, <3>2
  <2> QED BY <2>1, <2>2
<1>4. SUBSET S \subseteq Good
  <2>1. IsFiniteSet(S)
    BY DEF IsFiniteDag
  <2> HIDE DEF Good, S
  <2> QED BY <1>3, <2>1, SubsetInduction
<1>5. \E f : Best(f, S)
  BY <1>4
<1> HIDE DEF Best
<1>7. Best(best_fruit_tip(dag, meta), S)
  BY <1>5, <1>6, Zenon
<1> DEFINE best == best_fruit_tip(dag, meta)
<1> HIDE DEF best
<1>8. best \in S /\ \A g \in S : g = best \/ Beats(best, g)
  BY <1>7 DEF Best, best
<1>9. ASSUME NEW g \in S PROVE meta[g].blue_score <= meta[best].blue_score
  <2>1. CASE g = best
    <3>1. meta[best].blue_score \in Nat
      BY <1>0, <1>8
    <3> QED BY <2>1, <3>1
  <2>2. CASE Beats(best, g)
    BY <1>1, <1>8, <2>2
  <2> QED BY <1>8, <2>1, <2>2
<1> QED BY <1>8, <1>9 DEF best

\* From one view to a larger one: the best tip scores at least as high, whoever
\* selected it replaces it, and a fruit that stays blue keeps its depth.
LEMMA BestTipGrows ==
  ASSUME DagInv, DagInv', Grows(blocks, blocks'), NEW k,
         NEW meta, meta = ghostdag_metadata(blocks, k),
         NEW after, after = ghostdag_metadata(blocks', k), DOMAIN blocks # {},
         NEW tip, tip = best_fruit_tip(blocks, meta),
         NEW next, next = best_fruit_tip(blocks', after)
  PROVE  /\ \A g \in DOMAIN blocks' :
              g \notin DOMAIN blocks /\ DOMAIN blocks' = DOMAIN blocks \cup {g}
                /\ after[g].selected_parent = tip => next = g
         /\ \A f \in DOMAIN blocks :
              /\ blue_depth(meta, f, tip) \in Nat /\ blue_depth(after, f, next) \in Nat
              /\ Extends(after, tip, next) \/ f \in after[next].blues
                   => blue_depth(meta, f, tip) <= blue_depth(after, f, next)
         /\ \A f \in DOMAIN blocks' : blue_depth(after, f, next) \in Nat
<1>1. /\ \A g \in DOMAIN blocks : IsClassified(blocks, meta, g)
      /\ \A g \in DOMAIN blocks' : IsClassified(blocks', after, g)
  BY AllClassified DEF DagInv
<1>2. \A g \in DOMAIN blocks : g \in DOMAIN blocks' /\ after[g] = meta[g]
  BY ClassificationStable DEF DagInv, IsFiniteDag, Grows
<1>3. /\ \A g \in DOMAIN blocks : meta[g].blue_score \in Nat
      /\ \A g \in DOMAIN blocks' : after[g].blue_score \in Nat
  BY <1>1, FS_CardinalityType DEF IsClassified
<1>4. /\ tip \in DOMAIN blocks
      /\ \A g \in DOMAIN blocks : meta[g].blue_score <= meta[tip].blue_score
  BY <1>3, BestTip DEF DagInv
<1>5. /\ next \in DOMAIN blocks'
      /\ \A g \in DOMAIN blocks' : after[g].blue_score <= after[next].blue_score
  BY <1>2, <1>3, <1>4, BestTip DEF DagInv
<1>6. tip # NoHash
  BY <1>4 DEF DagInv, IsFiniteDag
<1>7. ASSUME NEW g \in DOMAIN blocks', after[g].selected_parent = tip
      PROVE  /\ meta[tip].blues \subseteq after[g].blues /\ tip \in blocks'[g].parents
             /\ after[tip] = meta[tip]
  <2>1. blocks'[g].parents # {}
    BY <1>1, <1>6, <1>7 DEF IsClassified
  <2>2. after[tip].blues \subseteq after[g].blues /\ tip \in blocks'[g].parents
    BY <1>1, <1>7, <2>1 DEF IsClassified
  <2> QED BY <1>2, <1>4, <2>2
<1>8. ASSUME NEW g \in DOMAIN blocks', g \notin DOMAIN blocks,
             DOMAIN blocks' = DOMAIN blocks \cup {g}, after[g].selected_parent = tip
      PROVE  next = g
  <2>1. g \notin meta[tip].blues
    <3>1. meta[tip].blues \subseteq ancestors(blocks)[tip] \cup {tip}
      BY <1>1, <1>4 DEF IsClassified
    <3>2. ancestors(blocks)[tip] \subseteq DOMAIN blocks
      BY <1>4, AncestorsOlder DEF DagInv, IsFiniteDag
    <3> QED BY <1>4, <1>8, <3>1, <3>2
  <2>2. g \in after[g].blues /\ IsFiniteSet(after[g].blues) /\ IsFiniteSet(meta[tip].blues)
    BY <1>1, <1>4 DEF IsClassified
  <2>3. meta[tip].blues \cup {g} \subseteq after[g].blues
    BY <1>7, <1>8, <2>2
  <2>4. /\ Cardinality(meta[tip].blues \cup {g}) = Cardinality(meta[tip].blues) + 1
        /\ Cardinality(meta[tip].blues \cup {g}) <= Cardinality(after[g].blues)
    BY <2>1, <2>2, <2>3, FS_AddElement, FS_Subset
  <2>5. meta[tip].blue_score < after[g].blue_score
    <3>1. /\ meta[tip].blue_score = Cardinality(meta[tip].blues)
          /\ after[g].blue_score = Cardinality(after[g].blues)
      BY <1>1, <1>4 DEF IsClassified
    <3> QED BY <1>3, <1>4, <2>4, <3>1
  <2>6. CASE next \in DOMAIN blocks
    <3> DEFINE sn == after[next].blue_score
               sg == after[g].blue_score
               st == meta[tip].blue_score
    <3>1. sn \in Nat /\ sg \in Nat /\ st \in Nat /\ sn <= st /\ st < sg /\ sg <= sn
      BY <1>2, <1>3, <1>4, <1>5, <2>5, <2>6
    <3> HIDE DEF sn, sg, st
    <3> QED BY <3>1
  <2> QED BY <1>5, <1>8, <2>6
<1>9. ASSUME NEW d, NEW m, \A g \in DOMAIN d : m[g].blue_score \in Nat,
             NEW t \in DOMAIN d, NEW f \in DOMAIN d
      PROVE  blue_depth(m, f, t) \in Nat
  <2> DEFINE st == m[t].blue_score
             sf == m[f].blue_score
  <2>1. st \in Nat /\ sf \in Nat
    BY <1>9
  <2>2. blue_depth(m, f, t) = IF f \in m[t].blues /\ st > sf THEN st - sf ELSE 0
    BY DEF blue_depth
  <2> HIDE DEF st, sf
  <2> QED BY <2>1, <2>2
<1>10. /\ \A f \in DOMAIN blocks : blue_depth(meta, f, tip) \in Nat
       /\ \A f \in DOMAIN blocks' : blue_depth(after, f, next) \in Nat
  BY <1>3, <1>4, <1>5, <1>9
<1>11. ASSUME NEW f \in DOMAIN blocks, Extends(after, tip, next) \/ f \in after[next].blues
       PROVE  blue_depth(meta, f, tip) <= blue_depth(after, f, next)
  <2> DEFINE st == meta[tip].blue_score
             sn == after[next].blue_score
             sf == meta[f].blue_score
  <2>1. f \in meta[tip].blues => f \in after[next].blues
    BY <1>2, <1>4, <1>5, <1>7, <1>11 DEF Extends
  <2>2. st \in Nat /\ sn \in Nat /\ sf \in Nat /\ st <= sn
    BY <1>2, <1>3, <1>4, <1>5
  <2>3. /\ blue_depth(meta, f, tip) = IF f \in meta[tip].blues /\ st > sf THEN st - sf ELSE 0
        /\ blue_depth(after, f, next) = IF f \in after[next].blues /\ sn > sf THEN sn - sf ELSE 0
    BY <1>2 DEF blue_depth
  <2> HIDE DEF st, sn, sf
  <2> QED BY <2>1, <2>2, <2>3
<1> QED BY <1>2, <1>8, <1>10, <1>11

\* The step of TierFallsOnlyByReorg, for one K and the tips of the two views.
TiersKept(meta, after, tip, next) ==
  /\ \A new \in DOMAIN blocks' \ DOMAIN blocks : after[new].selected_parent = tip => next = new
  /\ \A f \in DOMAIN blocks', covering \in Heights \cup {Uncovered}, h \in Heights :
       covering <= h =>
       \A before \in {get_finality(meta, f, TRUE, tip, covering, h)}, g \in {h, h + 1} :
       \A covered \in {covering, IF covering = Uncovered THEN g ELSE covering} :
       \A now \in {get_finality(after, f, TRUE, next, covered, g)} :
         /\ Extends(after, tip, next) \/ f \in after[next].blues => Keeps(now, before)
         /\ {"Seen", "AnchorSecured"} \cap before.satisfied \subseteq now.satisfied

\* A payment loses a tier only when the best tip leaves its branch for one that
\* does not have its fruit among its blues, and never what its anchors secured:
\* for every DAG, every K and every choice of the depths that keeps their order.
THEOREM TiersFallOnlyByReorg == DagSpec => TierFallsOnlyByReorg
<1>1. ASSUME DagInv, DagInv', [DagNext]_dagVars, blocks' # blocks, NEW k \in Ks,
             NEW meta, meta = ghostdag_metadata(blocks, k),
             NEW after, after = ghostdag_metadata(blocks', k), meta # << >>,
             NEW tip, tip = best_fruit_tip(blocks, meta),
             NEW next, next = best_fruit_tip(blocks', after)
      PROVE  TiersKept(meta, after, tip, next)
  <2>1. PICK new \in Fruits, block \in FruitBlock : add_block(new, block)
    BY <1>1 DEF DagNext, dagVars, compute_metadata
  <2>2. /\ Grows(blocks, blocks') /\ new \notin DOMAIN blocks
        /\ DOMAIN blocks' = DOMAIN blocks \cup {new}
    BY <1>1, <2>1, AddBlock DEF add_block, Extend
  <2>3. DOMAIN meta = DOMAIN blocks /\ DOMAIN after = DOMAIN blocks' /\ DOMAIN blocks # {}
    <3>1. ASSUME NEW dag, IsDag(dag), NEW m, m = ghostdag_metadata(dag, k)
          PROVE  DOMAIN m = DOMAIN dag /\ (DOMAIN dag = {} => m = << >>)
      <4> DEFINE anc == ancestors(dag)
      <4>1. m = [g \in DOMAIN dag |-> data_from_past(dag, anc, Restrict(m, anc[g]), k, g)]
        BY <3>1, MetadataUnfold
      <4> HIDE DEF anc
      <4> QED BY <4>1
    <3> QED BY <1>1, <3>1 DEF DagInv, IsFiniteDag
  <2>4. /\ after[new].selected_parent = tip => next = new
        /\ \A f \in DOMAIN blocks :
             /\ blue_depth(meta, f, tip) \in Nat
             /\ Extends(after, tip, next) \/ f \in after[next].blues
                  => blue_depth(meta, f, tip) <= blue_depth(after, f, next)
        /\ \A f \in DOMAIN blocks' : blue_depth(after, f, next) \in Nat
    BY <1>1, <2>2, <2>3, BestTipGrows
  <2>5. \A x \in DOMAIN blocks' \ DOMAIN blocks : after[x].selected_parent = tip => next = x
    BY <2>2, <2>4
  <2>6. \A f \in DOMAIN blocks', covering \in Heights \cup {Uncovered}, h \in Heights :
       covering <= h =>
       \A before \in {get_finality(meta, f, TRUE, tip, covering, h)}, g \in {h, h + 1} :
       \A covered \in {covering, IF covering = Uncovered THEN g ELSE covering} :
       \A now \in {get_finality(after, f, TRUE, next, covered, g)} :
         /\ Extends(after, tip, next) \/ f \in after[next].blues => Keeps(now, before)
         /\ {"Seen", "AnchorSecured"} \cap before.satisfied \subseteq now.satisfied
    <3> SUFFICES ASSUME NEW f \in DOMAIN blocks', NEW covering \in Heights \cup {Uncovered},
                        NEW h \in Heights, covering <= h,
                        NEW before \in {get_finality(meta, f, TRUE, tip, covering, h)},
                        NEW g \in {h, h + 1},
                        NEW covered \in {covering, IF covering = Uncovered THEN g ELSE covering},
                        NEW now \in {get_finality(after, f, TRUE, next, covered, g)}
                 PROVE  /\ Extends(after, tip, next) \/ f \in after[next].blues => Keeps(now, before)
                        /\ {"Seen", "AnchorSecured"} \cap before.satisfied \subseteq now.satisfied
      BY Zenon
    <3>0. /\ before = get_finality(meta, f, TRUE, tip, covering, h)
          /\ now = get_finality(after, f, TRUE, next, covered, g)
      BY Zenon
    <3> DEFINE blue == IF f \in DOMAIN blocks THEN blue_depth(meta, f, tip) ELSE 0
               deeper == blue_depth(after, f, next)
               anchored == IF f \in DOMAIN blocks THEN anchor_depth(covering, h) ELSE 0
               secured == anchor_depth(covered, g)
    <3>1. /\ before = finality_result(blue, anchored, TRUE)
          /\ now = finality_result(deeper, secured, TRUE)
      BY <2>3, <3>0 DEF get_finality
    <3>2. blue \in Nat /\ deeper \in Nat
      BY <2>4
    <3>3. anchored \in Nat /\ secured \in Nat /\ anchored <= secured
      BY FinalityOrder DEF anchor_depth, Uncovered
    <3>4. Extends(after, tip, next) \/ f \in after[next].blues => blue <= deeper
      BY <2>4, <3>2
    <3> HIDE DEF blue, deeper, anchored, secured
    <3>5. Extends(after, tip, next) \/ f \in after[next].blues => Keeps(now, before)
      BY <3>1, <3>2, <3>3, <3>4, TierMonotone
    <3>6. {"Seen", "AnchorSecured"} \cap before.satisfied \subseteq now.satisfied
      BY <3>1, <3>3, AnchoredKept
    <3> QED BY <3>5, <3>6
  <2> QED BY <2>5, <2>6, Zenon DEF TiersKept
<1>2. DagInv /\ DagInv' /\ [DagNext]_dagVars
        => [\A k \in Ks :
            \A meta \in {ghostdag_metadata(blocks, k)}, after \in {ghostdag_metadata(blocks', k)} :
            meta # << >> /\ after # << >> =>
            \A tip \in {best_fruit_tip(blocks, meta)}, next \in {best_fruit_tip(blocks', after)} :
              TiersKept(meta, after, tip, next)]_blocks
  BY <1>1
<1> QED BY <1>2, DagInvHolds, PTL DEF DagSpec, TierFallsOnlyByReorg, TiersKept

-----------------------------------------------------------------------------
(* The anchor difficulty.                                                  *)

\* A clamped value lies between the limits, whatever was clamped.
LEMMA ClampInRange ==
  ASSUME NEW low \in Int, NEW high \in Int, low <= high, NEW value
  PROVE  clamp(value, low, high) \in low..high
BY DEF clamp

\* Rounding up: the quotient times the divisor is at least the dividend, and
\* the quotient of a positive dividend is between one and the dividend.
LEMMA CeilDiv ==
  ASSUME NEW n \in Nat \ {0}, NEW d \in Nat \ {0}
  PROVE  /\ ceil_div(n, d) \in 1..n
         /\ ceil_div(n, d) * d >= n
<1> DEFINE q == (n + d - 1) \div d
<1>1. q \in Int /\ d * q <= n + d - 1 /\ n + d - 1 < d * q + d
  OBVIOUS
<1>2. q * d >= n
  BY <1>1
<1>3. q >= 1
  BY <1>1
<1>4. q <= n
  BY <1>1
<1> QED
  BY <1>1, <1>2, <1>3, <1>4 DEF ceil_div

Moves(previous, next) ==
  /\ next <= previous * WTEMA_MAX_ADJUSTMENT_FACTOR
  /\ next * WTEMA_MAX_ADJUSTMENT_FACTOR >= previous

\* adjust_target stays within the bounds and the movement limit, for any ratio.
LEMMA AdjustTarget ==
  ASSUME NEW previous \in Targets, NEW ratio_fp
  PROVE  /\ adjust_target(previous, ratio_fp) \in Targets
         /\ Moves(previous, adjust_target(previous, ratio_fp))
<1> DEFINE F == WTEMA_MAX_ADJUSTMENT_FACTOR
           scaled == (previous * ratio_fp) \div FIXED_POINT_SCALE
           moved == clamp(IF scaled >= 1 THEN scaled ELSE 1, ceil_div(previous, F), previous * F)
           next == clamp(moved, ANCHOR_MIN_TARGET, ANCHOR_MAX_TARGET)
<1>1. /\ F \in Nat \ {0}
      /\ ANCHOR_MIN_TARGET \in Nat \ {0} /\ ANCHOR_MAX_TARGET \in Nat \ {0}
      /\ ANCHOR_MIN_TARGET <= ANCHOR_MAX_TARGET
  BY DAAAssumption
<1>2. previous \in Nat \ {0} /\ previous \in ANCHOR_MIN_TARGET..ANCHOR_MAX_TARGET
  BY <1>1 DEF Targets
<1>3. ceil_div(previous, F) \in 1..previous /\ ceil_div(previous, F) * F >= previous
  BY <1>1, <1>2, CeilDiv
<1>4. previous * F \in Nat /\ previous <= previous * F
  BY <1>1, <1>2
<1>5. moved \in ceil_div(previous, F)..(previous * F)
  <2> HIDE DEF scaled
  <2> QED BY <1>1, <1>2, <1>3, <1>4, ClampInRange
<1>6. next \in ANCHOR_MIN_TARGET..ANCHOR_MAX_TARGET
  BY <1>1, ClampInRange
<1>7. moved \in Nat /\ moved <= previous * F /\ ceil_div(previous, F) <= moved
  BY <1>3, <1>4, <1>5
<1>8. moved * F >= previous
  <2>1. moved * F >= ceil_div(previous, F) * F
    <3> HIDE DEF moved
    <3> QED BY <1>1, <1>3, <1>7
  <2> QED BY <1>1, <1>2, <1>3, <1>7, <2>1
<1>9. \/ next = moved
      \/ next <= previous /\ moved <= next
      \/ next >= previous /\ next <= moved
  <2> HIDE DEF moved
  <2> QED BY <1>1, <1>2, <1>7 DEF clamp
<1>10. next <= previous * F /\ next * F >= previous
  <2> HIDE DEF moved, next
  <2>1. CASE next = moved
    BY <2>1, <1>7, <1>8
  <2>2. CASE next <= previous /\ moved <= next
    <3>1. next * F >= moved * F
      BY <2>2, <1>1, <1>6, <1>7
    <3> QED BY <3>1, <2>2, <1>1, <1>2, <1>4, <1>6, <1>7, <1>8
  <2>3. CASE next >= previous /\ next <= moved
    <3>1. next * F >= previous
      BY <2>3, <1>1, <1>2, <1>6
    <3> QED BY <3>1, <2>3, <1>1, <1>2, <1>4, <1>6, <1>7
  <2> QED BY <1>9, <2>1, <2>2, <2>3
<1> QED
  BY <1>6, <1>10 DEF adjust_target, Moves, Targets

Records == [ts : Nat, target : Targets]

\* The last record of a nonempty history is one of its records.
LEMMA LastRecord ==
  ASSUME NEW h \in Seq(Records), h # << >>
  PROVE  /\ Len(h) \in Nat \ {0}
         /\ Last(h) \in Records
         /\ Last(h).ts \in Nat
         /\ Last(h).target \in Targets
<1>1. Len(h) \in Nat \ {0}
  BY EmptySeq, LenProperties
<1>2. h[Len(h)] \in Records
  BY <1>1, ElementOfSeq
<1> QED BY <1>1, <1>2 DEF Last, Records

\* The window ends in the newest record.
LEMMA NormalizeKeepsLast ==
  ASSUME NEW h \in Seq(Records), h # << >>
  PROVE  /\ normalize_history(h) # << >>
         /\ normalize_history(h) \in Seq(Records)
         /\ Last(normalize_history(h)) = Last(h)
<1> DEFINE first == IF Len(h) > WTEMA_WINDOW_ANCHORS THEN Len(h) - WTEMA_WINDOW_ANCHORS ELSE 1
<1>1. Len(h) \in Nat \ {0} /\ WTEMA_WINDOW_ANCHORS \in Nat \ {0}
  BY DAAAssumption, LastRecord
<1>2. first \in 1..Len(h)
  BY <1>1
<1>3. /\ SubSeq(h, first, Len(h)) \in Seq(Records)
      /\ Len(SubSeq(h, first, Len(h))) = Len(h) - first + 1
      /\ SubSeq(h, first, Len(h))[Len(h) - first + 1] = h[Len(h)]
  <2> HIDE DEF first
  <2> QED BY <1>1, <1>2
<1> QED
  <2> HIDE DEF first
  <2>1. SubSeq(h, first, Len(h)) # << >>
    <3>1. Len(h) - first + 1 # 0
      BY <1>1, <1>2
    <3> QED BY <1>3, <3>1, EmptySeq
  <2> QED BY <1>3, <2>1 DEF normalize_history, Last, first

\* The target of the next anchor from any chain of valid records.
LEMMA NextTarget ==
  ASSUME NEW h \in Seq(Records), h # << >>
  PROVE  /\ next_anchor_target(h) \in Targets
         /\ Moves(Last(h).target, next_anchor_target(h))
<1> DEFINE previous == Last(h).target
<1>1. previous \in Targets
  BY LastRecord
<1>2. CASE Len(normalize_history(h)) = 1
  <2>1. next_anchor_target(h) = previous
    BY <1>2, NormalizeKeepsLast DEF next_anchor_target
  <2>2. Moves(previous, previous)
    <3>1. previous \in Nat /\ WTEMA_MAX_ADJUSTMENT_FACTOR \in Nat \ {0}
      BY <1>1, DAAAssumption DEF Targets
    <3>2. \A p, m \in Nat : m # 0 => p <= p * m
      OBVIOUS
    <3> HIDE DEF previous
    <3> QED BY <3>1, <3>2 DEF Moves
  <2> QED BY <1>1, <2>1, <2>2
<1>3. CASE Len(normalize_history(h)) # 1
  <2>1. next_anchor_target(h) =
          adjust_target(previous, wtema_ratio_fp(recent_intervals(normalize_history(h))))
    BY <1>3, NormalizeKeepsLast DEF next_anchor_target
  <2> QED BY <1>1, <2>1, AdjustTarget
<1> QED BY <1>2, <1>3

\* Targets of a chain stay within the bounds, so the code can encode, divide by
\* and adjust every one of them.
THEOREM TypeCorrect == ChainSpec => []ChainTypeOK
<1>1. ChainInit => ChainTypeOK
  <2>1. [ts |-> 0, target |-> ANCHOR_INITIAL_TARGET] \in Records
    BY DAAAssumption DEF Records, Targets
  <2> QED BY <2>1 DEF ChainInit, ChainTypeOK, Records
<1>2. ChainTypeOK /\ [ChainNext]_history => ChainTypeOK'
  <2> SUFFICES ASSUME ChainTypeOK, NEW interval \in Intervals, mine_anchor(interval)
               PROVE  ChainTypeOK'
    BY DEF ChainNext, ChainTypeOK
  <2>1. history \in Seq(Records) /\ history # << >>
    BY DEF ChainTypeOK, Records
  <2>2. Last(history).ts + interval \in Nat
    <3>1. Last(history).ts \in Nat
      BY <2>1, LastRecord
    <3> QED BY <3>1, ChainAssumption
  <2>3. next_anchor_target(history) \in Targets
    BY <2>1, NextTarget
  <2>4. [ts |-> Last(history).ts + interval, target |-> next_anchor_target(history)] \in Records
    BY <2>2, <2>3 DEF Records
  <2> QED BY <2>1, <2>4, AppendProperties DEF mine_anchor, ChainTypeOK, Records
<1> QED BY <1>1, <1>2, PTL DEF ChainSpec

\* No anchor moves the target by more than the adjustment factor.
THEOREM MovementIsBounded == ChainSpec => MovementBounded
<1> DEFINE Limited == Moves(Last(history).target, Last(history').target)
<1>1. ChainTypeOK /\ [ChainNext]_history => [Limited]_history
  <2> SUFFICES ASSUME ChainTypeOK, NEW interval \in Intervals, mine_anchor(interval)
               PROVE  Limited
    BY DEF ChainNext
  <2>1. history \in Seq(Records) /\ history # << >>
    BY DEF ChainTypeOK, Records
  <2>2. Last(history').target = next_anchor_target(history)
    <3>1. Len(history') = Len(history) + 1
      BY <2>1, AppendProperties DEF mine_anchor
    <3>2. history'[Len(history) + 1].target = next_anchor_target(history)
      BY <2>1, AppendProperties DEF mine_anchor
    <3> QED BY <3>1, <3>2 DEF Last
  <2> QED BY <2>1, <2>2, NextTarget
<1>2. MovementBounded <=> [][Limited]_history
  BY DEF MovementBounded, Moves
<1> QED BY <1>1, <1>2, TypeCorrect, PTL DEF ChainSpec

-----------------------------------------------------------------------------
(* The Merkle roots of chain/merkle.py.                                    *)

\* A row of the tree: nodes that are no pads.
IsRow(row) == /\ row \in Seq(Range(row)) /\ row # <<>>
              /\ \A i \in 1..Len(row) : row[i][1] \in {"leaf", "node"}

\* The level above a row is a row of half its width.
LEMMA AboveRow ==
  ASSUME NEW domain, NEW level, NEW row, IsRow(row)
  PROVE  /\ IsRow(LevelAbove(domain, level, row))
         /\ Len(LevelAbove(domain, level, row)) = (Len(row) + 1) \div 2
         /\ \A i \in 1..((Len(row) + 1) \div 2) :
              LevelAbove(domain, level, row)[i] =
                <<"node", domain, level, i - 1, row[2 * i - 1],
                  IF 2 * i <= Len(row) THEN row[2 * i] ELSE Pad(domain, level, i - 1)>>
<1> DEFINE up == LevelAbove(domain, level, row)
           w  == (Len(row) + 1) \div 2
<1>1. Len(row) \in Nat /\ Len(row) >= 1
  BY DEF IsRow
<1>2. w \in Nat /\ w >= 1
  BY <1>1
<1>3. \A i \in 1..w : up[i] = <<"node", domain, level, i - 1, row[2 * i - 1],
                  IF 2 * i <= Len(row) THEN row[2 * i] ELSE Pad(domain, level, i - 1)>>
  BY DEF LevelAbove
<1>4. up \in [1..w -> Range(up)] /\ DOMAIN up = 1..w
  <2>1. DOMAIN up = 1..w /\ up = [i \in 1..w |-> up[i]]
    BY DEF LevelAbove
  <2> HIDE DEF up, w
  <2> QED BY <2>1 DEF Range
<1>5. up \in Seq(Range(up)) /\ Len(up) = w
  <2> HIDE DEF up, w
  <2> QED BY <1>2, <1>4
<1>6. \A i \in 1..w : up[i][1] = "node"
  BY <1>3
<1>7. up # <<>>
  <2> HIDE DEF up, w
  <2> QED BY <1>2, <1>5
<1> HIDE DEF up, w
<1>8. IsRow(up)
  BY <1>5, <1>6, <1>7 DEF IsRow
<1> QED BY <1>3, <1>5, <1>8 DEF up, w

\* Half of a number, rounded up.
LEMMA HalfUp ==
  \A n \in Nat \ {0} :
     /\ (n + 1) \div 2 \in Nat
     /\ (n + 1) \div 2 >= 1
     /\ 2 * ((n + 1) \div 2) = n \/ 2 * ((n + 1) \div 2) = n + 1
OBVIOUS

\* Two numbers of one half are equal when both are even or both odd.
LEMMA SameHalf ==
  ASSUME NEW n \in Nat, NEW m \in Nat, NEW w \in Nat,
         2 * w = n \/ 2 * w = n + 1, 2 * w = m \/ 2 * w = m + 1, 2 * w <= n <=> 2 * w <= m
  PROVE  n = m
OBVIOUS

\* A place in a row is the left or the right one of a pair.
LEMMA InPair ==
  ASSUME NEW n \in Nat, NEW w \in Nat, 2 * w = n \/ 2 * w = n + 1, NEW j \in 1..n
  PROVE  \E i \in 1..w : j = 2 * i - 1 \/ (j = 2 * i /\ 2 * i <= n)
<1>1. CASE j % 2 = 1
  <2> DEFINE i == (j + 1) \div 2
  <2>1. i \in 1..w /\ j = 2 * i - 1
    BY <1>1
  <2> QED BY <2>1
<1>2. CASE j % 2 = 0
  <2> DEFINE i == j \div 2
  <2>1. i \in 1..w /\ j = 2 * i
    BY <1>2
  <2> QED BY <2>1
<1> QED BY <1>1, <1>2

\* A level determines the row below it: a pad is no node.
LEMMA AboveBinds ==
  ASSUME NEW domain, NEW level, NEW x, NEW y, IsRow(x), IsRow(y),
         LevelAbove(domain, level, x) = LevelAbove(domain, level, y)
  PROVE  x = y
<1> DEFINE w == (Len(x) + 1) \div 2
           up == LevelAbove(domain, level, x)
           Right(r, i) == IF 2 * i <= Len(r) THEN r[2 * i] ELSE Pad(domain, level, i - 1)
<1>1. /\ Len(x) \in Nat /\ Len(x) >= 1 /\ DOMAIN x = 1..Len(x)
      /\ Len(y) \in Nat /\ Len(y) >= 1 /\ DOMAIN y = 1..Len(y)
  BY DEF IsRow
<1>2. w = (Len(y) + 1) \div 2
  BY AboveRow
<1>3. \A i \in 1..w : up[i] = <<"node", domain, level, i - 1, x[2 * i - 1], Right(x, i)>>
  BY AboveRow
<1>4. \A i \in 1..w : up[i] = <<"node", domain, level, i - 1, y[2 * i - 1], Right(y, i)>>
  BY AboveRow, <1>2
<1>5. \A i \in 1..w : x[2 * i - 1] = y[2 * i - 1] /\ Right(x, i) = Right(y, i)
  <2> HIDE DEF up, w, Right
  <2> QED BY <1>3, <1>4
<1>6. \A i \in 1..w : Pad(domain, level, i - 1)[1] = "empty"
  BY DEF Pad
<1>7. /\ w \in Nat /\ w >= 1
      /\ 2 * w = Len(x) \/ 2 * w = Len(x) + 1
      /\ 2 * w = Len(y) \/ 2 * w = Len(y) + 1
  <2>1. Len(x) \in Nat \ {0} /\ Len(y) \in Nat \ {0}
    BY <1>1
  <2> QED BY <2>1, <1>2, HalfUp
<1> HIDE DEF w, up
<1>8. Len(x) = Len(y)
  <2>1. Right(x, w) = Right(y, w)
    BY <1>5, <1>7
  <2>2. \A n \in Nat : 2 * w <= n => 2 * w \in 1..n
    BY <1>7
  <2>3. Len(x) \in Nat /\ Len(y) \in Nat
    BY <1>1
  <2>4. 2 * w <= Len(x) => x[2 * w][1] # "empty"
    BY <2>2, <2>3 DEF IsRow
  <2>5. 2 * w <= Len(y) => y[2 * w][1] # "empty"
    BY <2>2, <2>3 DEF IsRow
  <2>6. Pad(domain, level, w - 1)[1] = "empty"
    BY <1>6, <1>7
  <2>7. 2 * w <= Len(x) <=> 2 * w <= Len(y)
    BY <2>1, <2>4, <2>5, <2>6
  <2> QED BY <2>7, <1>1, <1>7, SameHalf
<1>9. ASSUME NEW j \in 1..Len(x) PROVE x[j] = y[j]
  <2>1. PICK i \in 1..w : j = 2 * i - 1 \/ (j = 2 * i /\ 2 * i <= Len(x))
    BY <1>1, <1>7, InPair
  <2>2. CASE j = 2 * i - 1
    BY <2>2, <1>5
  <2>3. CASE j = 2 * i /\ 2 * i <= Len(x)
    <3>1. Right(x, i) = x[j] /\ Right(y, i) = y[j]
      BY <2>3, <1>8
    <3> QED BY <3>1, <1>5
  <2> QED BY <2>1, <2>2, <2>3
<1>10. x \in Seq(Range(x)) /\ y \in Seq(Range(y))
  BY DEF IsRow
<1> QED BY <1>1, <1>8, <1>9, <1>10

\* What the loop has after each turn.
LEMMA LevelsUnfold ==
  ASSUME NEW domain, NEW leaves, Len(leaves) \in Nat
  PROVE  \A turn \in 0..Len(leaves) :
           Levels(domain, leaves)[turn] =
             IF turn = 0 THEN leaves
             ELSE IF Len(Levels(domain, leaves)[turn - 1]) = 1 THEN Levels(domain, leaves)[turn - 1]
             ELSE LevelAbove(domain, turn - 1, Levels(domain, leaves)[turn - 1])
<1> DEFINE n == Len(leaves)
           Val(g, t) == IF t = 0 THEN leaves
             ELSE IF Len(g[t - 1]) = 1 THEN g[t - 1] ELSE LevelAbove(domain, t - 1, g[t - 1])
           Closes(g, j) == g = [t \in 0..j |-> Val(g, t)]
           Reached(j) == \E g : Closes(g, j)
           Fails == {j \in Nat : ~ Reached(j)}
<1>1. Reached(0)
  <2> DEFINE g == [t \in 0..0 |-> leaves]
  <2>1. \A t \in 0..0 : Val(g, t) = leaves
    OBVIOUS
  <2>2. Closes(g, 0)
    <3> HIDE DEF Val
    <3> QED BY <2>1, Zenon
  <2> QED BY <2>2
<1>2. ASSUME NEW j \in Nat, Reached(j) PROVE Reached(j + 1)
  <2>1. PICK g : Closes(g, j)
    BY <1>2
  <2> DEFINE h == [t \in 0..(j + 1) |-> Val(g, t)]
  <2>2. \A t \in 0..j : t \in 0..(j + 1)
    OBVIOUS
  <2>3. \A t \in 0..j : g[t] = Val(g, t)
    <3> HIDE DEF Val
    <3> QED BY <2>1, Zenon
  <2>4. \A t \in 0..j : h[t] = g[t]
    <3> HIDE DEF Val
    <3> QED BY <2>2, <2>3, Zenon
  <2>5. \A t \in 0..(j + 1) : t # 0 => t - 1 \in 0..j
    OBVIOUS
  <2>6. \A t \in 0..(j + 1) : Val(g, t) = Val(h, t)
    <3> HIDE DEF h
    <3> QED BY <2>4, <2>5
  <2>7. Closes(h, j + 1)
    <3> HIDE DEF Val
    <3> QED BY <2>6, Zenon
  <2> HIDE DEF h
  <2> QED BY <2>7
<1>3. Fails = {}
  <2> HIDE DEF Reached
  <2>1. ASSUME Fails # {} PROVE FALSE
    <3>1. PICK j \in Fails : \A m \in Fails : j <= m
      BY <2>1, LeastNat
    <3>2. j # 0 /\ j - 1 \in Nat /\ j - 1 \notin Fails
      BY <3>1, <1>1
    <3> QED BY <3>1, <3>2, <1>2
  <2> QED BY <2>1
<1>4. \E g : Closes(g, n)
  <2>1. Reached(n)
    <3> HIDE DEF Reached
    <3> QED BY <1>3
  <2> QED BY <2>1
<1> DEFINE R == CHOOSE g : Closes(g, n)
<1>5. Closes(R, n)
  BY <1>4, Zenon
<1>6. Levels(domain, leaves) = R
  BY Zenon DEF Levels
<1> HIDE DEF R
<1>7. \A t \in 0..n : R[t] = Val(R, t)
  <2> HIDE DEF Val
  <2> QED BY <1>5, Zenon
<1> QED BY <1>6, <1>7

\* The rows of a tree from the leaves to the single node at its top.
IsClimb(domain, leaves, rows, top) ==
  /\ rows[0] = leaves
  /\ \A t \in 0..top : IsRow(rows[t])
  /\ \A t \in 1..top : rows[t] = LevelAbove(domain, t - 1, rows[t - 1])
  /\ Len(rows[top]) = 1

\* The loop ends at a single node.
LEMMA LoopClimbs ==
  ASSUME NEW domain, NEW leaves, IsRow(leaves)
  PROVE  \E top \in 0..Len(leaves) :
           /\ IsClimb(domain, leaves, Levels(domain, leaves), top)
           /\ Levels(domain, leaves)[Len(leaves)] = Levels(domain, leaves)[top]
<1> DEFINE n == Len(leaves)
           L == Levels(domain, leaves)
<1>1. n \in Nat /\ n >= 1
  BY DEF IsRow
<1>2. \A t \in 0..n : L[t] = IF t = 0 THEN leaves ELSE IF Len(L[t - 1]) = 1 THEN L[t - 1]
                             ELSE LevelAbove(domain, t - 1, L[t - 1])
  BY <1>1, LevelsUnfold
<1> HIDE DEF L, n
<1> DEFINE Narrow(t) == IsRow(L[t]) /\ (Len(L[t]) = 1 \/ Len(L[t]) + t <= n)
           Wide == {t \in Nat : t <= n /\ ~ Narrow(t)}
<1>3. Wide = {}
  <2>1. ASSUME Wide # {} PROVE FALSE
    <3>1. PICK t \in Wide : \A u \in Wide : t <= u
      BY <1>1, <2>1, LeastNat
    <3>2. t \in 0..n
      OBVIOUS
    <3>3. CASE t = 0
      BY <3>1, <3>3, <1>1, <1>2 DEF n
    <3>4. CASE t # 0
      <4>1. t - 1 \in 0..n /\ Narrow(t - 1)
        BY <3>1, <3>2, <3>4, <1>1
      <4>2. CASE Len(L[t - 1]) = 1
        BY <4>1, <4>2, <3>1, <3>2, <3>4, <1>2
      <4>3. CASE Len(L[t - 1]) # 1
        <5> DEFINE row == L[t - 1]
        <5>1. L[t] = LevelAbove(domain, t - 1, row)
          BY <4>3, <3>2, <3>4, <1>2
        <5>2. IsRow(row) /\ Len(row) # 1 /\ Len(row) + (t - 1) <= n
          BY <4>1, <4>3
        <5> HIDE DEF row
        <5>3. IsRow(L[t]) /\ Len(L[t]) = (Len(row) + 1) \div 2
          BY <5>1, <5>2, AboveRow
        <5>4. Len(row) \in Nat /\ Len(row) # 0
          BY <5>2 DEF IsRow
        <5>5. \A m \in Nat : m # 0 /\ m # 1 /\ m + (t - 1) <= n => (m + 1) \div 2 + t <= n
          BY <3>2, <1>1
        <5>6. (Len(row) + 1) \div 2 + t <= n
          BY <5>2, <5>4, <5>5
        <5> QED BY <5>3, <5>6, <3>1
      <4> QED BY <4>2, <4>3
    <3> QED BY <3>3, <3>4
  <2> QED BY <2>1
<1>4. \A t \in 0..n : Narrow(t)
  BY <1>3
<1> DEFINE Ends == {t \in Nat : t <= n /\ Len(L[t]) = 1}
<1>5. PICK top \in Ends : \A t \in Ends : top <= t
  <2>1. IsRow(L[n]) /\ (Len(L[n]) = 1 \/ Len(L[n]) + n <= n)
    BY <1>1, <1>4
  <2>2. Len(L[n]) \in Nat /\ Len(L[n]) >= 1
    BY <2>1 DEF IsRow
  <2>3. n \in Ends
    BY <1>1, <2>1, <2>2
  <2> QED BY <1>1, <2>3, LeastNat
<1>6. top \in 0..n /\ Len(L[top]) = 1
  BY <1>5
<1>7. IsClimb(domain, leaves, L, top)
  <2>1. L[0] = leaves
    BY <1>1, <1>2
  <2>2. \A t \in 0..top : t \in 0..n /\ IsRow(L[t])
    BY <1>1, <1>4, <1>6
  <2>3. ASSUME NEW t \in 1..top PROVE L[t] = LevelAbove(domain, t - 1, L[t - 1])
    <3>1. t \in 0..n /\ t # 0 /\ t - 1 \in 0..n /\ t - 1 < top
      BY <1>1, <1>6
    <3>2. t - 1 \notin Ends
      BY <3>1, <1>5, <1>6
    <3> QED BY <3>1, <3>2, <1>2
  <2> QED BY <2>1, <2>2, <2>3, <1>6 DEF IsClimb
<1> DEFINE Moved == {t \in Nat : t <= n /\ t >= top /\ L[t] # L[top]}
<1>8. Moved = {}
  <2>1. ASSUME Moved # {} PROVE FALSE
    <3>1. PICK t \in Moved : \A u \in Moved : t <= u
      BY <1>1, <2>1, LeastNat
    <3>2. t - 1 \in 0..n /\ t - 1 >= top /\ t - 1 \notin Moved /\ t # 0
      BY <3>1, <1>1, <1>6
    <3>3. L[t - 1] = L[top]
      BY <3>2
    <3> QED BY <3>1, <3>2, <3>3, <1>2, <1>6
  <2> QED BY <2>1
<1>9. L[n] = L[top]
  BY <1>8, <1>1, <1>6
<1> QED BY <1>6, <1>7, <1>9 DEF L, n

\* The node at the top tells how high it is.
LEMMA TopTells ==
  ASSUME NEW domain, NEW leaves, NEW rows, NEW top \in Nat,
         IsClimb(domain, leaves, rows, top),
         \A i \in 1..Len(leaves) : leaves[i][1] = "leaf"
  PROVE  /\ top = 0 => rows[top][1][1] = "leaf"
         /\ top # 0 => rows[top][1][1] = "node" /\ rows[top][1][3] = top - 1
<1>1. CASE top = 0
  BY <1>1 DEF IsClimb
<1>2. CASE top # 0
  <2>1. top \in 1..top /\ top - 1 \in 0..top
    BY <1>2
  <2> DEFINE below == rows[top - 1]
             w == (Len(below) + 1) \div 2
  <2>2. rows[top] = LevelAbove(domain, top - 1, below) /\ IsRow(below)
    BY <2>1 DEF IsClimb
  <2> HIDE DEF below
  <2>3. Len(below) \in Nat \ {0}
    BY <2>2 DEF IsRow
  <2>4. 1 \in 1..w
    <3>1. w \in Nat /\ w >= 1
      BY <2>3, HalfUp
    <3> HIDE DEF w
    <3> QED BY <3>1
  <2>5. \A i \in 1..w : rows[top][i] = <<"node", domain, top - 1, i - 1, below[2 * i - 1],
          IF 2 * i <= Len(below) THEN below[2 * i] ELSE Pad(domain, top - 1, i - 1)>>
    BY <2>2, AboveRow
  <2>6. \A i \in 1..w : rows[top][i][1] = "node" /\ rows[top][i][3] = top - 1
    <3> HIDE DEF w
    <3> QED BY <2>5
  <2> HIDE DEF w
  <2> QED BY <1>2, <2>4, <2>6
<1> QED BY <1>1, <1>2

\* Two trees with one top have the same leaves.
LEMMA TopBinds ==
  ASSUME NEW domain, NEW x, NEW r, NEW top \in Nat, IsClimb(domain, x, r, top),
         NEW y, NEW s, IsClimb(domain, y, s, top), r[top] = s[top]
  PROVE  x = y
<1> DEFINE Differ == {j \in Nat : j <= top /\ r[top - j] # s[top - j]}
<1>1. Differ = {}
  <2>1. ASSUME Differ # {} PROVE FALSE
    <3>1. PICK j \in Differ : \A u \in Differ : j <= u
      BY <2>1, LeastNat
    <3>2. j # 0
      BY <3>1
    <3>3. j - 1 \in 0..top /\ j - 1 \notin Differ
      BY <3>1, <3>2
    <3> DEFINE t == top - (j - 1)
    <3>4. t \in 1..top /\ t - 1 \in 0..top /\ t - 1 = top - j
      BY <3>3
    <3>5. r[t] = s[t]
      BY <3>3
    <3> HIDE DEF t
    <3>6. LevelAbove(domain, t - 1, r[t - 1]) = LevelAbove(domain, t - 1, s[t - 1])
      BY <3>4, <3>5 DEF IsClimb
    <3>7. IsRow(r[t - 1]) /\ IsRow(s[t - 1])
      BY <3>4 DEF IsClimb
    <3>8. r[t - 1] = s[t - 1]
      BY <3>6, <3>7, AboveBinds
    <3> QED BY <3>1, <3>4, <3>8
  <2> QED BY <2>1
<1>2. r[top - top] = s[top - top]
  BY <1>1
<1> QED BY <1>2 DEF IsClimb

\* ordered_merkle_root binds the list: its items, their order and their number.
LEMMA RootBindsList ==
  ASSUME NEW domain, NEW x, IsList(x), NEW y, IsList(y),
         MerkleRoot(domain, x) = MerkleRoot(domain, y)
  PROVE  x = y
<1> DEFINE Leaves(l) == [i \in DOMAIN l |-> Leaf(domain, i - 1, l[i])]
<1>1. ASSUME NEW l, IsList(l), l # <<>>
      PROVE  /\ IsRow(Leaves(l)) /\ Len(Leaves(l)) = Len(l) /\ Len(l) \in Nat
             /\ \A i \in 1..Len(l) : Leaves(l)[i] = Leaf(domain, i - 1, l[i])
             /\ \A i \in 1..Len(Leaves(l)) : Leaves(l)[i][1] = "leaf"
             /\ MerkleRoot(domain, l) = Levels(domain, Leaves(l))[Len(l)][1]
  <2> DEFINE f == Leaves(l)
             n == Len(l)
  <2>1. n \in Nat /\ n >= 1 /\ DOMAIN l = 1..n
    BY <1>1 DEF IsList
  <2>2. MerkleRoot(domain, l) = Levels(domain, f)[n][1]
    BY <1>1 DEF MerkleRoot
  <2>3. \A i \in 1..n : f[i] = Leaf(domain, i - 1, l[i])
    BY <2>1
  <2>4. \A i \in 1..n : f[i][1] = "leaf"
    BY <2>3 DEF Leaf
  <2>5. f = [i \in 1..n |-> f[i]] /\ DOMAIN f = 1..n
    BY <2>1
  <2> HIDE DEF f, n
  <2>6. f \in [1..n -> Range(f)]
    BY <2>5 DEF Range
  <2>7. f \in Seq(Range(f)) /\ Len(f) = n
    BY <2>1, <2>6
  <2>8. IsRow(f)
    BY <2>1, <2>4, <2>7 DEF IsRow
  <2> QED BY <2>1, <2>2, <2>3, <2>4, <2>7, <2>8 DEF f, n
<1>2. ASSUME NEW l, IsList(l), l # <<>>
      PROVE  \E top \in Nat : \E rows :
               /\ IsClimb(domain, Leaves(l), rows, top)
               /\ MerkleRoot(domain, l) = rows[top][1]
  <2> DEFINE f == Leaves(l)
  <2>1. IsRow(f) /\ Len(f) = Len(l) /\ Len(l) \in Nat
        /\ MerkleRoot(domain, l) = Levels(domain, f)[Len(l)][1]
    BY <1>1, <1>2
  <2> HIDE DEF f
  <2>2. PICK top \in 0..Len(f) : /\ IsClimb(domain, f, Levels(domain, f), top)
                                 /\ Levels(domain, f)[Len(f)] = Levels(domain, f)[top]
    BY <2>1, LoopClimbs
  <2>3. top \in Nat
    BY <2>1
  <2> QED BY <2>1, <2>2, <2>3 DEF f
<1>3. \A l : IsList(l) /\ l # <<>> => MerkleRoot(domain, l)[1] \in {"leaf", "node"}
  <2> SUFFICES ASSUME NEW l, IsList(l), l # <<>> PROVE MerkleRoot(domain, l)[1] \in {"leaf", "node"}
    OBVIOUS
  <2> HIDE DEF Leaves
  <2>1. PICK top, rows : /\ top \in Nat
                         /\ IsClimb(domain, Leaves(l), rows, top)
                         /\ MerkleRoot(domain, l) = rows[top][1]
    BY <1>2
  <2>2. \A i \in 1..Len(Leaves(l)) : Leaves(l)[i][1] = "leaf"
    BY <1>1
  <2> QED BY <2>1, <2>2, TopTells
<1>4. MerkleRoot(domain, <<>>)[1] = "empty"
  BY DEF MerkleRoot
<1>5. CASE x = <<>> \/ y = <<>>
  BY <1>3, <1>4, <1>5
<1>6. CASE x # <<>> /\ y # <<>>
  <2>1. PICK top, r : /\ top \in Nat
                      /\ IsClimb(domain, Leaves(x), r, top)
                      /\ MerkleRoot(domain, x) = r[top][1]
    <3> HIDE DEF Leaves
    <3> QED BY <1>2, <1>6
  <2>2. PICK high, s : /\ high \in Nat
                       /\ IsClimb(domain, Leaves(y), s, high)
                       /\ MerkleRoot(domain, y) = s[high][1]
    <3> HIDE DEF Leaves
    <3> QED BY <1>2, <1>6
  <2>3. /\ \A i \in 1..Len(Leaves(x)) : Leaves(x)[i][1] = "leaf"
        /\ \A i \in 1..Len(Leaves(y)) : Leaves(y)[i][1] = "leaf"
    <3> HIDE DEF Leaves
    <3> QED BY <1>1, <1>6
  <2> DEFINE top1 == r[top][1]
             top2 == s[high][1]
  <2>4. /\ top = 0 => top1[1] = "leaf"
        /\ top # 0 => top1[1] = "node" /\ top1[3] = top - 1
    <3> HIDE DEF Leaves
    <3> QED BY <2>1, <2>3, TopTells
  <2>5. /\ high = 0 => top2[1] = "leaf"
        /\ high # 0 => top2[1] = "node" /\ top2[3] = high - 1
    <3> HIDE DEF Leaves
    <3> QED BY <2>2, <2>3, TopTells
  <2>6. top1 = top2
    BY <2>1, <2>2
  <2>7. top = high
    <3>1. top \in Nat /\ high \in Nat
      BY <2>1, <2>2
    <3> HIDE DEF top1, top2
    <3> QED BY <3>1, <2>4, <2>5, <2>6
  <2>8. r[top] = s[top]
    <3>1. IsRow(r[top]) /\ IsRow(s[top]) /\ Len(r[top]) = 1 /\ Len(s[top]) = 1
      <4> HIDE DEF Leaves
      <4> QED BY <2>1, <2>2, <2>7 DEF IsClimb
    <3> QED BY <3>1, <2>6, <2>7 DEF IsRow
  <2>9. Leaves(x) = Leaves(y)
    <3> HIDE DEF Leaves
    <3> QED BY <2>1, <2>2, <2>7, <2>8, TopBinds
  <2> DEFINE f == Leaves(x)
             g == Leaves(y)
  <2>10. Len(f) = Len(x) /\ Len(g) = Len(y) /\ Len(x) \in Nat
    <3> HIDE DEF Leaves
    <3> QED BY <1>1, <1>6
  <2>11. /\ \A i \in 1..Len(x) : f[i] = Leaf(domain, i - 1, x[i])
         /\ \A i \in 1..Len(y) : g[i] = Leaf(domain, i - 1, y[i])
    <3> HIDE DEF Leaves
    <3> QED BY <1>1, <1>6
  <2>12. f = g
    BY <2>9
  <2> HIDE DEF f, g
  <2>13. Len(x) = Len(y)
    BY <2>10, <2>12
  <2>14. \A i \in 1..Len(x) : Leaf(domain, i - 1, x[i]) = Leaf(domain, i - 1, y[i])
    BY <2>11, <2>12, <2>13
  <2>15. \A i \in 1..Len(x) : x[i] = y[i]
    BY <2>14 DEF Leaf
  <2> QED BY <2>13, <2>15 DEF IsList
<1> QED BY <1>5, <1>6

-----------------------------------------------------------------------------
(* Lists put together and taken apart *)

\* A sequence over any set is a list.
LEMMA ListOf ==
  ASSUME NEW S, NEW q \in Seq(S)
  PROVE  IsList(q) /\ Len(q) \in Nat /\ DOMAIN q = 1..Len(q)
<1>1. Len(q) \in Nat /\ DOMAIN q = 1..Len(q) /\ q \in [1..Len(q) -> S]
  BY LenProperties
<1>2. \A i \in 1..Len(q) : q[i] \in Range(q)
  BY <1>1 DEF Range
<1>3. q \in [1..Len(q) -> Range(q)]
  BY <1>1, <1>2
<1> QED BY <1>1, <1>3, IsASeq DEF IsList

\* The list l is found in f after the first `at` fields.
Piece(f, at, l) ==
  /\ IsList(l) /\ at + Len(l) <= Len(f)
  /\ \A i \in 1..Len(l) : f[at + i] = l[i]

\* Both parts of a concatenation are found in it.
LEMMA Glued ==
  ASSUME NEW p, NEW q, IsList(p), IsList(q)
  PROVE  /\ IsList(p \o q) /\ Len(p) \in Nat /\ Len(q) \in Nat
         /\ Len(p \o q) = Len(p) + Len(q)
         /\ Piece(p \o q, 0, p) /\ Piece(p \o q, Len(p), q)
<1> DEFINE S == Range(p) \union Range(q)
           a == p \o q
<1>1. p \in Seq(S) /\ q \in Seq(S) /\ Len(p) \in Nat /\ Len(q) \in Nat
  BY SeqMonotonic, LenProperties DEF IsList
<1> HIDE DEF S
<1>2. /\ a \in Seq(S) /\ Len(a) = Len(p) + Len(q)
      /\ \A i \in 1..Len(a) : a[i] = IF i <= Len(p) THEN p[i] ELSE q[i - Len(p)]
  BY <1>1, ConcatProperties
<1> HIDE DEF a
<1>3. IsList(a)
  BY <1>2, ListOf
<1>4. \A i \in 1..Len(p) : a[0 + i] = p[i]
  BY <1>1, <1>2
<1>5. \A i \in 1..Len(q) : a[Len(p) + i] = q[i]
  BY <1>1, <1>2
<1>6. 0 + Len(p) <= Len(a) /\ Len(p) + Len(q) <= Len(a)
  BY <1>1, <1>2
<1> QED BY <1>1, <1>2, <1>3, <1>4, <1>5, <1>6 DEF Piece, a

\* A piece of a piece is a piece.
LEMMA PieceWithin ==
  ASSUME NEW f, Len(f) \in Nat, NEW at \in Nat, NEW l, NEW by \in Nat, NEW m,
         Piece(f, at, l), Piece(l, by, m)
  PROVE  Piece(f, at + by, m)
<1>1. Len(l) \in Nat /\ Len(m) \in Nat /\ IsList(m)
  BY LenProperties DEF Piece, IsList
<1>2. at + Len(l) <= Len(f) /\ by + Len(m) <= Len(l)
  BY DEF Piece
<1>3. ASSUME NEW i \in 1..Len(m) PROVE f[(at + by) + i] = m[i]
  <2>1. l[by + i] = m[i]
    BY DEF Piece
  <2>2. by + i \in 1..Len(l) /\ at + (by + i) = (at + by) + i
    BY <1>1, <1>2
  <2>3. f[at + (by + i)] = l[by + i]
    BY <2>2 DEF Piece
  <2> QED BY <2>1, <2>2, <2>3
<1>4. (at + by) + Len(m) <= Len(f)
  BY <1>1, <1>2
<1> QED BY <1>1, <1>3, <1>4 DEF Piece

\* Reading a piece gives it back.
LEMMA PieceRead ==
  ASSUME NEW f, IsList(f), NEW at \in Nat, NEW l, Piece(f, at, l)
  PROVE  SubSeq(f, at + 1, at + Len(l)) = l
<1> DEFINE g == SubSeq(f, at + 1, at + Len(l))
           S == Range(f)
<1>1. f \in Seq(S) /\ Len(f) \in Nat
  BY LenProperties DEF IsList
<1>2. IsList(l) /\ Len(l) \in Nat /\ at + Len(l) <= Len(f) /\ \A i \in 1..Len(l) : f[at + i] = l[i]
  BY LenProperties DEF Piece, IsList
<1> HIDE DEF S
<1>3. /\ g \in Seq(S) /\ Len(g) = Len(l)
      /\ \A i \in 1..Len(l) : g[i] = f[at + i]
  BY <1>1, <1>2
<1> HIDE DEF g
<1>4. \A i \in 1..Len(l) : g[i] = l[i]
  BY <1>2, <1>3
<1>5. l \in Seq(Range(l))
  BY <1>2 DEF IsList
<1>6. g = l
  BY <1>2, <1>3, <1>4, <1>5
<1> QED BY <1>6 DEF g

\* What starts with a concatenation has both parts.
LEMMA Peeled ==
  ASSUME NEW f, IsList(f), NEW p, NEW q, IsList(p), IsList(q), Piece(f, 0, p \o q)
  PROVE  Piece(f, 0, p) /\ Piece(f, Len(p), q)
<1> DEFINE a == p \o q
<1>1. Len(p) \in Nat /\ Piece(a, 0, p) /\ Piece(a, Len(p), q)
  BY Glued
<1>2. Len(f) \in Nat /\ Piece(f, 0, a)
  BY LenProperties DEF IsList
<1> HIDE DEF a
<1>3. Piece(f, 0 + 0, p) /\ Piece(f, 0 + Len(p), q)
  BY <1>1, <1>2, PieceWithin
<1>4. 0 + Len(p) = Len(p)
  BY <1>1
<1> QED BY <1>3, <1>4

\* Short lists.
LEMMA ShortLists ==
  /\ \A x : IsList(<<x>>) /\ Len(<<x>>) = 1 /\ <<x>>[1] = x
  /\ \A v1, v2, v3, v4 : IsList(<<v1, v2, v3, v4>>)
  /\ \A v1, v2, v3, v4, v5 : IsList(<<v1, v2, v3, v4, v5>>)
  /\ \A v1, v2, v3, v4, v5, v6, v7, v8, v9 : IsList(<<v1, v2, v3, v4, v5, v6, v7, v8, v9>>)
<1>1. \A x : <<x>> \in Seq({x}) /\ Len(<<x>>) = 1 /\ <<x>>[1] = x
  OBVIOUS
<1>2. \A v1, v2, v3, v4 : <<v1, v2, v3, v4>> \in Seq({v1, v2, v3, v4})
  OBVIOUS
<1>3. \A v1, v2, v3, v4, v5 : <<v1, v2, v3, v4, v5>> \in Seq({v1, v2, v3, v4, v5})
  OBVIOUS
<1>4. \A v1, v2, v3, v4, v5, v6, v7, v8, v9 :
        <<v1, v2, v3, v4, v5, v6, v7, v8, v9>> \in Seq({v1, v2, v3, v4, v5, v6, v7, v8, v9})
  OBVIOUS
<1> QED BY <1>1, <1>2, <1>3, <1>4, ListOf

\* A counted list is a list.
LEMMA CountedList ==
  ASSUME NEW l, IsList(l)
  PROVE  IsList(Counted(l)) /\ Len(l) \in Nat /\ Len(Counted(l)) = 1 + Len(l)
BY ShortLists, Glued DEF Counted

\* A counted list is read back from where its count is.
LEMMA CountedRead ==
  ASSUME NEW f, IsList(f), NEW at \in Nat, NEW l, IsList(l), Piece(f, at, Counted(l))
  PROVE  /\ CountEnd(f, at + 1) = at + 1 + Len(l)
         /\ SubSeq(f, at + 2, at + 1 + Len(l)) = l
         /\ Len(l) \in Nat
<1> DEFINE one == <<Len(l)>>
           c == Counted(l)
<1>1. IsList(one) /\ Len(one) = 1 /\ one[1] = Len(l)
  BY ShortLists
<1>2. c = one \o l
  BY DEF Counted
<1> HIDE DEF one, c
<1>3. /\ IsList(c) /\ Len(l) \in Nat /\ Len(c) = 1 + Len(l)
      /\ Piece(c, 0, one) /\ Piece(c, 1, l)
  BY <1>1, <1>2, Glued
<1>4. Len(f) \in Nat
  BY LenProperties DEF IsList
<1>5. Piece(f, at, c)
  BY DEF c
<1>6. Piece(f, at + 0, one) /\ Piece(f, at + 1, l)
  BY <1>3, <1>4, <1>5, PieceWithin
<1>7. f[at + 0 + 1] = one[1] /\ at + 0 + 1 <= Len(f)
  BY <1>1, <1>6 DEF Piece
<1>8. f[at + 1] = Len(l) /\ at + 1 <= Len(f)
  BY <1>1, <1>7
<1>9. CountEnd(f, at + 1) = at + 1 + Len(l)
  BY <1>4, <1>8 DEF CountEnd
<1>10. SubSeq(f, at + 1 + 1, at + 1 + Len(l)) = l
  BY <1>6, PieceRead
<1> QED BY <1>3, <1>9, <1>10

-----------------------------------------------------------------------------
(* Blocks are read back from their bytes. *)

\* FruitHeader.deserialize of what serialize wrote.
LEMMA FruitHeaderRead ==
  ASSUME NEW b, IsFruit(b)
  PROVE  IsList(FruitHeaderFields(b.header)) /\ FruitHeaders(FruitHeaderFields(b.header)) = {b.header}
<1> DEFINE h == b.header
           bm == h.bitmap
           x == <<h.version, h.sigs, h.parent, Len(bm)>>
           y == <<h.latest, h.root, h.ts, h.shard, h.nonce>>
           f == FruitHeaderFields(h)
           L == Len(bm)
<1>1. IsList(bm) /\ L \in Nat
  BY ListOf DEF IsFruit
<1>2. IsList(x) /\ Len(x) = 4 /\ x[1] = h.version /\ x[2] = h.sigs /\ x[3] = h.parent /\ x[4] = L
  BY ShortLists
<1>3. /\ IsList(y) /\ Len(y) = 5 /\ y[1] = h.latest /\ y[2] = h.root /\ y[3] = h.ts
      /\ y[4] = h.shard /\ y[5] = h.nonce
  BY ShortLists
<1>4. f = (x \o bm) \o y
  BY DEF FruitHeaderFields
<1>5. h = [version |-> h.version, sigs |-> h.sigs, parent |-> h.parent,
           bitmap |-> bm, latest |-> h.latest, root |-> h.root, ts |-> h.ts,
           shard |-> h.shard, nonce |-> h.nonce] /\ FruitHeaderOk(h)
  BY DEF IsFruit
<1> HIDE DEF x, y, f, bm
<1> DEFINE p == x \o bm
<1>6. IsList(p) /\ Len(p) = 4 + L /\ Piece(p, 0, x) /\ Piece(p, 4, bm)
  BY <1>1, <1>2, Glued
<1>7. f = p \o y
  BY <1>4
<1> HIDE DEF p
<1>8. IsList(f) /\ Len(f) = Len(p) + Len(y) /\ Piece(f, 0, p) /\ Piece(f, Len(p), y)
  BY <1>3, <1>6, <1>7, Glued
<1>9. Len(f) = 9 + L /\ Piece(f, 4 + L, y)
  BY <1>1, <1>3, <1>6, <1>8
<1>10. Piece(f, 0 + 0, x) /\ Piece(f, 0 + 4, bm)
  BY <1>1, <1>6, <1>8, <1>9, PieceWithin
<1>11. f[1] = h.version /\ f[2] = h.sigs /\ f[3] = h.parent /\ f[4] = L
  <2>1. \A i \in 1..4 : f[0 + 0 + i] = x[i]
    BY <1>2, <1>10 DEF Piece
  <2>2. f[1] = x[1] /\ f[2] = x[2] /\ f[3] = x[3] /\ f[4] = x[4]
    BY <2>1
  <2> QED BY <1>2, <2>2
<1>12. SubSeq(f, 5, 4 + L) = bm
  <2>1. SubSeq(f, 4 + 1, 4 + L) = bm
    BY <1>8, <1>10, PieceRead
  <2> QED BY <2>1
<1>13. /\ f[5 + L] = h.latest /\ f[6 + L] = h.root /\ f[7 + L] = h.ts
       /\ f[8 + L] = h.shard /\ f[9 + L] = h.nonce
  <2>1. \A i \in 1..5 : f[4 + L + i] = y[i]
    BY <1>3, <1>9 DEF Piece
  <2>2. /\ f[4 + L + 1] = y[1] /\ f[4 + L + 2] = y[2] /\ f[4 + L + 3] = y[3]
        /\ f[4 + L + 4] = y[4] /\ f[4 + L + 5] = y[5]
    BY <2>1
  <2>3. /\ 4 + L + 1 = 5 + L /\ 4 + L + 2 = 6 + L /\ 4 + L + 3 = 7 + L
        /\ 4 + L + 4 = 8 + L /\ 4 + L + 5 = 9 + L
    BY <1>1
  <2> QED BY <1>3, <2>2, <2>3
<1> DEFINE r == [version |-> f[1], sigs |-> f[2], parent |-> f[3],
                 bitmap |-> SubSeq(f, 5, 4 + f[4]), latest |-> f[5 + f[4]],
                 root |-> f[6 + f[4]], ts |-> f[7 + f[4]], shard |-> f[8 + f[4]],
                 nonce |-> f[9 + f[4]]]
<1>14. r = h
  <2> HIDE DEF h, L
  <2> QED BY <1>5, <1>11, <1>12, <1>13
<1>15. ~ (Len(f) < 4 \/ Len(f) # 9 + f[4])
  BY <1>1, <1>9, <1>11
<1>16. FruitHeaders(f) = {g \in {r} : FruitHeaderOk(g)}
  BY <1>15, Zenon DEF FruitHeaders
<1> HIDE DEF r
<1>17. FruitHeaders(f) = {h}
  <2> HIDE DEF h
  <2> QED BY <1>5, <1>14, <1>16
<1> QED BY <1>8, <1>17 DEF f

\* The bytes of a fruit up to its transactions.
FruitFront(b) ==
  <<Len(FruitHeaderFields(b.header))>> \o FruitHeaderFields(b.header) \o <<Len(b.txs)>>

\* Fruit.deserialize of bytes that start like those of a fruit: the number of
\* transactions decides.
LEMMA FruitRead ==
  ASSUME NEW b, IsFruit(b), NEW f, IsList(f), Piece(f, 0, FruitFront(b))
  PROVE  /\ IsList(FruitFront(b)) /\ Len(FruitFront(b)) \in Nat
         /\ Len(f) # Len(FruitFront(b)) + Len(b.txs) => DecodedFruits(f) = {}
         /\ Piece(f, Len(FruitFront(b)), b.txs) /\ Len(f) = Len(FruitFront(b)) + Len(b.txs)
              => DecodedFruits(f) = {c \in {b} : FruitOk(c)}
<1> DEFINE hd == FruitHeaderFields(b.header)
           txs == b.txs
           x == <<Len(hd)>>
           y == <<Len(txs)>>
           p == FruitFront(b)
           q == x \o hd
           n == Len(hd)
<1>1. IsList(txs) /\ Len(txs) \in Nat
  BY ListOf DEF IsFruit, IsList
<1>2. IsList(hd) /\ n \in Nat /\ FruitHeaders(hd) = {b.header}
  BY FruitHeaderRead, LenProperties DEF IsList
<1>3. /\ IsList(x) /\ Len(x) = 1 /\ x[1] = n /\ IsList(y) /\ Len(y) = 1 /\ y[1] = Len(txs)
      /\ p = q \o y /\ q = x \o hd
  BY ShortLists DEF FruitFront
<1> HIDE DEF hd, txs, x, y, p, q
<1>4. IsList(q) /\ Len(q) = 1 + n /\ Piece(q, 0, x) /\ Piece(q, 1, hd)
  BY <1>2, <1>3, Glued
<1>5. IsList(p) /\ Len(p) = Len(q) + Len(y) /\ Piece(p, 0, q) /\ Piece(p, Len(q), y)
  BY <1>3, <1>4, Glued
<1>6. Len(p) = n + 2 /\ Piece(p, n + 1, y)
  BY <1>2, <1>3, <1>4, <1>5
<1>7. Len(f) \in Nat /\ Piece(f, 0, p)
  BY LenProperties DEF IsList, p
<1>8. Piece(p, 0 + 0, x) /\ Piece(p, 0 + 1, hd)
  BY <1>2, <1>4, <1>5, <1>6, PieceWithin
<1>9. Piece(f, 0 + 0, x) /\ Piece(f, 0 + 1, hd) /\ Piece(f, 0 + (n + 1), y)
  BY <1>2, <1>6, <1>7, <1>8, PieceWithin
<1>10. f[1] = n
  <2>1. f[0 + 0 + 1] = x[1]
    BY <1>3, <1>9 DEF Piece
  <2> QED BY <1>3, <2>1
<1>11. f[n + 2] = Len(txs) /\ n + 2 <= Len(f)
  <2>1. f[0 + (n + 1) + 1] = y[1] /\ 0 + (n + 1) + 1 <= Len(f)
    BY <1>3, <1>9 DEF Piece
  <2>2. 0 + (n + 1) + 1 = n + 2
    BY <1>2
  <2> QED BY <1>3, <2>1, <2>2
<1>12. SubSeq(f, 2, n + 1) = hd
  <2>1. SubSeq(f, 1 + 1, 1 + n) = hd
    BY <1>9, PieceRead
  <2> QED BY <2>1, <1>2
<1>13. ASSUME Len(f) # Len(p) + Len(txs) PROVE DecodedFruits(f) = {}
  <2>1. Len(f) # n + 2 + f[n + 2]
    BY <1>6, <1>11, <1>13
  <2> QED BY <2>1, <1>10 DEF DecodedFruits
<1>14. ASSUME Piece(f, Len(p), txs), Len(f) = Len(p) + Len(txs)
       PROVE  DecodedFruits(f) = {c \in {b} : FruitOk(c)}
  <2>1. ~ (Len(f) < n + 2 \/ Len(f) # n + 2 + f[n + 2])
    BY <1>1, <1>2, <1>6, <1>11, <1>14
  <2>2. SubSeq(f, n + 3, Len(f)) = txs
    <3>1. SubSeq(f, (n + 2) + 1, (n + 2) + Len(txs)) = txs
      BY <1>2, <1>6, <1>14, PieceRead
    <3> QED BY <3>1, <1>2, <1>6, <1>14
  <2>3. b = [header |-> b.header, txs |-> txs]
    BY DEF IsFruit, txs
  <2>4. DecodedFruits(f) = {c \in {[header |-> h, txs |-> SubSeq(f, n + 3, Len(f))] :
                       h \in FruitHeaders(hd)} : FruitOk(c)}
    BY <2>1, <1>10, <1>12 DEF DecodedFruits
  <2>5. {[header |-> h, txs |-> SubSeq(f, n + 3, Len(f))] : h \in FruitHeaders(hd)} = {b}
    BY <1>2, <2>2, <2>3
  <2> QED BY <2>4, <2>5
<1>15. Len(p) \in Nat
  BY <1>2, <1>6
<1> QED BY <1>5, <1>13, <1>14, <1>15, Zenon DEF p, txs

\* AnchorHeader.deserialize of what serialize wrote.
LEMMA AnchorHeaderRead ==
  ASSUME NEW b, IsAnchor(b)
  PROVE  /\ IsList(AnchorHeaderFields(b.header)) /\ Len(AnchorHeaderFields(b.header)) = 9
         /\ AnchorHeaders(AnchorHeaderFields(b.header)) = {b.header}
<1> DEFINE h == b.header
           f == AnchorHeaderFields(h)
<1>1. IsList(f)
  BY ShortLists DEF AnchorHeaderFields
<1>2. /\ Len(f) = 9 /\ f[1] = h.version /\ f[2] = h.parent /\ f[3] = h.fruitRoot
      /\ f[4] = h.candidateRoot /\ f[5] = h.treeRoot /\ f[6] = h.floorRoot
      /\ f[7] = h.rewardRoot /\ f[8] = h.ts /\ f[9] = h.nonce
  BY DEF AnchorHeaderFields
<1>3. /\ h = [version |-> h.version, parent |-> h.parent, fruitRoot |-> h.fruitRoot,
               candidateRoot |-> h.candidateRoot, treeRoot |-> h.treeRoot,
               floorRoot |-> h.floorRoot, rewardRoot |-> h.rewardRoot, ts |-> h.ts,
               nonce |-> h.nonce]
      /\ AnchorHeaderOk(h)
  BY DEF IsAnchor
<1> DEFINE r == [version |-> f[1], parent |-> f[2], fruitRoot |-> f[3],
                 candidateRoot |-> f[4], treeRoot |-> f[5], floorRoot |-> f[6],
                 rewardRoot |-> f[7], ts |-> f[8], nonce |-> f[9]]
<1> HIDE DEF f
<1>4. r = h
  <2> HIDE DEF h
  <2> QED BY <1>2, <1>3
<1>5. AnchorHeaders(f) = {g \in {r} : AnchorHeaderOk(g)}
  BY <1>2 DEF AnchorHeaders
<1> HIDE DEF r
<1>6. AnchorHeaders(f) = {h}
  <2> HIDE DEF h
  <2> QED BY <1>3, <1>4, <1>5
<1> QED BY <1>1, <1>2, <1>6 DEF f

\* The bytes of an anchor up to its commitment.
AnchorFront(b) ==
  Counted(AnchorHeaderFields(b.header)) \o Counted(b.fruits) \o Counted(b.candidates)
  \o <<b.tree>> \o Counted(b.floors) \o Counted(b.rewards)

\* They are a list.
LEMMA AnchorFrontList ==
  ASSUME NEW b, IsAnchor(b)
  PROVE  IsList(AnchorFront(b))
<1> DEFINE A == Counted(AnchorHeaderFields(b.header))
           B == Counted(b.fruits)
           C == Counted(b.candidates)
           D == <<b.tree>>
           E == Counted(b.floors)
           F == Counted(b.rewards)
<1>1. IsList(A)
  BY AnchorHeaderRead, CountedList
<1>2. IsList(B) /\ IsList(C) /\ IsList(E) /\ IsList(F)
  BY CountedList DEF IsAnchor
<1>3. IsList(D)
  BY ShortLists
<1>4. AnchorFront(b) = ((((A \o B) \o C) \o D) \o E) \o F
  BY DEF AnchorFront
<1> HIDE DEF A, B, C, D, E, F
<1>5. IsList((A \o B) \o C)
  BY <1>1, <1>2, Glued
<1>6. IsList((((A \o B) \o C) \o D) \o E)
  BY <1>2, <1>3, <1>5, Glued
<1> QED BY <1>2, <1>4, <1>6, Glued

\* Anchor.deserialize of bytes that start like those of an anchor: exactly the
\* commitment must follow.
LEMMA AnchorRead ==
  ASSUME NEW b, IsAnchor(b), NEW f, IsList(f), Piece(f, 0, AnchorFront(b))
  PROVE  /\ IsList(AnchorFront(b)) /\ Len(AnchorFront(b)) \in Nat
         /\ Len(f) # Len(AnchorFront(b)) + 1 => DecodedAnchors(f) = {}
         /\ Len(f) = Len(AnchorFront(b)) + 1 /\ f[Len(f)] = b.commitment
              => DecodedAnchors(f) = {c \in {b} : AnchorOk(c)}
<1> DEFINE hf == AnchorHeaderFields(b.header)
           l1 == b.fruits
           l2 == b.candidates
           l3 == b.floors
           l4 == b.rewards
           A == Counted(hf)
           B == Counted(l1)
           C == Counted(l2)
           D == <<b.tree>>
           E == Counted(l3)
           F == Counted(l4)
           p2 == A \o B
           p3 == p2 \o C
           p4 == p3 \o D
           p5 == p4 \o E
           p6 == p5 \o F
           n1 == Len(l1)
           n2 == Len(l2)
           n3 == Len(l3)
           n4 == Len(l4)
           o2 == 11 + n1
           o3 == o2 + 1 + n2
           o4 == o3 + 1
           o5 == o4 + 1 + n3
           o6 == o5 + 1 + n4
<1>1. IsList(hf) /\ Len(hf) = 9 /\ AnchorHeaders(hf) = {b.header}
  BY AnchorHeaderRead
<1>2. IsList(l1) /\ IsList(l2) /\ IsList(l3) /\ IsList(l4)
  BY DEF IsAnchor
<1>3. p6 = AnchorFront(b) /\ Piece(f, 0, p6)
  BY DEF AnchorFront
<1>4. D[1] = b.tree /\ IsList(D) /\ Len(D) = 1
  BY ShortLists
<1> HIDE DEF hf, l1, l2, l3, l4, D
<1>5. /\ IsList(A) /\ IsList(B) /\ IsList(C) /\ IsList(E) /\ IsList(F)
      /\ Len(A) = 10 /\ Len(B) = 1 + n1 /\ Len(C) = 1 + n2 /\ Len(E) = 1 + n3 /\ Len(F) = 1 + n4
      /\ n1 \in Nat /\ n2 \in Nat /\ n3 \in Nat /\ n4 \in Nat
  <2>1. IsList(A) /\ Len(A) = 1 + Len(hf)
    BY <1>1, CountedList, Zenon
  <2>2. IsList(B) /\ Len(B) = 1 + n1 /\ n1 \in Nat /\ IsList(C) /\ Len(C) = 1 + n2 /\ n2 \in Nat
    BY <1>2, CountedList, Zenon
  <2>3. IsList(E) /\ Len(E) = 1 + n3 /\ n3 \in Nat /\ IsList(F) /\ Len(F) = 1 + n4 /\ n4 \in Nat
    BY <1>2, CountedList, Zenon
  <2> HIDE DEF A, B, C, E, F, n1, n2, n3, n4
  <2> QED BY <1>1, <2>1, <2>2, <2>3
<1> HIDE DEF A, B, C, E, F, n1, n2, n3, n4
<1>6. o2 \in Nat /\ o3 \in Nat /\ o4 \in Nat /\ o5 \in Nat /\ o6 \in Nat
  BY <1>5
<1>7. IsList(p2) /\ Len(p2) = o2
  <2>1. IsList(p2) /\ Len(p2) = Len(A) + Len(B)
    BY <1>5, Glued
  <2> HIDE DEF p2
  <2> QED BY <1>5, <2>1
<1>8. IsList(p3) /\ Len(p3) = o3
  <2> HIDE DEF p2
  <2>1. IsList(p3) /\ Len(p3) = Len(p2) + Len(C)
    BY <1>5, <1>7, Glued
  <2> HIDE DEF p3
  <2> QED BY <1>5, <1>7, <2>1
<1>9. IsList(p4) /\ Len(p4) = o4
  <2> HIDE DEF p3
  <2>1. IsList(p4) /\ Len(p4) = Len(p3) + Len(D)
    BY <1>4, <1>8, Glued
  <2> HIDE DEF p4
  <2> QED BY <1>4, <1>8, <2>1
<1>10. IsList(p5) /\ Len(p5) = o5
  <2> HIDE DEF p4
  <2>1. IsList(p5) /\ Len(p5) = Len(p4) + Len(E)
    BY <1>5, <1>9, Glued
  <2> HIDE DEF p5
  <2> QED BY <1>5, <1>6, <1>9, <2>1
<1>11. IsList(p6) /\ Len(p6) = o6
  <2> HIDE DEF p5
  <2>1. IsList(p6) /\ Len(p6) = Len(p5) + Len(F)
    BY <1>5, <1>10, Glued
  <2> HIDE DEF p6
  <2> QED BY <1>5, <1>6, <1>10, <2>1
<1>12. Piece(f, 0, p5) /\ Piece(f, o5, F)
  <2> HIDE DEF p5, o5
  <2> QED BY <1>3, <1>5, <1>10, Peeled
<1>13. Piece(f, 0, p4) /\ Piece(f, o4, E)
  <2> HIDE DEF p4, o4
  <2> QED BY <1>12, <1>5, <1>9, Peeled
<1>14. Piece(f, 0, p3) /\ Piece(f, o3, D)
  <2> HIDE DEF p3, o3
  <2> QED BY <1>13, <1>4, <1>8, Peeled
<1>15. Piece(f, 0, p2) /\ Piece(f, o2, C)
  <2> HIDE DEF p2, o2
  <2> QED BY <1>14, <1>5, <1>7, Peeled
<1>16. Piece(f, 0, A) /\ Piece(f, 10, B)
  BY <1>15, <1>5, Peeled
<1> HIDE DEF p2, p3, p4, p5, p6
<1>17. CountEnd(f, 1) = 10 /\ SubSeq(f, 2, 10) = hf
  <2>1. CountEnd(f, 0 + 1) = 0 + 1 + Len(hf) /\ SubSeq(f, 0 + 2, 0 + 1 + Len(hf)) = hf
    BY <1>1, <1>16, CountedRead DEF A
  <2> QED BY <2>1, <1>1
<1>18. CountEnd(f, 11) = o2 /\ SubSeq(f, 12, o2) = l1
  <2>1. CountEnd(f, 10 + 1) = 10 + 1 + Len(l1) /\ SubSeq(f, 10 + 2, 10 + 1 + Len(l1)) = l1
    BY <1>2, <1>16, CountedRead DEF B
  <2> QED BY <2>1 DEF n1
<1>19. CountEnd(f, o2 + 1) = o3 /\ SubSeq(f, o2 + 2, o3) = l2
  <2>1. CountEnd(f, o2 + 1) = o2 + 1 + Len(l2) /\ SubSeq(f, o2 + 2, o2 + 1 + Len(l2)) = l2
    <3> HIDE DEF o2
    <3> QED BY <1>2, <1>6, <1>15, CountedRead DEF C
  <2> QED BY <2>1 DEF n2
<1>20. f[o3 + 1] = b.tree
  <2> HIDE DEF o3
  <2> QED BY <1>4, <1>14 DEF Piece
<1>21. CountEnd(f, o4 + 1) = o5 /\ SubSeq(f, o4 + 2, o5) = l3
  <2>1. CountEnd(f, o4 + 1) = o4 + 1 + Len(l3) /\ SubSeq(f, o4 + 2, o4 + 1 + Len(l3)) = l3
    <3> HIDE DEF o4
    <3> QED BY <1>2, <1>6, <1>13, CountedRead DEF E
  <2> QED BY <2>1 DEF n3
<1>22. CountEnd(f, o5 + 1) = o6 /\ SubSeq(f, o5 + 2, o6) = l4
  <2>1. CountEnd(f, o5 + 1) = o5 + 1 + Len(l4) /\ SubSeq(f, o5 + 2, o5 + 1 + Len(l4)) = l4
    <3> HIDE DEF o5
    <3> QED BY <1>2, <1>6, <1>12, CountedRead DEF F
  <2> QED BY <2>1 DEF n4
<1> DEFINE list(at) == SubSeq(f, at + 1, CountEnd(f, at))
           c1 == CountEnd(f, 1) + 1
           c2 == CountEnd(f, c1) + 1
           c3 == CountEnd(f, c2) + 2
           c4 == CountEnd(f, c3) + 1
           end == CountEnd(f, c4) + 1
<1>23. c1 = 11
  BY <1>17
<1>24. c2 = o2 + 1
  BY <1>18, <1>23
<1>25. c3 = o4 + 1 /\ c3 - 1 = o3 + 1
  <2>1. CountEnd(f, c2) = o3
    BY <1>19, <1>24
  <2> HIDE DEF c2, o3
  <2> QED BY <1>6, <2>1
<1>26. c4 = o5 + 1
  <2>1. CountEnd(f, c3) = o5
    BY <1>21, <1>25
  <2> QED BY <2>1
<1>27. end = o6 + 1
  <2>1. CountEnd(f, c4) = o6
    BY <1>22, <1>26
  <2> QED BY <2>1
<1>28. list(1) = hf /\ list(c1) = l1 /\ list(c2) = l2 /\ list(c3) = l3 /\ list(c4) = l4
  <2>1. list(1) = hf
    BY <1>17
  <2>2. list(11) = l1
    BY <1>18
  <2>3. list(o2 + 1) = l2
    <3>1. o2 + 1 + 1 = o2 + 2
      BY <1>6
    <3> QED BY <1>19, <3>1
  <2>4. list(o4 + 1) = l3
    <3>1. o4 + 1 + 1 = o4 + 2
      BY <1>6
    <3> QED BY <1>21, <3>1
  <2>5. list(o5 + 1) = l4
    <3>1. o5 + 1 + 1 = o5 + 2
      BY <1>6
    <3> QED BY <1>22, <3>1
  <2> HIDE DEF list, c1, c2, c3, c4, o2, o4, o5
  <2> QED BY <2>1, <2>2, <2>3, <2>4, <2>5, <1>23, <1>24, <1>25, <1>26
<1>29. f[c3 - 1] = b.tree
  <2> HIDE DEF c3, o3
  <2> QED BY <1>20, <1>25
<1>30. DecodedAnchors(f) =
         IF end # Len(f) THEN {}
         ELSE {c \in {[header |-> h, fruits |-> list(c1), candidates |-> list(c2),
                       tree |-> f[c3 - 1], floors |-> list(c3), rewards |-> list(c4),
                       commitment |-> f[end]] : h \in AnchorHeaders(list(1))} : AnchorOk(c)}
  BY Zenon DEF DecodedAnchors
<1> HIDE DEF c1, c2, c3, c4, end, list, o2, o3, o4, o5, o6
<1>31. Len(f) # o6 + 1 => DecodedAnchors(f) = {}
  BY <1>27, <1>30
<1>32. ASSUME Len(f) = o6 + 1, f[Len(f)] = b.commitment
       PROVE  DecodedAnchors(f) = {c \in {b} : AnchorOk(c)}
  <2>1. b = [header |-> b.header, fruits |-> l1, candidates |-> l2,
             tree |-> b.tree, floors |-> l3, rewards |-> l4, commitment |-> b.commitment]
    BY DEF IsAnchor, l1, l2, l3, l4
  <2>2. f[end] = b.commitment /\ end = Len(f)
    BY <1>27, <1>32
  <2>3. {[header |-> h, fruits |-> list(c1), candidates |-> list(c2),
          tree |-> f[c3 - 1], floors |-> list(c3), rewards |-> list(c4),
          commitment |-> f[end]] : h \in AnchorHeaders(list(1))} = {b}
    BY <2>1, <2>2, <1>1, <1>28, <1>29
  <2> QED BY <2>2, <2>3, <1>30
<1>33. IsList(AnchorFront(b)) /\ Len(AnchorFront(b)) = o6
  BY <1>3, <1>11
<1> QED BY <1>6, <1>31, <1>32, <1>33

\* Blocks of either kind, as the constructors make them.
IsBlock(kind, b) == \/ kind = "fruit" /\ IsFruit(b)
                    \/ kind = "anchor" /\ IsAnchor(b)
BlockOk(kind, b) == IF kind = "fruit" THEN FruitOk(b) ELSE AnchorOk(b)

\* What one more or one less field makes of a list.
LEMMA CutAndLonger ==
  ASSUME NEW f, IsList(f), f # <<>>
  PROVE  /\ IsList(Front(f)) /\ Len(Front(f)) = Len(f) - 1 /\ Len(f) \in Nat /\ Len(f) >= 1
         /\ \A i \in 1..(Len(f) - 1) : Front(f)[i] = f[i]
         /\ \A x : /\ IsList(Append(f, x)) /\ Len(Append(f, x)) = Len(f) + 1
                   /\ \A i \in 1..Len(f) : Append(f, x)[i] = f[i]
<1> DEFINE S == Range(f)
<1>1. f \in Seq(S) /\ Len(f) \in Nat /\ Len(f) >= 1
  BY DEF IsList
<1> HIDE DEF S
<1> DEFINE g == SubSeq(f, 1, Len(f) - 1)
<1>2. g \in Seq(S) /\ Len(g) = Len(f) - 1 /\ \A i \in 1..(Len(f) - 1) : g[i] = f[i]
  <2> DEFINE m == Len(f) - 1
  <2>1. m \in Nat /\ m <= Len(f) /\ g = SubSeq(f, 1, m)
    BY <1>1
  <2> HIDE DEF m, g
  <2>2. g \in Seq(S) /\ Len(g) = m /\ \A i \in 1..m : g[i] = f[i]
    BY <1>1, <2>1
  <2> QED BY <2>2 DEF m
<1>3. Front(f) = g
  BY DEF Front
<1> HIDE DEF g
<1>4. IsList(g)
  BY <1>2, ListOf
<1>5. ASSUME NEW x
      PROVE  /\ IsList(Append(f, x)) /\ Len(Append(f, x)) = Len(f) + 1
             /\ \A i \in 1..Len(f) : Append(f, x)[i] = f[i]
  <2> DEFINE T == S \union {x}
  <2>1. f \in Seq(T) /\ x \in T
    BY <1>1, SeqMonotonic
  <2> HIDE DEF T
  <2>2. /\ Append(f, x) \in Seq(T) /\ Len(Append(f, x)) = Len(f) + 1
        /\ \A i \in 1..Len(f) : Append(f, x)[i] = f[i]
    BY <2>1
  <2> QED BY <2>2, ListOf
<1> QED BY <1>1, <1>2, <1>3, <1>4, <1>5

\* The bytes of a block decode to it if it is valid and to nothing if not; bytes
\* that were cut, or that go on, decode to nothing.
LEMMA BlockRead ==
  ASSUME NEW kind, NEW b, IsBlock(kind, b)
  PROVE  /\ DecodedAs(kind, Fields(kind, b)) = {c \in {b} : BlockOk(kind, c)}
         /\ BlockOk(kind, b) =>
              \A g \in {Front(Fields(kind, b)), Append(Fields(kind, b), Last(Fields(kind, b)))} :
                g # Fields(kind, b) /\ DecodedAs(kind, g) = {}
<1>1. CASE kind = "fruit"
  <2> DEFINE p == FruitFront(b)
             f == FruitFields(b)
  <2>1. IsFruit(b) /\ IsList(b.txs) /\ Fields(kind, b) = f
    BY <1>1 DEF IsBlock, IsFruit, Fields
  <2>2. IsList(p) /\ f = p \o b.txs
    <3> DEFINE hd == FruitHeaderFields(b.header)
               x == <<Len(hd)>>
               y == <<Len(b.txs)>>
    <3>1. IsList(hd) /\ IsList(x) /\ IsList(y)
      BY <2>1, FruitHeaderRead, ShortLists
    <3>2. p = (x \o hd) \o y /\ f = ((x \o hd) \o y) \o b.txs
      BY DEF FruitFront, FruitFields
    <3> HIDE DEF hd, x, y
    <3>3. IsList(x \o hd)
      BY <3>1, Glued
    <3>4. IsList((x \o hd) \o y)
      BY <3>1, <3>3, Glued
    <3> QED BY <3>2, <3>4
  <2> HIDE DEF p, f
  <2>3. /\ IsList(f) /\ Len(p) \in Nat /\ Len(b.txs) \in Nat /\ Len(f) = Len(p) + Len(b.txs)
        /\ Piece(f, 0, p) /\ Piece(f, Len(p), b.txs)
    BY <2>1, <2>2, Glued
  <2>4. DecodedFruits(f) = {c \in {b} : FruitOk(c)}
    BY <2>1, <2>3, FruitRead DEF p
  <2>5. ASSUME FruitOk(b), NEW g \in {Front(f), Append(f, Last(f))}
        PROVE  g # f /\ DecodedFruits(g) = {}
    <3>1. Len(b.txs) >= 1
      BY <2>1, <2>3, <2>5 DEF FruitOk, IsList
    <3>2. Len(f) >= 1 /\ f # <<>>
      BY <2>3, <3>1
    <3>3. /\ IsList(g) /\ Len(g) \in {Len(f) - 1, Len(f) + 1}
          /\ \A i \in 1..(Len(f) - 1) : g[i] = f[i]
      <4>1. CASE g = Front(f)
        <5>1. IsList(Front(f)) /\ Len(Front(f)) = Len(f) - 1 /\ \A i \in 1..(Len(f) - 1) : Front(f)[i] = f[i]
          BY <2>3, <3>2, CutAndLonger
        <5> QED BY <5>1, <4>1
      <4>2. CASE g = Append(f, Last(f))
        <5>1. /\ IsList(g) /\ Len(g) = Len(f) + 1
              /\ \A i \in 1..Len(f) : g[i] = f[i]
          BY <2>3, <3>2, <4>2, CutAndLonger
        <5>2. \A i \in 1..(Len(f) - 1) : i \in 1..Len(f)
          BY <2>3
        <5> QED BY <5>1, <5>2
      <4> QED BY <2>5, <4>1, <4>2
    <3>4. Piece(g, 0, p)
      <4>1. IsList(p) /\ \A i \in 1..Len(p) : f[0 + i] = p[i]
        BY <2>3 DEF Piece
      <4>2. Len(p) <= Len(f) - 1
        BY <2>3, <3>1
      <4>3. \A i \in 1..Len(p) : 0 + i \in 1..(Len(f) - 1)
        BY <2>3, <4>2
      <4>4. \A i \in 1..Len(p) : g[0 + i] = p[i]
        BY <3>3, <4>1, <4>3
      <4>5. 0 + Len(p) <= Len(g)
        BY <2>3, <3>3, <4>2
      <4> QED BY <4>1, <4>4, <4>5 DEF Piece
    <3>5. Len(g) # Len(f)
      BY <2>3, <3>3
    <3>6. Len(g) # Len(p) + Len(b.txs)
      BY <2>3, <3>5
    <3> QED BY <2>1, <3>3, <3>4, <3>5, <3>6, FruitRead DEF p
  <2>6. DecodedAs(kind, f) = DecodedFruits(f) /\ BlockOk(kind, b) = FruitOk(b)
        /\ (\A g : DecodedAs(kind, g) = DecodedFruits(g)) /\ \A c : BlockOk(kind, c) <=> FruitOk(c)
    BY <1>1 DEF DecodedAs, BlockOk
  <2> QED BY <2>1, <2>4, <2>5, <2>6
<1>2. CASE kind = "anchor"
  <2> DEFINE p == AnchorFront(b)
             f == AnchorFields(b)
             y == <<b.commitment>>
  <2>1. IsAnchor(b) /\ Fields(kind, b) = f
    BY <1>2 DEF IsBlock, Fields
  <2>2. f = p \o y
    BY DEF AnchorFront, AnchorFields
  <2>3. IsList(y) /\ Len(y) = 1 /\ y[1] = b.commitment
    BY ShortLists
  <2>4. IsList(p)
    BY <2>1, AnchorFrontList
  <2> HIDE DEF p, f, y
  <2>5. /\ IsList(f) /\ Len(p) \in Nat /\ Len(f) = Len(p) + 1
        /\ Piece(f, 0, p) /\ Piece(f, Len(p), y)
    BY <2>2, <2>3, <2>4, Glued
  <2>6. f[Len(f)] = b.commitment
    BY <2>3, <2>5 DEF Piece
  <2>7. DecodedAnchors(f) = {c \in {b} : AnchorOk(c)}
    BY <2>1, <2>5, <2>6, AnchorRead DEF p
  <2>8. ASSUME NEW g \in {Front(f), Append(f, Last(f))}
        PROVE  g # f /\ DecodedAnchors(g) = {}
    <3>2. Len(f) >= 1 /\ f # <<>>
      BY <2>5
    <3>3. /\ IsList(g) /\ Len(g) \in {Len(f) - 1, Len(f) + 1}
          /\ \A i \in 1..(Len(f) - 1) : g[i] = f[i]
      <4>1. CASE g = Front(f)
        <5>1. IsList(Front(f)) /\ Len(Front(f)) = Len(f) - 1 /\ \A i \in 1..(Len(f) - 1) : Front(f)[i] = f[i]
          BY <2>5, <3>2, CutAndLonger
        <5> QED BY <5>1, <4>1
      <4>2. CASE g = Append(f, Last(f))
        <5>1. /\ IsList(g) /\ Len(g) = Len(f) + 1
              /\ \A i \in 1..Len(f) : g[i] = f[i]
          BY <2>5, <3>2, <4>2, CutAndLonger
        <5>2. \A i \in 1..(Len(f) - 1) : i \in 1..Len(f)
          BY <2>5
        <5> QED BY <5>1, <5>2
      <4> QED BY <2>8, <4>1, <4>2
    <3>4. Piece(g, 0, p)
      <4>1. IsList(p) /\ \A i \in 1..Len(p) : f[0 + i] = p[i]
        BY <2>5 DEF Piece
      <4>3. \A i \in 1..Len(p) : 0 + i \in 1..(Len(f) - 1)
        BY <2>5
      <4>4. \A i \in 1..Len(p) : g[0 + i] = p[i]
        BY <3>3, <4>1, <4>3
      <4>5. 0 + Len(p) <= Len(g)
        BY <2>5, <3>3
      <4> QED BY <4>1, <4>4, <4>5 DEF Piece
    <3>5. Len(g) # Len(f)
      BY <2>5, <3>3
    <3>6. Len(g) # Len(p) + 1
      BY <2>5, <3>5
    <3> QED BY <2>1, <3>3, <3>4, <3>5, <3>6, AnchorRead DEF p
  <2>9. (\A g : DecodedAs(kind, g) = DecodedAnchors(g)) /\ \A c : BlockOk(kind, c) <=> AnchorOk(c)
    BY <1>2 DEF DecodedAs, BlockOk
  <2> QED BY <2>1, <2>7, <2>8, <2>9
<1> QED BY <1>1, <1>2 DEF IsBlock

-----------------------------------------------------------------------------
(* What the hashes bind. *)

\* The Merkle root in a header binds the transactions.
LEMMA TxRootBinds ==
  ASSUME NEW x, IsList(x), NEW y, IsList(y), TxRoot(x) = TxRoot(y)
  PROVE  x = y
<1> DEFINE Ids(l) == [i \in DOMAIN l |-> <<"tx_id", l[i]>>]
<1>1. ASSUME NEW l, IsList(l)
      PROVE  /\ IsList(Ids(l)) /\ Len(Ids(l)) = Len(l) /\ Len(l) \in Nat
             /\ \A i \in 1..Len(l) : Ids(l)[i] = <<"tx_id", l[i]>>
  <2> DEFINE f == Ids(l)
             n == Len(l)
  <2>1. n \in Nat /\ DOMAIN l = 1..n
    BY <1>1 DEF IsList
  <2>2. f = [i \in 1..n |-> f[i]] /\ DOMAIN f = 1..n /\ \A i \in 1..n : f[i] = <<"tx_id", l[i]>>
    BY <2>1
  <2> HIDE DEF f, n
  <2>3. f \in [1..n -> Range(f)]
    BY <2>2 DEF Range
  <2>4. f \in Seq(Range(f)) /\ Len(f) = n
    BY <2>1, <2>3
  <2> QED BY <2>1, <2>2, <2>4 DEF f, n, IsList
<1>2. MerkleRoot("tx", Ids(x)) = MerkleRoot("tx", Ids(y))
  BY DEF TxRoot
<1> HIDE DEF Ids
<1>3. Ids(x) = Ids(y)
  BY <1>1, <1>2, RootBindsList
<1> DEFINE f == Ids(x)
           g == Ids(y)
<1>4. Len(x) \in Nat /\ Len(x) = Len(y)
  BY <1>1, <1>3
<1>5. \A i \in 1..Len(x) : <<"tx_id", x[i]>> = <<"tx_id", y[i]>>
  BY <1>1, <1>3, <1>4
<1>6. \A i \in 1..Len(x) : x[i] = y[i]
  BY <1>5
<1> QED BY <1>4, <1>6 DEF IsList

\* A fruit's header binds the fruit.
LEMMA FruitBound ==
  ASSUME NEW b, IsFruit(b), FruitOk(b), NEW c, IsFruit(c), FruitOk(c), b.header = c.header
  PROVE  b = c
<1>1. b.txs = c.txs
  BY TxRootBinds DEF IsFruit, FruitOk
<1>2. b = [header |-> b.header, txs |-> b.txs] /\ c = [header |-> c.header, txs |-> c.txs]
  BY DEF IsFruit
<1> QED BY <1>1, <1>2

\* An anchor's header binds all of it but a genesis commitment.
LEMMA AnchorBound ==
  ASSUME NEW b, IsAnchor(b), AnchorOk(b), NEW c, IsAnchor(c), AnchorOk(c),
         b.header = c.header, b.commitment = c.commitment
  PROVE  b = c
<1>1. /\ MerkleRoot("fruits", b.fruits) = MerkleRoot("fruits", c.fruits)
      /\ MerkleRoot("candidates", b.candidates) = MerkleRoot("candidates", c.candidates)
      /\ MerkleRoot("floors", b.floors) = MerkleRoot("floors", c.floors)
      /\ MerkleRoot("rewards", b.rewards) = MerkleRoot("rewards", c.rewards)
  BY DEF AnchorOk, RootsMatch
<1>2. b.tree = c.tree
  <2>1. <<"tree", b.tree>> = <<"tree", c.tree>>
    BY DEF AnchorOk, RootsMatch
  <2> QED BY <2>1
<1>3. /\ IsList(b.fruits) /\ IsList(b.candidates) /\ IsList(b.floors) /\ IsList(b.rewards)
      /\ IsList(c.fruits) /\ IsList(c.candidates) /\ IsList(c.floors) /\ IsList(c.rewards)
  BY DEF IsAnchor
<1>4. b.fruits = c.fruits /\ b.candidates = c.candidates
  BY <1>1, <1>3, RootBindsList
<1>5. b.floors = c.floors /\ b.rewards = c.rewards
  BY <1>1, <1>3, RootBindsList
<1>6. /\ b = [header |-> b.header, fruits |-> b.fruits, candidates |-> b.candidates,
               tree |-> b.tree, floors |-> b.floors, rewards |-> b.rewards,
               commitment |-> b.commitment]
      /\ c = [header |-> c.header, fruits |-> c.fruits, candidates |-> c.candidates,
               tree |-> c.tree, floors |-> c.floors, rewards |-> c.rewards,
               commitment |-> c.commitment]
  BY DEF IsAnchor
<1> QED BY <1>2, <1>4, <1>5, <1>6

\* block_hash binds the block.
LEMMA HashBinds ==
  ASSUME NEW k, NEW b, IsBlock(k, b), BlockOk(k, b), NEW m, NEW c, IsBlock(m, c), BlockOk(m, c),
         BlockHash(k, b) = BlockHash(m, c)
  PROVE  k = m /\ b = c
<1>1. k \in {"fruit", "anchor"} /\ m \in {"fruit", "anchor"}
  BY DEF IsBlock
<1>2. CASE k = "anchor" /\ IsGenesis(b)
  <2>1. BlockHash(m, c) = <<"genesis", b>>
    BY <1>2 DEF BlockHash
  <2>2. m = "anchor" /\ IsGenesis(c)
    BY <1>1, <2>1 DEF BlockHash
  <2> QED BY <1>2, <2>1, <2>2 DEF BlockHash
<1>3. CASE ~ (k = "anchor" /\ IsGenesis(b))
  <2>1. BlockHash(m, c) = <<k, b.header>>
    BY <1>3 DEF BlockHash
  <2>2. ~ (m = "anchor" /\ IsGenesis(c))
    BY <1>1, <2>1 DEF BlockHash
  <2>3. m = k /\ c.header = b.header
    BY <2>1, <2>2 DEF BlockHash
  <2>4. CASE k = "fruit"
    BY <2>3, <2>4, FruitBound DEF IsBlock, BlockOk
  <2>5. CASE k = "anchor"
    <3>1. b.commitment = c.commitment
      BY <1>3, <2>2, <2>3, <2>5 DEF IsGenesis
    <3> QED BY <2>3, <2>5, <3>1, AnchorBound DEF IsBlock, BlockOk
  <2> QED BY <1>1, <2>3, <2>4, <2>5
<1> QED BY <1>2, <1>3

\* Place and bit of a byte, from the number of the bit.
LEMMA BitPlace ==
  ASSUME NEW n \in Nat \ {0}, NEW k \in Nat, NEW x \in 0..(n - 1)
  PROVE  (k * n + x) \div n = k /\ (k * n + x) % n = x /\ k * n + x \in Nat
<1> DEFINE i == k * n + x
           q == i \div n
           r == i % n
<1>1. k * n \in Nat /\ i \in Nat
  OBVIOUS
<1>2. q \in Nat /\ r \in 0..(n - 1) /\ i = n * q + r
  <2> HIDE DEF i
  <2> QED BY <1>1
<1> HIDE DEF q, r
<1>3. n * q + r = n * k + x
  BY <1>2
<1>4. n * (q - k) = x - r
  BY <1>2, <1>3
<1>5. q = k
  <2>1. ASSUME q > k PROVE FALSE
    <3>1. n * (q - k) >= n
      BY <1>2, <2>1
    <3> QED BY <1>2, <1>4, <3>1
  <2>2. ASSUME q < k PROVE FALSE
    <3>1. n * (k - q) >= n
      BY <1>2, <2>2
    <3>2. n * (k - q) = r - x
      BY <1>2, <1>3
    <3> QED BY <1>2, <3>1, <3>2
  <2> QED BY <1>2, <2>1, <2>2
<1>6. r = x
  BY <1>2, <1>3, <1>5
<1> QED BY <1>1, <1>5, <1>6 DEF q, r

\* Bitmaps of one length with the same bits are the same.
LEMMA BitsBind ==
  ASSUME NEW v \in Seq(SUBSET (0..(ByteBits - 1))), NEW w \in Seq(SUBSET (0..(ByteBits - 1))),
         Len(v) = Len(w),
         \A i \in Nat : i < Len(v) * ByteBits => (BitSet(v, i) <=> BitSet(w, i))
  PROVE  v = w
<1>0. ByteBits \in Nat \ {0}
  BY BlocksAssumption
<1>1. ASSUME NEW j \in 1..Len(v), NEW x \in 0..(ByteBits - 1)
      PROVE  x \in v[j] <=> x \in w[j]
  <2> DEFINE k == j - 1
             i == k * ByteBits + x
  <2>1. k \in Nat /\ k < Len(v) /\ k + 1 = j
    OBVIOUS
  <2>2. i \div ByteBits = k /\ i % ByteBits = x /\ i \in Nat
    <3> HIDE DEF k
    <3> QED BY <1>0, <2>1, BitPlace
  <2>3. i < Len(v) * ByteBits
    <3> DEFINE L == Len(v)
    <3>1. L \in Nat /\ k + 1 <= L
      BY <2>1
    <3> HIDE DEF k, L
    <3>2. (L - (k + 1)) * ByteBits >= 0
      BY <1>0, <2>1, <3>1
    <3>3. L * ByteBits >= k * ByteBits + ByteBits
      BY <1>0, <2>1, <3>1, <3>2
    <3>4. k * ByteBits \in Nat /\ L * ByteBits \in Nat
      BY <1>0, <2>1, <3>1
    <3>5. i < L * ByteBits
      BY <1>0, <3>3, <3>4
    <3> QED BY <3>5 DEF L
  <2> HIDE DEF i, k
  <2>4. BitSet(v, i) <=> BitSet(w, i)
    BY <2>2, <2>3
  <2>5. (BitSet(v, i) <=> x \in v[j]) /\ (BitSet(w, i) <=> x \in w[j])
    BY <2>1, <2>2 DEF BitSet
  <2> QED BY <2>4, <2>5
<1>2. \A j \in 1..Len(v) : v[j] \subseteq 0..(ByteBits - 1) /\ w[j] \subseteq 0..(ByteBits - 1)
  OBVIOUS
<1>3. \A j \in 1..Len(v) : v[j] = w[j]
  BY <1>1, <1>2
<1> QED BY <1>3

\* The j-th smallest number of a set.
Nth(S, j) == CHOOSE i \in S : Cardinality({k \in S : k < i}) = j - 1

\* The numbers of a finite set, by rank, are all of them.
LEMMA NthFills ==
  ASSUME NEW S, S \subseteq Nat, IsFiniteSet(S)
  PROVE  /\ Cardinality(S) \in Nat
         /\ \A j \in 1..Cardinality(S) : Nth(S, j) \in S
         /\ \A i \in S : \E j \in 1..Cardinality(S) : Nth(S, j) = i
<1> DEFINE R == {p \in S \X S : p[1] < p[2]}
           n == Cardinality(S)
<1>1. \A x, y \in S : <<x, y>> \in R <=> x < y
  OBVIOUS
<1>2. n \in Nat
  BY FS_CardinalityType
<1> HIDE DEF R, n
<1>3. IsStrictOrder(R, S)
  BY <1>1 DEF IsStrictOrder
<1>4. /\ \A i \in 1..n : \E x \in S : RankIn(S, R, x) = i - 1
      /\ \A x \in S : RankIn(S, R, x) \in 0..(n - 1)
      /\ \A x, y \in S : <<x, y>> \in R <=> RankIn(S, R, x) < RankIn(S, R, y)
  BY <1>3, RanksFill DEF n
<1>5. ASSUME NEW x \in S PROVE RankIn(S, R, x) = Cardinality({k \in S : k < x})
  <2>1. {k \in S : <<k, x>> \in R} = {k \in S : k < x}
    BY <1>1
  <2> QED BY <2>1 DEF RankIn
<1>6. ASSUME NEW j \in 1..n PROVE Nth(S, j) \in S /\ RankIn(S, R, Nth(S, j)) = j - 1
  <2>1. \E x \in S : Cardinality({k \in S : k < x}) = j - 1
    BY <1>4, <1>5
  <2>2. Nth(S, j) \in S /\ Cardinality({k \in S : k < Nth(S, j)}) = j - 1
    BY <2>1 DEF Nth
  <2> QED BY <2>2, <1>5
<1>7. ASSUME NEW i \in S PROVE \E j \in 1..n : Nth(S, j) = i
  <2> DEFINE j == RankIn(S, R, i) + 1
  <2>1. j \in 1..n /\ RankIn(S, R, i) = j - 1
    BY <1>2, <1>4
  <2> HIDE DEF j
  <2>2. Nth(S, j) \in S /\ RankIn(S, R, Nth(S, j)) = j - 1
    BY <2>1, <1>6
  <2> DEFINE a == Nth(S, j)
  <2>3. a \in S /\ RankIn(S, R, a) = RankIn(S, R, i) /\ RankIn(S, R, i) \in Nat
    BY <2>1, <2>2, <1>2, <1>4
  <2> HIDE DEF a
  <2>4. <<a, i>> \notin R /\ <<i, a>> \notin R
    BY <2>3, <1>4
  <2>5. a = i
    BY <2>3, <2>4, <1>3 DEF IsStrictOrder
  <2>6. Nth(S, j) = i
    BY <2>5 DEF a
  <2> QED BY <2>1, <2>6
<1> QED BY <1>2, <1>6, <1>7 DEF n

\* The candidates a bitmap selects, and what effective_parent_hashes makes of them.
Picked(bitmap, candidates) == {i \in DOMAIN candidates : BitSet(bitmap, i - 1)}
Selection(S, candidates) == [j \in 1..Cardinality(S) |-> candidates[Nth(S, j)]]

\* The selected candidates are a list, one per selected place.
LEMMA SelectionList ==
  ASSUME NEW candidates, IsList(candidates), NEW S \in SUBSET DOMAIN candidates
  PROVE  /\ S \subseteq Nat /\ IsFiniteSet(S) /\ Cardinality(S) \in Nat
         /\ IsList(Selection(S, candidates))
         /\ Len(Selection(S, candidates)) = Cardinality(S)
         /\ \A j \in 1..Cardinality(S) : Selection(S, candidates)[j] = candidates[Nth(S, j)]
<1> DEFINE n == Cardinality(S)
           f == Selection(S, candidates)
<1>1. DOMAIN candidates = 1..Len(candidates) /\ Len(candidates) \in Nat
  BY DEF IsList
<1>2. S \subseteq Nat /\ IsFiniteSet(S)
  <2>1. IsFiniteSet(1..Len(candidates)) /\ S \subseteq 1..Len(candidates)
    BY <1>1, FS_Interval
  <2>2. IsFiniteSet(S)
    BY <2>1, FS_Subset
  <2> QED BY <1>1, <2>1, <2>2
<1>3. n \in Nat
  BY <1>2, FS_CardinalityType
<1>4. f = [j \in 1..n |-> f[j]] /\ DOMAIN f = 1..n /\ \A j \in 1..n : f[j] = candidates[Nth(S, j)]
  BY DEF Selection
<1> HIDE DEF f, n
<1>5. f \in [1..n -> Range(f)]
  BY <1>4 DEF Range
<1>6. f \in Seq(Range(f)) /\ Len(f) = n
  BY <1>3, <1>5
<1> QED BY <1>2, <1>3, <1>4, <1>6 DEF IsList, f, n

\* The effective parents determine the parent and, with its length, the bitmap.
LEMMA ParentsBind ==
  ASSUME NEW h, NEW g, NEW candidates, IsList(candidates), IsInjective(candidates),
         h.bitmap \in Seq(SUBSET (0..(ByteBits - 1))), g.bitmap \in Seq(SUBSET (0..(ByteBits - 1))),
         Len(h.bitmap) = Len(g.bitmap),
         NEW p, p \in EffectiveParents(h, candidates), p \in EffectiveParents(g, candidates)
  PROVE  h.parent = g.parent /\ h.bitmap = g.bitmap
<1> DEFINE S == Picked(h.bitmap, candidates)
           T == Picked(g.bitmap, candidates)
           Beyond(m) == \E i \in Len(candidates)..(Len(m) * ByteBits - 1) : BitSet(m, i)
<1>1. ASSUME NEW e, p \in EffectiveParents(e, candidates)
      PROVE  /\ p = <<e.parent>> \o Selection(Picked(e.bitmap, candidates), candidates)
             /\ ~ Beyond(e.bitmap)
  BY <1>1, Zenon DEF EffectiveParents, Selection, Nth, Picked
<1>2. S \in SUBSET DOMAIN candidates /\ T \in SUBSET DOMAIN candidates
  BY DEF Picked
<1>3. /\ p = <<h.parent>> \o Selection(S, candidates) /\ ~ Beyond(h.bitmap)
      /\ p = <<g.parent>> \o Selection(T, candidates) /\ ~ Beyond(g.bitmap)
  BY <1>1
<1> HIDE DEF S, T, Beyond
<1> DEFINE x == Selection(S, candidates)
           y == Selection(T, candidates)
           n == Cardinality(S)
           m == Cardinality(T)
<1>4. /\ S \subseteq Nat /\ IsFiniteSet(S) /\ n \in Nat /\ IsList(x) /\ Len(x) = n
      /\ \A j \in 1..n : x[j] = candidates[Nth(S, j)]
  BY <1>2, SelectionList
<1>5. /\ T \subseteq Nat /\ IsFiniteSet(T) /\ m \in Nat /\ IsList(y) /\ Len(y) = m
      /\ \A j \in 1..m : y[j] = candidates[Nth(T, j)]
  BY <1>2, SelectionList
<1> HIDE DEF x, y, n, m
<1>6. /\ Len(p) = 1 + n /\ p[1] = h.parent /\ \A j \in 1..n : p[1 + j] = x[j]
  <2> DEFINE z == <<h.parent>>
  <2>1. IsList(z) /\ Len(z) = 1 /\ z[1] = h.parent /\ p = z \o x
    BY <1>3, ShortLists DEF x
  <2> HIDE DEF z
  <2>2. Len(p) = Len(z) + Len(x) /\ Piece(p, 0, z) /\ Piece(p, Len(z), x)
    BY <1>4, <2>1, Glued
  <2>3. p[0 + 1] = z[1]
    BY <2>1, <2>2 DEF Piece
  <2> QED BY <1>4, <2>1, <2>2, <2>3 DEF Piece
<1>7. /\ Len(p) = 1 + m /\ p[1] = g.parent /\ \A j \in 1..m : p[1 + j] = y[j]
  <2> DEFINE z == <<g.parent>>
  <2>1. IsList(z) /\ Len(z) = 1 /\ z[1] = g.parent /\ p = z \o y
    BY <1>3, ShortLists DEF y
  <2> HIDE DEF z
  <2>2. Len(p) = Len(z) + Len(y) /\ Piece(p, 0, z) /\ Piece(p, Len(z), y)
    BY <1>5, <2>1, Glued
  <2>3. p[0 + 1] = z[1]
    BY <2>1, <2>2 DEF Piece
  <2> QED BY <1>5, <2>1, <2>2, <2>3 DEF Piece
<1>8. n = m /\ h.parent = g.parent
  BY <1>4, <1>5, <1>6, <1>7
<1>9. ASSUME NEW j \in 1..n PROVE Nth(S, j) = Nth(T, j)
  <2>1. candidates[Nth(S, j)] = candidates[Nth(T, j)]
    BY <1>4, <1>5, <1>6, <1>7, <1>8
  <2>2. Nth(S, j) \in S /\ Nth(T, j) \in T
    BY <1>4, <1>5, <1>8, NthFills DEF n, m
  <2> QED BY <2>1, <2>2, <1>2 DEF IsInjective
<1>10. S = T
  <2>1. \A i \in S : i \in T
    <3> TAKE i \in S
    <3>1. PICK j \in 1..n : Nth(S, j) = i
      BY <1>4, NthFills DEF n
    <3>2. Nth(T, j) \in T
      BY <1>5, <1>8, NthFills DEF m
    <3> QED BY <3>1, <3>2, <1>9
  <2>2. \A i \in T : i \in S
    <3> TAKE i \in T
    <3>1. PICK j \in 1..m : Nth(T, j) = i
      BY <1>5, NthFills DEF m
    <3>2. Nth(S, j) \in S
      BY <1>4, <1>8, NthFills DEF n
    <3> QED BY <3>1, <3>2, <1>8, <1>9
  <2> QED BY <2>1, <2>2
<1>11. ASSUME NEW i \in Nat, i < Len(h.bitmap) * ByteBits
       PROVE  BitSet(h.bitmap, i) <=> BitSet(g.bitmap, i)
  <2> DEFINE L == Len(h.bitmap) * ByteBits
             c == Len(candidates)
  <2>1. c \in Nat /\ DOMAIN candidates = 1..c
    BY DEF IsList
  <2>2. L \in Nat
    BY BlocksAssumption
  <2>3. CASE i < c
    <3>1. i + 1 \in DOMAIN candidates /\ (i + 1) - 1 = i
      BY <2>1, <2>3
    <3>2. (i + 1 \in S <=> BitSet(h.bitmap, i)) /\ (i + 1 \in T <=> BitSet(g.bitmap, i))
      BY <3>1 DEF S, T, Picked
    <3> QED BY <3>2, <1>10
  <2>4. CASE ~ (i < c)
    <3>1. i \in c..(L - 1)
      <4>1. i < L
        BY <1>11
      <4> HIDE DEF L, c
      <4> QED BY <2>1, <2>2, <2>4, <4>1
    <3>2. L = Len(g.bitmap) * ByteBits
      OBVIOUS
    <3> QED BY <3>1, <3>2, <1>3 DEF Beyond
  <2> QED BY <2>3, <2>4
<1>12. h.bitmap = g.bitmap
  BY <1>11, BitsBind
<1> QED BY <1>8, <1>12

\* The proof of work binds the fruit, given the length of its bitmap.
LEMMA PowBinds ==
  ASSUME NEW b, IsFruit(b), FruitOk(b), NEW c, IsFruit(c), FruitOk(c), NEW a \in AnchorBlocks,
         Len(b.header.bitmap) = Len(c.header.bitmap),
         NEW p, p \in EffectiveParents(b.header, a.candidates),
         NEW q, q \in EffectiveParents(c.header, a.candidates),
         PowHeader(b.header, p) = PowHeader(c.header, q)
  PROVE  b = c
<1> DEFINE h == b.header
           g == c.header
<1>1. IsList(a.candidates) /\ IsInjective(a.candidates)
  BY BlocksAssumption DEF IsAnchor, AnchorOk, ListsInOrder
<1>2. /\ p = q /\ h.version = g.version /\ h.sigs = g.sigs /\ h.latest = g.latest
      /\ h.root = g.root /\ h.ts = g.ts /\ h.shard = g.shard /\ h.nonce = g.nonce
  <2>1. <<h.version, h.sigs, p, h.latest, h.root, h.ts, h.shard, h.nonce>>
          = <<g.version, g.sigs, q, g.latest, g.root, g.ts, g.shard, g.nonce>>
    BY DEF PowHeader
  <2> QED BY <2>1
<1>3. h.bitmap \in Seq(SUBSET (0..(ByteBits - 1))) /\ g.bitmap \in Seq(SUBSET (0..(ByteBits - 1)))
  BY DEF IsFruit
<1>4. h.parent = g.parent /\ h.bitmap = g.bitmap
  <2> HIDE DEF h, g
  <2>1. Len(h.bitmap) = Len(g.bitmap) /\ p \in EffectiveParents(h, a.candidates)
        /\ p \in EffectiveParents(g, a.candidates)
    BY <1>2 DEF h, g
  <2> QED BY <1>1, <1>3, <2>1, ParentsBind
<1>5. /\ h = [version |-> h.version, sigs |-> h.sigs, parent |-> h.parent,
               bitmap |-> h.bitmap, latest |-> h.latest, root |-> h.root, ts |-> h.ts,
               shard |-> h.shard, nonce |-> h.nonce]
      /\ g = [version |-> g.version, sigs |-> g.sigs, parent |-> g.parent,
               bitmap |-> g.bitmap, latest |-> g.latest, root |-> g.root, ts |-> g.ts,
               shard |-> g.shard, nonce |-> g.nonce]
  BY DEF IsFruit
<1>6. h = g
  <2> HIDE DEF h, g
  <2> QED BY <1>2, <1>4, <1>5
<1> QED BY <1>6, FruitBound

-----------------------------------------------------------------------------
(* Blocks on their way. *)

\* A valid block of its kind.
IsEntry(e) == /\ e = [kind |-> e.kind, block |-> e.block]
              /\ IsBlock(e.kind, e.block) /\ BlockOk(e.kind, e.block)

\* What is on the wire was made of a valid block, or it decodes to nothing.
OnWire(w) ==
  /\ w = [kind |-> w.kind, fields |-> w.fields, block |-> w.block]
  /\ IsBlock(w.kind, w.block) /\ BlockOk(w.kind, w.block)
  /\ \/ \E c : IsBlock(w.kind, c) /\ w.fields = Fields(w.kind, c)
     \/ w.fields # Fields(w.kind, w.block) /\ DecodedAs(w.kind, w.fields) = {}

\* Only valid blocks are accepted.
BlockInv ==
  /\ IsList(accepted) /\ \A i \in 1..Len(accepted) : IsEntry(accepted[i])
  /\ wireBlock = Resting \/ OnWire(wireBlock)

\* A block with a part of another one.
LEMMA Spliced ==
  ASSUME NEW k, NEW b, IsBlock(k, b), NEW c, IsBlock(k, c), NEW part \in DOMAIN b
  PROVE  IsBlock(k, [b EXCEPT ![part] = c[part]])
<1> DEFINE d == [b EXCEPT ![part] = c[part]]
<1>1. CASE k = "fruit"
  <2>1. IsFruit(b) /\ IsFruit(c)
    BY <1>1 DEF IsBlock
  <2>2. b = [header |-> b.header, txs |-> b.txs]
    BY <2>1 DEF IsFruit
  <2> DEFINE Names == {"header", "txs"}
  <2>3. DOMAIN b = Names
    BY <2>2
  <2>4. d = [n \in Names |-> d[n]] /\ \A n \in Names : d[n] \in {b[n], c[n]}
    BY <2>3
  <2> HIDE DEF d
  <2>5. d.header \in {b.header, c.header} /\ d.txs \in {b.txs, c.txs}
        /\ d = [header |-> d.header, txs |-> d.txs]
    BY <2>4
  <2>6. IsFruit(d)
    BY <2>1, <2>5 DEF IsFruit
  <2> QED BY <1>1, <2>6 DEF IsBlock, d
<1>2. CASE k = "anchor"
  <2>1. IsAnchor(b) /\ IsAnchor(c)
    BY <1>2 DEF IsBlock
  <2>2. b = [header |-> b.header, fruits |-> b.fruits, candidates |-> b.candidates,
             tree |-> b.tree, floors |-> b.floors, rewards |-> b.rewards,
             commitment |-> b.commitment]
    BY <2>1 DEF IsAnchor
  <2> DEFINE Names == {"header", "fruits", "candidates", "tree", "floors", "rewards", "commitment"}
  <2>3. DOMAIN b = Names
    BY <2>2
  <2>4. DOMAIN d = Names /\ \A n \in Names : d[n] \in {b[n], c[n]}
    BY <2>3
  <2>5. d = [n \in Names |-> d[n]]
    BY <2>3
  <2> HIDE DEF d
  <2>6. d = [header |-> d.header, fruits |-> d.fruits, candidates |-> d.candidates,
             tree |-> d.tree, floors |-> d.floors, rewards |-> d.rewards,
             commitment |-> d.commitment]
    BY <2>5
  <2>7. /\ d.header \in {b.header, c.header} /\ d.fruits \in {b.fruits, c.fruits}
        /\ d.candidates \in {b.candidates, c.candidates} /\ d.floors \in {b.floors, c.floors}
        /\ d.rewards \in {b.rewards, c.rewards}
    BY <2>4
  <2>8. IsAnchor(d)
    BY <2>1, <2>6, <2>7 DEF IsAnchor
  <2> QED BY <1>2, <2>8 DEF IsBlock, d
<1> QED BY <1>1, <1>2 DEF IsBlock

\* A block that goes out as it is.
LEMMA SentOnWire ==
  ASSUME NEW k, NEW b, IsBlock(k, b), BlockOk(k, b), NEW c, IsBlock(k, c)
  PROVE  OnWire([kind |-> k, fields |-> Fields(k, c), block |-> b])
<1> DEFINE w == [kind |-> k, fields |-> Fields(k, c), block |-> b]
<1>1. w.kind = k /\ w.fields = Fields(k, c) /\ w.block = b
      /\ w = [kind |-> w.kind, fields |-> w.fields, block |-> w.block]
  OBVIOUS
<1> HIDE DEF w
<1>2. OnWire(w)
  BY <1>1 DEF OnWire
<1> QED BY <1>2 DEF w

\* A tampered message is again of parts of blocks, or decodes to nothing.
LEMMA TamperedOnWire ==
  ASSUME BlockInv, TamperBlock
  PROVE  OnWire(wireBlock')
<1> DEFINE k == wireBlock.kind
           b == wireBlock.block
           f == wireBlock.fields
<1>1. /\ wireBlock = [kind |-> k, fields |-> f, block |-> b]
      /\ IsBlock(k, b) /\ BlockOk(k, b) /\ f = Fields(k, b)
  BY DEF BlockInv, TamperBlock, OnWire
<1>2. ASSUME NEW x, wireBlock' = [wireBlock EXCEPT !.fields = x]
      PROVE  wireBlock' = [kind |-> k, fields |-> x, block |-> b]
  <2> HIDE DEF k, b, f
  <2> QED BY <1>1, <1>2
<1>3. ASSUME NEW c \in IF k = "fruit" THEN FruitBlocks ELSE AnchorBlocks, NEW part \in DOMAIN b,
             wireBlock' = [wireBlock EXCEPT !.fields = Fields(k, [b EXCEPT ![part] = c[part]])]
      PROVE  OnWire(wireBlock')
  <2>1. IsBlock(k, c)
    BY <1>1, <1>3, BlocksAssumption DEF IsBlock
  <2>2. IsBlock(k, [b EXCEPT ![part] = c[part]])
    <3> HIDE DEF k, b, f
    <3> QED BY <1>1, <2>1, <1>3, Spliced
  <2>3. wireBlock' = [kind |-> k, fields |-> Fields(k, [b EXCEPT ![part] = c[part]]), block |-> b]
    BY <1>2, <1>3
  <2> HIDE DEF k, b, f
  <2> QED BY <1>1, <2>2, <2>3, SentOnWire
<1>4. ASSUME NEW g \in {Front(f), Append(f, Last(f))},
             wireBlock' = [wireBlock EXCEPT !.fields = g]
      PROVE  OnWire(wireBlock')
  <2>1. wireBlock' = [kind |-> k, fields |-> g, block |-> b]
    BY <1>2, <1>4
  <2> HIDE DEF k, b, f
  <2>2. g # Fields(k, b) /\ DecodedAs(k, g) = {}
    BY <1>1, <1>4, BlockRead
  <2> DEFINE w == [kind |-> k, fields |-> g, block |-> b]
  <2>3. w.kind = k /\ w.fields = g /\ w.block = b
        /\ w = [kind |-> w.kind, fields |-> w.fields, block |-> w.block]
    OBVIOUS
  <2> HIDE DEF w
  <2>4. OnWire(w)
    BY <1>1, <2>2, <2>3 DEF OnWire
  <2> QED BY <2>1, <2>4 DEF w
<1>5. \/ \E c \in IF k = "fruit" THEN FruitBlocks ELSE AnchorBlocks, part \in DOMAIN b :
           wireBlock' = [wireBlock EXCEPT !.fields = Fields(k, [b EXCEPT ![part] = c[part]])]
      \/ wireBlock' = [wireBlock EXCEPT !.fields = Front(f)]
      \/ wireBlock' = [wireBlock EXCEPT !.fields = Append(f, Last(f))]
  BY DEF TamperBlock
<1>6. Front(f) \in {Front(f), Append(f, Last(f))} /\ Append(f, Last(f)) \in {Front(f), Append(f, Last(f))}
  OBVIOUS
<1> HIDE DEF k, b, f
<1> QED BY <1>3, <1>4, <1>5, <1>6

\* What is received is at most one block, and valid.
LEMMA ReceivedValid ==
  ASSUME BlockInv, ReceiveBlock
  PROVE  IsList(accepted') /\ \A i \in 1..Len(accepted') : IsEntry(accepted'[i])
<1> DEFINE k == wireBlock.kind
           S == {[kind |-> k, block |-> b] : b \in DecodedAs(k, wireBlock.fields)}
<1>1. OnWire(wireBlock) /\ accepted' = accepted \o SetToSeq(S)
  BY DEF BlockInv, ReceiveBlock
<1>2. PICK c : DecodedAs(k, wireBlock.fields) \subseteq {d \in {c} : IsBlock(k, d) /\ BlockOk(k, d)}
  <2>1. CASE DecodedAs(k, wireBlock.fields) = {}
    BY <2>1
  <2>2. CASE \E c : IsBlock(k, c) /\ wireBlock.fields = Fields(k, c)
    <3>1. PICK c : IsBlock(k, c) /\ wireBlock.fields = Fields(k, c)
      BY <2>2
    <3> HIDE DEF k
    <3>2. DecodedAs(k, wireBlock.fields) = {d \in {c} : BlockOk(k, d)}
      BY <3>1, BlockRead
    <3> QED BY <3>1, <3>2
  <2> QED BY <1>1, <2>1, <2>2 DEF OnWire
<1> HIDE DEF k
<1> DEFINE e == [kind |-> k, block |-> c]
<1>3. S \subseteq {e} /\ \A d \in S : IsEntry(d)
  <2>1. \A d \in DecodedAs(k, wireBlock.fields) : d = c /\ IsBlock(k, d) /\ BlockOk(k, d)
    BY <1>2
  <2>2. \A d \in S : d = e /\ d.kind = k /\ d.block = c /\ IsBlock(k, c) /\ BlockOk(k, c)
    BY <2>1
  <2>3. \A d \in S : d = [kind |-> d.kind, block |-> d.block]
    OBVIOUS
  <2> HIDE DEF S, e
  <2> QED BY <2>2, <2>3 DEF IsEntry
<1>4. IsFiniteSet(S)
  <2> HIDE DEF S, e
  <2> QED BY <1>3, FS_Singleton, FS_Subset
<1> DEFINE q == SetToSeq(S)
<1> HIDE DEF S, e
<1>5. q \in [1..Cardinality(S) -> S] /\ Len(q) = Cardinality(S) /\ Cardinality(S) \in Nat
  BY <1>4, SetToSeqLen
<1>6. accepted' = accepted \o q
  BY <1>1
<1> HIDE DEF q
<1>7. q \in Seq(S)
  BY <1>5
<1>8. IsList(q) /\ \A i \in 1..Len(q) : IsEntry(q[i])
  BY <1>3, <1>5, <1>7, ListOf
<1> DEFINE a == accepted
           z == accepted'
<1>9. IsList(a) /\ \A i \in 1..Len(a) : IsEntry(a[i])
  BY DEF BlockInv
<1>10. z = a \o q
  BY <1>6
<1> HIDE DEF a, z
<1>11. /\ IsList(z) /\ Len(a) \in Nat /\ Len(q) \in Nat /\ Len(z) = Len(a) + Len(q)
       /\ Piece(z, 0, a) /\ Piece(z, Len(a), q)
  BY <1>8, <1>9, <1>10, Glued
<1>12. ASSUME NEW i \in 1..Len(z) PROVE IsEntry(z[i])
  <2>1. CASE i <= Len(a)
    <3>1. i \in 1..Len(a) /\ 0 + i = i
      BY <1>11, <2>1
    <3>2. z[i] = a[i]
      BY <1>11, <3>1 DEF Piece
    <3> QED BY <1>9, <3>1, <3>2
  <2>2. CASE i > Len(a)
    <3> DEFINE j == i - Len(a)
    <3>1. j \in 1..Len(q) /\ Len(a) + j = i
      BY <1>11, <2>2
    <3> HIDE DEF j
    <3>2. z[i] = q[j]
      BY <1>11, <3>1 DEF Piece
    <3> QED BY <1>8, <3>1, <3>2
  <2> QED BY <1>11, <2>1, <2>2
<1> QED BY <1>11, <1>12 DEF z

\* The invariant holds.
LEMMA BlockInvHolds == BlocksSpec => []BlockInv
<1>1. BlocksInit => BlockInv
  <2>1. IsList(<<>>) /\ Len(<<>>) = 0
    BY DEF IsList
  <2> QED BY <2>1 DEF BlocksInit, BlockInv
<1>2. ASSUME BlockInv, [BlocksNext]_blockVars PROVE BlockInv'
  <2>1. CASE UNCHANGED blockVars
    BY <1>2, <2>1 DEF blockVars, BlockInv
  <2>2. ASSUME NEW b \in FruitBlocks, SendBlock("fruit", b) PROVE BlockInv'
    <3>1. IsBlock("fruit", b) /\ BlockOk("fruit", b)
      BY BlocksAssumption DEF IsBlock, BlockOk
    <3>2. OnWire(wireBlock')
      BY <2>2, <3>1, SentOnWire DEF SendBlock
    <3> QED BY <1>2, <2>2, <3>2 DEF SendBlock, BlockInv
  <2>3. ASSUME NEW b \in AnchorBlocks, SendBlock("anchor", b) PROVE BlockInv'
    <3>1. IsBlock("anchor", b) /\ BlockOk("anchor", b)
      BY BlocksAssumption DEF IsBlock, BlockOk
    <3>2. OnWire(wireBlock')
      BY <2>3, <3>1, SentOnWire DEF SendBlock
    <3> QED BY <1>2, <2>3, <3>2 DEF SendBlock, BlockInv
  <2>4. CASE TamperBlock
    <3>1. OnWire(wireBlock')
      BY <1>2, <2>4, TamperedOnWire
    <3> QED BY <1>2, <2>4, <3>1 DEF TamperBlock, BlockInv
  <2>5. CASE ReceiveBlock
    <3>1. IsList(accepted') /\ \A i \in 1..Len(accepted') : IsEntry(accepted'[i])
      BY <1>2, <2>5, ReceivedValid
    <3> QED BY <2>5, <3>1 DEF ReceiveBlock, BlockInv
  <2> QED BY <1>2, <2>1, <2>2, <2>3, <2>4, <2>5 DEF BlocksNext
<1> QED BY <1>1, <1>2, PTL DEF BlocksSpec

\* A block a peer put together from parts of others has another block_hash, and
\* a fruit other work, than the blocks of those parts: no two blocks that
\* deserialize accepts share a hash, and the bytes of a block decode to it.
THEOREM BlocksAreBound == BlocksSpec => []BlocksBound
<1>1. ASSUME BlockInv PROVE HashBindsBlock
  <2>1. DOMAIN accepted = 1..Len(accepted)
    BY <1>1 DEF BlockInv, IsList
  <2>2. ASSUME NEW i \in DOMAIN accepted, NEW j \in DOMAIN accepted,
               BlockHash(accepted[i].kind, accepted[i].block) =
               BlockHash(accepted[j].kind, accepted[j].block)
        PROVE  accepted[i] = accepted[j]
    <3> DEFINE d == accepted[i]
               e == accepted[j]
    <3>1. IsEntry(d) /\ IsEntry(e) /\ BlockHash(d.kind, d.block) = BlockHash(e.kind, e.block)
      BY <1>1, <2>1, <2>2 DEF BlockInv
    <3> HIDE DEF d, e
    <3>2. d.kind = e.kind /\ d.block = e.block
      BY <3>1, HashBinds DEF IsEntry
    <3>3. d = e
      BY <3>1, <3>2 DEF IsEntry
    <3> QED BY <3>3 DEF d, e
  <2>3. ASSUME wireBlock # Resting
        PROVE  wireBlock.fields = Fields(wireBlock.kind, wireBlock.block)
                 <=> DecodedAs(wireBlock.kind, wireBlock.fields) = {wireBlock.block}
    <3> DEFINE k == wireBlock.kind
               b == wireBlock.block
               f == wireBlock.fields
    <3>1. /\ IsBlock(k, b) /\ BlockOk(k, b)
          /\ \/ \E c : IsBlock(k, c) /\ f = Fields(k, c)
             \/ f # Fields(k, b) /\ DecodedAs(k, f) = {}
      BY <1>1, <2>3 DEF BlockInv, OnWire
    <3> HIDE DEF k, b, f
    <3>2. DecodedAs(k, Fields(k, b)) = {b}
      BY <3>1, BlockRead
    <3>3. ASSUME DecodedAs(k, f) = {b} PROVE f = Fields(k, b)
      <4>1. PICK c : IsBlock(k, c) /\ f = Fields(k, c)
        BY <3>1, <3>3
      <4>2. DecodedAs(k, f) \subseteq {c}
        BY <4>1, BlockRead
      <4>3. b = c
        BY <3>3, <4>2
      <4> QED BY <4>1, <4>3
    <3>4. f = Fields(k, b) <=> DecodedAs(k, f) = {b}
      BY <3>2, <3>3
    <3> QED BY <3>4 DEF k, b, f
  <2> QED BY <2>2, <2>3 DEF HashBindsBlock
<1>2. ASSUME BlockInv PROVE PowBindsFruit
  <2>1. DOMAIN accepted = 1..Len(accepted)
    BY <1>2 DEF BlockInv, IsList
  <2> SUFFICES ASSUME NEW i \in DOMAIN accepted, NEW j \in DOMAIN accepted, NEW a \in AnchorBlocks,
                      accepted[i].kind = "fruit", accepted[j].kind = "fruit",
                      Len(accepted[i].block.header.bitmap) = Len(accepted[j].block.header.bitmap),
                      \E p \in EffectiveParents(accepted[i].block.header, a.candidates),
                         q \in EffectiveParents(accepted[j].block.header, a.candidates) :
                        PowHeader(accepted[i].block.header, p) = PowHeader(accepted[j].block.header, q)
               PROVE  accepted[i] = accepted[j]
    BY DEF PowBindsFruit
  <2> DEFINE d == accepted[i]
             e == accepted[j]
  <2>2. IsEntry(d) /\ IsEntry(e) /\ d.kind = "fruit" /\ e.kind = "fruit"
    BY <1>2, <2>1 DEF BlockInv
  <2>3. Len(d.block.header.bitmap) = Len(e.block.header.bitmap)
    OBVIOUS
  <2>4. PICK p \in EffectiveParents(d.block.header, a.candidates),
             q \in EffectiveParents(e.block.header, a.candidates) :
               PowHeader(d.block.header, p) = PowHeader(e.block.header, q)
    OBVIOUS
  <2> HIDE DEF d, e
  <2>5. IsFruit(d.block) /\ FruitOk(d.block) /\ IsFruit(e.block) /\ FruitOk(e.block)
    BY <2>2 DEF IsEntry, IsBlock, BlockOk
  <2>6. d.block = e.block
    BY <2>3, <2>4, <2>5, PowBinds
  <2>7. d = e
    BY <2>2, <2>6 DEF IsEntry
  <2> QED BY <2>7 DEF d, e
<1>3. BlockInv => BlocksBound
  BY <1>1, <1>2 DEF BlocksBound
<1> QED BY <1>3, BlockInvHolds, PTL
=============================================================================
