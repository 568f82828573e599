------------------------------ MODULE BlockDAG ------------------------------
(***************************************************************************)
(* class BlockDAG of consensus/ghostdag.py: the fruit DAG with its two     *)
(* caches.  add_block extends the ancestor cache incrementally and clears  *)
(* the metadata cache; ghostdag_metadata fills the metadata cache for one  *)
(* value of K and answers from it while its length matches the DAG's.      *)
(***************************************************************************)
EXTENDS Ghostdag

CONSTANTS Fruits,       \* fruit hashes
          Timestamps,   \* timestamps in milliseconds
          Works,        \* work of a fruit
          Ks            \* values of K the callers ask metadata for

ASSUME DagAssumption == /\ Fruits \subseteq Nat \ {NoHash}
                        /\ Timestamps \subseteq Nat
                        /\ Works \subseteq Nat \ {0}
                        /\ Ks \subseteq Nat

VARIABLES blocks,           \* _blocks: hash -> FruitBlock
          ancestor_cache,   \* _ancestor_cache: hash -> set of hashes
          metadata_cache    \* _metadata_cache: K -> (hash -> GhostdagData)

dagVars == <<blocks, ancestor_cache, metadata_cache>>

FruitBlock == [parents : SUBSET Fruits, ts : Timestamps, work : Works]

DagInit == /\ blocks = << >>
           /\ ancestor_cache = << >>
           /\ metadata_cache = << >>

\* What the new fruit's entry of the ancestor cache is.  Faulty: parents only.
cached_parents_only(block) == block.parents

cached_ancestors(block) ==
  block.parents \cup UNION {ancestor_cache[p] : p \in block.parents}

add_block(f, block) ==
  /\ f \notin DOMAIN blocks
  /\ block.parents \subseteq DOMAIN blocks
  /\ \A p \in block.parents : block.ts > blocks[p].ts
  /\ blocks' = Extend(blocks, f, block)
  /\ ancestor_cache' = Extend(ancestor_cache, f, cached_ancestors(block))
  /\ metadata_cache' = << >>

\* The cached answer is used only while it has as many entries as the DAG.
CacheHit(k) == /\ k \in DOMAIN metadata_cache
               /\ Cardinality(DOMAIN metadata_cache[k]) = Cardinality(DOMAIN blocks)

\* From the cached ancestors, as the code reads them.
compute_metadata(k) ==
  /\ ~ CacheHit(k)
  /\ metadata_cache' = Extend(metadata_cache, k, metadata_by(blocks, ancestor_cache, k))
  /\ UNCHANGED <<blocks, ancestor_cache>>

DagNext == \/ \E f \in Fruits, block \in FruitBlock : add_block(f, block)
           \/ \E k \in Ks : compute_metadata(k)

DagSpec == DagInit /\ [][DagNext]_dagVars
-----------------------------------------------------------------------------
\* What the caches answer is what a recomputation from the canonical parents
\* gives: the ancestor cache is the transitive closure of the parents, and a
\* metadata cache that would be returned describes the current DAG.
CachesCoherent ==
  /\ DOMAIN ancestor_cache = DOMAIN blocks
  /\ \A f \in DOMAIN blocks : ancestor_cache[f] = ancestors(blocks)[f]
  /\ \A k \in DOMAIN metadata_cache :
       CacheHit(k) => \A f \in DOMAIN blocks :
                        metadata_cache[k][f] = ghostdag_metadata(blocks, k)[f]

\* Sorting by (blue score, timestamp, hash) puts every fruit after all its
\* ancestors, although a fruit's score counts only the blues of one parent:
\* what makes topological_order, and the order an anchor's fruits are applied
\* in, respect spends of outputs created in an ancestor.
OrderIsTopological ==
  \A k \in Ks : LET meta == ghostdag_metadata(blocks, k) IN
    \A f \in DOMAIN blocks : \A a \in ancestors(blocks)[f] :
      ScoreOrder(blocks, meta, a, f)

\* Learning of a fruit never changes the classification of one already known,
\* so an anchor applied again later is applied in the same order.
MetadataStable ==
  [][\A k \in Ks :
     \A old \in {ghostdag_metadata(blocks, k)}, new \in {ghostdag_metadata(blocks', k)} :
       \A f \in DOMAIN blocks : new[f] = old[f]]_blocks
=============================================================================
