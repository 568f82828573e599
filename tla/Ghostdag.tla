------------------------------ MODULE Ghostdag ------------------------------
(***************************************************************************)
(* The GHOSTDAG classification of consensus/ghostdag.py as operators on a  *)
(* DAG value.  A DAG maps a fruit hash to the record the code keeps for it *)
(* (FruitBlock): its parents, its timestamp and its work.  Hashes are      *)
(* numbers, compared the way the code compares their bytes.                *)
(***************************************************************************)
EXTENDS Integers, FiniteSets, SequencesExt

CONSTANT WORK_CAP     \* U64_MAX, where accumulated blue work saturates

ASSUME WorkCapAssumption == WORK_CAP \in Nat \ {0}

\* No selected parent (Python's None) and GENESIS_PARENT_HASH, the zero hash.
NoHash == 0

\* A mapping with one more entry.
Extend(fun, x, v) == [y \in DOMAIN fun \cup {x} |-> IF y = x THEN v ELSE fun[y]]

\* The elements of a finite set, sorted by a relation of pairs.  Appending nothing
\* makes TLC compute the sequence once and not at each use.
InOrder(S, before) ==
  [i \in 1..Cardinality(S) |->
     CHOOSE x \in S : Cardinality({y \in S : <<y, x>> \in before}) = i - 1] \o << >>

\* Every strict ancestor of every fruit, what _ancestor_cache accumulates.
ancestors(dag) ==
  LET anc[f \in DOMAIN dag] ==
        dag[f].parents \cup UNION {anc[p] : p \in dag[f].parents}
  IN  anc

is_related(anc, left, right) ==
  left = right \/ left \in anc[right] \/ right \in anc[left]

anticone_size(anc, f, candidate_blues) ==
  Cardinality({b \in candidate_blues : ~ is_related(anc, f, b)})

saturating_blue_work(dag, blues) ==
  LET total == SumFunction([b \in blues |-> dag[b].work])
  IN  IF total >= WORK_CAP THEN WORK_CAP ELSE total

\* The parent with the most accumulated blue work, ties to the least hash.
select_parent(parents, meta) ==
  CHOOSE p \in parents : \A q \in parents \ {p} :
    \/ meta[p].accumulated_blue_work > meta[q].accumulated_blue_work
    \/ /\ meta[p].accumulated_blue_work = meta[q].accumulated_blue_work
       /\ p < q

\* (blue score, timestamp, hash): the key of every canonical fruit order.
ScoreOrder(dag, meta, f, g) ==
  \/ meta[f].blue_score < meta[g].blue_score
  \/ /\ meta[f].blue_score = meta[g].blue_score
     /\ \/ dag[f].ts < dag[g].ts
        \/ dag[f].ts = dag[g].ts /\ f < g

\* The fruits reachable from tip, or any set of fruits, in canonical order.
topological_order(dag, meta, fruits) ==
  InOrder(fruits, {p \in fruits \X fruits : ScoreOrder(dag, meta, p[1], p[2])})

(***************************************************************************)
(* GHOSTDAG data of one fruit from that of its past: the selected parent's *)
(* blues, then the merge set in canonical order, each candidate blue when  *)
(* at most k of the blues so far are in its anticone.  Nothing outside its *)
(* past is looked at.                                                      *)
(***************************************************************************)
merge_order(dag, anc, meta, f, selected) ==
  topological_order(dag, meta, anc[f] \ (anc[selected] \cup {selected}))

\* Faulty: forgets the blues of the selected parent.
blues_of_merge_set_only(dag, anc, meta, k, f, selected) ==
  LET Classify(blues, c) ==
        IF anticone_size(anc, c, blues) <= k THEN blues \cup {c} ELSE blues
  IN  {f} \cup FoldLeft(Classify, {}, merge_order(dag, anc, meta, f, selected))

blues_of(dag, anc, meta, k, f, selected) ==
  LET Classify(blues, c) ==
        IF anticone_size(anc, c, blues) <= k THEN blues \cup {c} ELSE blues
  IN  {f} \cup FoldLeft(Classify, meta[selected].blues,
                        merge_order(dag, anc, meta, f, selected))

\* Faulty: whatever is not blue is red, known to the fruit or not.
reds_of_whole_dag(dag, anc, f, selected, blues) == DOMAIN dag \ blues

reds_of(dag, anc, f, selected, blues) == anc[f] \ blues

data_of_blues(dag, anc, f, selected, blues) ==
  [selected_parent |-> selected,
   blues           |-> blues,
   reds            |-> reds_of(dag, anc, f, selected, blues),
   blue_score      |-> Cardinality(blues),
   accumulated_blue_work |-> saturating_blue_work(Restrict(dag, anc[f] \cup {f}), blues)]

ghostdag_data(dag, anc, meta, k, f, selected) ==
  data_of_blues(dag, anc, f, selected,
                blues_of(Restrict(dag, anc[f]), Restrict(anc, anc[f] \cup {f}), meta,
                         k, f, selected))

root_data(dag, f) ==
  [selected_parent |-> NoHash, blues |-> {f}, reds |-> {}, blue_score |-> 1,
   accumulated_blue_work |-> dag[f].work]

\* The data of a fruit, given those of its past.
data_from_past(dag, anc, past, k, f) ==
  IF dag[f].parents = {} THEN root_data(dag, f)
  ELSE ghostdag_data(dag, anc, past, k, f, select_parent(dag[f].parents, past))

\* The data of every fruit, by the ancestors a cache holds.
metadata_by(dag, anc, k) ==
  LET meta[f \in DOMAIN dag] == data_from_past(dag, anc, Restrict(meta, anc[f]), k, f)
  IN  meta

ghostdag_metadata(dag, k) == metadata_by(dag, ancestors(dag), k)

\* Faulty: the latest fruit, whatever its score.
latest_fruit_tip(dag, meta) ==
  CHOOSE f \in DOMAIN dag : \A g \in DOMAIN dag \ {f} :
    dag[f].ts > dag[g].ts \/ (dag[f].ts = dag[g].ts /\ f < g)

\* The tip get_finality measures from: highest score, then latest, then least hash.
best_fruit_tip(dag, meta) ==
  CHOOSE f \in DOMAIN dag : \A g \in DOMAIN dag \ {f} :
    \/ meta[f].blue_score > meta[g].blue_score
    \/ /\ meta[f].blue_score = meta[g].blue_score
       /\ dag[f].ts > dag[g].ts \/ (dag[f].ts = dag[g].ts /\ f < g)

\* Blue depth of a fruit below a tip: zero unless the tip's past holds it as a blue.
blue_depth(meta, f, tip) ==
  IF f \in meta[tip].blues /\ meta[tip].blue_score > meta[f].blue_score
    THEN meta[tip].blue_score - meta[f].blue_score ELSE 0

=============================================================================
