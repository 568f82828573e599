--------------------------- MODULE GhostdagProofs ---------------------------
(***************************************************************************)
(* What the recursive definitions of Ghostdag compute on every DAG, finite *)
(* or not, whose fruits are younger than their parents: they satisfy their *)
(* own equations, and the data of a fruit depend on its past alone.  The   *)
(* induction is on timestamps, by a least counterexample.                  *)
(***************************************************************************)
EXTENDS Ghostdag, FoldProofs, SequenceTheorems, TLAPS

\* InOrder lists every element once, in the order of the relation.
LEMMA InOrderLists ==
  ASSUME NEW S, IsFiniteSet(S), NEW R, IsStrictOrder(R, S), NEW q, q = InOrder(S, R)
  PROVE  /\ Cardinality(S) \in Nat
         /\ q \in [1..Cardinality(S) -> S]
         /\ \A x \in S : \E i \in 1..Cardinality(S) : q[i] = x
         /\ \A i, j \in 1..Cardinality(S) : i < j => q[i] # q[j] /\ <<q[i], q[j]>> \in R
<1> DEFINE n == Cardinality(S)
<1>1. n \in Nat
  BY FS_CardinalityType
<1>2. q = [i \in 1..n |-> CHOOSE x \in S : RankIn(S, R, x) = i - 1]
  <2> DEFINE listed == [i \in 1..n |-> CHOOSE x \in S : RankIn(S, R, x) = i - 1]
             Some == {listed[i] : i \in 1..n}
  <2>1. listed \in Seq(Some)
    <3>1. listed \in [1..n -> Some]
      OBVIOUS
    <3> HIDE DEF listed, Some, n
    <3> QED BY <1>1, <3>1, SeqDef
  <2>2. q = listed \o << >>
    BY DEF InOrder, RankIn
  <2> HIDE DEF listed, Some
  <2>3. q = listed
    BY <2>1, <2>2, ConcatEmptySeq
  <2> QED BY <2>3 DEF listed
<1>3. \A i \in 1..n : q[i] \in S /\ RankIn(S, R, q[i]) = i - 1
  <2> SUFFICES ASSUME NEW i \in 1..n PROVE q[i] \in S /\ RankIn(S, R, q[i]) = i - 1
    OBVIOUS
  <2> DEFINE At(x) == x \in S /\ RankIn(S, R, x) = i - 1
  <2>1. \E x : At(x)
    BY RanksFill
  <2>2. q[i] = CHOOSE x : At(x)
    BY <1>2
  <2> HIDE DEF At
  <2>3. At(q[i])
    BY <2>1, <2>2, Zenon
  <2> QED BY <2>3 DEF At
<1>4. q \in [1..n -> S]
  BY <1>2, <1>3
<1>5. \A x \in S : \E i \in 1..n : q[i] = x
  <2> SUFFICES ASSUME NEW x \in S PROVE \E i \in 1..n : q[i] = x
    OBVIOUS
  <2> DEFINE i == RankIn(S, R, x) + 1
  <2>1. i \in 1..n /\ RankIn(S, R, x) = i - 1 /\ RankIn(S, R, x) \in Nat
    <3>1. RankIn(S, R, x) \in 0..(n - 1)
      BY RanksFill
    <3> HIDE DEF n
    <3> QED BY <1>1, <3>1
  <2>2. q[i] \in S /\ RankIn(S, R, q[i]) = RankIn(S, R, x)
    BY <1>3, <2>1
  <2>3. ~ (<<q[i], x>> \in R) /\ ~ (<<x, q[i]>> \in R)
    <3> HIDE DEF i
    <3>1. /\ <<q[i], x>> \in R => RankIn(S, R, q[i]) < RankIn(S, R, x)
          /\ <<x, q[i]>> \in R => RankIn(S, R, x) < RankIn(S, R, q[i])
      BY <2>2, RanksFill
    <3>2. RankIn(S, R, x) \in Nat
      BY <2>1
    <3>3. ~ (RankIn(S, R, x) < RankIn(S, R, x))
      BY <3>2
    <3> QED BY <2>2, <3>1, <3>3
  <2>4. q[i] = x
    BY <2>2, <2>3 DEF IsStrictOrder
  <2> QED BY <2>1, <2>4
<1>6. \A i, j \in 1..n : i < j => q[i] # q[j] /\ <<q[i], q[j]>> \in R
  <2> SUFFICES ASSUME NEW i \in 1..n, NEW j \in 1..n, i < j
               PROVE  q[i] # q[j] /\ <<q[i], q[j]>> \in R
    OBVIOUS
  <2>1. RankIn(S, R, q[i]) < RankIn(S, R, q[j]) /\ q[i] \in S /\ q[j] \in S
    <3>1. RankIn(S, R, q[i]) = i - 1 /\ RankIn(S, R, q[j]) = j - 1
      BY <1>3
    <3>2. i - 1 < j - 1
      BY <1>1
    <3> QED BY <1>3, <3>1, <3>2
  <2>2. <<q[i], q[j]>> \in R
    BY <2>1, RanksFill
  <2> QED BY <2>1, <2>2 DEF IsStrictOrder
<1> QED BY <1>1, <1>4, <1>5, <1>6

\* What add_block enforces of a DAG: parents are known and strictly older.
IsDag(dag) ==
  /\ \A f \in DOMAIN dag : dag[f].ts \in Nat
  /\ \A f \in DOMAIN dag : \A p \in dag[f].parents : p \in DOMAIN dag /\ dag[p].ts < dag[f].ts
  /\ \E n \in Nat : \A f \in DOMAIN dag : dag[f].ts < n

\* The ancestors of a fruit are its parents and theirs.
LEMMA AncestorsUnfold ==
  ASSUME NEW dag, IsDag(dag)
  PROVE  ancestors(dag) =
           [f \in DOMAIN dag |-> dag[f].parents \cup UNION {ancestors(dag)[p] : p \in dag[f].parents}]
<1> DEFINE Below(n) == {f \in DOMAIN dag : dag[f].ts < n}
           Closes(g, S) == g = [f \in S |-> dag[f].parents \cup UNION {g[p] : p \in dag[f].parents}]
           Reached(n) == \E g : Closes(g, Below(n))
           Fails == {n \in Nat : ~ Reached(n)}
<1>1. Reached(0)
  <2> DEFINE g == [f \in {} |-> {}]
  <2>1. Below(0) = {}
    BY DEF IsDag
  <2>2. Closes(g, {})
    OBVIOUS
  <2> QED BY <2>1, <2>2
<1>2. ASSUME NEW n \in Nat, Reached(n) PROVE Reached(n + 1)
  <2>1. PICK g : Closes(g, Below(n))
    BY <1>2
  <2> DEFINE h == [f \in Below(n + 1) |-> dag[f].parents \cup UNION {g[p] : p \in dag[f].parents}]
  <2>2. \A f \in Below(n + 1) : dag[f].parents \subseteq Below(n)
    BY DEF IsDag
  <2>3. \A p \in Below(n) : p \in Below(n + 1) /\ h[p] = g[p]
    <3>1. Below(n) \subseteq Below(n + 1)
      BY DEF IsDag
    <3>2. \A p \in Below(n) : g[p] = dag[p].parents \cup UNION {g[q] : q \in dag[p].parents}
      BY <2>1, Zenon
    <3> QED BY <3>1, <3>2
  <2>4. \A f \in Below(n + 1) : {g[p] : p \in dag[f].parents} = {h[p] : p \in dag[f].parents}
    BY <2>2, <2>3
  <2>5. Closes(h, Below(n + 1))
    BY <2>4
  <2> QED BY <2>5
<1>3. Fails = {}
  <2> HIDE DEF Reached
  <2>1. ASSUME Fails # {} PROVE FALSE
    <3>1. PICK n \in Fails : \A m \in Fails : n <= m
      BY <2>1, LeastNat
    <3>2. n # 0 /\ n - 1 \in Nat /\ n - 1 \notin Fails
      BY <3>1, <1>1
    <3> QED BY <3>1, <3>2, <1>2
  <2> QED BY <2>1
<1>4. PICK n \in Nat : \A f \in DOMAIN dag : dag[f].ts < n
  BY DEF IsDag
<1>5. Below(n) = DOMAIN dag
  BY <1>4
<1>6. \E g : Closes(g, DOMAIN dag)
  <2>1. Reached(n)
    <3> HIDE DEF Reached
    <3> QED BY <1>3
  <2> QED BY <1>5, <2>1, Zenon
<1>7. Closes(CHOOSE g : Closes(g, DOMAIN dag), DOMAIN dag)
  BY <1>6, Zenon
<1> QED BY <1>7 DEF ancestors

\* The same, for one fruit.
LEMMA AncestorsOf ==
  ASSUME NEW dag, IsDag(dag), NEW f \in DOMAIN dag
  PROVE  ancestors(dag)[f] = dag[f].parents \cup UNION {ancestors(dag)[p] : p \in dag[f].parents}
<1> DEFINE anc == ancestors(dag)
<1>1. anc = [g \in DOMAIN dag |-> dag[g].parents \cup UNION {anc[p] : p \in dag[g].parents}]
  BY AncestorsUnfold
<1> HIDE DEF anc
<1>2. anc[f] = dag[f].parents \cup UNION {anc[p] : p \in dag[f].parents}
  BY <1>1, Zenon
<1> QED BY <1>2 DEF anc

\* Ancestors are in the DAG, older, and bring their own ancestors with them.
LEMMA AncestorsOlder ==
  ASSUME NEW dag, IsDag(dag), NEW f \in DOMAIN dag
  PROVE  /\ ancestors(dag)[f] \subseteq DOMAIN dag
         /\ \A a \in ancestors(dag)[f] : dag[a].ts < dag[f].ts
         /\ \A a \in ancestors(dag)[f] : ancestors(dag)[a] \subseteq ancestors(dag)[f]
<1> DEFINE anc == ancestors(dag)
           Good(g) == /\ anc[g] \subseteq DOMAIN dag
                      /\ \A a \in anc[g] : dag[a].ts < dag[g].ts
                      /\ \A a \in anc[g] : anc[a] \subseteq anc[g]
           Bad == {n \in Nat : \E g \in DOMAIN dag : dag[g].ts = n /\ ~ Good(g)}
<1>1. \A g \in DOMAIN dag : anc[g] = dag[g].parents \cup UNION {anc[p] : p \in dag[g].parents}
  BY AncestorsOf
<1>2. \A g \in DOMAIN dag : dag[g].ts \in Nat /\ dag[g].parents \subseteq DOMAIN dag
                            /\ \A p \in dag[g].parents : dag[p].ts < dag[g].ts
  BY DEF IsDag
<1> HIDE DEF anc
<1>3. Bad = {}
  <2>1. ASSUME Bad # {} PROVE FALSE
    <3>1. PICK n \in Bad : \A m \in Bad : n <= m
      BY <2>1, LeastNat
    <3>2. PICK g \in DOMAIN dag : dag[g].ts = n /\ ~ Good(g)
      BY <3>1
    <3>3. \A p \in dag[g].parents : Good(p)
      <4> SUFFICES ASSUME NEW p \in dag[g].parents, ~ Good(p) PROVE FALSE
        OBVIOUS
      <4>1. dag[p].ts \in Bad
        BY <1>2
      <4> QED BY <1>2, <3>1, <3>2, <4>1
    <3>4. anc[g] \subseteq DOMAIN dag
      BY <1>1, <1>2, <3>3
    <3>5. \A a \in anc[g] : dag[a].ts < dag[g].ts
      <4> SUFFICES ASSUME NEW a \in anc[g] PROVE dag[a].ts < dag[g].ts
        OBVIOUS
      <4>1. CASE a \in dag[g].parents
        BY <1>2, <4>1
      <4>2. ASSUME NEW p \in dag[g].parents, a \in anc[p] PROVE dag[a].ts < dag[g].ts
        <5>1. dag[a].ts < dag[p].ts /\ a \in DOMAIN dag /\ p \in DOMAIN dag
          BY <1>2, <3>3, <4>2
        <5> QED BY <1>2, <5>1
      <4> QED BY <1>1, <4>1, <4>2
    <3>6. \A a \in anc[g] : anc[a] \subseteq anc[g]
      <4> SUFFICES ASSUME NEW a \in anc[g] PROVE anc[a] \subseteq anc[g]
        OBVIOUS
      <4>1. CASE a \in dag[g].parents
        BY <1>1, <4>1
      <4>2. ASSUME NEW p \in dag[g].parents, a \in anc[p] PROVE anc[a] \subseteq anc[g]
        <5>1. anc[a] \subseteq anc[p]
          BY <3>3, <4>2
        <5> QED BY <1>1, <5>1
      <4> QED BY <1>1, <4>1, <4>2
    <3> QED BY <3>2, <3>4, <3>5, <3>6
  <2> QED BY <2>1
<1>4. Good(f)
  BY <1>2, <1>3
<1> QED BY <1>4 DEF anc

\* The metadata of every fruit follow from those of its past.
LEMMA MetadataUnfold ==
  ASSUME NEW dag, IsDag(dag), NEW k
  PROVE  ghostdag_metadata(dag, k) =
           [f \in DOMAIN dag |-> data_from_past(dag, ancestors(dag),
                                  Restrict(ghostdag_metadata(dag, k), ancestors(dag)[f]), k, f)]
<1> DEFINE anc == ancestors(dag)
           Below(n) == {f \in DOMAIN dag : dag[f].ts < n}
           Past(g, f) == [x \in anc[f] |-> g[x]]
           Solves(g, S) == g = [f \in S |-> data_from_past(dag, anc, Past(g, f), k, f)]
           Reached(n) == \E g : Solves(g, Below(n))
           Fails == {n \in Nat : ~ Reached(n)}
<1>0. \A f \in DOMAIN dag : anc[f] \subseteq DOMAIN dag /\ \A a \in anc[f] : dag[a].ts < dag[f].ts
  BY AncestorsOlder
<1>00. \A f \in DOMAIN dag : dag[f].ts \in Nat
  BY DEF IsDag
<1> HIDE DEF anc
<1>1. Reached(0)
  <2> DEFINE g == [f \in {} |-> {}]
  <2>1. Below(0) = {}
    BY <1>00
  <2>2. Solves(g, {})
    OBVIOUS
  <2> QED BY <2>1, <2>2
<1>2. ASSUME NEW n \in Nat, Reached(n) PROVE Reached(n + 1)
  <2>1. PICK g : Solves(g, Below(n))
    BY <1>2
  <2> DEFINE h == [f \in Below(n + 1) |-> data_from_past(dag, anc, Past(g, f), k, f)]
  <2>2. \A f \in Below(n + 1) : anc[f] \subseteq Below(n)
    BY <1>0, <1>00
  <2>3. \A p \in Below(n) : p \in Below(n + 1) /\ h[p] = g[p]
    <3>1. Below(n) \subseteq Below(n + 1)
      BY <1>00
    <3>2. \A p \in Below(n) : g[p] = data_from_past(dag, anc, Past(g, p), k, p)
      BY <2>1, Zenon
    <3> QED BY <3>1, <3>2
  <2>4. \A f \in Below(n + 1) : Past(g, f) = Past(h, f)
    <3> HIDE DEF h
    <3> QED BY <2>2, <2>3
  <2>5. Solves(h, Below(n + 1))
    <3>1. h = [f \in Below(n + 1) |-> data_from_past(dag, anc, Past(g, f), k, f)]
      OBVIOUS
    <3> HIDE DEF h, Past, Below
    <3> QED BY <2>4, <3>1
  <2> QED BY <2>5
<1>3. Fails = {}
  <2> HIDE DEF Reached
  <2>1. ASSUME Fails # {} PROVE FALSE
    <3>1. PICK n \in Fails : \A m \in Fails : n <= m
      BY <2>1, LeastNat
    <3>2. n # 0 /\ n - 1 \in Nat /\ n - 1 \notin Fails
      BY <3>1, <1>1
    <3> QED BY <3>1, <3>2, <1>2
  <2> QED BY <2>1
<1>4. PICK n \in Nat : \A f \in DOMAIN dag : dag[f].ts < n
  BY DEF IsDag
<1>5. Below(n) = DOMAIN dag
  BY <1>4
<1>6. \E g : Solves(g, DOMAIN dag)
  <2>1. Reached(n)
    <3> HIDE DEF Reached
    <3> QED BY <1>3
  <2> HIDE DEF Solves, Below
  <2> QED BY <1>5, <2>1, Zenon
<1>7. Solves(CHOOSE g : Solves(g, DOMAIN dag), DOMAIN dag)
  <2> HIDE DEF Solves
  <2> QED BY <1>6, Zenon
<1>8. ghostdag_metadata(dag, k) = CHOOSE g : Solves(g, DOMAIN dag)
  BY DEF ghostdag_metadata, metadata_by, Restrict, anc
<1> QED BY <1>7, <1>8 DEF Restrict, anc

\* The same, for one fruit.
LEMMA MetadataOf ==
  ASSUME NEW dag, IsDag(dag), NEW k, NEW f \in DOMAIN dag
  PROVE  ghostdag_metadata(dag, k)[f] =
           data_from_past(dag, ancestors(dag),
                          Restrict(ghostdag_metadata(dag, k), ancestors(dag)[f]), k, f)
<1> DEFINE meta == ghostdag_metadata(dag, k)
           anc == ancestors(dag)
<1>1. meta = [g \in DOMAIN dag |-> data_from_past(dag, anc, Restrict(meta, anc[g]), k, g)]
  BY MetadataUnfold
<1> HIDE DEF meta, anc
<1>2. meta[f] = data_from_past(dag, anc, Restrict(meta, anc[f]), k, f)
  BY <1>1, Zenon
<1> QED BY <1>2 DEF meta, anc

\* A DAG that holds every fruit of another as it was.
Grows(dag, larger) == \A f \in DOMAIN dag : f \in DOMAIN larger /\ larger[f] = dag[f]

\* Fruits learned later leave the ancestors of a fruit as they are.
LEMMA AncestorsStable ==
  ASSUME NEW dag, IsDag(dag), NEW larger, IsDag(larger), Grows(dag, larger), NEW f \in DOMAIN dag
  PROVE  ancestors(larger)[f] = ancestors(dag)[f]
<1> DEFINE old == ancestors(dag)
           new == ancestors(larger)
           Bad == {n \in Nat : \E g \in DOMAIN dag : dag[g].ts = n /\ new[g] # old[g]}
<1>1. \A g \in DOMAIN dag : /\ old[g] = dag[g].parents \cup UNION {old[p] : p \in dag[g].parents}
                            /\ new[g] = dag[g].parents \cup UNION {new[p] : p \in dag[g].parents}
  BY AncestorsOf DEF Grows
<1>2. \A g \in DOMAIN dag : dag[g].ts \in Nat /\ dag[g].parents \subseteq DOMAIN dag
                            /\ \A p \in dag[g].parents : dag[p].ts < dag[g].ts
  BY DEF IsDag
<1> HIDE DEF old, new
<1>3. Bad = {}
  <2>1. ASSUME Bad # {} PROVE FALSE
    <3>1. PICK n \in Bad : \A m \in Bad : n <= m
      BY <2>1, LeastNat
    <3>2. PICK g \in DOMAIN dag : dag[g].ts = n /\ new[g] # old[g]
      BY <3>1
    <3>3. \A p \in dag[g].parents : new[p] = old[p]
      <4> SUFFICES ASSUME NEW p \in dag[g].parents, new[p] # old[p] PROVE FALSE
        OBVIOUS
      <4>1. dag[p].ts \in Bad
        BY <1>2
      <4> QED BY <1>2, <3>1, <3>2, <4>1
    <3>4. {new[p] : p \in dag[g].parents} = {old[p] : p \in dag[g].parents}
      BY <3>3
    <3> QED BY <1>1, <3>2, <3>4
  <2> QED BY <2>1
<1>4. new[f] = old[f]
  BY <1>2, <1>3
<1> QED BY <1>4 DEF old, new

\* The data of a fruit are the same in a larger DAG when those of its past are.
LEMMA SamePastSameData ==
  ASSUME NEW dag, IsDag(dag), NEW larger, IsDag(larger), Grows(dag, larger),
         NEW f \in DOMAIN dag, NEW past, NEW k
  PROVE  data_from_past(larger, ancestors(larger), past, k, f)
           = data_from_past(dag, ancestors(dag), past, k, f)
<1> DEFINE old == ancestors(dag)
           new == ancestors(larger)
           sel == select_parent(dag[f].parents, past)
           S == old[f] \cup {f}
<1>1. larger[f] = dag[f]
  BY DEF Grows
<1>2. S \subseteq DOMAIN dag
  BY AncestorsOlder
<1>3. \A g \in S : new[g] = old[g] /\ larger[g] = dag[g]
  BY <1>2, AncestorsStable DEF Grows
<1> HIDE DEF old, new, sel
<1>4. Restrict(larger, new[f]) = Restrict(dag, old[f])
  BY <1>3 DEF Restrict
<1>5. Restrict(new, new[f] \cup {f}) = Restrict(old, old[f] \cup {f})
  BY <1>3 DEF Restrict
<1>6. Restrict(larger, new[f] \cup {f}) = Restrict(dag, old[f] \cup {f})
  BY <1>3 DEF Restrict
<1>7. root_data(larger, f) = root_data(dag, f)
  BY <1>1 DEF root_data
<1>8. ASSUME NEW blues
      PROVE  data_of_blues(larger, new, f, sel, blues) = data_of_blues(dag, old, f, sel, blues)
  BY <1>3, <1>6 DEF data_of_blues, reds_of
<1>9. ghostdag_data(larger, new, past, k, f, sel) = ghostdag_data(dag, old, past, k, f, sel)
  BY <1>4, <1>5, <1>8 DEF ghostdag_data
<1> QED BY <1>1, <1>7, <1>9 DEF data_from_past, old, new, sel

\* Fruits learned later leave the classification of a fruit as it is.
LEMMA ClassificationStable ==
  ASSUME NEW dag, IsDag(dag), NEW larger, IsDag(larger), Grows(dag, larger), NEW k,
         NEW f \in DOMAIN dag
  PROVE  ghostdag_metadata(larger, k)[f] = ghostdag_metadata(dag, k)[f]
<1> DEFINE old == ghostdag_metadata(dag, k)
           new == ghostdag_metadata(larger, k)
           anc == ancestors(dag)
           Bad == {n \in Nat : \E g \in DOMAIN dag : dag[g].ts = n /\ new[g] # old[g]}
<1>1. \A g \in DOMAIN dag : g \in DOMAIN larger /\ ancestors(larger)[g] = anc[g]
  BY AncestorsStable DEF Grows
<1>2. \A g \in DOMAIN dag : anc[g] \subseteq DOMAIN dag /\ \A a \in anc[g] : dag[a].ts < dag[g].ts
  BY AncestorsOlder
<1>3. \A g \in DOMAIN dag : dag[g].ts \in Nat
  BY DEF IsDag
<1>4. \A g \in DOMAIN dag :
        /\ old[g] = data_from_past(dag, anc, Restrict(old, anc[g]), k, g)
        /\ new[g] = data_from_past(larger, ancestors(larger), Restrict(new, anc[g]), k, g)
  BY <1>1, MetadataOf
<1>5. \A g \in DOMAIN dag : new[g] = data_from_past(dag, anc, Restrict(new, anc[g]), k, g)
  BY <1>4, SamePastSameData
<1> HIDE DEF old, new, anc
<1>6. Bad = {}
  <2>1. ASSUME Bad # {} PROVE FALSE
    <3>1. PICK n \in Bad : \A m \in Bad : n <= m
      BY <2>1, LeastNat
    <3>2. PICK g \in DOMAIN dag : dag[g].ts = n /\ new[g] # old[g]
      BY <3>1
    <3>3. \A a \in anc[g] : new[a] = old[a]
      <4> SUFFICES ASSUME NEW a \in anc[g], new[a] # old[a] PROVE FALSE
        OBVIOUS
      <4>1. dag[a].ts \in Bad
        BY <1>2, <1>3
      <4> QED BY <1>2, <1>3, <3>1, <3>2, <4>1
    <3>4. Restrict(new, anc[g]) = Restrict(old, anc[g])
      BY <3>3 DEF Restrict
    <3> QED BY <1>4, <1>5, <3>2, <3>4
  <2> QED BY <2>1
<1>7. new[f] = old[f]
  BY <1>3, <1>6
<1> QED BY <1>7 DEF old, new

-----------------------------------------------------------------------------
(* Classification.                                                         *)

\* A DAG in memory: finitely many fruits with positive work.
IsFiniteDag(dag) ==
  /\ IsDag(dag)
  /\ IsFiniteSet(DOMAIN dag)
  /\ \A f \in DOMAIN dag : f \in Nat \ {NoHash} /\ dag[f].work \in Nat

\* Fruits that can be compared by (blue score, timestamp, hash).
Scored(dag, meta, S) ==
  \A x \in S : meta[x].blue_score \in Nat /\ dag[x].ts \in Nat /\ x \in Nat

\* The canonical order is total, so sorting lists every fruit once.
LEMMA CanonicalLists ==
  ASSUME NEW dag, NEW meta, NEW S, IsFiniteSet(S), Scored(dag, meta, S),
         NEW q, q = topological_order(dag, meta, S)
  PROVE  /\ Cardinality(S) \in Nat
         /\ q \in [1..Cardinality(S) -> S]
         /\ \A x \in S : \E i \in 1..Cardinality(S) : q[i] = x
         /\ \A i, j \in 1..Cardinality(S) :
              i < j => q[i] # q[j] /\ ScoreOrder(dag, meta, q[i], q[j])
<1> DEFINE R == {p \in S \X S : ScoreOrder(dag, meta, p[1], p[2])}
<1>1. \A x, y \in S : <<x, y>> \in R <=> ScoreOrder(dag, meta, x, y)
  <2> HIDE DEF ScoreOrder
  <2> QED OBVIOUS
<1>2. q = InOrder(S, R)
  BY DEF topological_order
<1> HIDE DEF R
<1>3. IsStrictOrder(R, S)
  <2>1. \A x \in S : <<x, x>> \notin R
    BY <1>1 DEF Scored, ScoreOrder
  <2>2. ASSUME NEW x \in S, NEW y \in S, NEW z \in S, <<x, y>> \in R, <<y, z>> \in R
        PROVE  <<x, z>> \in R
    <3>1. ScoreOrder(dag, meta, x, y) /\ ScoreOrder(dag, meta, y, z)
      BY <1>1, <2>2
    <3>2. ScoreOrder(dag, meta, x, z)
      BY <3>1 DEF Scored, ScoreOrder
    <3> QED BY <1>1, <3>2
  <2>3. ASSUME NEW x \in S, NEW y \in S PROVE x = y \/ <<x, y>> \in R \/ <<y, x>> \in R
    <3>1. x = y \/ ScoreOrder(dag, meta, x, y) \/ ScoreOrder(dag, meta, y, x)
      BY DEF Scored, ScoreOrder
    <3> QED BY <1>1, <3>1
  <2> QED BY <2>1, <2>2, <2>3 DEF IsStrictOrder
<1>4. /\ Cardinality(S) \in Nat
      /\ q \in [1..Cardinality(S) -> S]
      /\ \A x \in S : \E i \in 1..Cardinality(S) : q[i] = x
      /\ \A i, j \in 1..Cardinality(S) : i < j => q[i] # q[j] /\ <<q[i], q[j]>> \in R
  BY <1>2, <1>3, InOrderLists
<1> QED BY <1>1, <1>4

\* Among finitely many parents one has the most work and, of those, the least hash.
LEMMA SelectParent ==
  ASSUME NEW parents, IsFiniteSet(parents), parents # {}, parents \subseteq Nat,
         NEW meta, \A p \in parents : meta[p].accumulated_blue_work \in Nat
  PROVE  /\ select_parent(parents, meta) \in parents
         /\ \A q \in parents : meta[q].accumulated_blue_work
                               <= meta[select_parent(parents, meta)].accumulated_blue_work
<1> DEFINE Beats(p, q) ==
             \/ meta[p].accumulated_blue_work > meta[q].accumulated_blue_work
             \/ /\ meta[p].accumulated_blue_work = meta[q].accumulated_blue_work
                /\ p < q
           Best(p, s) == p \in s /\ \A q \in s \ {p} : Beats(p, q)
           Good == {s \in SUBSET parents : s = {} \/ \E p \in s : Best(p, s)}
           w == [p \in parents |-> meta[p].accumulated_blue_work]
<1>0. /\ w \in [parents -> Nat]
      /\ \A p \in parents : w[p] = meta[p].accumulated_blue_work
      /\ \A p, q \in parents : Beats(p, q) <=> w[p] > w[q] \/ (w[p] = w[q] /\ p < q)
  OBVIOUS
<1> HIDE DEF Beats, w
<1>1. \A p, q \in parents : p = q \/ Beats(p, q) \/ Beats(q, p)
  <2> SUFFICES ASSUME NEW p \in parents, NEW q \in parents
               PROVE  p = q \/ Beats(p, q) \/ Beats(q, p)
    OBVIOUS
  <2>1. p \in Nat /\ q \in Nat /\ w[p] \in Nat /\ w[q] \in Nat
    BY <1>0
  <2>2. p = q \/ p < q \/ q < p
    BY <2>1
  <2>3. w[p] = w[q] \/ w[p] > w[q] \/ w[q] > w[p]
    BY <2>1
  <2> QED BY <1>0, <2>2, <2>3
<1>2. \A p, q, r \in parents : Beats(p, q) /\ Beats(q, r) => Beats(p, r)
  BY <1>0
<1>3. ASSUME NEW s \in SUBSET parents, \A x \in s : s \ {x} \in Good PROVE s \in Good
  <2>1. CASE s = {}
    BY <2>1
  <2>2. ASSUME NEW x \in s PROVE s \in Good
    <3>1. CASE s \ {x} = {}
      <4>1. Best(x, s)
        BY <3>1
      <4> QED BY <4>1
    <3>2. CASE s \ {x} # {}
      <4>1. PICK p \in s \ {x} : Best(p, s \ {x})
        BY <1>3, <3>2
      <4>2. CASE Beats(p, x)
        <5>1. Best(p, s)
          BY <4>1, <4>2
        <5> QED BY <5>1
      <4>3. CASE Beats(x, p)
        <5>1. Best(x, s)
          BY <1>2, <4>1, <4>3
        <5> QED BY <5>1
      <4> QED BY <1>1, <4>2, <4>3
    <3> QED BY <3>1, <3>2
  <2> QED BY <2>1, <2>2
<1>4. SUBSET parents \subseteq Good
  <2> HIDE DEF Good
  <2> QED BY <1>3, SubsetInduction
<1>5. \E p : Best(p, parents)
  BY <1>4
<1>6. select_parent(parents, meta) = CHOOSE p : Best(p, parents)
  BY DEF select_parent, Beats
<1> HIDE DEF Best
<1>7. Best(select_parent(parents, meta), parents)
  BY <1>5, <1>6, Zenon
<1>8. ASSUME NEW p \in parents, NEW q \in parents, p = q \/ Beats(p, q)
      PROVE  w[q] <= w[p]
  <2>1. w[p] \in Nat /\ w[q] \in Nat
    BY <1>0
  <2>2. w[p] = w[q] \/ w[p] > w[q]
    BY <1>0, <1>8
  <2> QED BY <2>1, <2>2
<1> DEFINE best == select_parent(parents, meta)
<1> HIDE DEF best
<1>9. best \in parents /\ \A q \in parents : q = best \/ Beats(best, q)
  BY <1>7 DEF Best, best
<1>10. \A q \in parents : meta[q].accumulated_blue_work <= meta[best].accumulated_blue_work
  BY <1>0, <1>8, <1>9
<1> QED BY <1>9, <1>10 DEF best

\* Whatever the anticones are, classification starts from the selected parent's
\* blues, adds the fruit itself, and takes the rest from the merge set.
LEMMA BluesBetween ==
  ASSUME NEW dag, NEW anc, NEW meta, NEW k, NEW f, NEW selected,
         IsFiniteSet(anc[f]), IsFiniteSet(meta[selected].blues), Scored(dag, meta, anc[f])
  PROVE  /\ meta[selected].blues \cup {f} \subseteq blues_of(dag, anc, meta, k, f, selected)
         /\ blues_of(dag, anc, meta, k, f, selected) \subseteq meta[selected].blues \cup {f} \cup anc[f]
         /\ IsFiniteSet(blues_of(dag, anc, meta, k, f, selected))
<1> DEFINE base  == meta[selected].blues
           merge == anc[f] \ (anc[selected] \cup {selected})
           order == merge_order(dag, anc, meta, f, selected)
           n     == Cardinality(merge)
           All   == {v \in SUBSET (base \cup merge) : base \subseteq v}
           Added(c, blues) == IF anticone_size(anc, c, blues) <= k THEN blues \cup {c} ELSE blues
<1>1. IsFiniteSet(merge) /\ IsFiniteSet(base \cup merge)
  BY FS_Subset, FS_Union
<1>2. n \in Nat /\ DOMAIN order = 1..n /\ \A i \in 1..n : order[i] \in merge
  <2>1. Scored(dag, meta, merge) /\ order = topological_order(dag, meta, merge)
    BY DEF Scored, merge_order
  <2> HIDE DEF order, merge
  <2> QED BY <1>1, <2>1, CanonicalLists
<1> HIDE DEF order, n
<1> DEFINE S    == 1..n
           pick == [s \in SUBSET S |-> Max(s)]
           step == [p \in S \X All |-> Added(order[p[1]], p[2])]
           P    == [s \in SUBSET S |-> All]
<1>3. IsFiniteSet(S)
  BY <1>2, FS_Interval
<1>4. \A s \in SUBSET S : s # {} => pick[s] \in s /\ pick[s] = Max(s)
  <2> SUFFICES ASSUME NEW s \in SUBSET S, s # {} PROVE Max(s) \in s
    OBVIOUS
  <2>1. s \subseteq Nat /\ \A x \in s : x <= n
    BY <1>2
  <2> QED BY <1>2, <2>1, MaxInSet
<1>5. \A i \in S : \A v \in All : step[<<i, v>>] = Added(order[i], v) /\ step[<<i, v>>] \in All
  <2> SUFFICES ASSUME NEW i \in S, NEW v \in All
               PROVE  step[<<i, v>>] = Added(order[i], v) /\ step[<<i, v>>] \in All
    OBVIOUS
  <2>1. step[<<i, v>>] = Added(order[i], v)
    <3> HIDE DEF All, Added
    <3> QED OBVIOUS
  <2>2. order[i] \in merge
    BY <1>2
  <2>3. Added(order[i], v) \in All
    <3> HIDE DEF merge, base
    <3> QED BY <2>2
  <2> QED BY <2>1, <2>3
<1>6. base \in All
  OBVIOUS
<1>7. \A s \in SUBSET S : P[s] = All
  OBVIOUS
<1> HIDE DEF pick, step, P, All, S, Added
<1>8. Picks(pick, S)
  BY <1>4 DEF Picks
<1>9. StaysIn(P, base, pick, step, S)
  <2>1. base \in P[{}]
    BY <1>6, <1>7
  <2>2. ASSUME NEW s \in SUBSET S, s # {}, NEW v \in P[s \ {pick[s]}]
        PROVE  step[<<pick[s], v>>] \in P[s]
    <3>1. pick[s] \in S /\ v \in All /\ P[s] = All
      BY <1>4, <1>7, <2>2
    <3> QED BY <1>5, <3>1
  <2> QED BY <2>1, <2>2 DEF StaysIn
<1>10. PICK g : IsFold(g, base, pick, step, S) /\ \A s \in SUBSET S : g[s] \in P[s]
  BY <1>3, <1>8, <1>9, FoldExists
<1> DEFINE Body(h, s) == IF s = {} THEN base ELSE Added(order[Max(s)], h[s \ {Max(s)}])
           IsIter(h) == h = [s \in SUBSET S |-> Body(h, s)]
<1>11. IsIter(g)
  <2>1. \A s \in SUBSET S : s # {} =>
          step[<<pick[s], g[s \ {pick[s]}]>>] = Added(order[Max(s)], g[s \ {Max(s)}])
    <3> SUFFICES ASSUME NEW s \in SUBSET S, s # {}
                 PROVE  step[<<pick[s], g[s \ {pick[s]}]>>]
                          = Added(order[Max(s)], g[s \ {Max(s)}])
      OBVIOUS
    <3>1. pick[s] = Max(s) /\ pick[s] \in S /\ g[s \ {pick[s]}] \in All
      BY <1>4, <1>7, <1>10
    <3> QED BY <1>5, <3>1
  <2> QED BY <1>10, <2>1 DEF IsFold
<1> DEFINE it == CHOOSE h : IsIter(h)
<1>12. IsIter(it)
  <2> HIDE DEF IsIter
  <2> QED BY <1>11, Zenon
<1>13. blues_of(dag, anc, meta, k, f, selected) = {f} \cup it[S]
  BY <1>2 DEF blues_of, FoldLeft, MapThenFoldSet, order, S, Added
<1> HIDE DEF it
<1>14. \A s \in SUBSET S : it[s] = g[s]
  <2>1. \A s \in SUBSET S : it[s] = Body(it, s) /\ g[s] = Body(g, s)
    <3> HIDE DEF Body
    <3> QED BY <1>11, <1>12, Zenon
  <2>2. it[{}] = g[{}]
    BY <2>1
  <2>3. \A s \in SUBSET S : s # {} => (it[s \ {pick[s]}] = g[s \ {pick[s]}] => it[s] = g[s])
    BY <1>4, <2>1
  <2>4. AgreeBySteps(it, g, pick, S)
    BY <2>2, <2>3 DEF AgreeBySteps
  <2> QED BY <1>3, <1>8, <2>4, FoldsAgree
<1>15. it[S] \in All
  BY <1>7, <1>10, <1>14
<1>16. base \subseteq it[S] /\ it[S] \subseteq base \cup merge /\ IsFiniteSet(it[S])
  BY <1>1, <1>15, FS_Subset DEF All
<1>17. IsFiniteSet({f} \cup it[S])
  BY <1>16, FS_Singleton, FS_Union
<1>18. base \cup {f} \subseteq {f} \cup it[S] /\ {f} \cup it[S] \subseteq base \cup {f} \cup anc[f]
  BY <1>16
<1> QED BY <1>13, <1>17, <1>18

\* What every classified fruit satisfies.
IsClassified(dag, meta, f) ==
  /\ f \in meta[f].blues
  /\ meta[f].blues \subseteq ancestors(dag)[f] \cup {f}
  /\ IsFiniteSet(meta[f].blues)
  /\ meta[f].blue_score = Cardinality(meta[f].blues)
  /\ meta[f].accumulated_blue_work \in Nat
  /\ IF dag[f].parents = {} THEN meta[f].selected_parent = NoHash
     ELSE /\ meta[f].selected_parent \in dag[f].parents
          /\ meta[meta[f].selected_parent].blues \subseteq meta[f].blues
          /\ \A p \in dag[f].parents : meta[p].accumulated_blue_work
                                        <= meta[meta[f].selected_parent].accumulated_blue_work

\* One fruit, from its past.
LEMMA ClassifyOne ==
  ASSUME NEW dag, IsFiniteDag(dag), NEW k, NEW f \in DOMAIN dag,
         NEW meta, meta = ghostdag_metadata(dag, k),
         \A a \in ancestors(dag)[f] : IsClassified(dag, meta, a)
  PROVE  IsClassified(dag, meta, f)
<1> DEFINE anc  == ancestors(dag)
           past == Restrict(meta, anc[f])
<1>1. /\ anc[f] \subseteq DOMAIN dag
      /\ dag[f].parents \subseteq anc[f]
      /\ \A a \in anc[f] : anc[a] \subseteq anc[f]
  <2>1. IsDag(dag)
    BY DEF IsFiniteDag
  <2>2. anc[f] = dag[f].parents \cup UNION {anc[p] : p \in dag[f].parents}
    BY <2>1, AncestorsOf
  <2> QED BY <2>1, <2>2, AncestorsOlder
<1>2. IsFiniteSet(anc[f]) /\ IsFiniteSet(dag[f].parents) /\ f \in Nat /\ dag[f].work \in Nat
  BY <1>1, FS_Subset DEF IsFiniteDag
<1>3. meta[f] = data_from_past(dag, anc, past, k, f)
  BY MetadataOf DEF IsFiniteDag
<1>4. \A a \in anc[f] : past[a] = meta[a]
  BY DEF Restrict
<1>5. \A a \in anc[f] : /\ a \in Nat /\ dag[a].ts \in Nat /\ dag[a].work \in Nat
                        /\ IsFiniteSet(meta[a].blues)
                        /\ meta[a].blues \subseteq anc[f]
                        /\ meta[a].blue_score \in Nat
                        /\ meta[a].accumulated_blue_work \in Nat
  <2> SUFFICES ASSUME NEW a \in anc[f]
               PROVE  /\ a \in Nat /\ dag[a].ts \in Nat /\ dag[a].work \in Nat
                      /\ IsFiniteSet(meta[a].blues)
                      /\ meta[a].blues \subseteq anc[f]
                      /\ meta[a].blue_score \in Nat
                      /\ meta[a].accumulated_blue_work \in Nat
    OBVIOUS
  <2>1. IsClassified(dag, meta, a)
    OBVIOUS
  <2>2. a \in Nat /\ dag[a].ts \in Nat /\ dag[a].work \in Nat
    BY <1>1 DEF IsFiniteDag, IsDag
  <2>3. meta[a].blues \subseteq anc[f]
    BY <1>1, <2>1 DEF IsClassified
  <2>4. meta[a].blue_score \in Nat
    BY <2>1, FS_CardinalityType DEF IsClassified
  <2> QED BY <2>1, <2>2, <2>3, <2>4 DEF IsClassified
<1> HIDE DEF anc, past
<1>6. CASE dag[f].parents = {}
  <2>1. meta[f] = root_data(dag, f)
    BY <1>3, <1>6 DEF data_from_past
  <2>2. IsFiniteSet({f}) /\ Cardinality({f}) = 1
    BY FS_Singleton
  <2> QED BY <1>2, <1>6, <2>1, <2>2 DEF root_data, IsClassified
<1>7. CASE dag[f].parents # {}
  <2> DEFINE selected == select_parent(dag[f].parents, past)
             known == Restrict(dag, anc[f])
             closed == Restrict(anc, anc[f] \cup {f})
             blues == blues_of(known, closed, past, k, f, selected)
  <2>1. selected \in dag[f].parents
    <3>1. \A p \in dag[f].parents : past[p].accumulated_blue_work \in Nat /\ p \in Nat
      BY <1>1, <1>4, <1>5
    <3> QED BY <1>2, <1>7, <3>1, SelectParent
  <2>10. \A p \in dag[f].parents : meta[p].accumulated_blue_work
                                      <= meta[selected].accumulated_blue_work
    <3>1. \A p \in dag[f].parents : past[p].accumulated_blue_work \in Nat /\ p \in Nat
      BY <1>1, <1>4, <1>5
    <3>2. \A p \in dag[f].parents : past[p].accumulated_blue_work
                                       <= past[selected].accumulated_blue_work
      BY <1>2, <1>7, <3>1, SelectParent
    <3> HIDE DEF selected
    <3> QED BY <1>1, <1>4, <2>1, <3>2
  <2>2. selected \in anc[f] /\ past[selected] = meta[selected]
    BY <1>1, <1>4, <2>1
  <2>3. closed[f] = anc[f] /\ \A a \in anc[f] : known[a] = dag[a]
    BY DEF Restrict
  <2>4. meta[f] = data_of_blues(dag, anc, f, selected, blues)
    BY <1>3, <1>7 DEF data_from_past, ghostdag_data
  <2> HIDE DEF selected, known, closed
  <2>5. Scored(known, past, closed[f])
    BY <1>4, <1>5, <2>3 DEF Scored
  <2>6. /\ meta[selected].blues \cup {f} \subseteq blues
        /\ blues \subseteq meta[selected].blues \cup {f} \cup anc[f]
        /\ IsFiniteSet(blues)
    <3>1. IsFiniteSet(closed[f]) /\ IsFiniteSet(past[selected].blues)
      BY <1>2, <1>5, <2>2, <2>3
    <3>2. /\ past[selected].blues \cup {f} \subseteq blues
          /\ blues \subseteq past[selected].blues \cup {f} \cup closed[f]
          /\ IsFiniteSet(blues)
      BY <2>5, <3>1, BluesBetween
    <3> HIDE DEF blues
    <3> QED BY <2>2, <2>3, <3>2
  <2> HIDE DEF blues
  <2>7. blues \subseteq anc[f] \cup {f}
    BY <1>5, <2>2, <2>6
  <2>8. /\ meta[f].selected_parent = selected
        /\ meta[f].blues = blues
        /\ meta[f].blue_score = Cardinality(blues)
        /\ meta[f].accumulated_blue_work
             = saturating_blue_work(Restrict(dag, anc[f] \cup {f}), blues)
    BY <2>4 DEF data_of_blues
  <2>9. saturating_blue_work(Restrict(dag, anc[f] \cup {f}), blues) \in Nat
    <3> DEFINE works == [b \in blues |-> Restrict(dag, anc[f] \cup {f})[b].work]
    <3>1. DOMAIN works = blues /\ \A b \in blues : works[b] \in Nat
      BY <1>2, <1>5, <2>7 DEF Restrict
    <3> HIDE DEF works
    <3>2. SumFunctionOnSet(works, blues) \in Nat
      BY <2>6, <3>1, SumNat
    <3>3. SumFunction(works) \in Nat
      BY <3>1, <3>2 DEF SumFunction
    <3> QED BY <3>3, WorkCapAssumption DEF saturating_blue_work, works
  <2> QED BY <1>7, <2>1, <2>6, <2>7, <2>8, <2>9, <2>10 DEF IsClassified, anc
<1> QED BY <1>6, <1>7

\* Every fruit, by induction on timestamps.
LEMMA AllClassified ==
  ASSUME NEW dag, IsFiniteDag(dag), NEW k
  PROVE  \A f \in DOMAIN dag : IsClassified(dag, ghostdag_metadata(dag, k), f)
<1> DEFINE meta == ghostdag_metadata(dag, k)
           Bad == {n \in Nat : \E f \in DOMAIN dag : dag[f].ts = n /\ ~ IsClassified(dag, meta, f)}
<1>1. \A f \in DOMAIN dag : /\ dag[f].ts \in Nat
                            /\ ancestors(dag)[f] \subseteq DOMAIN dag
                            /\ \A a \in ancestors(dag)[f] : dag[a].ts < dag[f].ts
  BY AncestorsOlder DEF IsFiniteDag, IsDag
<1>2. \A f \in DOMAIN dag : (\A a \in ancestors(dag)[f] : IsClassified(dag, meta, a))
                              => IsClassified(dag, meta, f)
  BY ClassifyOne
<1> HIDE DEF meta
<1>3. Bad = {}
  <2>1. ASSUME Bad # {} PROVE FALSE
    <3>1. PICK n \in Bad : \A m \in Bad : n <= m
      BY <2>1, LeastNat
    <3>2. PICK f \in DOMAIN dag : dag[f].ts = n /\ ~ IsClassified(dag, meta, f)
      BY <3>1
    <3>3. PICK a \in ancestors(dag)[f] : ~ IsClassified(dag, meta, a)
      BY <1>2, <3>2
    <3>4. a \in DOMAIN dag /\ dag[a].ts \in Nat /\ dag[a].ts < n
      BY <1>1, <3>2
    <3>5. dag[a].ts \in Bad
      BY <3>3, <3>4
    <3> QED BY <3>1, <3>4, <3>5
  <2> QED BY <2>1
<1>4. \A f \in DOMAIN dag : IsClassified(dag, meta, f)
  BY <1>1, <1>3
<1> QED BY <1>4 DEF meta

\* Where every fruit has the work 1 and there are no more of them than work can
\* count, a fruit's accumulated work is its score.
LEMMA WorkIsScore ==
  ASSUME NEW dag, IsFiniteDag(dag), NEW k, NEW f \in DOMAIN dag,
         \A g \in DOMAIN dag : dag[g].work = 1, Cardinality(DOMAIN dag) <= WORK_CAP,
         NEW meta, meta = ghostdag_metadata(dag, k)
  PROVE  meta[f].accumulated_blue_work = meta[f].blue_score
<1> DEFINE anc   == ancestors(dag)
           past  == Restrict(meta, anc[f])
           blues == meta[f].blues
<1>1. IsClassified(dag, meta, f)
  BY AllClassified
<1>2. meta[f] = data_from_past(dag, anc, past, k, f)
  BY MetadataOf DEF IsFiniteDag
<1>3. anc[f] \subseteq DOMAIN dag
  BY AncestorsOlder DEF IsFiniteDag
<1>4. IsFiniteSet(blues) /\ blues \subseteq anc[f] \cup {f} /\ meta[f].blue_score = Cardinality(blues)
  BY <1>1 DEF IsClassified
<1> HIDE DEF anc, past
<1>5. CASE dag[f].parents = {}
  BY <1>2, <1>5 DEF data_from_past, root_data
<1>6. CASE dag[f].parents # {}
  <2> DEFINE selected == select_parent(dag[f].parents, past)
             found == blues_of(Restrict(dag, anc[f]), Restrict(anc, anc[f] \cup {f}), past,
                               k, f, selected)
  <2>1. meta[f] = data_of_blues(dag, anc, f, selected, found)
    BY <1>2, <1>6 DEF data_from_past, ghostdag_data
  <2> HIDE DEF selected, found
  <2>2. meta[f].accumulated_blue_work = saturating_blue_work(Restrict(dag, anc[f] \cup {f}), blues)
    BY <2>1 DEF data_of_blues
  <2> HIDE DEF blues
  <2> DEFINE works == [b \in blues |-> Restrict(dag, anc[f] \cup {f})[b].work]
  <2>3. DOMAIN works = blues /\ \A b \in blues : works[b] = 1
    BY <1>3, <1>4 DEF Restrict
  <2> HIDE DEF works
  <2>4. SumFunctionOnSet(works, blues) = 1 * Cardinality(blues) + Cardinality({})
    <3>1. \A b \in blues : works[b] = 1 + (IF b \in {} THEN 1 ELSE 0)
      BY <2>3
    <3>2. {} \in SUBSET blues /\ 1 \in Int
      OBVIOUS
    <3> QED BY <1>4, <3>1, <3>2, SumShares
  <2>5. Cardinality(blues) \in Nat /\ Cardinality(blues) <= WORK_CAP
    <3>1. blues \subseteq DOMAIN dag
      BY <1>3, <1>4
    <3>2. IsFiniteSet(DOMAIN dag)
      BY DEF IsFiniteDag
    <3>3. Cardinality(blues) <= Cardinality(DOMAIN dag) /\ Cardinality(DOMAIN dag) \in Nat
      BY <3>1, <3>2, FS_Subset, FS_CardinalityType
    <3>4. Cardinality(blues) \in Nat
      BY <1>4, FS_CardinalityType
    <3> QED BY <3>3, <3>4, WorkCapAssumption
  <2>6. SumFunction(works) = Cardinality(blues)
    BY <2>3, <2>4, <2>5, FS_EmptySet DEF SumFunction
  <2>7. saturating_blue_work(Restrict(dag, anc[f] \cup {f}), blues) = Cardinality(blues)
    BY <2>5, <2>6, WorkCapAssumption DEF saturating_blue_work, works
  <2> QED BY <1>4, <2>2, <2>7
<1> QED BY <1>5, <1>6

\* Then the selected parent has the highest score of all, and a fruit scores more
\* than each of its ancestors.
LEMMA ScoresGrow ==
  ASSUME NEW dag, IsFiniteDag(dag), NEW k, NEW f \in DOMAIN dag,
         \A g \in DOMAIN dag : dag[g].work = 1, Cardinality(DOMAIN dag) <= WORK_CAP,
         NEW meta, meta = ghostdag_metadata(dag, k)
  PROVE  \A a \in ancestors(dag)[f] : meta[a].blue_score < meta[f].blue_score
<1> DEFINE anc == ancestors(dag)
           Good(g) == \A a \in anc[g] : meta[a].blue_score < meta[g].blue_score
           Bad == {n \in Nat : \E g \in DOMAIN dag : dag[g].ts = n /\ ~ Good(g)}
<1>1. \A g \in DOMAIN dag : IsClassified(dag, meta, g)
  BY AllClassified
<1>2. \A g \in DOMAIN dag : meta[g].accumulated_blue_work = meta[g].blue_score
  BY WorkIsScore
<1>3. \A g \in DOMAIN dag : /\ dag[g].ts \in Nat
                            /\ dag[g].parents \subseteq DOMAIN dag
                            /\ \A p \in dag[g].parents : dag[p].ts < dag[g].ts
                            /\ anc[g] \subseteq DOMAIN dag
                            /\ \A a \in anc[g] : dag[a].ts < dag[g].ts
                            /\ anc[g] = dag[g].parents \cup UNION {anc[p] : p \in dag[g].parents}
  BY AncestorsOlder, AncestorsOf DEF IsFiniteDag, IsDag
<1>4. \A g \in DOMAIN dag : meta[g].blue_score \in Nat
  BY <1>1, FS_CardinalityType DEF IsClassified
<1>5. ASSUME NEW g \in DOMAIN dag, NEW p \in dag[g].parents
      PROVE  meta[p].blue_score < meta[g].blue_score
  <2> DEFINE selected == meta[g].selected_parent
  <2>1. /\ selected \in dag[g].parents
        /\ meta[selected].blues \subseteq meta[g].blues
        /\ meta[p].accumulated_blue_work <= meta[selected].accumulated_blue_work
        /\ g \in meta[g].blues /\ IsFiniteSet(meta[g].blues)
        /\ meta[g].blue_score = Cardinality(meta[g].blues)
    BY <1>1 DEF IsClassified
  <2> HIDE DEF selected
  <2>2. /\ selected \in DOMAIN dag /\ p \in DOMAIN dag
        /\ meta[selected].blues \subseteq anc[selected] \cup {selected}
        /\ meta[selected].blue_score = Cardinality(meta[selected].blues)
    BY <1>1, <1>3, <2>1 DEF IsClassified
  <2>3. g \notin meta[selected].blues
    <3>1. \A b \in meta[selected].blues : b \in DOMAIN dag /\ dag[b].ts < dag[g].ts
      <4> HIDE DEF anc
      <4> QED BY <1>3, <2>1, <2>2
    <3> QED BY <1>3, <3>1
  <2>4. /\ IsFiniteSet(meta[selected].blues)
        /\ Cardinality(meta[selected].blues) < Cardinality(meta[g].blues)
    <3>1. meta[selected].blues # meta[g].blues
      BY <2>1, <2>3
    <3>2. meta[selected].blues \in SUBSET meta[g].blues /\ IsFiniteSet(meta[g].blues)
      BY <2>1
    <3>3. /\ IsFiniteSet(meta[selected].blues)
          /\ Cardinality(meta[selected].blues) <= Cardinality(meta[g].blues)
          /\ Cardinality(meta[g].blues) = Cardinality(meta[selected].blues)
               => meta[g].blues = meta[selected].blues
      BY <3>2, FS_Subset
    <3>4. Cardinality(meta[selected].blues) \in Nat /\ Cardinality(meta[g].blues) \in Nat
      BY <3>2, <3>3, FS_CardinalityType
    <3> QED BY <3>1, <3>3, <3>4
  <2>5. meta[p].blue_score <= meta[selected].blue_score
    BY <1>2, <2>1, <2>2
  <2> QED BY <1>4, <2>1, <2>2, <2>4, <2>5
<1> HIDE DEF anc
<1>6. ASSUME NEW g \in DOMAIN dag, \A p \in dag[g].parents : Good(p) PROVE Good(g)
  <2> SUFFICES ASSUME NEW a \in anc[g] PROVE meta[a].blue_score < meta[g].blue_score
    OBVIOUS
  <2>1. CASE a \in dag[g].parents
    BY <1>5, <2>1
  <2>2. ASSUME NEW p \in dag[g].parents, a \in anc[p]
        PROVE  meta[a].blue_score < meta[g].blue_score
    <3>1. meta[a].blue_score < meta[p].blue_score
      BY <1>6, <2>2
    <3>2. p \in DOMAIN dag /\ a \in DOMAIN dag
      BY <1>3, <2>2
    <3> QED BY <1>4, <1>5, <2>2, <3>1, <3>2
  <2> QED BY <1>3, <2>1, <2>2
<1>7. Bad = {}
  <2> HIDE DEF Good
  <2>1. ASSUME Bad # {} PROVE FALSE
    <3>1. PICK n \in Bad : \A m \in Bad : n <= m
      BY <2>1, LeastNat
    <3>2. PICK g \in DOMAIN dag : dag[g].ts = n /\ ~ Good(g)
      BY <3>1
    <3>3. PICK p \in dag[g].parents : ~ Good(p)
      BY <1>6, <3>2
    <3>4. p \in DOMAIN dag /\ dag[p].ts \in Nat /\ dag[p].ts < n
      BY <1>3, <3>2, <3>3
    <3>5. dag[p].ts \in Bad
      BY <3>3, <3>4
    <3> QED BY <3>1, <3>4, <3>5
  <2> QED BY <2>1
<1>8. Good(f)
  <2> HIDE DEF Good
  <2> QED BY <1>3, <1>7
<1> QED BY <1>8 DEF anc
=============================================================================
