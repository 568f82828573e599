----------------------------- MODULE FoldProofs -----------------------------
(***************************************************************************)
(* Induction without induction schemes, and what it gives for the folds,   *)
(* sums, maxima and rankings of the community modules that the models use. *)
(*                                                                         *)
(* An induction theorem over a predicate cannot be instantiated by the     *)
(* provers; a set can.  So induction on naturals is the least element of   *)
(* a set of counterexamples, and induction on finite sets is membership in *)
(* a set of good subsets.  A fold's recursive function is an instance of   *)
(* IsFold: FoldExists constructs it, and with it an invariant P of its     *)
(* values; FoldsAgree shows it is the only one.                            *)
(***************************************************************************)
EXTENDS Integers, FiniteSets, SequencesExt, FiniteSetTheorems, WellFoundedInduction, TLAPS

\* Every non-empty set of natural numbers has a least element.
LEMMA LeastNat ==
  ASSUME NEW T, T \subseteq Nat, T # {}
  PROVE  \E n \in T : \A m \in T : n <= m
<1>1. PICK n \in T : \A m \in T : ~ (<<m, n>> \in OpToRel(<, Nat))
  BY NatLessThanWellFounded, WFMin
<1>2. \A m \in T : ~ (m < n)
  BY <1>1 DEF OpToRel
<1> QED BY <1>2

\* Induction on the size of a finite set.
LEMMA SubsetInduction ==
  ASSUME NEW S, IsFiniteSet(S), NEW Good,
         \A s \in SUBSET S : (\A x \in s : s \ {x} \in Good) => s \in Good
  PROVE  SUBSET S \subseteq Good
<1> DEFINE Bad == {n \in Nat : \E s \in SUBSET S : Cardinality(s) = n /\ s \notin Good}
<1>1. \A s \in SUBSET S : IsFiniteSet(s) /\ Cardinality(s) \in Nat
  BY FS_Subset, FS_CardinalityType
<1>2. Bad = {}
  <2>1. ASSUME Bad # {} PROVE FALSE
    <3>1. PICK n \in Bad : \A m \in Bad : n <= m
      BY <2>1, LeastNat
    <3>2. PICK s \in SUBSET S : Cardinality(s) = n /\ s \notin Good
      BY <3>1
    <3>3. PICK x \in s : s \ {x} \notin Good
      BY <3>2
    <3>4. Cardinality(s \ {x}) = n - 1
      BY <1>1, <3>2, FS_RemoveElement
    <3>5. s \ {x} \in SUBSET S /\ Cardinality(s \ {x}) \in Nat
      BY <1>1
    <3>6. Cardinality(s \ {x}) \in Bad
      BY <3>3, <3>5
    <3>7. n \in Nat
      BY <3>1
    <3> HIDE DEF Bad
    <3> QED BY <3>1, <3>4, <3>6, <3>7
  <2> QED BY <2>1
<1> QED BY <1>1, <1>2

\* A fold over a set combines one picked element with the fold of the rest.
Picks(pick, S) == \A s \in SUBSET S : s # {} => pick[s] \in s

IsFold(g, base, pick, step, S) ==
  g = [s \in SUBSET S |-> IF s = {} THEN base ELSE step[<<pick[s], g[s \ {pick[s]}]>>]]

\* With values for the rest in P, the step gives values in P.
StaysIn(P, base, pick, step, S) ==
  /\ base \in P[{}]
  /\ \A s \in SUBSET S : s # {} =>
       \A v \in P[s \ {pick[s]}] : step[<<pick[s], v>>] \in P[s]

\* The fold exists, and keeps what its steps keep.
LEMMA FoldExists ==
  ASSUME NEW S, IsFiniteSet(S), NEW P, NEW base, NEW pick, NEW step,
         Picks(pick, S), StaysIn(P, base, pick, step, S)
  PROVE  \E g : IsFold(g, base, pick, step, S) /\ \A s \in SUBSET S : g[s] \in P[s]
<1> DEFINE Below(n) == {s \in SUBSET S : Cardinality(s) < n}
           Value(g, s) == IF s = {} THEN base ELSE step[<<pick[s], g[s \ {pick[s]}]>>]
           Folds(g, T) == g = [s \in T |-> Value(g, s)]
           Reached(n) == \E g : Folds(g, Below(n))
           Fails == {n \in Nat : ~ Reached(n)}
<1>0. \A s \in SUBSET S : /\ IsFiniteSet(s) /\ Cardinality(s) \in Nat
                          /\ Cardinality(s) <= Cardinality(S)
                          /\ \A x \in s : Cardinality(s \ {x}) = Cardinality(s) - 1
  BY FS_Subset, FS_CardinalityType, FS_RemoveElement
<1> USE DEF Picks, StaysIn
<1>1. Reached(0)
  <2> DEFINE g == [s \in {} |-> {}]
  <2>1. Below(0) = {}
    BY <1>0
  <2>2. Folds(g, {})
    OBVIOUS
  <2> HIDE DEF Folds, Below
  <2> QED BY <2>1, <2>2
<1>2. ASSUME NEW n \in Nat, Reached(n) PROVE Reached(n + 1)
  <2>1. PICK g : Folds(g, Below(n))
    BY <1>2
  <2> DEFINE h == [s \in Below(n + 1) |-> Value(g, s)]
  <2>2. \A s \in Below(n + 1) : s # {} => s \ {pick[s]} \in Below(n)
    BY <1>0
  <2>3. \A s \in Below(n) : s \in Below(n + 1) /\ h[s] = g[s]
    <3>1. Below(n) \subseteq Below(n + 1)
      BY <1>0
    <3>2. \A s \in Below(n) : g[s] = Value(g, s)
      <4> HIDE DEF Below, Value
      <4> QED BY <2>1, Zenon
    <3> HIDE DEF Below, Value
    <3> QED BY <3>1, <3>2
  <2>4. \A s \in Below(n + 1) : Value(g, s) = Value(h, s)
    <3> HIDE DEF h, Below
    <3> QED BY <2>2, <2>3
  <2>5. Folds(h, Below(n + 1))
    <3>1. h = [s \in Below(n + 1) |-> Value(g, s)]
      OBVIOUS
    <3> HIDE DEF h, Below, Value
    <3> QED BY <2>4, <3>1
  <2> HIDE DEF Folds, h
  <2> QED BY <2>5
<1>3. Fails = {}
  <2> HIDE DEF Reached
  <2>1. ASSUME Fails # {} PROVE FALSE
    <3>1. PICK n \in Fails : \A m \in Fails : n <= m
      BY <2>1, LeastNat
    <3>2. n # 0 /\ n - 1 \in Nat /\ n - 1 \notin Fails
      BY <3>1, <1>1
    <3> QED BY <3>1, <3>2, <1>2
  <2> QED BY <2>1
<1> DEFINE n == Cardinality(S) + 1
<1>4. n \in Nat /\ Below(n) = SUBSET S
  BY <1>0
<1>5. PICK g : Folds(g, SUBSET S)
  <2>1. Reached(n)
    <3> HIDE DEF Reached, n
    <3> QED BY <1>3, <1>4
  <2> HIDE DEF Folds, Below, n
  <2>2. PICK h : Folds(h, Below(n))
    BY <2>1
  <2> QED BY <1>4, <2>2
<1>6. \A s \in SUBSET S : g[s] = Value(g, s)
  <2> HIDE DEF Value
  <2> QED BY <1>5, Zenon
<1> DEFINE Good == {s \in SUBSET S : g[s] \in P[s]}
<1>7. SUBSET S \subseteq Good
  <2>1. ASSUME NEW s \in SUBSET S, \A x \in s : s \ {x} \in Good PROVE s \in Good
    <3>1. CASE s = {}
      BY <1>6, <3>1
    <3>2. CASE s # {}
      <4>1. pick[s] \in s /\ g[s \ {pick[s]}] \in P[s \ {pick[s]}]
        BY <2>1, <3>2
      <4> QED BY <1>6, <3>2, <4>1
    <3> QED BY <3>1, <3>2
  <2> HIDE DEF Good
  <2> QED BY <2>1, SubsetInduction
<1> QED BY <1>5, <1>7 DEF IsFold

\* Two functions that agree on a set whenever they agree on it without the
\* picked element agree everywhere.
AgreeBySteps(g, h, pick, S) ==
  /\ g[{}] = h[{}]
  /\ \A s \in SUBSET S : s # {} => (g[s \ {pick[s]}] = h[s \ {pick[s]}] => g[s] = h[s])

\* By induction on the size of the set.
LEMMA FoldsAgree ==
  ASSUME NEW S, IsFiniteSet(S), NEW g, NEW h, NEW pick, Picks(pick, S), AgreeBySteps(g, h, pick, S)
  PROVE  \A s \in SUBSET S : g[s] = h[s]
<1> DEFINE Good == {s \in SUBSET S : g[s] = h[s]}
<1>1. ASSUME NEW s \in SUBSET S, \A x \in s : s \ {x} \in Good PROVE s \in Good
  <2>1. CASE s = {}
    BY <2>1 DEF AgreeBySteps
  <2>2. CASE s # {}
    BY <1>1, <2>2 DEF Picks, AgreeBySteps
  <2> QED BY <2>1, <2>2
<1> HIDE DEF Good
<1>2. SUBSET S \subseteq Good
  BY <1>1, SubsetInduction
<1> QED BY <1>2 DEF Good

-----------------------------------------------------------------------------
(* Sums.                                                                   *)

Chosen(s) == CHOOSE x \in s : TRUE

\* What SumFunctionOnSet computes for every subset on its way.
IsSum(g, fun, S) ==
  g = [s \in SUBSET S |-> IF s = {} THEN 0 ELSE fun[Chosen(s)] + g[s \ {Chosen(s)}]]

\* The sum of integers is the last of the partial sums, all of them integers.
LEMMA SumUnfold ==
  ASSUME NEW fun, NEW S, IsFiniteSet(S), \A x \in S : fun[x] \in Int
  PROVE  \E g : /\ IsSum(g, fun, S)
                /\ \A s \in SUBSET S : g[s] \in Int
                /\ SumFunctionOnSet(fun, S) = g[S]
<1> DEFINE pick == [s \in SUBSET S |-> Chosen(s)]
           step == [p \in S \X Int |-> fun[p[1]] + p[2]]
           P    == [s \in SUBSET S |-> Int]
<1>1. \A s \in SUBSET S : s # {} => pick[s] \in s /\ pick[s] = Chosen(s)
  BY DEF Chosen
<1>2. \A s \in SUBSET S : s # {} => \A v \in P[s \ {pick[s]}] :
        /\ step[<<pick[s], v>>] = fun[pick[s]] + v
        /\ step[<<pick[s], v>>] \in P[s]
  <2> SUFFICES ASSUME NEW s \in SUBSET S, s # {}, NEW v \in P[s \ {pick[s]}]
               PROVE  /\ step[<<pick[s], v>>] = fun[pick[s]] + v
                      /\ step[<<pick[s], v>>] \in P[s]
    OBVIOUS
  <2>1. pick[s] \in S /\ s \ {pick[s]} \in SUBSET S
    BY <1>1
  <2>2. v \in Int /\ P[s] = Int
    BY <2>1
  <2> QED BY <2>1, <2>2
<1>3. 0 \in P[{}] /\ \A s \in SUBSET S : P[s] = Int
  OBVIOUS
<1> HIDE DEF pick, step, P
<1>4. PICK g : IsFold(g, 0, pick, step, S) /\ \A s \in SUBSET S : g[s] \in P[s]
  <2>1. Picks(pick, S) /\ StaysIn(P, 0, pick, step, S)
    BY <1>1, <1>2, <1>3 DEF Picks, StaysIn
  <2> QED BY <2>1, FoldExists
<1>5. \A s \in SUBSET S : g[s] \in Int
  BY <1>3, <1>4
<1>6. IsSum(g, fun, S)
  <2>1. \A s \in SUBSET S : s # {} =>
          step[<<pick[s], g[s \ {pick[s]}]>>] = fun[Chosen(s)] + g[s \ {Chosen(s)}]
    <3> SUFFICES ASSUME NEW s \in SUBSET S, s # {}
                 PROVE  step[<<pick[s], g[s \ {pick[s]}]>>] = fun[Chosen(s)] + g[s \ {Chosen(s)}]
      OBVIOUS
    <3>1. pick[s] = Chosen(s) /\ g[s \ {pick[s]}] \in P[s \ {pick[s]}]
      BY <1>1, <1>4
    <3> QED BY <1>2, <3>1
  <2> QED BY <1>4, <2>1 DEF IsSum, IsFold
<1> DEFINE it == CHOOSE h : IsSum(h, fun, S)
<1>7. IsSum(it, fun, S)
  BY <1>6, Zenon
<1>8. SumFunctionOnSet(fun, S) = it[S]
  BY DEF SumFunctionOnSet, FoldFunctionOnSet, MapThenFoldSet, IsSum, Chosen
<1> HIDE DEF it
<1>9. \A s \in SUBSET S : it[s] = g[s]
  <2>1. \A s \in SUBSET S :
          /\ it[s] = IF s = {} THEN 0 ELSE fun[Chosen(s)] + it[s \ {Chosen(s)}]
          /\ g[s] = IF s = {} THEN 0 ELSE fun[Chosen(s)] + g[s \ {Chosen(s)}]
    BY <1>6, <1>7, Zenon DEF IsSum
  <2>2. it[{}] = g[{}]
    BY <2>1
  <2>3. \A s \in SUBSET S : s # {} => (it[s \ {pick[s]}] = g[s \ {pick[s]}] => it[s] = g[s])
    BY <1>1, <2>1
  <2>4. Picks(pick, S)
    BY <1>1 DEF Picks
  <2>5. AgreeBySteps(it, g, pick, S)
    BY <2>2, <2>3 DEF AgreeBySteps
  <2> QED BY <2>4, <2>5, FoldsAgree
<1> QED BY <1>5, <1>6, <1>8, <1>9

\* A sum over a part of a set is what the sum over the set computes for it.
LEMMA SumOfPart ==
  ASSUME NEW fun, NEW S, IsFiniteSet(S), \A x \in S : fun[x] \in Int,
         NEW g, IsSum(g, fun, S), NEW T \in SUBSET S
  PROVE  SumFunctionOnSet(fun, T) = g[T]
<1>1. IsFiniteSet(T) /\ \A x \in T : fun[x] \in Int
  BY FS_Subset
<1>2. PICK h : IsSum(h, fun, T) /\ SumFunctionOnSet(fun, T) = h[T]
  BY <1>1, SumUnfold
<1> DEFINE pick == [s \in SUBSET T |-> Chosen(s)]
<1>3. Picks(pick, T)
  BY DEF Picks, Chosen
<1>4. \A s \in SUBSET T : s \in SUBSET S /\ pick[s] = Chosen(s)
  OBVIOUS
<1> HIDE DEF pick
<1>5. \A s \in SUBSET S : g[s] = IF s = {} THEN 0 ELSE fun[Chosen(s)] + g[s \ {Chosen(s)}]
  BY Zenon DEF IsSum
<1>6. \A s \in SUBSET T : h[s] = IF s = {} THEN 0 ELSE fun[Chosen(s)] + h[s \ {Chosen(s)}]
  BY <1>2, Zenon DEF IsSum
<1>7. g[{}] = h[{}]
  BY <1>5, <1>6
<1>8. \A s \in SUBSET T : s # {} => (g[s \ {pick[s]}] = h[s \ {pick[s]}] => g[s] = h[s])
  <2> SUFFICES ASSUME NEW s \in SUBSET T, s # {}, g[s \ {pick[s]}] = h[s \ {pick[s]}]
               PROVE  g[s] = h[s]
    OBVIOUS
  <2>1. s \in SUBSET S /\ pick[s] = Chosen(s)
    BY <1>4
  <2>2. g[s] = fun[pick[s]] + g[s \ {pick[s]}]
    BY <1>5, <2>1
  <2>3. h[s] = fun[pick[s]] + h[s \ {pick[s]}]
    BY <1>6, <2>1
  <2> QED BY <2>2, <2>3
<1>9. \A s \in SUBSET T : g[s] = h[s]
  <2>1. AgreeBySteps(g, h, pick, T)
    BY <1>7, <1>8 DEF AgreeBySteps
  <2> QED BY <1>1, <1>3, <2>1, FoldsAgree
<1> QED BY <1>2, <1>9

\* The order in which a sum takes its terms does not matter.
LEMMA SumAdd ==
  ASSUME NEW fun, NEW S, IsFiniteSet(S), \A x \in S : fun[x] \in Int, NEW x \in S
  PROVE  /\ SumFunctionOnSet(fun, S) \in Int
         /\ SumFunctionOnSet(fun, S \ {x}) \in Int
         /\ SumFunctionOnSet(fun, S) = fun[x] + SumFunctionOnSet(fun, S \ {x})
<1>1. PICK g : /\ IsSum(g, fun, S)
               /\ \A s \in SUBSET S : g[s] \in Int
  BY SumUnfold
<1>2. \A s \in SUBSET S : SumFunctionOnSet(fun, s) = g[s]
  BY <1>1, SumOfPart
<1>3. \A s \in SUBSET S : s # {} => /\ Chosen(s) \in s
                                    /\ g[s] = fun[Chosen(s)] + g[s \ {Chosen(s)}]
  <2>1. \A s \in SUBSET S : g[s] = IF s = {} THEN 0 ELSE fun[Chosen(s)] + g[s \ {Chosen(s)}]
    BY <1>1, Zenon DEF IsSum
  <2> QED BY <2>1 DEF Chosen
<1> DEFINE Good == {s \in SUBSET S : \A y \in s : g[s] = fun[y] + g[s \ {y}]}
<1>4. ASSUME NEW s \in SUBSET S, \A y \in s : s \ {y} \in Good PROVE s \in Good
  <2> SUFFICES ASSUME NEW y \in s PROVE g[s] = fun[y] + g[s \ {y}]
    OBVIOUS
  <2> DEFINE c == Chosen(s)
  <2>1. c \in s /\ g[s] = fun[c] + g[s \ {c}]
    BY <1>3
  <2> HIDE DEF c
  <2>2. CASE y = c
    BY <2>1, <2>2
  <2>3. CASE y # c
    <3>1. g[s \ {c}] = fun[y] + g[(s \ {c}) \ {y}]
      BY <1>4, <2>1, <2>3
    <3>2. g[s \ {y}] = fun[c] + g[(s \ {y}) \ {c}]
      BY <1>4, <2>1, <2>3
    <3>3. (s \ {c}) \ {y} = (s \ {y}) \ {c} /\ (s \ {c}) \ {y} \in SUBSET S
      OBVIOUS
    <3>4. fun[y] \in Int /\ fun[c] \in Int /\ g[(s \ {c}) \ {y}] \in Int
      BY <1>1, <2>1, <3>3
    <3>5. \A a, b, r \in Int : a + (b + r) = b + (a + r)
      OBVIOUS
    <3>6. g[s \ {y}] = fun[c] + g[(s \ {c}) \ {y}]
      BY <3>2, <3>3
    <3> DEFINE r == g[(s \ {c}) \ {y}]
    <3>7. r \in Int /\ g[s] = fun[c] + (fun[y] + r) /\ fun[y] + g[s \ {y}] = fun[y] + (fun[c] + r)
      BY <2>1, <3>1, <3>4, <3>6, Zenon
    <3> HIDE DEF r
    <3> QED BY <3>4, <3>5, <3>7
  <2> QED BY <2>2, <2>3
<1>5. SUBSET S \subseteq Good
  <2> HIDE DEF Good
  <2> QED BY <1>4, SubsetInduction
<1>6. g[S] = fun[x] + g[S \ {x}]
  BY <1>5
<1> QED BY <1>1, <1>2, <1>6

\* Nothing sums to zero.
LEMMA SumEmpty == \A fun : SumFunctionOnSet(fun, {}) = 0
<1> SUFFICES ASSUME NEW fun PROVE SumFunctionOnSet(fun, {}) = 0
  OBVIOUS
<1>1. PICK g : IsSum(g, fun, {}) /\ SumFunctionOnSet(fun, {}) = g[{}]
  BY SumUnfold, FS_EmptySet
<1>2. g[{}] = IF {} = {} THEN 0 ELSE fun[Chosen({})] + g[{} \ {Chosen({})}]
  BY <1>1, Zenon DEF IsSum
<1> QED BY <1>1, <1>2

\* Integers sum to an integer.
LEMMA SumInt ==
  ASSUME NEW S, IsFiniteSet(S), NEW fun, \A x \in S : fun[x] \in Int
  PROVE  SumFunctionOnSet(fun, S) \in Int
<1>1. PICK g : (\A s \in SUBSET S : g[s] \in Int) /\ SumFunctionOnSet(fun, S) = g[S]
  BY SumUnfold
<1> QED BY <1>1

\* Terms may be taken in any order from every part of a set.
LEMMA SumSteps ==
  ASSUME NEW S, IsFiniteSet(S), NEW fun, \A x \in S : fun[x] \in Int
  PROVE  \A s \in SUBSET S :
           /\ IsFiniteSet(s) /\ SumFunctionOnSet(fun, s) \in Int
           /\ \A x \in s : SumFunctionOnSet(fun, s) = fun[x] + SumFunctionOnSet(fun, s \ {x})
<1> SUFFICES ASSUME NEW s \in SUBSET S
             PROVE  /\ IsFiniteSet(s) /\ SumFunctionOnSet(fun, s) \in Int
                    /\ \A x \in s :
                         SumFunctionOnSet(fun, s) = fun[x] + SumFunctionOnSet(fun, s \ {x})
  OBVIOUS
<1>1. IsFiniteSet(s) /\ \A x \in s : fun[x] \in Int
  BY FS_Subset
<1> QED BY <1>1, SumInt, SumAdd

\* Sums of natural numbers are natural numbers; larger terms, larger sums.
LEMMA SumMonotone ==
  ASSUME NEW S, IsFiniteSet(S), NEW low, NEW high,
         \A x \in S : low[x] \in Int /\ high[x] \in Int /\ low[x] <= high[x]
  PROVE  SumFunctionOnSet(low, S) <= SumFunctionOnSet(high, S)
<1> DEFINE Good == {s \in SUBSET S : SumFunctionOnSet(low, s) <= SumFunctionOnSet(high, s)}
           Steps(fun) == \A s \in SUBSET S :
             /\ SumFunctionOnSet(fun, s) \in Int
             /\ \A x \in s : SumFunctionOnSet(fun, s) = fun[x] + SumFunctionOnSet(fun, s \ {x})
<1>0. Steps(low) /\ Steps(high)
  BY SumSteps
<1>1. ASSUME NEW s \in SUBSET S, \A x \in s : s \ {x} \in Good PROVE s \in Good
  <2>1. CASE s = {}
    BY <2>1, SumEmpty
  <2>2. ASSUME NEW x \in s PROVE s \in Good
    <3>2. SumFunctionOnSet(low, s) = low[x] + SumFunctionOnSet(low, s \ {x})
          /\ SumFunctionOnSet(low, s \ {x}) \in Int
      BY <1>0
    <3>3. SumFunctionOnSet(high, s) = high[x] + SumFunctionOnSet(high, s \ {x})
          /\ SumFunctionOnSet(high, s \ {x}) \in Int
      BY <1>0
    <3>4. SumFunctionOnSet(low, s \ {x}) <= SumFunctionOnSet(high, s \ {x})
      BY <1>1
    <3>5. low[x] \in Int /\ high[x] \in Int /\ low[x] <= high[x]
      OBVIOUS
    <3> QED BY <3>2, <3>3, <3>4, <3>5
  <2> QED BY <2>1, <2>2
<1> HIDE DEF Good
<1>2. SUBSET S \subseteq Good
  BY <1>1, SubsetInduction
<1> QED BY <1>2 DEF Good

\* and natural numbers to a natural number.
LEMMA SumNat ==
  ASSUME NEW S, IsFiniteSet(S), NEW fun, \A x \in S : fun[x] \in Nat
  PROVE  SumFunctionOnSet(fun, S) \in Nat
<1> DEFINE Good == {s \in SUBSET S : SumFunctionOnSet(fun, s) \in Nat}
<1>1. ASSUME NEW s \in SUBSET S, \A x \in s : s \ {x} \in Good PROVE s \in Good
  <2>1. CASE s = {}
    BY <2>1, SumEmpty
  <2>2. ASSUME NEW x \in s PROVE s \in Good
    <3>1. IsFiniteSet(s) /\ \A y \in s : fun[y] \in Int
      BY FS_Subset
    <3>2. SumFunctionOnSet(fun, s) = fun[x] + SumFunctionOnSet(fun, s \ {x})
      BY <3>1, SumAdd
    <3>3. SumFunctionOnSet(fun, s \ {x}) \in Nat /\ fun[x] \in Nat
      BY <1>1
    <3> QED BY <3>2, <3>3
  <2> QED BY <2>1, <2>2
<1> HIDE DEF Good
<1>2. SUBSET S \subseteq Good
  BY <1>1, SubsetInduction
<1> QED BY <1>2 DEF Good

\* Terms that agree, sums that agree.
LEMMA SumSame ==
  ASSUME NEW S, IsFiniteSet(S), NEW f, NEW g, \A x \in S : f[x] \in Int /\ f[x] = g[x]
  PROVE  SumFunctionOnSet(f, S) = SumFunctionOnSet(g, S)
<1>1. SumFunctionOnSet(f, S) <= SumFunctionOnSet(g, S)
  BY SumMonotone
<1>2. SumFunctionOnSet(g, S) <= SumFunctionOnSet(f, S)
  BY SumMonotone
<1>3. SumFunctionOnSet(f, S) \in Int /\ SumFunctionOnSet(g, S) \in Int
  BY SumInt
<1> QED BY <1>1, <1>2, <1>3

\* A sum is that over a part and that over the rest.
LEMMA SumSplit ==
  ASSUME NEW S, IsFiniteSet(S), NEW fun, \A x \in S : fun[x] \in Int, NEW T \in SUBSET S
  PROVE  /\ SumFunctionOnSet(fun, S) = SumFunctionOnSet(fun, T) + SumFunctionOnSet(fun, S \ T)
         /\ SumFunctionOnSet(fun, T) \in Int /\ SumFunctionOnSet(fun, S \ T) \in Int
<1> DEFINE Sum(s) == SumFunctionOnSet(fun, s)
           R == S \ T
           Good == {s \in SUBSET T : Sum(R \cup s) = Sum(s) + Sum(R)}
<1>1. \A s \in SUBSET S : /\ IsFiniteSet(s) /\ Sum(s) \in Int
                          /\ \A x \in s : Sum(s) = fun[x] + Sum(s \ {x})
  BY SumSteps
<1>2. Sum({}) = 0
  BY SumEmpty
<1> HIDE DEF Sum
<1>3. ASSUME NEW s \in SUBSET T, \A x \in s : s \ {x} \in Good PROVE s \in Good
  <2>1. CASE s = {}
    <3>1. R \cup s = R /\ R \in SUBSET S
      BY <2>1
    <3> QED BY <1>1, <1>2, <2>1, <3>1
  <2>2. ASSUME NEW x \in s PROVE s \in Good
    <3>1. R \cup s \in SUBSET S /\ s \in SUBSET S /\ R \in SUBSET S /\ x \in R \cup s
      OBVIOUS
    <3>2. (R \cup s) \ {x} = R \cup (s \ {x})
      OBVIOUS
    <3>3. Sum(R \cup s) = fun[x] + Sum(R \cup (s \ {x})) /\ Sum(s) = fun[x] + Sum(s \ {x})
      BY <1>1, <3>1, <3>2
    <3>4. Sum(R \cup (s \ {x})) = Sum(s \ {x}) + Sum(R)
      BY <1>3
    <3>5. Sum(R) \in Int /\ Sum(s \ {x}) \in Int /\ fun[x] \in Int
      BY <1>1, <3>1
    <3>6. Sum(R \cup s) = Sum(s) + Sum(R)
      BY <3>3, <3>4, <3>5
    <3> QED BY <3>6
  <2> QED BY <2>1, <2>2
<1>4. T \in Good
  <2>1. IsFiniteSet(T)
    BY <1>1
  <2> HIDE DEF Good
  <2> QED BY <1>3, <2>1, SubsetInduction
<1>5. R \cup T = S
  OBVIOUS
<1> QED BY <1>1, <1>4, <1>5 DEF Sum

\* Terms may be counted under other names.
LEMMA SumRenamed ==
  ASSUME NEW S, IsFiniteSet(S), NEW fun, NEW name, NEW named,
         \A x \in S : named[x] \in Int /\ fun[name[x]] = named[x],
         \A x, y \in S : name[x] = name[y] => x = y
  PROVE  /\ IsFiniteSet({name[x] : x \in S})
         /\ SumFunctionOnSet(fun, {name[x] : x \in S}) = SumFunctionOnSet(named, S)
<1> DEFINE Names(s) == {name[x] : x \in s}
           Good == {s \in SUBSET S : /\ IsFiniteSet(Names(s))
                                     /\ SumFunctionOnSet(fun, Names(s)) = SumFunctionOnSet(named, s)}
<1>1. ASSUME NEW s \in SUBSET S, \A x \in s : s \ {x} \in Good PROVE s \in Good
  <2>1. CASE s = {}
    <3>1. Names(s) = {}
      BY <2>1
    <3> HIDE DEF Names
    <3> QED BY <2>1, <3>1, SumEmpty, FS_EmptySet
  <2>2. ASSUME NEW x \in s PROVE s \in Good
    <3>1. Names(s) = Names(s \ {x}) \cup {name[x]} /\ Names(s) \ {name[x]} = Names(s \ {x})
      OBVIOUS
    <3>2. \A y \in Names(s) : fun[y] \in Int
      OBVIOUS
    <3>3. name[x] \in Names(s) /\ fun[name[x]] = named[x]
      OBVIOUS
    <3>4. IsFiniteSet(Names(s \ {x}))
          /\ SumFunctionOnSet(fun, Names(s \ {x})) = SumFunctionOnSet(named, s \ {x})
      BY <1>1
    <3> HIDE DEF Names
    <3>5. IsFiniteSet(Names(s))
      <4>1. IsFiniteSet(Names(s \ {x}) \cup {name[x]})
        BY <3>4, FS_AddElement
      <4> QED BY <3>1, <4>1
    <3>6. SumFunctionOnSet(fun, Names(s)) = fun[name[x]] + SumFunctionOnSet(fun, Names(s) \ {name[x]})
      BY <3>2, <3>3, <3>5, SumAdd
    <3>7. SumFunctionOnSet(named, s) = named[x] + SumFunctionOnSet(named, s \ {x})
      <4>1. IsFiniteSet(s) /\ \A y \in s : named[y] \in Int
        BY FS_Subset
      <4> QED BY <4>1, SumAdd
    <3> QED BY <3>1, <3>3, <3>4, <3>5, <3>6, <3>7
  <2> QED BY <2>1, <2>2
<1> HIDE DEF Good
<1>2. S \in Good
  BY <1>1, SubsetInduction
<1> QED BY <1>2 DEF Good

\* Disjoint finite sets of terms, with their sums.
IsSplit(I, part, fun, total) ==
  /\ IsFiniteSet(I)
  /\ \A i \in I : /\ IsFiniteSet(part[i])
                  /\ \A x \in part[i] : fun[x] \in Int
                  /\ total[i] = SumFunctionOnSet(fun, part[i])
  /\ \A i, j \in I : i # j => part[i] \cap part[j] = {}

\* The sum over a family of disjoint sets, set by set.
LEMMA SumByParts ==
  ASSUME NEW I, NEW part, NEW fun, NEW total, IsSplit(I, part, fun, total)
  PROVE  /\ IsFiniteSet(UNION {part[i] : i \in I})
         /\ SumFunctionOnSet(fun, UNION {part[i] : i \in I}) = SumFunctionOnSet(total, I)
<1> USE DEF IsSplit
<1> DEFINE All(s) == UNION {part[i] : i \in s}
           Good == {s \in SUBSET I : /\ IsFiniteSet(All(s))
                                     /\ SumFunctionOnSet(fun, All(s)) = SumFunctionOnSet(total, s)}
<1>1. ASSUME NEW s \in SUBSET I, \A i \in s : s \ {i} \in Good PROVE s \in Good
  <2>1. CASE s = {}
    <3>1. All(s) = {}
      BY <2>1
    <3> HIDE DEF All
    <3> QED BY <2>1, <3>1, SumEmpty, FS_EmptySet
  <2>2. ASSUME NEW i \in s PROVE s \in Good
    <3>1. All(s) = All(s \ {i}) \cup part[i] /\ All(s) \ part[i] = All(s \ {i})
      OBVIOUS
    <3>2. \A x \in All(s) : fun[x] \in Int
      OBVIOUS
    <3>3. IsFiniteSet(All(s \ {i}))
          /\ SumFunctionOnSet(fun, All(s \ {i})) = SumFunctionOnSet(total, s \ {i})
      BY <1>1
    <3>4. part[i] \in SUBSET All(s) /\ IsFiniteSet(part[i])
      OBVIOUS
    <3>5. total[i] = SumFunctionOnSet(fun, part[i]) /\ \A j \in s : total[j] \in Int
      <4>1. \A j \in I : SumFunctionOnSet(fun, part[j]) \in Int
        BY SumInt
      <4> QED BY <4>1
    <3> HIDE DEF All
    <3>6. IsFiniteSet(All(s))
      <4>1. IsFiniteSet(All(s \ {i}) \cup part[i])
        BY <3>3, <3>4, FS_Union
      <4> QED BY <3>1, <4>1
    <3>7. SumFunctionOnSet(fun, All(s)) = SumFunctionOnSet(fun, part[i]) + SumFunctionOnSet(fun, All(s) \ part[i])
      BY <3>2, <3>4, <3>6, SumSplit
    <3>8. SumFunctionOnSet(total, s) = total[i] + SumFunctionOnSet(total, s \ {i})
      <4>1. IsFiniteSet(s)
        BY FS_Subset
      <4> QED BY <3>5, <4>1, SumAdd
    <3> QED BY <3>1, <3>3, <3>5, <3>6, <3>7, <3>8
  <2> QED BY <2>1, <2>2
<1> HIDE DEF Good
<1>2. I \in Good
  BY <1>1, SubsetInduction
<1> QED BY <1>2 DEF Good

\* Terms that are the sums of the terms of two other sums.
AddUp(f, g, h, S) == \A x \in S : f[x] \in Int /\ g[x] \in Int /\ h[x] = f[x] + g[x]

\* Sums add term by term.
LEMMA SumOfSums ==
  ASSUME NEW S, IsFiniteSet(S), NEW f, NEW g, NEW h, AddUp(f, g, h, S)
  PROVE  SumFunctionOnSet(h, S) = SumFunctionOnSet(f, S) + SumFunctionOnSet(g, S)
<1>1. /\ \A x \in S : f[x] \in Int
      /\ \A x \in S : g[x] \in Int
      /\ \A x \in S : h[x] \in Int
  BY DEF AddUp
<1> DEFINE F(s) == SumFunctionOnSet(f, s)
           G(s) == SumFunctionOnSet(g, s)
           H(s) == SumFunctionOnSet(h, s)
<1>2. \A s \in SUBSET S : F(s) \in Int /\ \A x \in s : F(s) = f[x] + F(s \ {x})
  BY <1>1, SumSteps
<1>3. \A s \in SUBSET S : G(s) \in Int /\ \A x \in s : G(s) = g[x] + G(s \ {x})
  BY <1>1, SumSteps
<1>4. \A s \in SUBSET S : H(s) \in Int /\ \A x \in s : H(s) = h[x] + H(s \ {x})
  BY <1>1, SumSteps
<1>5. F({}) = 0 /\ G({}) = 0 /\ H({}) = 0
  BY SumEmpty
<1> HIDE DEF F, G, H
<1> DEFINE Good == {s \in SUBSET S : H(s) = F(s) + G(s)}
<1>6. ASSUME NEW s \in SUBSET S, \A x \in s : s \ {x} \in Good PROVE s \in Good
  <2>1. CASE s = {}
    BY <1>5, <2>1
  <2>2. ASSUME NEW x \in s PROVE s \in Good
    <3>1. F(s) = f[x] + F(s \ {x}) /\ G(s) = g[x] + G(s \ {x}) /\ H(s) = h[x] + H(s \ {x})
      BY <1>2, <1>3, <1>4
    <3>2. F(s \ {x}) \in Int /\ G(s \ {x}) \in Int
      BY <1>2, <1>3
    <3>3. H(s \ {x}) = F(s \ {x}) + G(s \ {x})
      BY <1>6
    <3>4. f[x] \in Int /\ g[x] \in Int /\ h[x] = f[x] + g[x]
      BY DEF AddUp
    <3>5. H(s) = F(s) + G(s)
      BY <3>1, <3>2, <3>3, <3>4
    <3> QED BY <3>5
  <2> QED BY <2>1, <2>2
<1> HIDE DEF Good
<1>7. S \in Good
  BY <1>6, SubsetInduction
<1> QED BY <1>7 DEF Good, F, G, H

\* Nothing but zeros.
LEMMA SumZero ==
  ASSUME NEW S, IsFiniteSet(S), NEW fun, \A x \in S : fun[x] = 0
  PROVE  SumFunctionOnSet(fun, S) = 0
<1> DEFINE Good == {s \in SUBSET S : SumFunctionOnSet(fun, s) = 0}
<1>1. \A s \in SUBSET S : /\ SumFunctionOnSet(fun, s) \in Int
                          /\ \A x \in s : SumFunctionOnSet(fun, s) = fun[x] + SumFunctionOnSet(fun, s \ {x})
  BY SumSteps
<1>2. ASSUME NEW s \in SUBSET S, \A x \in s : s \ {x} \in Good PROVE s \in Good
  <2>1. CASE s = {}
    BY <2>1, SumEmpty
  <2>2. ASSUME NEW x \in s PROVE s \in Good
    <3>1. SumFunctionOnSet(fun, s \ {x}) = 0 /\ fun[x] = 0
      BY <1>2
    <3>2. SumFunctionOnSet(fun, s) = 0
      BY <1>1, <3>1
    <3> QED BY <3>2
  <2> QED BY <2>1, <2>2
<1> HIDE DEF Good
<1>3. S \in Good
  BY <1>2, SubsetInduction
<1> QED BY <1>3 DEF Good

\* Equal shares, and one more for some.
LEMMA SumShares ==
  ASSUME NEW S, IsFiniteSet(S), NEW T \in SUBSET S, NEW q \in Int, NEW share,
         \A x \in S : share[x] = q + (IF x \in T THEN 1 ELSE 0)
  PROVE  SumFunctionOnSet(share, S) = q * Cardinality(S) + Cardinality(T)
<1> DEFINE Good == {s \in SUBSET S :
                      SumFunctionOnSet(share, s) = q * Cardinality(s) + Cardinality(T \cap s)}
<1>1. ASSUME NEW s \in SUBSET S, \A x \in s : s \ {x} \in Good PROVE s \in Good
  <2>1. CASE s = {}
    <3>1. T \cap s = {}
      BY <2>1
    <3> QED BY <2>1, <3>1, SumEmpty, FS_EmptySet
  <2>2. ASSUME NEW x \in s PROVE s \in Good
    <3>1. IsFiniteSet(s) /\ IsFiniteSet(T \cap s) /\ \A y \in s : share[y] \in Int
      BY FS_Subset
    <3>2. SumFunctionOnSet(share, s) = share[x] + SumFunctionOnSet(share, s \ {x})
      BY <3>1, SumAdd
    <3>3. SumFunctionOnSet(share, s \ {x}) = q * Cardinality(s \ {x}) + Cardinality(T \cap (s \ {x}))
      BY <1>1
    <3>4. Cardinality(s) \in Nat /\ Cardinality(T \cap s) \in Nat
          /\ Cardinality(s \ {x}) = Cardinality(s) - 1
      BY <3>1, FS_CardinalityType, FS_RemoveElement
    <3>5. Cardinality(T \cap (s \ {x})) = Cardinality(T \cap s) - (IF x \in T THEN 1 ELSE 0)
      <4>1. T \cap (s \ {x}) = (T \cap s) \ {x}
        OBVIOUS
      <4>2. Cardinality((T \cap s) \ {x}) = IF x \in T \cap s THEN Cardinality(T \cap s) - 1
                                          ELSE Cardinality(T \cap s)
        BY <3>1, FS_RemoveElement
      <4>3. x \in T \cap s <=> x \in T
        OBVIOUS
      <4>4. Cardinality(T \cap (s \ {x})) = IF x \in T THEN Cardinality(T \cap s) - 1
                                           ELSE Cardinality(T \cap s)
        BY <4>1, <4>2, <4>3, Zenon
      <4> QED BY <3>4, <4>4
    <3>6. share[x] = q + (IF x \in T THEN 1 ELSE 0)
      OBVIOUS
    <3>7. \A c \in Int : q * (c - 1) = q * c - q
      OBVIOUS
    <3>8. q * Cardinality(s \ {x}) = q * Cardinality(s) - q /\ q * Cardinality(s) \in Int
      BY <3>4, <3>7
    <3>9. SumFunctionOnSet(share, s) = q * Cardinality(s) + Cardinality(T \cap s)
      BY <3>2, <3>3, <3>4, <3>5, <3>6, <3>8
    <3> QED BY <3>9
  <2> QED BY <2>1, <2>2
<1> HIDE DEF Good
<1>2. S \in Good
  BY <1>1, SubsetInduction
<1>3. T \cap S = T
  OBVIOUS
<1> QED BY <1>2, <1>3 DEF Good

-----------------------------------------------------------------------------
(* Sequences.                                                              *)

\* A bounded, non-empty set of natural numbers has a greatest element.
LEMMA MaxInSet ==
  ASSUME NEW T, T \subseteq Nat, T # {}, NEW n \in Nat, \A x \in T : x <= n
  PROVE  Max(T) \in T /\ \A x \in T : x <= Max(T)
<1> DEFINE Bounds == {b \in Nat : \A x \in T : x <= b}
<1>1. PICK b \in Bounds : \A c \in Bounds : b <= c
  <2>1. n \in Bounds
    OBVIOUS
  <2> QED BY <2>1, LeastNat
<1>2. b \in T
  <2>1. CASE b = 0
    <3>1. PICK x \in T : TRUE
      OBVIOUS
    <3>2. x \in Nat /\ x <= 0
      BY <1>1, <2>1, <3>1
    <3> QED BY <2>1, <3>1, <3>2
  <2>2. ASSUME b # 0, b \notin T PROVE FALSE
    <3>1. b - 1 \in Bounds
      BY <1>1, <2>2
    <3> QED BY <1>1, <3>1
  <2> QED BY <2>1, <2>2
<1>3. \E m \in T : \A x \in T : m >= x
  BY <1>1, <1>2
<1>4. Max(T) \in T /\ \A x \in T : Max(T) >= x
  <2> DEFINE Top(m) == m \in T /\ \A x \in T : m >= x
  <2>1. \E m : Top(m)
    BY <1>3
  <2>2. Top(CHOOSE m : Top(m))
    <3> HIDE DEF Top
    <3> QED BY <2>1, Zenon
  <2>3. Max(T) = CHOOSE m : Top(m)
    BY DEF Max
  <2> HIDE DEF Top
  <2>4. Top(Max(T))
    BY <2>2, <2>3
  <2> QED BY <2>4 DEF Top
<1> QED BY <1>4

\* FoldLeft takes the last element first, and what comes before it next.
IsSeqFold(g, base, step, n) ==
  g = [s \in SUBSET (1..n) |-> IF s = {} THEN base ELSE step[<<Max(s), g[s \ {Max(s)}]>>]]

\* Such a fold exists, and keeps what its steps keep.
LEMMA SeqFoldExists ==
  ASSUME NEW n \in Nat, NEW All, NEW P, NEW base, NEW step,
         base \in All, base \in P[0],
         \A i \in 1..n : \A v \in All :
           step[<<i, v>>] \in All /\ (v \in P[i - 1] => step[<<i, v>>] \in P[i])
  PROVE  \E g : /\ IsSeqFold(g, base, step, n)
                /\ \A s \in SUBSET (1..n) : g[s] \in All
                /\ g[1..n] \in P[n]
<1> DEFINE S    == 1..n
           pick == [s \in SUBSET S |-> Max(s)]
           Q    == [s \in SUBSET S |-> {v \in All : \A m \in 0..n : s = 1..m => v \in P[m]}]
<1>1. IsFiniteSet(S)
  BY FS_Interval
<1>2. \A s \in SUBSET S : s # {} => /\ pick[s] \in s /\ pick[s] = Max(s)
                                    /\ \A x \in s : x <= pick[s]
  <2> SUFFICES ASSUME NEW s \in SUBSET S, s # {} PROVE Max(s) \in s /\ \A x \in s : x <= Max(s)
    OBVIOUS
  <2>1. s \subseteq Nat /\ \A x \in s : x <= n
    OBVIOUS
  <2> QED BY <2>1, MaxInSet
<1>3. \A s \in SUBSET S : \A v : v \in Q[s] <=> v \in All /\ \A m \in 0..n : s = 1..m => v \in P[m]
  OBVIOUS
<1> HIDE DEF pick, Q
<1>4. Picks(pick, S)
  BY <1>2 DEF Picks
<1>5. StaysIn(Q, base, pick, step, S)
  <2>1. base \in Q[{}]
    <3>1. \A m \in 0..n : {} = 1..m => m = 0
      OBVIOUS
    <3> QED BY <1>3, <3>1
  <2>2. ASSUME NEW s \in SUBSET S, s # {}, NEW v \in Q[s \ {pick[s]}]
        PROVE  step[<<pick[s], v>>] \in Q[s]
    <3>1. s \ {pick[s]} \in SUBSET S /\ pick[s] \in S
      BY <1>2, <2>2
    <3>2. v \in All /\ \A m \in 0..n : s \ {pick[s]} = 1..m => v \in P[m]
      BY <1>3, <2>2, <3>1
    <3>3. ASSUME NEW m \in 0..n, s = 1..m PROVE step[<<pick[s], v>>] \in P[m]
      <4>1. m \in 1..n /\ m \in s
        BY <2>2, <3>3
      <4>2. pick[s] = m
        <5>1. pick[s] \in s /\ m <= pick[s]
          BY <1>2, <2>2, <4>1
        <5>2. pick[s] \in 1..m
          BY <3>3, <5>1
        <5> QED BY <4>1, <5>1, <5>2
      <4>3. s \ {pick[s]} = 1..(m - 1) /\ m - 1 \in 0..n
        BY <3>3, <4>1, <4>2
      <4> QED BY <3>2, <4>1, <4>2, <4>3
    <3> QED BY <1>3, <3>1, <3>2, <3>3
  <2> QED BY <2>1, <2>2 DEF StaysIn
<1>6. PICK g : IsFold(g, base, pick, step, S) /\ \A s \in SUBSET S : g[s] \in Q[s]
  BY <1>1, <1>4, <1>5, FoldExists
<1>7. \A s \in SUBSET S : s # {} => step[<<pick[s], g[s \ {pick[s]}]>>] = step[<<Max(s), g[s \ {Max(s)}]>>]
  BY <1>2
<1>8. g = [s \in SUBSET S |-> IF s = {} THEN base ELSE step[<<Max(s), g[s \ {Max(s)}]>>]]
  BY <1>6, <1>7 DEF IsFold
<1>9. \A s \in SUBSET S : g[s] \in All
  BY <1>3, <1>6
<1>10. g[S] \in P[n]
  <2>1. S \in SUBSET S /\ n \in 0..n
    OBVIOUS
  <2> QED BY <1>3, <1>6, <2>1
<1> QED BY <1>8, <1>9, <1>10 DEF IsSeqFold

\* Two functions that satisfy a fold's equation agree on the whole sequence.
LEMMA SeqFoldsAgree ==
  ASSUME NEW n \in Nat, NEW g, NEW h, g[{}] = h[{}],
         \A s \in SUBSET (1..n) : s # {} => (g[s \ {Max(s)}] = h[s \ {Max(s)}] => g[s] = h[s])
  PROVE  g[1..n] = h[1..n]
<1> DEFINE S    == 1..n
           pick == [s \in SUBSET S |-> Max(s)]
<1>1. IsFiniteSet(S)
  BY FS_Interval
<1>2. Picks(pick, S)
  <2> SUFFICES ASSUME NEW s \in SUBSET S, s # {} PROVE Max(s) \in s
    BY DEF Picks
  <2>1. s \subseteq Nat /\ \A x \in s : x <= n
    OBVIOUS
  <2> QED BY <2>1, MaxInSet
<1>3. AgreeBySteps(g, h, pick, S)
  BY DEF AgreeBySteps
<1> HIDE DEF pick, S
<1>4. \A s \in SUBSET S : g[s] = h[s]
  BY <1>1, <1>2, <1>3, FoldsAgree
<1>5. S \in SUBSET S
  OBVIOUS
<1> QED BY <1>4, <1>5 DEF S

\* The sequence of a finite set holds as many elements as the set.
LEMMA SetToSeqLen ==
  ASSUME NEW S, IsFiniteSet(S)
  PROVE  /\ SetToSeq(S) \in [1..Cardinality(S) -> S]
         /\ Len(SetToSeq(S)) = Cardinality(S)
         /\ Cardinality(S) \in Nat
         /\ IsInjective(SetToSeq(S))
<1> DEFINE n == Cardinality(S)
<1>1. n \in Nat /\ ExistsBijection(1..n, S)
  BY FS_CardinalityType
<1>2. PICK f \in [1..n -> S] : IsInjective(f)
  BY <1>1 DEF ExistsBijection, Bijection, Injection, IsInjective
<1>3. SetToSeq(S) \in [1..n -> S] /\ IsInjective(SetToSeq(S))
  <2> HIDE DEF n
  <2> DEFINE q == CHOOSE g \in [1..n -> S] : IsInjective(g)
  <2>1. q \in [1..n -> S] /\ IsInjective(q)
    BY <1>2, Zenon
  <2> QED BY <2>1 DEF SetToSeq, n
<1>4. Len(SetToSeq(S)) = n
  BY <1>1, <1>3
<1> QED BY <1>1, <1>3, <1>4

\* A strict total order on a set, as the set of its pairs.
IsStrictOrder(R, S) ==
  /\ \A x \in S : <<x, x>> \notin R
  /\ \A x, y, z \in S : <<x, y>> \in R /\ <<y, z>> \in R => <<x, z>> \in R
  /\ \A x, y \in S : x = y \/ <<x, y>> \in R \/ <<y, x>> \in R

\* How many elements come before x.
RankIn(S, R, x) == Cardinality({y \in S : <<y, x>> \in R})

\* In a finite total order every rank is taken, once.
LEMMA RanksFill ==
  ASSUME NEW S, IsFiniteSet(S), NEW R, IsStrictOrder(R, S)
  PROVE  /\ \A i \in 1..Cardinality(S) : \E x \in S : RankIn(S, R, x) = i - 1
         /\ \A x \in S : RankIn(S, R, x) \in 0..(Cardinality(S) - 1)
         /\ \A x, y \in S : <<x, y>> \in R <=> RankIn(S, R, x) < RankIn(S, R, y)
<1> DEFINE n == Cardinality(S)
           B(x) == {y \in S : <<y, x>> \in R}
           r == [x \in S |-> Cardinality(B(x)) + 1]
<1>1. n \in Nat
  BY FS_CardinalityType
<1>2. \A x \in S : IsFiniteSet(B(x)) /\ Cardinality(B(x)) \in Nat
  BY FS_Subset, FS_CardinalityType
<1>3. \A x, y \in S : <<x, y>> \in R => Cardinality(B(x)) < Cardinality(B(y))
  <2> SUFFICES ASSUME NEW x \in S, NEW y \in S, <<x, y>> \in R
               PROVE  Cardinality(B(x)) < Cardinality(B(y))
    OBVIOUS
  <2>1. B(x) \in SUBSET B(y) /\ B(x) # B(y)
    BY DEF IsStrictOrder
  <2> HIDE DEF B
  <2>2. Cardinality(B(x)) <= Cardinality(B(y)) /\ Cardinality(B(x)) # Cardinality(B(y))
    BY <1>2, <2>1, FS_Subset
  <2> QED BY <1>2, <2>2
<1>4. \A x \in S : Cardinality(B(x)) < n
  <2> SUFFICES ASSUME NEW x \in S PROVE Cardinality(B(x)) < n
    OBVIOUS
  <2>1. B(x) \in SUBSET S /\ B(x) # S
    BY DEF IsStrictOrder
  <2> HIDE DEF B
  <2>2. Cardinality(B(x)) <= n /\ Cardinality(B(x)) # n
    BY <2>1, FS_Subset
  <2> QED BY <1>1, <1>2, <2>2
<1> HIDE DEF B
<1>5. ASSUME NEW x \in S, NEW y \in S
      PROVE  /\ <<x, y>> \in R <=> Cardinality(B(x)) < Cardinality(B(y))
             /\ Cardinality(B(x)) = Cardinality(B(y)) => x = y
  <2> DEFINE cx == Cardinality(B(x))
             cy == Cardinality(B(y))
  <2>1. cx \in Nat /\ cy \in Nat
    BY <1>2
  <2>2. (<<x, y>> \in R => cx < cy) /\ (<<y, x>> \in R => cy < cx)
    BY <1>3
  <2> HIDE DEF cx, cy
  <2>3. x = y \/ <<x, y>> \in R \/ <<y, x>> \in R
    BY DEF IsStrictOrder
  <2>4. (<<x, y>> \in R <=> cx < cy) /\ (cx = cy => x = y)
    <3>1. x = y => cx = cy
      BY DEF cx, cy
    <3> QED BY <2>1, <2>2, <2>3, <3>1
  <2> QED BY <2>4 DEF cx, cy
<1>6. r \in Injection(S, 1..n)
  <2>1. r \in [S -> 1..n]
    BY <1>1, <1>2, <1>4
  <2>2. ASSUME NEW x \in S, NEW y \in S, r[x] = r[y] PROVE x = y
    <3>1. r[x] = Cardinality(B(x)) + 1 /\ r[y] = Cardinality(B(y)) + 1
      OBVIOUS
    <3>2. Cardinality(B(x)) \in Nat /\ Cardinality(B(y)) \in Nat
      BY <1>2
    <3>3. Cardinality(B(x)) = Cardinality(B(y))
      BY <2>2, <3>1, <3>2
    <3> QED BY <1>5, <3>3
  <2> HIDE DEF r
  <2> QED BY <2>1, <2>2 DEF Injection, IsInjective
<1>7. r \in Surjection(S, 1..n)
  <2>1. IsFiniteSet(1..n) /\ Cardinality(1..n) = n
    BY <1>1, FS_Interval
  <2> HIDE DEF r
  <2> QED BY <1>6, <2>1, FS_Injection
<1>8. \A i \in 1..n : \E x \in S : Cardinality(B(x)) = i - 1
  <2> SUFFICES ASSUME NEW i \in 1..n PROVE \E x \in S : Cardinality(B(x)) = i - 1
    OBVIOUS
  <2>1. PICK x \in S : r[x] = i
    <3> HIDE DEF r
    <3> QED BY <1>7 DEF Surjection
  <2>2. Cardinality(B(x)) + 1 = i
    BY <2>1
  <2> QED BY <1>2, <2>2
<1>9. \A x \in S : B(x) = {y \in S : <<y, x>> \in R} /\ Cardinality(B(x)) = RankIn(S, R, x)
  BY DEF B, RankIn
<1>10. \A x \in S : RankIn(S, R, x) \in 0..(n - 1)
  <2> SUFFICES ASSUME NEW x \in S PROVE Cardinality(B(x)) \in 0..(n - 1)
    BY <1>9
  <2> QED BY <1>1, <1>2, <1>4
<1> QED BY <1>5, <1>8, <1>9, <1>10
=============================================================================
