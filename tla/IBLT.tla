-------------------------------- MODULE IBLT --------------------------------
(***************************************************************************)
(* The invertible Bloom lookup table shared by state/sync.py (change keys  *)
(* of a UTXO diff) and net/graphene.py (short ids of a fruit), with the    *)
(* bounded peeling loop of _iblt.py.                                       *)
(*                                                                         *)
(* A cell keeps a count and the XOR of the keys hashed to it.  XOR sums    *)
(* are kept exactly as the set of keys that occur an odd number of times,  *)
(* and the 32-bit checksum sum, which tells one key from the XOR of        *)
(* several, as the test that this set has one element.                     *)
(***************************************************************************)
EXTENDS Integers, FiniteSets, FiniteSetsExt

CONSTANT Probe(_, _)   \* the digest of a key and an attempt number, as a Nat

HashCount == 3         \* cells per key
Attempts  == 0..15     \* digests tried for three different cells (2^16 in the code)

EmptyCell == [count |-> 0, keys |-> {}]

IsEmptyCell(cell) == cell = EmptyCell

\* A cell holding one key: Graphene's differences count it 1 or -1, a UTXO
\* diff, whose keys are only ever added, 1.
IsPureCell(cell, signs) == cell.count \in signs /\ Cardinality(cell.keys) = 1

\* The first HashCount different cells among the digests of key.
Positions(key, cellCount) ==
    LET At(a)  == Probe(key, a) % cellCount
        fresh == {a \in Attempts : \A b \in Attempts : b < a => At(b) # At(a)}
    IN  {At(a) : a \in {f \in fresh :
                            Cardinality({g \in fresh : g < f}) < HashCount}}

ApplyKey(cells, key, delta) ==
    LET touched == Positions(key, Cardinality(DOMAIN cells))
    IN  [i \in DOMAIN cells |->
            IF i \in touched
            THEN [count |-> cells[i].count + delta,
                  keys  |-> SymDiff(cells[i].keys, {key})]
            ELSE cells[i]]

\* Every key of keys inserted once into an empty table.
BuildCells(keys, cellCount) ==
    [i \in 0..(cellCount - 1) |->
        LET here == {key \in keys : i \in Positions(key, cellCount)}
        IN  [count |-> Cardinality(here), keys |-> here]]

\* Cell by cell difference of two tables of one size.
SubtractCells(left, right) ==
    [i \in DOMAIN left |->
        [count |-> left[i].count - right[i].count,
         keys  |-> SymDiff(left[i].keys, right[i].keys)]]

NotPeeled == [ok |-> FALSE, plus |-> {}, minus |-> {}]

\* One turn of peel_iblt_cells: take the lowest pure cell, if there is one,
\* and remove its key everywhere; the loop fails when that does not empty the
\* cell the key came from.
PeelTurn(st, signs) ==
    LET pure == {i \in DOMAIN st.cells : IsPureCell(st.cells[i], signs)}
        i    == Min(pure)
        key  == CHOOSE k \in st.cells[i].keys : TRUE
        sign == st.cells[i].count
        rest == ApplyKey(st.cells, key, -sign)
    IN  IF ~st.ok \/ pure = {} THEN st
        ELSE [ok    |-> IsEmptyCell(rest[i]),
              cells |-> rest,
              plus  |-> IF sign = 1 THEN st.plus \union {key} ELSE st.plus,
              minus |-> IF sign = 1 THEN st.minus ELSE st.minus \union {key}]

\* peel_iblt_cells: at most one turn per cell.  No result when a turn failed
\* or cells remain, a pure one that the limit kept from its turn included.
Peel(cells, signs) ==
    LET After[n \in Nat] ==
          IF n = 0 THEN [ok |-> TRUE, cells |-> cells, plus |-> {}, minus |-> {}]
          ELSE PeelTurn(After[n - 1], signs)
        last == After[Cardinality(DOMAIN cells)]
    IN  IF last.ok /\ \A i \in DOMAIN cells : IsEmptyCell(last.cells[i])
        THEN [ok |-> TRUE, plus |-> last.plus, minus |-> last.minus]
        ELSE NotPeeled
=============================================================================
