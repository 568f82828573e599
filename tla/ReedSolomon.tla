----------------------------- MODULE ReedSolomon -----------------------------
(***************************************************************************)
(* The systematic Reed-Solomon code of the reedsolo library, as net/das.py *)
(* and net/turbine.py use it: the first symbols of a codeword are the data *)
(* and any that many symbols determine the rest.  The library computes in  *)
(* GF(2^8); here the field is the integers modulo the prime P.             *)
(***************************************************************************)
EXTENDS Integers, FiniteSets, FiniteSetsExt

CONSTANT P

Symbols == 0..(P - 1)

Inv(a) == CHOOSE b \in Symbols : (a * b) % P = 1

\* The value at x of the polynomial through the points (i, known[i]).
Interpolate(known, x) ==
    MapThenSumSet(
        LAMBDA i : known[i] * FoldSet(LAMBDA j, acc :
                                 (acc * (x - j) * Inv((i - j) % P)) % P,
                                 1, DOMAIN known \ {i}),
        DOMAIN known) % P

\* A codeword is a function on 0..n-1.
RSEncode(data, n) ==
    [x \in 0..(n - 1) |-> IF x \in DOMAIN data THEN data[x] ELSE Interpolate(data, x)]

IsCodeword(word, k) ==
    \A x \in DOMAIN word : word[x] = Interpolate([i \in 0..(k - 1) |-> word[i]], x)

\* Any k symbols of a codeword of n determine the others.
AnyDetermine(k, n) ==
    \A data \in [0..(k - 1) -> Symbols], S \in SUBSET (0..(n - 1)) :
        Cardinality(S) >= k =>
            \A x \in 0..(n - 1) :
                Interpolate([i \in S |-> RSEncode(data, n)[i]], x) = RSEncode(data, n)[x]
=============================================================================
