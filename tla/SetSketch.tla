------------------------------ MODULE SetSketch ------------------------------
(***************************************************************************)
(* The sketch of net/erlay.py: the odd and even power sums of a set of     *)
(* short ids in GF(2^Bits), and the decoder that turns the XOR of two      *)
(* sketches back into the ids in one set and not the other.  The decoder   *)
(* finds the shortest recurrence of the sums (Berlekamp-Massey), reads it  *)
(* as the polynomial whose roots are the ids, and splits that polynomial   *)
(* by traces.  Bits is 64 in the code; every step is kept, over a smaller  *)
(* field.                                                                  *)
(*                                                                         *)
(* Polynomials are non-empty sequences of coefficients, lowest first.      *)
(* "\o <<>>" and "@@ <<>>" only make TLC evaluate a sequence or a table.   *)
(***************************************************************************)
EXTENDS Integers, Sequences, SequencesExt, FiniteSets, FiniteSetsExt, TLC

LOCAL INSTANCE Bitwise

CONSTANTS Bits,              \* ERLAY_FIELD_BITS
          FieldPolyLow,      \* ERLAY_FIELD_POLY_LOW
          SplitSeedStep,     \* ERLAY_SPLIT_SEED_STEP
          MaxSplitAttempts   \* ERLAY_MAX_SPLIT_ATTEMPTS

Field == 0..(2^Bits - 1)

AddTable == [x \in Field \X Field |-> x[1] ^^ x[2]] @@ <<>>

FieldAdd(a, b) == AddTable[<<a, b>>]

FieldSum(Op(_), S) == FoldSet(LAMBDA i, acc : FieldAdd(acc, Op(i)), 0, S)

-----------------------------------------------------------------------------
(* The field *)

\* _field_mul: shift and add, reducing by the field polynomial.
RECURSIVE MulFrom(_, _, _)
MulFrom(addend, multiplier, result) ==
    IF multiplier = 0
    THEN result
    ELSE MulFrom(IF 2 * addend >= 2^Bits
                 THEN FieldAdd((2 * addend) % 2^Bits, FieldPolyLow) ELSE 2 * addend,
                 multiplier \div 2,
                 IF multiplier % 2 = 1 THEN FieldAdd(result, addend) ELSE result)

MulTable == [x \in Field \X Field |-> MulFrom(x[1], x[2], 0)] @@ <<>>

FieldMul(a, b) == MulTable[<<a, b>>]

RECURSIVE FieldPow(_, _)
FieldPow(a, n) == IF n = 0 THEN 1 ELSE FieldMul(a, FieldPow(a, n - 1))

InvTable == [a \in Field |-> FieldPow(a, 2^Bits - 2)] @@ <<>>

FieldInv(a)    == InvTable[a]
FieldDiv(a, b) == FieldMul(a, FieldInv(b))

-----------------------------------------------------------------------------
(* Polynomials *)

Zero == <<0>>

RECURSIVE PolyTrim(_)
PolyTrim(p) == IF Len(p) > 1 /\ Last(p) = 0 THEN PolyTrim(Front(p)) ELSE p

PolyDegree(p) == Len(PolyTrim(p)) - 1

Coeff(p, i) == IF i \in DOMAIN p THEN p[i] ELSE 0

PolyAdd(p, q) ==
    PolyTrim([i \in 1..Max({Len(p), Len(q)}) |-> FieldAdd(Coeff(p, i), Coeff(q, i))] \o <<>>)

PolyMul(p, q) ==
    PolyTrim([n \in 1..(Len(p) + Len(q) - 1) |->
                 FieldSum(LAMBDA i : FieldMul(p[i], Coeff(q, n + 1 - i)), 1..Len(p))] \o <<>>)

\* _poly_divmod: <<quotient, remainder>>, highest terms first.
RECURSIVE DivFrom(_, _, _)
DivFrom(quotient, remainder, divisor) ==
    IF Len(remainder) < Len(divisor) \/ remainder = Zero
    THEN <<PolyTrim(quotient), remainder>>
    ELSE LET shift == Len(remainder) - Len(divisor)
             scale == FieldMul(Last(remainder), FieldInv(Last(divisor)))
         IN  DivFrom([quotient EXCEPT ![shift + 1] = scale],
                     PolyTrim([i \in 1..Len(remainder) |->
                                  FieldAdd(remainder[i],
                                      FieldMul(scale, Coeff(divisor, i - shift)))] \o <<>>),
                     divisor)

PolyDivmod(p, d) ==
    IF PolyDegree(p) < PolyDegree(d)
    THEN <<Zero, PolyTrim(p)>>
    ELSE DivFrom([i \in 1..(PolyDegree(p) - PolyDegree(d) + 1) |-> 0],
                 PolyTrim(p), PolyTrim(d))

PolyMod(p, d) == PolyDivmod(p, d)[2]

PolyMakeMonic(p) ==
    LET t == PolyTrim(p) IN
    IF t = Zero \/ Last(t) = 1 THEN t
    ELSE [i \in 1..Len(t) |-> FieldMul(t[i], FieldInv(Last(t)))] \o <<>>

RECURSIVE PolyGcd(_, _)
PolyGcd(p, q) ==
    IF PolyTrim(q) = Zero THEN PolyMakeMonic(p) ELSE PolyGcd(PolyTrim(q), PolyMod(p, q))

\* In characteristic two only the odd powers survive.
PolyDerivative(p) ==
    IF Len(p) <= 1 THEN Zero
    ELSE PolyTrim([i \in 1..(Len(p) - 1) |-> IF i % 2 = 1 THEN p[i + 1] ELSE 0] \o <<>>)

\* _poly_trace_mod: base + base^2 + base^4 + ..., Bits terms, modulo d.
RECURSIVE TraceFrom(_, _, _, _)
TraceFrom(n, result, value, d) ==
    IF n = 0 THEN result
    ELSE TraceFrom(n - 1, PolyAdd(result, value), PolyMod(PolyMul(value, value), d), d)

PolyTraceMod(base, d) == TraceFrom(Bits, Zero, PolyMod(base, d), d)

-----------------------------------------------------------------------------
(* Decoding *)

Failed == [ok |-> FALSE, ids |-> <<>>]

\* Faulty: the same seed again and again.
SeedRepeated(attempt) == SplitSeedStep

\* The seeds tried in turn.
Seed(attempt) == (attempt * SplitSeedStep) % 2^Bits

RECURSIVE SplitRoots(_)
RECURSIVE TrySeeds(_, _)
\* _split_linear_roots: its roots, or a failure when no seed splits it.
SplitRoots(polynomial) ==
    LET p == PolyMakeMonic(polynomial) IN
    IF PolyDegree(p) = 0 THEN [ok |-> TRUE, ids |-> <<>>]
    ELSE IF PolyDegree(p) = 1 THEN [ok |-> TRUE, ids |-> <<FieldDiv(p[1], p[2])>>]
    ELSE TrySeeds(p, 1)

TrySeeds(p, attempt) ==
    IF attempt > MaxSplitAttempts THEN Failed
    ELSE IF Seed(attempt) = 0 THEN TrySeeds(p, attempt + 1)
    ELSE LET factor == PolyGcd(p, PolyTraceMod(<<0, Seed(attempt)>>, p)) IN
         IF PolyDegree(factor) \in 1..(PolyDegree(p) - 1)
         THEN LET left  == SplitRoots(factor)
                  right == SplitRoots(PolyDivmod(p, factor)[1])
              IN  IF left.ok /\ right.ok
                  THEN [ok |-> TRUE, ids |-> left.ids \o right.ids] ELSE Failed
         ELSE TrySeeds(p, attempt + 1)

\* _berlekamp_massey from position n on; the connection polynomial.
RECURSIVE MasseyFrom(_, _, _)
MasseyFrom(sums, n, st) ==
    IF n = Len(sums)
    THEN SubSeq(st.connection, 1, st.degree + 1)
    ELSE LET discrepancy == FieldAdd(sums[n + 1],
                 FieldSum(LAMBDA c : FieldMul(st.connection[c + 1], sums[n - c + 1]),
                        1..st.degree))
         IN  IF discrepancy = 0
             THEN MasseyFrom(sums, n + 1, [st EXCEPT !.gap = @ + 1])
             ELSE LET scale   == FieldDiv(discrepancy, st.last)
                      updated == [i \in 1..(Len(sums) + 1) |->
                          FieldAdd(st.connection[i],
                              FieldMul(scale, Coeff(st.previous, i - st.gap)))] \o <<>>
                  IN  MasseyFrom(sums, n + 1,
                        IF 2 * st.degree <= n
                        THEN [connection |-> updated, previous |-> st.connection,
                              degree |-> n + 1 - st.degree, gap |-> 1,
                              last |-> discrepancy]
                        ELSE [st EXCEPT !.connection = updated, !.gap = @ + 1])

BerlekampMassey(sums) ==
    LET one == [i \in 1..(Len(sums) + 1) |-> IF i = 1 THEN 1 ELSE 0] \o <<>>
    IN  MasseyFrom(sums, 0, [connection |-> one, previous |-> one,
                             degree |-> 0, gap |-> 1, last |-> 1])

\* _syndromes_for_short_ids: the power sums 1, ..., 2 * capacity.
Syndromes(ids, capacity) ==
    [n \in 1..(2 * capacity) |-> FieldSum(LAMBDA id : FieldPow(id, n), ids)] \o <<>>

\* _decode_syndromes, then the check of decode_short_ids that the ids have
\* these very sums.
DecodeLocator(locator, capacity) ==
    LET item == PolyTrim(Reverse(locator)) IN
    IF Len(locator) - 1 \in 1..capacity
       /\ PolyGcd(item, PolyDerivative(item)) = <<1>>
    THEN SplitRoots(item) ELSE Failed

Checked(roots, sums, capacity, degree) ==
    IF /\ roots.ok
       /\ Len(roots.ids) = degree
       /\ 0 \notin Range(roots.ids)
       /\ IsInjective(roots.ids)
       /\ Syndromes(Range(roots.ids), capacity) = sums
    THEN [ok |-> TRUE, ids |-> Range(roots.ids)]
    ELSE [ok |-> FALSE, ids |-> {}]

DecodeSketch(sums, capacity) ==
    IF \A i \in DOMAIN sums : sums[i] = 0
    THEN [ok |-> TRUE, ids |-> {}]
    ELSE LET locator == BerlekampMassey(sums)
         IN  Checked(DecodeLocator(locator, capacity), sums, capacity, Len(locator) - 1)
=============================================================================
