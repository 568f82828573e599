------------------------------- MODULE Graphene -------------------------------
(***************************************************************************)
(* net/graphene.py: a fruit announced as its header, a Bloom filter and an *)
(* IBLT of its transaction ids and the list of short ids in order, and     *)
(* rebuilt from the receiver's mempool.                                    *)
(*                                                                         *)
(* The receiver's mempool changes while the sketch is on its way; a relay  *)
(* may pass on a sketch with another fruit's header or short ids.  A fruit *)
(* is its list of transactions, which its header's Merkle root commits to; *)
(* the sketch's byte length checks are left out.                           *)
(***************************************************************************)
EXTENDS IBLT, Sequences, SequencesExt, TLC

CONSTANTS PoolTxs,         \* transactions, numbers
          Fruits,          \* fruits that may be announced
          BloomPos(_, _),  \* the digests of a transaction, one per hash function
          ShortIds(_, _),  \* short id of a transaction under a (width, salt)
          ShortIdParams    \* number of (width, salt) choices, tried in order

ASSUME GrapheneAssumption ==
    /\ \A t \in PoolTxs : \A j \in 1..3 : BloomPos(t, j) \in Nat
    \* A fruit that can be announced: not empty, with ids that differ under
    \* some choice of width and salt.
    /\ ShortIdParams \in Nat
    /\ \A f \in Fruits :
          /\ f \in Seq(PoolTxs) /\ f # <<>>
          /\ \E p \in 1..ShortIdParams :
                IsInjective([i \in DOMAIN f |-> ShortIds(f[i], p)])

VARIABLES pool,      \* the receiver's mempool
          arrived,   \* the sketch received, <<>> before
          rebuilt    \* what reconstruct_fruit returned for it: <<>> for None

grapheneVars == <<pool, arrived, rebuilt>>

MinCells == 3
BloomBits(n) == Max({8, 2 * n})
CellsFor(n)  == Max({MinCells, 3 * Max({1, (n + 99) \div 100})})

BloomHashes == 1..3

BloomOf(txs, bits) == {BloomPos(x[1], x[2]) % bits : x \in txs \X BloomHashes}

BloomContains(t, bloom, bits) == \A j \in BloomHashes : BloomPos(t, j) % bits \in bloom

\* _canonical_short_id_params: the first choice under which the ids differ.
ShortIdParam(fruit) ==
    CHOOSE p \in 1..ShortIdParams :
        /\ IsInjective([i \in DOMAIN fruit |-> ShortIds(fruit[i], p)])
        /\ \A q \in 1..(p - 1) : ~IsInjective([i \in DOMAIN fruit |-> ShortIds(fruit[i], q)])

\* announce_fruit; root stands for the header, which commits to the list.
Announce(fruit) ==
    [root   |-> fruit,
     count  |-> Len(fruit),
     bloom  |-> BloomOf(Range(fruit), BloomBits(Len(fruit))),
     param  |-> ShortIdParam(fruit),
     cells  |-> BuildCells(Range(fruit), CellsFor(Len(fruit))),
     shorts |-> [i \in DOMAIN fruit |-> ShortIds(fruit[i], ShortIdParam(fruit))]]

\* _decode_sketch refuses these.
WellFormed(s) ==
    /\ s.count > 0
    /\ s.bloom \subseteq 0..(BloomBits(s.count) - 1)
    /\ Cardinality(s.bloom) <= Min({BloomBits(s.count), 3 * s.count})
    /\ Cardinality(DOMAIN s.cells) = CellsFor(s.count)
    /\ Len(s.shorts) = s.count
    /\ IsInjective(s.shorts)

\* _matching_mempool_candidates: the transactions that pass the filter; none
\* when two of them share a short id or they are too many.
Matching(s, txs) == {t \in txs : BloomContains(t, s.bloom, BloomBits(s.count))}

Usable(s, candidates) ==
    /\ \A t, u \in candidates : ShortIds(t, s.param) = ShortIds(u, s.param) => t = u
    /\ Cardinality(candidates) <= s.count + CellsFor(s.count)

\* The candidates in the order of the short ids.
InListedOrder(s, candidates) ==
    [i \in DOMAIN s.shorts |-> CHOOSE t \in candidates : ShortIds(t, s.param) = s.shorts[i]]

Listed(s, candidates) ==
    \A i \in DOMAIN s.shorts : \E t \in candidates : ShortIds(t, s.param) = s.shorts[i]

\* The difference of the sketch's IBLT and one of the candidates peels and
\* leaves no transaction on the sender's side only.  A transaction is its own
\* IBLT key: two ids with equal 8-byte prefixes are left out.
NothingLacking(s, candidates) ==
    LET peeled == Peel(SubtractCells(s.cells, BuildCells(candidates, CellsFor(s.count))),
                       {1, -1})
    IN  peeled.ok /\ peeled.plus = {}

\* The transactions the mempool has for the sketch, in order: {} if not all.
MatchedList(s, txs) ==
    LET candidates == Matching(s, txs) IN
    IF /\ WellFormed(s)
       /\ Usable(s, candidates)
       /\ NothingLacking(s, candidates)
       /\ Listed(s, candidates)
    THEN {InListedOrder(s, candidates)} ELSE {}

TheOneOf(lists) == IF lists = {} THEN <<>> ELSE CHOOSE list \in lists : TRUE

\* Faulty: what matches is returned unchecked.
ReconstructUnchecked(s, txs) == TheOneOf(MatchedList(s, txs))

\* reconstruct_fruit: the fruit, checked against the header's root and by
\* announcing it again, or <<>>.
Reconstruct(s, txs) ==
    TheOneOf({list \in MatchedList(s, txs) : list = s.root /\ Announce(list) = s})

-----------------------------------------------------------------------------

\* Honest announcements, and those with another fruit's header or list.
Sketches ==
    LET honest == {Announce(f) : f \in Fruits}
    IN  honest \union {[s EXCEPT !.root = t.root] : s, t \in honest}
               \union {[s EXCEPT !.shorts = t.shorts] : s, t \in honest}

GrapheneInit == pool = {} /\ arrived = <<>> /\ rebuilt = <<>>

PoolChange(t) ==
    /\ pool' = SymDiff(pool, {t})
    /\ UNCHANGED <<arrived, rebuilt>>

SketchArrives(s) ==
    /\ arrived = <<>>
    /\ arrived' = <<s>>
    /\ rebuilt' = Reconstruct(s, pool)
    /\ UNCHANGED pool

\* The same sketch tried again against the mempool as it is by now.
RetrySketch ==
    /\ arrived # <<>> /\ rebuilt = <<>>
    /\ rebuilt' = Reconstruct(arrived[1], pool)
    /\ UNCHANGED <<pool, arrived>>

ForgetSketch == arrived # <<>> /\ arrived' = <<>> /\ rebuilt' = <<>> /\ UNCHANGED pool

GrapheneNext ==
    \/ \E t \in PoolTxs : PoolChange(t)
    \/ \E s \in Sketches : SketchArrives(s)
    \/ RetrySketch
    \/ ForgetSketch

GrapheneSpec == GrapheneInit /\ [][GrapheneNext]_grapheneVars

-----------------------------------------------------------------------------

\* A sketch rebuilds to the fruit it was announced for and to no other: a
\* result announces to the sketch received, and a mempool that holds the
\* fruit's transactions, and nothing else that passes the filter, yields it.
RebuildsAnnounced ==
    /\ rebuilt # <<>> => Announce(rebuilt) = arrived[1]
    /\ \A f \in Fruits :
          Range(f) \subseteq pool /\ Matching(Announce(f), pool) = Range(f)
              => Reconstruct(Announce(f), pool) = f
=============================================================================
