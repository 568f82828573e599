-------------------------------- MODULE Erlay --------------------------------
(***************************************************************************)
(* net/erlay.py: one peer session reconciling the transactions of one      *)
(* shard.  The initiator, when a round is due, sends a sketch of its set;  *)
(* the responder XORs its own sketch, decodes the difference, sends what   *)
(* only it has and asks, by short id, for the rest; the initiator resolves *)
(* those ids against the set it holds by then and records the round.       *)
(*                                                                         *)
(* The repository gives the operations, no driver: the order in which they *)
(* are called is external.  Sets change between the steps, messages are    *)
(* lost, and the clock may step back.                                      *)
(***************************************************************************)
EXTENDS SetSketch

CONSTANTS Txs,            \* transaction ids
          ShortIdOf(_),   \* short_id in this session: a nonzero field element
          Capacity,       \* the capacity of the sketches
          Interval,       \* interval_ms, in ticks
          MaxChanges      \* bound: set changes and clock steps

VARIABLES initSet, respSet,   \* the transactions the two peers hold
          since,              \* ticks since mark_reconciled (at most Interval);
                              \* Interval before the first round, -1 in the past
          sketches,           \* sketches on the way: sets of short ids
          replies,            \* replies on the way: [txs, wanted]
          served,             \* resolved transactions on the way
          changes             \* set changes and clock steps so far

erlayVars == <<initSet, respSet, since, sketches, replies, served, changes>>

Ids(txs) == {ShortIdOf(t) : t \in txs}

\* index_tx_ids_by_short_id and from_short_ids refuse colliding short ids.
Indexable(txs) == \A t, u \in txs : ShortIdOf(t) = ShortIdOf(u) => t = u

\* from_short_ids of every set of ids (@@ makes TLC tabulate the function).
SketchOf == [D \in SUBSET (Field \ {0}) |-> Syndromes(D, Capacity)] @@ <<>>

\* The decoder on the XOR of two sketches, which is the sketch of their
\* symmetric difference, for every difference there can be.
DecodeTable == [D \in SUBSET (Field \ {0}) |->
                   DecodeSketch(SketchOf[D], Capacity)] @@ <<>>

\* decode_difference of two sets of short ids.
DecodeDifference(left, right) == DecodeTable[SymDiff(left, right)]

\* Faulty: nothing is asked for.
PartitionLocalOnly(txs, ids) == [txs |-> {t \in txs : ShortIdOf(t) \in ids}, wanted |-> {}]

\* partition_difference: what is local by its id, the others wanted.
Partition(txs, ids) ==
    [txs    |-> {t \in txs : ShortIdOf(t) \in ids},
     wanted |-> ids \ Ids(txs)]

ShouldReconcile == since >= Interval

-----------------------------------------------------------------------------

ErlayInit ==
    /\ initSet = {} /\ respSet = {}
    /\ since = Interval
    /\ sketches = {} /\ replies = {} /\ served = {}
    /\ changes = 0

\* build_sketch and send it.  The driver of rounds is external; this one starts
\* none while a message of the last one is on the way.
StartRound ==
    /\ ShouldReconcile
    /\ sketches = {} /\ replies = {}
    /\ Indexable(initSet)
    /\ sketches' = {Ids(initSet)}
    /\ UNCHANGED <<initSet, respSet, since, replies, served, changes>>

\* reconcile against a sketch; a sketch that does not decode is refused.
Reconcile(sketch) ==
    LET decoded == DecodeDifference(Ids(respSet), sketch) IN
    /\ sketches' = sketches \ {sketch}
    /\ replies' = IF Indexable(respSet) /\ decoded.ok
                  THEN replies \union {Partition(respSet, decoded.ids)} ELSE replies
    /\ UNCHANGED <<initSet, respSet, since, served, changes>>

\* mark_reconciled; it raises when the clock has moved back.
MarkReconciled == since' = IF since >= 0 THEN 0 ELSE since

\* The initiator takes the transactions, resolves the wanted ids (all or
\* none) and records the round, unless its clock has moved back.
FinishRound(reply) ==
    /\ replies' = replies \ {reply}
    /\ initSet' = initSet \union reply.txs
    /\ served' = IF reply.wanted \subseteq Ids(initSet) /\ reply.wanted # {}
                 THEN {{t \in initSet : ShortIdOf(t) \in reply.wanted}} ELSE served
    /\ MarkReconciled
    /\ UNCHANGED <<respSet, sketches, changes>>

TakeServed(txs) ==
    /\ served' = served \ {txs}
    /\ respSet' = respSet \union txs
    /\ UNCHANGED <<initSet, since, sketches, replies, changes>>

Lose ==
    /\ \/ sketches # {} /\ sketches' = {} /\ UNCHANGED <<replies, served>>
       \/ replies # {} /\ replies' = {} /\ UNCHANGED <<sketches, served>>
       \/ served # {} /\ served' = {} /\ UNCHANGED <<sketches, replies>>
    /\ UNCHANGED <<initSet, respSet, since, changes>>

ErlayTick ==
    /\ since < Interval
    /\ since' = since + 1
    /\ UNCHANGED <<initSet, respSet, sketches, replies, served, changes>>

\* A transaction enters or leaves a mempool, or the clock steps back behind
\* the last round.
Disturb ==
    /\ changes < MaxChanges
    /\ changes' = changes + 1
    /\ \/ \E t \in Txs : \/ initSet' = SymDiff(initSet, {t}) /\ UNCHANGED <<respSet, since>>
                         \/ respSet' = SymDiff(respSet, {t}) /\ UNCHANGED <<initSet, since>>
       \/ since' = -1 /\ UNCHANGED <<initSet, respSet>>
    /\ UNCHANGED <<sketches, replies, served>>

ErlayNext ==
    \/ StartRound
    \/ \E s \in sketches : Reconcile(s)
    \/ \E r \in replies : FinishRound(r)
    \/ \E t \in served : TakeServed(t)
    \/ Lose
    \/ ErlayTick
    \/ Disturb

-----------------------------------------------------------------------------
(* Properties *)

\* Whatever set of short ids the sketch on the way was built from, the peer
\* that reconciles against it gets exactly the ids the two sets do not share
\* when they are within the capacity; beyond it the decoder refuses, or returns
\* a set within the capacity that has the same power sums.
DecodesDifference ==
    sketches # {} =>
        \A sketch \in SUBSET (Field \ {0}) :
            LET D       == SymDiff(Ids(respSet), sketch)
                decoded == DecodeDifference(Ids(respSet), sketch)
            IN  IF Cardinality(D) <= Capacity
                THEN decoded = [ok |-> TRUE, ids |-> D]
                ELSE decoded.ok =>
                        /\ Cardinality(decoded.ids) <= Capacity
                        /\ SketchOf[decoded.ids] = SketchOf[D]

\* Once the sets differ by no more than the capacity and nothing disturbs
\* them, rounds that lose messages, meet stale requests or find the clock set
\* back are repeated until both peers hold the same transactions.
Converges ==
    <>[](Cardinality(SymDiff(initSet, respSet)) <= Capacity) => []<>(initSet = respSet)
=============================================================================
