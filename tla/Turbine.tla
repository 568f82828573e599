------------------------------- MODULE Turbine -------------------------------
(***************************************************************************)
(* net/turbine.py: a fruit payload cut into Reed-Solomon chunks, relayed   *)
(* down a tree of peers derived from a seed, and put together from any     *)
(* chunks whose custodians were reached.                                   *)
(*                                                                         *)
(* simulate_propagation walks the tree breadth first; here peers receive   *)
(* in any order their parents allow, and a collector takes chunks from the *)
(* custodians reached so far, a faulty one handing out altered data.  One  *)
(* chunk is one symbol, or two for a longer payload.                       *)
(***************************************************************************)
EXTENDS ReedSolomon, Sequences, SequencesExt

CONSTANTS Peers,             \* peers, numbers in peer_id order
          Score(_),          \* _relay_score
          Latency(_),        \* latency_ms
          TreeRank(_),       \* the seed's hash of a peer, for the tree
          Custodians(_),     \* the peers that keep chunk i
          MaxFanout,         \* max_fanout
          DataShards, ParityShards,
          RelayPayloads,     \* payloads, sequences of symbols
          Faulty             \* custodians that alter what they hand out

\* Peers have different ids; _require_shard_counts; max_fanout is at least
\* TURBINE_MIN_FANOUT; any DataShards symbols of a codeword determine it.
ASSUME TurbineAssumption ==
    /\ IsFiniteSet(Peers) /\ Peers # {} /\ Peers \subseteq Nat
    /\ \A p \in Peers : Score(p) \in Nat /\ Latency(p) \in Nat /\ TreeRank(p) \in Nat
    /\ MaxFanout \in Nat /\ MaxFanout >= 2
    /\ DataShards \in Nat \ {0} /\ ParityShards \in Nat
    /\ RelayPayloads \subseteq Seq(Symbols)
    /\ P \in Nat \ {0}
    /\ AnyDetermine(DataShards, DataShards + ParityShards)

VARIABLES relayed,    \* the payload sent
          dropout,    \* peers that are down
          arrival,    \* peer -> time of arrival
          box         \* chunks collected: [index, length, data]

turbineVars == <<relayed, dropout, arrival, box>>

ChunkIndexes == 0..(DataShards + ParityShards - 1)

-----------------------------------------------------------------------------
(* Chunks *)

ShardSize(length) == Max({1, (length + DataShards - 1) \div DataShards})

\* Column `offset` of the padded payload, as a word of data symbols.
DataWord(p, offset) ==
    [s \in 0..(DataShards - 1) |->
        LET at == s * ShardSize(Len(p)) + offset IN IF at <= Len(p) THEN p[at] ELSE 0]

EncodeChunks(p) ==
    LET words == [offset \in 1..ShardSize(Len(p)) |->
                     RSEncode(DataWord(p, offset), DataShards + ParityShards)]
    IN  {[index |-> i, length |-> Len(p),
          data |-> [offset \in 1..ShardSize(Len(p)) |-> words[offset][i]] \o <<>>] :
            i \in ChunkIndexes}

\* The decoder of the library: the codeword at most half the spare
\* redundancy away, {} when there is none.
Codewords == {RSEncode(d, DataShards + ParityShards) :
                 d \in [0..(DataShards - 1) -> Symbols]}

RSDecode(word) ==
    {c \in Codewords :
        2 * Cardinality({i \in DOMAIN word : c[i] # word[i]})
            + Cardinality(ChunkIndexes \ DOMAIN word) <= ParityShards}

\* What decode_payload recovers from a set of chunks (at most one payload).
Recovered(chunks) ==
    LET length  == (CHOOSE c \in chunks : TRUE).length
        size    == ShardSize(length)
        word(o) == [i \in {c.index : c \in chunks} |->
                       (CHOOSE c \in chunks : c.index = i).data[o]]
        full(o) == CHOOSE w \in RSDecode(word(o)) : TRUE
    IN  IF /\ Cardinality(chunks) >= DataShards
           /\ \A c, d \in chunks : c.length = d.length /\ (c.index = d.index => c = d)
           /\ \A o \in 1..size : RSDecode(word(o)) # {}
        THEN {[n \in 1..length |-> full(((n - 1) % size) + 1)[(n - 1) \div size]] \o <<>>}
        ELSE {}

\* decode_payload: the payload is encoded again and must give every chunk.
DecodeChunks(chunks) == {p \in Recovered(chunks) : chunks \subseteq EncodeChunks(p)}

-----------------------------------------------------------------------------
(* The relay tree *)

\* _adaptive_fanout, the score in units of 500,000.
AdaptiveFanout(p) ==
    Min({MaxFanout, IF Score(p) >= 8 THEN 16 ELSE IF Score(p) >= 4 THEN 12
                    ELSE IF Score(p) >= 2 THEN 8 ELSE IF Score(p) >= 1 THEN 4 ELSE 2})

\* Best score first, then the seed's hash, then the id.
Before(p, q) == \/ Score(p) > Score(q)
                \/ Score(p) = Score(q) /\ TreeRank(p) < TreeRank(q)
                \/ Score(p) = Score(q) /\ TreeRank(p) = TreeRank(q) /\ p < q

Ordered == [i \in 1..Cardinality(Peers) |->
               CHOOSE p \in Peers : Cardinality({q \in Peers : Before(q, p)}) = i - 1]

Root == Ordered[1]

\* The loop of derive_relay_tree.  Children join the queue in the order they
\* leave the remaining peers, so that the j-th parent taken from it is
\* Ordered[j], and this many peers have joined when it has its children.
Joined[j \in 0..Cardinality(Peers)] ==
    IF j = 0 THEN 1
    ELSE Min({Joined[j - 1] + AdaptiveFanout(Ordered[j]), Cardinality(Peers)})

ParentOf ==
    [q \in {Ordered[i] : i \in 2..Joined[Cardinality(Peers)]} |->
        LET at == CHOOSE i \in 2..Cardinality(Peers) : Ordered[i] = q
        IN  Ordered[CHOOSE j \in 1..Cardinality(Peers) : Joined[j - 1] < at /\ at <= Joined[j]]]

\* A chunk is transmitted in one millisecond on every edge.
EdgeLatency(p, q) == Max({1, (Latency(p) + Latency(q)) \div 2 + 1})

-----------------------------------------------------------------------------

TurbineInit ==
    /\ relayed \in RelayPayloads
    /\ dropout \in SUBSET Peers
    /\ arrival = [q \in {Root} \ dropout |-> 0]
    /\ box = {}

Arrive(q) ==
    /\ q \in DOMAIN ParentOf \ (dropout \union DOMAIN arrival)
    /\ ParentOf[q] \in DOMAIN arrival
    /\ arrival' = [p \in DOMAIN arrival \union {q} |->
                     IF p = q THEN arrival[ParentOf[q]] + EdgeLatency(ParentOf[q], q) ELSE arrival[p]]
    /\ UNCHANGED <<relayed, dropout, box>>

\* The collector takes chunk i from custodian p.
Collect(i, p) ==
    /\ p \in Custodians(i) \intersect DOMAIN arrival
    /\ ~\E c \in box : c.index = i
    /\ LET chunk == CHOOSE c \in EncodeChunks(relayed) : c.index = i
       IN  box' = box \union
                  {IF p \in Faulty THEN [chunk EXCEPT !.data[1] = (@ + 1) % P] ELSE chunk}
    /\ UNCHANGED <<relayed, dropout, arrival>>

TurbineNext ==
    \/ \E q \in Peers : Arrive(q)
    \/ \E i \in ChunkIndexes, p \in Peers : Collect(i, p)

TurbineSpec == TurbineInit /\ [][TurbineNext]_turbineVars

-----------------------------------------------------------------------------

Genuine == box \intersect EncodeChunks(relayed)

\* Any DataShards genuine chunks suffice, and whatever else is mixed in, a
\* decoder that holds that many never returns another payload: it returns
\* the payload when every chunk is genuine and refuses when one is not.
DecodesOrRefuses ==
    Cardinality(Genuine) >= DataShards =>
        DecodeChunks(box) = IF box = Genuine THEN {relayed} ELSE {}

\* The peers on the way from q to the root: what every set that holds the
\* parent of q, and with a peer its parent, has in common.
Ancestors == [q \in Peers |->
    IF q = Root THEN {}
    ELSE {a \in Peers : \A S \in SUBSET Peers :
             ParentOf[q] \in S /\ (\A p \in S \ {Root} : ParentOf[p] \in S) => a \in S}]

\* The tree hangs every peer below the root, under a parent that precedes it
\* and within its fanout; the payload reaches exactly the peers whose path to
\* the root is up, parents first.
TreeReachesLive ==
    /\ DOMAIN ParentOf = Peers \ {Root}
    /\ \A p \in Peers : Cardinality({q \in DOMAIN ParentOf : ParentOf[q] = p}) <= AdaptiveFanout(p)
    /\ \A q \in DOMAIN arrival :
          /\ (Ancestors[q] \union {q}) \intersect dropout = {}
          /\ \A a \in Ancestors[q] : a \in DOMAIN arrival /\ arrival[a] < arrival[q]
    /\ (\A q \in DOMAIN ParentOf \ DOMAIN arrival : q \in dropout \/ ParentOf[q] \notin DOMAIN arrival) =>
          DOMAIN arrival = {q \in Peers : (Ancestors[q] \union {q}) \intersect dropout = {}}

\* What the relay promises of a payload, whichever peers are down or alter
\* chunks: who is reached, and what those chunks decode to.
RelayDelivers == TreeReachesLive /\ DecodesOrRefuses
=============================================================================
