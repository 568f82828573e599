--------------------------------- MODULE DAS ---------------------------------
(***************************************************************************)
(* net/das.py: data availability sampling.  A fruit's payload is laid out  *)
(* as a square of cells, extended in both directions by a Reed-Solomon     *)
(* code and committed to by an ordered Merkle root.  A light node asks for *)
(* the cells its sample numbers select, checks each answer's whole row and *)
(* column against the commitment, and reports the fruit available when     *)
(* enough of the samples succeeded.                                        *)
(*                                                                         *)
(* One cell is one symbol.  Hashes are the tuples of their inputs.  The    *)
(* serving peer may lack some cells and then fills them with guesses, or   *)
(* answer with the proof for another sample; answers may be lost or late.  *)
(* Which grid was committed to is the producer's choice: the encoding of a *)
(* payload, or that encoding with one cell overwritten.                    *)
(***************************************************************************)
EXTENDS ReedSolomon, Sequences, SequencesExt

CONSTANTS Payloads,       \* payloads, sequences of symbols
          Spoilt,         \* cells <<row, column>> a producer may overwrite
          Missing,        \* sets of cells a serving peer may lack
          Guesses,        \* symbols it may fill them with
          Digest(_, _),   \* sample index, attempt -> 0..HashSpace - 1
          HashSpace,      \* 2^256
          SampleCount,    \* DAS_SAMPLES_PER_FRUIT
          ThresholdPct,   \* DAS_SAMPLE_SUCCESS_THRESHOLD_PCT
          MaxDataSide     \* DAS_MAX_DATA_SIDE

\* Symbols are bytes of the field; payloads are made of them.  A Reed-Solomon
\* code is one whose words any k of their symbols determine.
ASSUME DasAssumption ==
    /\ P \in Nat \ {0}
    /\ Payloads \subseteq Seq(Symbols)
    /\ MaxDataSide \in Nat
    /\ \A k \in 1..MaxDataSide : AnyDetermine(k, 2 * k)

VARIABLES grid,       \* the committed cells, <<row, column>> -> symbol
          payload,    \* what they encode
          missing,    \* cells the serving peer lacks
          asked,      \* sample numbers asked for
          answers,    \* answers on the way: [to, about, guess]
          outcome     \* sample number -> accepted cells, or the failure {}

dasVars == <<grid, payload, missing, asked, answers, outcome>>

Samples == 0..(SampleCount - 1)

-----------------------------------------------------------------------------
(* Encoding *)

CeilSqrt(n) == CHOOSE r \in 0..n : r * r >= n /\ (r = 0 \/ (r - 1) * (r - 1) < n)

DataSide(p) == CeilSqrt(IF Len(p) = 0 THEN 1 ELSE Len(p))

\* _rs_extend_matrix of the zero-padded payload: rows first, then columns.
EncodeGrid(p) ==
    LET k == DataSide(p)
        data(r, c) == IF r * k + c < Len(p) THEN p[r * k + c + 1] ELSE 0
        wide == [r \in 0..(k - 1) |-> RSEncode([c \in 0..(k - 1) |-> data(r, c)], 2 * k)]
        tall == [c \in 0..(2 * k - 1) |-> RSEncode([r \in 0..(k - 1) |-> wide[r][c]], 2 * k)]
    IN  [cell \in (0..(2 * k - 1)) \X (0..(2 * k - 1)) |-> tall[cell[2]][cell[1]]]

-----------------------------------------------------------------------------
(* The ordered Merkle tree *)

Leaf(i, item)    == <<"leaf", i, item>>
Node(lv, i, l, r) == <<"node", lv, i, l, r>>
Empty(lv, i)     == <<"empty", lv, i>>

\* A level above one: parents of neighbours, the last one padded.
Parents(level, lv) ==
    [i \in 1..((Len(level) + 1) \div 2) |->
        Node(lv, i - 1, level[2 * i - 1],
             IF 2 * i <= Len(level) THEN level[2 * i] ELSE Empty(lv, i - 1))] \o <<>>

\* The levels that the loop of _ordered_merkle_layers goes through.
LevelsOf(items) ==
    LET level[lv \in 0..Len(items)] ==
          IF lv = 0 THEN [i \in 1..Len(items) |-> Leaf(i - 1, items[i])] \o <<>>
          ELSE Parents(level[lv - 1], lv - 1)
    IN  level

\* It stops at a level of one node.
Height(items) ==
    CHOOSE h \in 0..Len(items) :
        Len(LevelsOf(items)[h]) = 1 /\ \A lv \in 0..(h - 1) : Len(LevelsOf(items)[lv]) > 1

Layers(items) ==
    LET levels == LevelsOf(items)
    IN  [n \in 1..(Height(items) + 1) |-> levels[n - 1]] \o <<>>

MerkleRoot(items) == Last(Layers(items))[1]

MerkleProof(layers, index) ==
    [index |-> index, count |-> Len(layers[1]),
     siblings |-> [lv \in 1..(Len(layers) - 1) |->
        LET at == index \div 2^(lv - 1) IN
        [isLeft |-> at % 2 = 1,
         digest |-> IF at % 2 = 1 THEN layers[lv][at]
                    ELSE IF at + 2 <= Len(layers[lv]) THEN layers[lv][at + 2]
                    ELSE Empty(lv - 1, at \div 2)]]]

\* The node, its position and the width of its level on the way up.
ProofClimb(proof, item) ==
    LET step[lv \in 0..Len(proof.siblings)] ==
          IF lv = 0
          THEN [at |-> proof.index, width |-> proof.count, node |-> Leaf(proof.index, item)]
          ELSE LET below == step[lv - 1]
                   s     == proof.siblings[lv]
                   above == below.at \div 2
               IN  [at |-> above, width |-> (below.width + 1) \div 2,
                    node |-> IF s.isLeft THEN Node(lv - 1, above, s.digest, below.node)
                             ELSE Node(lv - 1, above, below.node, s.digest)]
    IN  step

\* _verify_ordered_merkle_proof of a proof that passed __post_init__.
VerifyMerkle(proof, item, root) ==
    LET climb == ProofClimb(proof, item)
        top   == climb[Len(proof.siblings)]
    IN  /\ proof.index \in 0..(proof.count - 1)
        /\ \A lv \in 1..Len(proof.siblings) :
              LET below == climb[lv - 1]
                  s     == proof.siblings[lv]
              IN  /\ s.isLeft = (below.at % 2 = 1)
                  /\ ~s.isLeft /\ below.at + 1 >= below.width =>
                        s.digest = Empty(lv - 1, below.at \div 2)
        /\ top.at = 0 /\ top.width = 1 /\ top.node = root

-----------------------------------------------------------------------------
(* Commitments, samples and proofs *)

Side(g) == CHOOSE n \in 1..(2 * MaxDataSide) : n * n = Cardinality(DOMAIN g)

CellIndex(side, cell) == cell[1] * side + cell[2]

CellRecords(g) ==
    [i \in 1..Cardinality(DOMAIN g) |->
        LET cell == <<(i - 1) \div Side(g), (i - 1) % Side(g)>> IN <<cell, g[cell]>>] \o <<>>

\* _commitment_root: the cells' root bound to the payload's shape.
CommitmentRoot(length, dataSide, side, cellRoot) ==
    <<"commit", length, dataSide, side, cellRoot>>

Commitment(g, p) ==
    LET cellRoot == MerkleRoot(CellRecords(g))
    IN  [length |-> Len(p), dataSide |-> Side(g) \div 2, side |-> Side(g), cellRoot |-> cellRoot,
         root |-> CommitmentRoot(Len(p), Side(g) \div 2, Side(g), cellRoot)]

\* DASCommitment.__post_init__
ValidCommitment(com) ==
    /\ com.dataSide > 0 /\ com.side = 2 * com.dataSide
    /\ com.root = CommitmentRoot(com.length, com.dataSide, com.side, com.cellRoot)

\* _uniform_sample_offset: the first digest below the largest multiple of the
\* number of cells, so that every cell is equally likely.
SampleOffset(i, cells) ==
    LET limit == HashSpace - (HashSpace % cells)
        first == CHOOSE a \in 0..HashSpace : /\ Digest(i, a) < limit
                        /\ \A b \in 0..(a - 1) : Digest(i, b) >= limit
    IN  Digest(i, first) % cells

Selected(i, side) == <<SampleOffset(i, side * side) \div side,
                       SampleOffset(i, side * side) % side>>

Row(cell, side)    == {<<cell[1], c>> : c \in 0..(side - 1)}
Column(cell, side) == {<<r, cell[2]>> : r \in 0..(side - 1)}

\* create_sample_proof from the cells a peer holds or guesses, with the
\* Merkle siblings of the committed tree.
SampleProof(cells, at, layers, side) ==
    [at     |-> at,
     cells  |-> [cell \in Row(at, side) \union Column(at, side) |-> cells[cell]],
     proofs |-> [cell \in Row(at, side) \union Column(at, side) |->
                    MerkleProof(layers, CellIndex(side, cell))]]

CommittedCells(at, com, proof) ==
    /\ proof.at = at
    /\ DOMAIN proof.cells = Row(at, com.side) \union Column(at, com.side)
    /\ \A cell \in DOMAIN proof.cells :
          /\ proof.proofs[cell].index = CellIndex(com.side, cell)
          /\ proof.proofs[cell].count = com.side * com.side
          /\ VerifyMerkle(proof.proofs[cell], <<cell, proof.cells[cell]>>, com.cellRoot)

CodedCells(at, com, proof) ==
    /\ IsCodeword([c \in 0..(com.side - 1) |-> proof.cells[<<at[1], c>>]], com.dataSide)
    /\ IsCodeword([r \in 0..(com.side - 1) |-> proof.cells[<<r, at[2]>>]], com.dataSide)

\* Faulty: the cell the proof is about is the peer's choice.
VerifySampleAnywhere(i, com, proof) ==
    CommittedCells(proof.at, com, proof) /\ CodedCells(proof.at, com, proof)

\* verify_sample of sample i.  A proof carries the crossing cell once, so
\* that its row and column agree there.
VerifySample(i, com, proof) ==
    /\ CommittedCells(Selected(i, com.side), com, proof)
    /\ CodedCells(Selected(i, com.side), com, proof)

\* A share of n samples that is_available lets pass.
Enough(successes, n) == successes * 100 >= n * ThresholdPct

\* is_available of the outcomes of the samples decided so far.
IsAvailable(results) ==
    /\ DOMAIN results # {}
    /\ Enough(Cardinality({i \in DOMAIN results : results[i] # {}}), Cardinality(DOMAIN results))

-----------------------------------------------------------------------------
(* Actions *)

\* DASEncoding.__post_init__: every row and every column of an encoding is a
\* codeword (_grid_has_valid_reed_solomon).
ValidEncoding(g, k) ==
    /\ \A cell \in DOMAIN g : g[cell] \in Symbols
    /\ \A n \in 0..(2 * k - 1) :
          /\ IsCodeword([c \in 0..(2 * k - 1) |-> g[<<n, c>>]], k)
          /\ IsCodeword([r \in 0..(2 * k - 1) |-> g[<<r, n>>]], k)

\* The payloads that encode_payload does not refuse.
Encodable == {p \in Payloads : DataSide(p) <= MaxDataSide /\ ValidEncoding(EncodeGrid(p), DataSide(p))}

\* The grids a producer may commit to for p.
Grids(p) ==
    LET g == EncodeGrid(p)
    IN  {g} \union {[g EXCEPT ![cell] = (@ + 1) % P] : cell \in Spoilt \intersect DOMAIN g}

DasInit ==
    /\ payload \in Encodable
    /\ grid \in Grids(payload)
    /\ missing \in {m \in Missing : m \subseteq DOMAIN grid}
    /\ asked = {} /\ answers = {} /\ outcome = <<>>

AskSample(i) ==
    /\ i \notin asked
    /\ asked' = asked \union {i}
    /\ UNCHANGED <<grid, payload, missing, answers, outcome>>

\* The peer answers sample i with its proof for the cell of sample j, a
\* missing cell replaced by the symbol guess.
AnswerSample(i, j, guess) ==
    /\ i \in asked
    /\ ~\E a \in answers : a.to = i
    /\ i \notin DOMAIN outcome
    /\ answers' = answers \union {[to |-> i, about |-> j, guess |-> guess]}
    /\ UNCHANGED <<grid, payload, missing, asked, outcome>>

LoseAnswer(a) ==
    /\ answers' = answers \ {a}
    /\ UNCHANGED <<grid, payload, missing, asked, outcome>>

\* The proof in an answer of a peer that lacks the cells m of the grid g.
ProofIn(g, m, a) ==
    SampleProof([cell \in DOMAIN g |-> IF cell \in m THEN a.guess ELSE g[cell]],
                Selected(a.about, Side(g)), Layers(CellRecords(g)), Side(g))

\* The cells a light node takes from an answer: none unless it verifies.
AcceptedCells(g, p, m, a) ==
    LET proof == ProofIn(g, m, a)
        com   == Commitment(g, p)
    IN  IF ValidCommitment(com) /\ VerifySample(a.to, com, proof)
        THEN {<<cell, proof.cells[cell]>> : cell \in DOMAIN proof.cells}
        ELSE {}

\* AcceptedCells of every answer there can be, computed once.
Cases == UNION {{<<p, g, m, a>> : g \in Grids(p), m \in Missing,
                                  a \in [to : Samples, about : Samples, guess : Guesses]} :
                   p \in Encodable}

Accepted == [x \in {y \in Cases : y[3] \subseteq DOMAIN y[2]} |->
                AcceptedCells(x[2], x[1], x[3], x[4])]

Decide(i, cells) ==
    [j \in DOMAIN outcome \union {i} |-> IF j = i THEN cells ELSE outcome[j]]

\* The answer is decoded and verified; an accepted one yields its cells.
CheckAnswer(a) ==
    /\ a.to \notin DOMAIN outcome
    /\ answers' = answers \ {a}
    /\ outcome' = Decide(a.to, Accepted[<<payload, grid, missing, a>>])
    /\ UNCHANGED <<grid, payload, missing, asked>>

\* The light node gives up on a sample; a later answer finds it decided.
GiveUp(i) ==
    /\ i \in asked \ DOMAIN outcome
    /\ outcome' = Decide(i, {})
    /\ UNCHANGED <<grid, payload, missing, asked, answers>>

DasNext ==
    \/ \E i \in Samples : AskSample(i) \/ GiveUp(i)
    \/ \E i, j \in Samples, guess \in Guesses : AnswerSample(i, j, guess)
    \/ \E a \in answers : LoseAnswer(a) \/ CheckAnswer(a)

DasSpec == DasInit /\ [][DasNext]_dasVars

-----------------------------------------------------------------------------
(* Properties *)

Successes == {i \in DOMAIN outcome : outcome[i] # {}}
Revealed  == UNION {outcome[i] : i \in Successes}

\* A sample that counts as a success showed the light node the committed cells
\* of its whole row and column, whatever the peer filled in for cells it lacks
\* and whichever sample's proof it sent.
AcceptedIsCommitted ==
    \A i \in Successes :
        outcome[i] = {<<cell, grid[cell]>> :
                         cell \in Row(Selected(i, Side(grid)), Side(grid))
                                  \union Column(Selected(i, Side(grid)), Side(grid))}

\* The rows the light node has seen whole.
SeenRows == {Selected(i, Side(grid))[1] : i \in Successes}

\* The seen rows alone give back the payload.
Rebuilt ==
    LET k == Side(grid) \div 2
        Known(c) == [r \in SeenRows |->
                       (CHOOSE x \in Revealed : x[1] = <<r, c>>)[2]]
    IN  \A n \in 1..Len(payload) :
            payload[n] = Interpolate(Known((n - 1) % k), (n - 1) \div k)

\* What accepted samples promise: once they cover as many rows as the payload
\* has, those rows alone give back the payload, even when the producer
\* overwrote a committed cell that no accepted sample touched.
SamplesRecoverPayload == Cardinality(SeenRows) >= Side(grid) \div 2 => Rebuilt

\* The decided samples are spread over the rows: whichever of them fail, those
\* left by a report of availability lie in as many rows as the payload has.
SpreadOut ==
    \A T \in SUBSET DOMAIN outcome :
        Enough(Cardinality(T), Cardinality(DOMAIN outcome)) =>
            Cardinality({Selected(i, Side(grid))[1] : i \in T}) >= Side(grid) \div 2

\* What is_available promises: a fruit it reports can be rebuilt from what the
\* samples showed when the samples asked for are spread over the rows.  Without
\* that (several samples in one row, or fewer than the payload has rows) the
\* report says only that the share of the samples was served as committed.
ReportRecoversPayload == IsAvailable(outcome) /\ SpreadOut => Rebuilt

\* What verify_sample accepts was committed to, samples that cover enough rows
\* give back the payload, and so does a report of is_available whose samples
\* are spread over the rows.
SamplingSound == AcceptedIsCommitted /\ SamplesRecoverPayload /\ ReportRecoversPayload
=============================================================================
