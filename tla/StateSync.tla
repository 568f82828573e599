------------------------------ MODULE StateSync ------------------------------
(***************************************************************************)
(* state/sync.py: reconciling the UTXO set with a peer's by a diff that    *)
(* carries removals, additions and an IBLT sketch of both.                 *)
(*                                                                         *)
(* Asking for a diff and applying it are separate calls: the local set may *)
(* change in between, and a diff may be applied twice or never.  A peer    *)
(* answers honestly, with a record left out or in another order under the  *)
(* roots it names, with records under a target root that is not theirs, or *)
(* the bytes are damaged on the way (Answers).  Byte layouts are left out: *)
(* what decoding refuses is kept, and the 64 MiB limit, which MaxEntries   *)
(* entries never reach, is not.                                            *)
(***************************************************************************)
EXTENDS UTXOSet, IBLT

CONSTANTS ChangeKey(_),   \* _change_key: the 8-byte hash of one change
          MaxEntries,     \* max_entries
          MaxDiffs        \* bound: diffs held at once

VARIABLE diffs            \* diffs obtained from peers, not yet discarded

syncVars == <<utxoVars, diffs>>

-----------------------------------------------------------------------------
(* Diffs *)

RemoveRecord(c) == [outpoint |-> c.outpoint, value |-> ValueHash(c)]

\* The records of S, one per outpoint, by their outpoints.
InOrder(S) == [i \in 1..Cardinality(S) |->
    CHOOSE x \in S : Cardinality({y \in S : y.outpoint < x.outpoint}) = i - 1]

\* _change_keys of the records, duplicates and all.
ChangeKeys(removals, additions) ==
    [i \in 1..Len(removals) |-> ChangeKey(<<"remove", removals[i].value>>)]
    \o [i \in 1..Len(additions) |-> ChangeKey(<<"add", ValueHash(additions[i])>>)]

CellCount(n) == 2 * n + HashCount

SortedBy(records) ==
    \A i, j \in DOMAIN records : i < j => records[i].outpoint < records[j].outpoint

\* _require_canonical_records.
CanonicalRecords(removals, additions) ==
    /\ Len(removals) + Len(additions) <= MaxEntries
    /\ SortedBy(removals) /\ SortedBy(additions)
    /\ \A i \in DOMAIN removals, j \in DOMAIN additions :
          removals[i].outpoint # additions[j].outpoint

\* The tables a peer can build from the changes there can be, peeled.
AllKeys == {ChangeKey(<<way, ValueHash(c)>>) : way \in {"remove", "add"}, c \in Coins}

Peeled == [x \in (UNION {kSubset(n, AllKeys) : n \in 0..MaxEntries}) \X (0..MaxEntries) |->
              Peel(BuildCells(x[1], CellCount(x[2])), {1})]

\* _encode_utxo_diff of records whose change keys are all different, and
\* _encode_full_snapshot_diff.  The IBLT cells are named by the keys they are
\* built from and their number; sumOk: the checksum matches the payload.
CompactDiff(base, target, removals, additions) ==
    LET keys == ChangeKeys(removals, additions)
    IN  [base |-> base, target |-> target,
         removals |-> removals, additions |-> additions, full |-> FALSE,
         sketch |-> <<Range(keys), CellCount(Len(keys))>>, sumOk |-> TRUE]

FullDiff(base, target, additions) ==
    [base |-> base, target |-> target, removals |-> <<>>, additions |-> additions,
     full |-> TRUE, sketch |-> <<{}, 0>>, sumOk |-> TRUE]

\* The encoder on given records: no diff when the entries are too many, else
\* the compact form unless two change keys are equal, then the full target set,
\* whose entries are counted too.
EncodedDiff(base, target, removals, additions, wanted) ==
    IF ~CanonicalRecords(removals, additions) THEN {}
    ELSE IF IsInjective(ChangeKeys(removals, additions))
         THEN {CompactDiff(base, target, removals, additions)}
    ELSE IF CanonicalRecords(<<>>, InOrder(Range(wanted)))
         THEN {FullDiff(base, target, InOrder(Range(wanted)))} ELSE {}

Removed(from, to) == {RemoveRecord(from[o]) : o \in DOMAIN from \ DOMAIN to}
Added(from, to)   == {to[o] : o \in DOMAIN to \ DOMAIN from}

\* build_utxo_diff: nothing when an outpoint has other bytes on the two sides.
BuildDiff(from, to) ==
    IF \E o \in DOMAIN from \intersect DOMAIN to : from[o] # to[o]
    THEN {}
    ELSE EncodedDiff(RootOf[from], RootOf[to], InOrder(Removed(from, to)),
                     InOrder(Added(from, to)), to)

\* _validate_iblt_sketch: the cells peel to exactly the records' keys.
SketchMatches(d) ==
    LET keys   == ChangeKeys(d.removals, d.additions)
        peeled == Peeled[<<d.sketch[1], Len(keys)>>]
    IN  IsInjective(keys) /\ peeled.ok /\ peeled.plus = Range(keys)

\* _decode_utxo_diff accepts the bytes.
Decodes(d) ==
    /\ d.sumOk
    /\ d.full => d.removals = <<>>
    /\ ~d.full => d.sketch[2] = CellCount(Len(d.removals) + Len(d.additions))
    /\ CanonicalRecords(d.removals, d.additions)
    /\ ~d.full => SketchMatches(d)

-----------------------------------------------------------------------------
(* Operations *)

\* What a peer may answer for the root of the set s: an honest diff to some
\* set t; under the same roots, records with the last removal or addition
\* missing, under their own sketch or the honest one; the honest records in
\* another order, or under the base's own root as the target; or damaged bytes.
Answers(s, t) ==
    LET honest == BuildDiff(s, t)
        short  == {<<Front(d.removals), d.additions>> : d \in {h \in honest : h.removals # <<>>}}
                  \union
                  {<<d.removals, Front(d.additions)>> : d \in {h \in honest : h.additions # <<>>}}
    IN  honest
        \union {CompactDiff(RootOf[s], RootOf[t], r[1], r[2]) : r \in short}
        \union {[d EXCEPT !.removals = r[1], !.additions = r[2]] : d \in honest, r \in short}
        \union {[d EXCEPT !.additions = Reverse(@)] : d \in honest}
        \union {[d EXCEPT !.target = RootOf[s]] : d \in honest}
        \union {[d EXCEPT !.sumOk = FALSE] : d \in honest}

AnswersFor == [s \in Sets |-> UNION {Answers(s, t) : t \in Sets}]

\* request_utxo_diff with the current root: a refused answer changes nothing.
Request(d) ==
    /\ Cardinality(diffs) < MaxDiffs
    /\ Decodes(d)
    /\ d.base = RootOf[utxos]
    /\ diffs' = diffs \union {d}
    /\ UNCHANGED utxoVars

Discard(d) == diffs' = diffs \ {d} /\ UNCHANGED utxoVars

\* The copy of the set that apply_utxo_diff builds up, removals first.
Reconciled(d) ==
    LET base   == IF d.full THEN [o \in {} |-> <<>>] ELSE utxos
        gone   == {d.removals[i].outpoint : i \in DOMAIN d.removals}
        coming == Range(d.additions)
    IN  [o \in (DOMAIN base \ gone) \union {c.outpoint : c \in coming} |->
            IF \E c \in coming : c.outpoint = o
            THEN CHOOSE c \in coming : c.outpoint = o ELSE base[o]]

\* Every check of apply_utxo_diff before it compares the resulting root.
Applicable(d) ==
    /\ Decodes(d)
    /\ RootOf[utxos] = d.base
    /\ \A i \in DOMAIN d.removals :
          /\ d.removals[i].outpoint \in DOMAIN utxos
          /\ ValueHash(utxos[d.removals[i].outpoint]) = d.removals[i].value
    /\ \A i \in DOMAIN d.additions :
          d.full \/ d.additions[i].outpoint \notin
                        DOMAIN utxos \ {d.removals[j].outpoint : j \in DOMAIN d.removals}

\* Faulty: the resulting root is not compared.
ApplyUnchecked(d) ==
    /\ Applicable(d)
    /\ ReplaceBy(Reconciled(d))
    /\ UNCHANGED diffs

\* apply_utxo_diff, its result taking the place of the set; it works on a
\* copy, so a refused diff leaves the set as it was.
Apply(d) ==
    /\ Applicable(d)
    /\ RootOf[Reconciled(d)] = d.target
    /\ ReplaceBy(Reconciled(d))
    /\ UNCHANGED diffs

SyncInit == UtxoInit /\ diffs = {}

SyncNext ==
    \/ \E c \in Coins : AddCoin(c) /\ UNCHANGED diffs
    \/ \E o \in DOMAIN utxos : RemoveCoin(o) /\ UNCHANGED diffs
    \/ ReadRoot /\ UNCHANGED diffs
    \/ \E o \in Outpoints : ReadProof(o) /\ UNCHANGED diffs
    \/ \E d \in AnswersFor[utxos] : Request(d)
    \/ \E d \in diffs : Discard(d)
    \/ \E d \in diffs : Apply(d)

SyncSpec == SyncInit /\ [][SyncNext]_syncVars

-----------------------------------------------------------------------------
(* Properties *)

SetOf == [r \in Range(RootOf) |-> CHOOSE s \in Sets : RootOf[s] = r]

OneChange(s) == {Without(s, o) : o \in DOMAIN s}
                \union {With(s, c.outpoint, c) :
                           c \in {x \in Coins : x.outpoint \notin DOMAIN s}}

Abstract == INSTANCE StateTransfer
    WITH local      <- utxos,
         offers     <- {<<SetOf[d.base], SetOf[d.target]>> : d \in diffs},
         Neighbours <- OneChange

\* Whichever of its Answers a peer gives, and however late or often the diff is
\* applied, sync is the atomic transfer it promises: the set never passes
\* through, or ends in, anything but the set under the diff's target root, and
\* only from the set under its base root.
SyncIsTransfer == Abstract!TransferSpec

\* build_utxo_diff "transforms local_set into target_set": the diff an honest
\* peer builds for the current set is accepted by the caller's decoder.
BuiltDiffApplies ==
    \A t \in Sets : \A d \in BuildDiff(utxos, t) : Decodes(d)
=============================================================================
