------------------------------- MODULE Codec --------------------------------
(***************************************************************************)
(* The compressed objects of codec/: transactions by template (template.py)*)
(* and, over that, by a learned prior (learned.py), and the parent         *)
(* candidates of an anchor by an affine factor (topology.py).              *)
(*                                                                         *)
(* An object is a sequence of fields <<kind, value>>.  Reading a field of  *)
(* another kind stands for running out of step with the bytes, which ends  *)
(* in a refusal.  A varint longer than its value needs is of kind          *)
(* "padded".  RangeCoder shows that the range coder is undone by its       *)
(* decoder; here it wraps every field.  A witness is <<"std", sig, key>>   *)
(* when it has the 96 bytes of a signature and a key, whatever they mean,  *)
(* and <<"raw", content>> otherwise.                                       *)
(***************************************************************************)
EXTENDS RangeCoder, Templates

CONSTANTS
    CodecTxs,       \* transactions: locks, inputs and outputs
    Weights,        \* learned weights: a prior per position, and a fallback
    TopologyLists,  \* lists of parent candidates; a hash is a function to bytes
    ByteValues,     \* number of values of a byte
    MaxObject,      \* MAX_TEMPLATE_COMPRESSED_BYTES, in fields
    MaxCommitments  \* MAX_TOPOLOGY_COMMITMENTS

VARIABLES
    original,  \* what was compressed: [format, value], and the weights if learned
    wire,      \* the object on the wire
    outcome    \* <<>> before it is decompressed, then <<"refused">> or <<"returned", value>>

codecVars == <<original, wire, outcome>>

Count(n) == [i \in 1..n |-> i]

-----------------------------------------------------------------------------
(* template.py: the payload.  A style says which liberties an encoder takes *)
(* that the format leaves room for; compress_tx takes none.                 *)

Strict == [zeroLocks |-> FALSE, rawStd |-> FALSE, direct |-> FALSE, lastRef |-> FALSE]
Styles == {[Strict EXCEPT ![choice] = TRUE] : choice \in DOMAIN Strict}

LockFields(locks, style) ==
    LET set == {l \in {"time", "height"} : locks[l] # 0 \/ style.zeroLocks}
        Field(l) == IF l \in set THEN <<<<"u64", locks[l]>>>> ELSE <<>>
    IN  <<<<"flags", set>>>> \o Field("time") \o Field("height")

\* _is_standard_ed25519_witness.
IsStandard(wit) == wit[1] = "std"

\* The signers' hashes, in input order, that outputs may refer to.
Signers(ins) ==
    LET standard == SelectSeq(ins, LAMBDA in : IsStandard(in.wit))
    IN  [i \in DOMAIN standard |-> Hash(standard[i].wit[3])]

WitnessLen(wit) == IF IsStandard(wit) THEN 96 ELSE 32

InputFields(in, style) ==
    <<<<"outpoint", in.op>>>> \o
    IF IsStandard(in.wit) /\ ~style.rawStd
    THEN <<<<"kind", "ed25519">>, <<"sig", in.wit[2]>>, <<"key", in.wit[3]>>>>
    ELSE <<<<"kind", "raw">>, <<"uvarint", WitnessLen(in.wit)>>, <<"bytes", in.wit>>>>

\* _encode_output_payload and _encode_hashlock_inner_payload: a PKH output to a
\* signer is a reference to the first signer with that hash.
PayloadFields(p, signers, style) ==
    LET refs == {i \in DOMAIN signers : p.template = "pkh" /\ signers[i] = p.hash}
        Multisig(m) == <<<<"kind", "multisig">>, <<"keys", [threshold |-> m.threshold,
                                                          keys |-> m.keys]>>>>
        Direct(m) == <<<<"kind", "direct">>, <<"hash", m.hash>>>>
    IN  CASE p.template = "pkh" /\ refs # {} /\ ~style.direct ->
               <<<<"kind", "ref">>,
                 <<"uvarint", (IF style.lastRef THEN Max(refs) ELSE Min(refs)) - 1>>>>
          [] p.template = "pkh" /\ (refs = {} \/ style.direct) -> Direct(p)
          [] p.template = "multisig" -> Multisig(p)
          [] p.template = "hashlock" ->
               <<<<"kind", "hashlock">>, <<"hash", p.hash>>>> \o
               IF p.inner.template = "pkh" THEN Direct(p.inner) ELSE Multisig(p.inner)

\* _compress_template_payload.
TemplatePayload(tx, style) ==
    LockFields(tx.locks, style) \o
    <<<<"uvarint", Len(tx.ins)>>, <<"uvarint", Len(tx.outs)>>>> \o
    FlattenSeq([i \in DOMAIN tx.ins |-> InputFields(tx.ins[i], style)]) \o
    FlattenSeq([i \in DOMAIN tx.outs |->
        <<<<"uvarint", tx.outs[i].amount>>>> \o
        PayloadFields(tx.outs[i].payload, Signers(tx.ins), style) \o
        LockFields(tx.outs[i].locks, style)])

-----------------------------------------------------------------------------
(* Reading a payload.  What is read at a position is the set of what it can *)
(* be, [next, val]: the position after it and the value, one element, or    *)
(* none where the reader raises.                                            *)

\* _Reader: the next field, if it is of the kind read.
FieldAt(p, at, kind) ==
    IF at <= Len(p) /\ p[at][1] = kind THEN {[next |-> at + 1, val |-> p[at][2]]} ELSE {}

Yield(r, v) == [next |-> r.next, val |-> v]

\* An optional u64: zero when its flag is not set.
LockAt(p, at, flagged) == IF flagged THEN FieldAt(p, at, "u64") ELSE {[next |-> at, val |-> 0]}

LocksAt(p, at) ==
    UNION {UNION {{Yield(height, [time |-> time.val, height |-> height.val]) :
                     height \in LockAt(p, time.next, "height" \in flags.val)} :
                  time \in LockAt(p, flags.next, "time" \in flags.val)} :
           flags \in {f \in FieldAt(p, at, "flags") : f.val \subseteq {"time", "height"}}}

WitnessAt(p, at, kind) ==
    CASE kind = "ed25519" ->
           UNION {{Yield(key, <<"std", sig.val, key.val>>) : key \in FieldAt(p, sig.next, "key")} :
                  sig \in FieldAt(p, at, "sig")}
      [] kind = "raw" ->
           UNION {{wit \in FieldAt(p, size.next, "bytes") : WitnessLen(wit.val) = size.val} :
                  size \in FieldAt(p, at, "uvarint")}
      [] OTHER -> {}

InputAt(p, at) ==
    UNION {UNION {{Yield(wit, [op |-> op.val, wit |-> wit.val]) :
                     wit \in WitnessAt(p, kind.next, kind.val)} :
                  kind \in FieldAt(p, op.next, "kind")} :
           op \in FieldAt(p, at, "outpoint")}

RECURSIVE InputsAt(_, _, _)
InputsAt(p, at, n) ==
    IF n = 0 THEN {[next |-> at, val |-> <<>>]}
    ELSE UNION {{Yield(rest, <<in.val>> \o rest.val) : rest \in InputsAt(p, in.next, n - 1)} :
                in \in InputAt(p, at)}

\* A PKH payload in full, and a multisig payload whose header is checked.
PkhAt(p, at) == {Yield(h, [template |-> "pkh", hash |-> h.val]) : h \in FieldAt(p, at, "hash")}

MultisigAt(p, at) ==
    {Yield(m, [template |-> "multisig", threshold |-> m.val.threshold, keys |-> m.val.keys]) :
       m \in {f \in FieldAt(p, at, "keys") : /\ Len(f.val.keys) \in 1..MaxKeys
                                            /\ f.val.threshold \in 1..Len(f.val.keys)}}

\* _decode_hashlock_inner_payload.
InnerAt(p, at) ==
    UNION {CASE kind.val = "direct" -> PkhAt(p, kind.next)
             [] kind.val = "multisig" -> MultisigAt(p, kind.next)
             [] OTHER -> {} : kind \in FieldAt(p, at, "kind")}

\* _decode_output_payload.
PayloadAt(p, at, signers) ==
    UNION {CASE kind.val = "direct" -> PkhAt(p, kind.next)
             [] kind.val = "ref" ->
                  {Yield(ref, [template |-> "pkh", hash |-> signers[ref.val + 1]]) :
                     ref \in {f \in FieldAt(p, kind.next, "uvarint") :
                                f.val + 1 \in DOMAIN signers}}
             [] kind.val = "multisig" -> MultisigAt(p, kind.next)
             [] kind.val = "hashlock" ->
                  UNION {{Yield(inner, [template |-> "hashlock", hash |-> lock.val,
                                        inner |-> inner.val]) :
                            inner \in InnerAt(p, lock.next)} :
                         lock \in FieldAt(p, kind.next, "hash")}
             [] OTHER -> {} : kind \in FieldAt(p, at, "kind")}

OutputAt(p, at, signers) ==
    UNION {UNION {{Yield(locks, [amount |-> amount.val, payload |-> payload.val,
                                 locks |-> locks.val]) : locks \in LocksAt(p, payload.next)} :
                  payload \in PayloadAt(p, amount.next, signers)} :
           amount \in FieldAt(p, at, "uvarint")}

RECURSIVE OutputsAt(_, _, _, _)
OutputsAt(p, at, n, signers) ==
    IF n = 0 THEN {[next |-> at, val |-> <<>>]}
    ELSE UNION {{Yield(rest, <<out.val>> \o rest.val) :
                   rest \in OutputsAt(p, out.next, n - 1, signers)} :
                out \in OutputAt(p, at, signers)}

\* _require_template_payload: the same conditions as validate_template_payload.
RequireTemplatePayload(p) == ValidPayload(p)

\* What Output and Transaction refuse to be constructed with; CodecTxs are
\* within MAX_TX_BYTES and their amounts within the supply.
ConstructibleOutput(out) == out.amount > 0 /\ RequireTemplatePayload(out.payload)

Constructible(tx) == tx.outs # <<>> /\ \A i \in DOMAIN tx.outs : ConstructibleOutput(tx.outs[i])

\* _decompress_template_payload: the transaction, nothing when it raises.
TxsOfPayload(p) ==
    LET Rest(locks, nin, nout, ins) ==
          {[locks |-> locks.val, ins |-> ins.val, outs |-> outs.val] :
             outs \in {o \in OutputsAt(p, ins.next, nout.val, Signers(ins.val)) :
                         o.next = Len(p) + 1}}
    IN  {tx \in UNION {UNION {UNION {UNION {Rest(locks, nin, nout, ins) :
                                              ins \in InputsAt(p, nout.next, nin.val)} :
                                      nout \in FieldAt(p, nin.next, "uvarint")} :
                              nin \in FieldAt(p, locks.next, "uvarint")} :
                      locks \in LocksAt(p, 1)} : Constructible(tx)}

-----------------------------------------------------------------------------
(* template.py: the object. *)

\* The length of the uncompressed transaction, in units of its parts.
RawLen(tx) == 5 + 3 * Len(tx.ins) + 5 * Len(tx.outs)

RangeCoded(payload) == [i \in DOMAIN payload |-> <<"coded", payload[i]>>]

\* Fields past the end decode to zeros, and what follows the last one is not read.
RangeDecoded(coded, n) ==
    [i \in 1..n |-> IF i <= Len(coded) THEN coded[i][2] ELSE <<"u64", 0>>]

TemplateHeader == 6

TemplateObject(tx, style) ==
    LET payload == TemplatePayload(tx, style)
    IN  <<<<"codec", "template">>, <<"rawlen", RawLen(tx)>>, <<"len", Len(payload) + 3>>,
          <<"magic", "TPTC">>, <<"coder", "adaptive">>, <<"len", Len(payload)>>>>
        \o RangeCoded(payload)

\* compress_tx.
CompressTx(tx) == TemplateObject(tx, Strict)

\* _decompress_body: the body's own header, then the range-coded payload.
TxsOfBody(data) ==
    IF data[4][2] = "TPTC" /\ data[5][2] = "adaptive" /\ data[6][2] <= MaxObject
    THEN TxsOfPayload(RangeDecoded(SubSeq(data, TemplateHeader + 1, Len(data)), data[6][2]))
    ELSE {}

\* decompress_tx: what was read must compress to the very bytes.
DecompressTx(data) ==
    IF /\ Len(data) \in TemplateHeader..MaxObject
       /\ data[1][2] = "template"
       /\ Len(data) = data[3][2] + 3
    THEN {tx \in TxsOfBody(data) : RawLen(tx) = data[2][2] /\ CompressTx(tx) = data}
    ELSE {}

-----------------------------------------------------------------------------
(* learned.py: the template object as its differences from a prediction.   *)

\* predict_template_bytes.
Predict(n, w) == [i \in 1..n |-> IF i <= Len(w.prior) THEN w.prior[i] ELSE w.fallback]

\* _resolve_weights and _enforce_weights_hash: a hash of zeros, the default,
\* disables the codec; a hash stands for the weights it was computed from.
Disabled == [prior |-> <<>>, fallback |-> <<>>]
Enforced(w, expected) == expected # Disabled /\ w = expected

\* _compress_template_object: positions are counted from the previous one.
LearnedBody(object, w) ==
    LET predicted == Predict(Len(object), w)
        residuals == SelectSeq(Count(Len(object)), LAMBDA i : object[i] # predicted[i])
    IN  [hash |-> object, len |-> Len(object),
         residuals |-> [j \in DOMAIN residuals |->
             [skip |-> residuals[j] - (IF j = 1 THEN 0 ELSE residuals[j - 1]) - 1,
              field |-> object[residuals[j]]]]]

LearnedObject(tx, w) == [rawlen |-> RawLen(tx), body |-> LearnedBody(CompressTx(tx), w)]

\* _decompress_template_object: the object, nothing when it raises.
ObjectsOfBody(body, w) ==
    LET At(j) == j + MapThenSumSet(LAMBDA h : body.residuals[h].skip, 1..j)
        n == Len(body.residuals)
        Field(i) == IF \E j \in 1..n : At(j) = i
                    THEN body.residuals[CHOOSE j \in 1..n : At(j) = i].field
                    ELSE Predict(i, w)[i]
    IN  IF body.len \in TemplateHeader..MaxObject /\ n <= body.len /\ At(n) <= body.len
        THEN {object \in {[i \in 1..body.len |-> Field(i)]} :
                object = body.hash /\ object[1] = <<"codec", "template">>}
        ELSE {}

\* learned.decompress_tx.
DecompressLearned(data, w, expected) ==
    IF Enforced(w, expected)
    THEN {tx \in UNION {DecompressTx(object) : object \in ObjectsOfBody(data.body, w)} :
            LearnedObject(tx, w) = data}
    ELSE {}

-----------------------------------------------------------------------------
(* topology.py *)

RawBytes(n) == 4 + 32 * n
FactorBytes == 4 + 1 + 4 + 3 * 32

\* _int8_value.
Int8(v) == IF 2 * v < ByteValues THEN v ELSE v - ByteValues

\* _affine_row.
AffineRow(base, slope, i) ==
    [c \in DOMAIN base |-> (Int8(base[c]) + i * Int8(slope[c])) % ByteValues]

AffineRows(base, slope, n) == [i \in 1..n |-> AffineRow(base, slope, i - 1)]

\* _require_commitments.
Acceptable(list) == Len(list) <= MaxCommitments /\ IsInjective(list)

RawTopology(list) == [codec |-> "raw", rawlen |-> RawBytes(Len(list)), rows |-> list]

FactorTopology(list, base, slope) ==
    [codec |-> "topology", rawlen |-> RawBytes(Len(list)), count |-> Len(list),
     hash |-> list, base |-> base, slope |-> slope]

\* compress_anchor_topology and _factor_affine_int8: the factor when the list is
\* affine and its object is the shorter one.
CompressTopology(list) ==
    LET base == list[1]
        slope == [c \in DOMAIN base |-> (list[2][c] - base[c]) % ByteValues]
    IN  IF /\ Len(list) >= 2
           /\ FactorBytes < RawBytes(Len(list))
           /\ list = AffineRows(base, slope, Len(list))
        THEN FactorTopology(list, base, slope) ELSE RawTopology(list)

\* _decode_affine_int8_body: the list, nothing when it raises.
ListsOfFactor(data) ==
    IF data.count \in 2..MaxCommitments /\ RawBytes(data.count) = data.rawlen
    THEN {rows \in {AffineRows(data.base, data.slope, data.count)} : rows = data.hash}
    ELSE {}

\* decompress_anchor_topology and _deserialize_commitments.
DecompressTopology(data) ==
    {list \in IF data.codec = "topology" THEN ListsOfFactor(data) ELSE {data.rows} :
       /\ data.rawlen = RawBytes(Len(list))
       /\ Acceptable(list)
       /\ CompressTopology(list) = data}

-----------------------------------------------------------------------------
(* An object is sent, perhaps altered, and received. *)

NoObject == [format |-> "none"]

CodecInit == original = NoObject /\ wire = <<>> /\ outcome = <<>>

Canonical(o) ==
    CASE o.format = "template" -> CompressTx(o.value)
      [] o.format = "learned" -> LearnedObject(o.value, o.weights)
      [] o.format = "topology" -> CompressTopology(o.value)

\* The value is a Transaction, which its constructor has checked, or a list that
\* compress_anchor_topology takes.
EncodeAndSend(o) ==
    /\ original = NoObject
    /\ IF o.format = "topology" THEN Acceptable(o.value) ELSE Constructible(o.value)
    /\ original' = o /\ wire' = Canonical(o)
    /\ UNCHANGED outcome

\* Field values another sender or a fault may put in a field's place.
Otherwise(field) ==
    CASE field[1] = "coded" -> {<<"coded", f>> : f \in
            CASE field[2][1] = "uvarint" -> {<<"uvarint", v>> : v \in 0..2}
                                            \cup {<<"padded", field[2][2]>>}
              [] field[2][1] = "flags" -> {<<"flags", s>> :
                                             s \in SUBSET {"time", "height", "unknown"}}
              [] field[2][1] = "kind" -> {<<"kind", k>> : k \in {"raw", "direct", "other"}}
              [] OTHER -> {<<"u64", 0>>}}
      [] field[1] \in {"len", "rawlen"} -> {<<field[1], field[2] + d>> : d \in {-1, 1}}
      [] OTHER -> {<<field[1], "other">>}

Altered(data) ==
    UNION {{[data EXCEPT ![i] = f] : f \in Otherwise(data[i])} : i \in DOMAIN data}
    \cup {[data EXCEPT ![3][2] = @ + 1] \o <<<<"coded", <<"u64", 0>>>>>>,
          SubSeq(data, 1, Len(data) - 1)}

AlterTemplate ==
    /\ outcome = <<>> /\ original.format = "template" /\ wire = Canonical(original)
    /\ wire' \in Altered(wire) \cup {TemplateObject(original.value, style) : style \in Styles}
    /\ UNCHANGED <<original, outcome>>

\* A residual that repeats the prediction, one that is lost, another hash or
\* another template object, a strict or a free one, under the same weights.
AlterLearned ==
    /\ outcome = <<>> /\ original.format = "learned" /\ wire = Canonical(original)
    /\ \/ /\ wire.body.residuals # <<>>
          /\ wire' = [wire EXCEPT !.body.residuals = Tail(@)]
       \/ /\ wire.body.residuals # <<>> /\ wire.body.residuals[1].skip > 0
          /\ wire' = [wire EXCEPT !.body.residuals =
                         <<[skip |-> 0, field |-> Predict(1, original.weights)[1]],
                           [@[1] EXCEPT !.skip = @ - 1]>> \o Tail(@)]
       \/ \E style \in Styles :
            wire' = [wire EXCEPT !.body = LearnedBody(TemplateObject(original.value, style),
                                                      original.weights)]
       \/ wire' = [wire EXCEPT !.rawlen = @ + 1]
    /\ UNCHANGED <<original, outcome>>

AlterTopology ==
    /\ outcome = <<>> /\ original.format = "topology" /\ wire = Canonical(original)
    /\ \/ wire' = RawTopology(original.value)
       \/ \E list \in TopologyLists : list # <<>> /\ original.value # <<>>
            /\ wire' = FactorTopology(original.value, original.value[1], list[1])
       \/ wire' = [wire EXCEPT !.rawlen = @ + 32]
    /\ UNCHANGED <<original, outcome>>

Verdict(values) ==
    IF values = {} THEN <<"refused">> ELSE <<"returned", CHOOSE value \in values : TRUE>>

Receive(format, values) ==
    /\ original.format = format /\ outcome = <<>>
    /\ outcome' = Verdict(values)
    /\ UNCHANGED <<original, wire>>

CodecNext ==
    \/ \E tx \in CodecTxs : EncodeAndSend([format |-> "template", value |-> tx])
    \/ \E tx \in CodecTxs, w \in Weights :
         EncodeAndSend([format |-> "learned", value |-> tx, weights |-> w])
    \/ \E list \in TopologyLists : EncodeAndSend([format |-> "topology", value |-> list])
    \/ AlterTemplate \/ AlterLearned \/ AlterTopology
    \/ Receive("template", DecompressTx(wire))
    \/ Receive("topology", DecompressTopology(wire))
    \* The receiver of a learned object has weights and an expected hash of its own.
    \/ \E w \in Weights, expected \in Weights \cup {Disabled} :
         Receive("learned", DecompressLearned(wire, w, expected))

-----------------------------------------------------------------------------
(* Properties. *)

\* An object that compress returned and nobody altered decompresses to what was
\* compressed, as long as it fits the size the decoder takes, and any other
\* object, another encoding of the same value included, to something else or
\* to nothing: a value has one encoding.  A receiver with other weights
\* refuses a learned object.
ObjectsRoundTrip ==
    outcome # <<>> =>
      LET back == outcome = <<"returned", original.value>>
          fits == \/ original.format = "topology"
                  \/ Len(CompressTx(original.value)) <= MaxObject
      IN  IF wire # Canonical(original) THEN ~back
          ELSE IF original.format = "learned"
          THEN /\ back \/ outcome = <<"refused">>
               /\ fits => DecompressLearned(wire, original.weights, original.weights)
                              = {original.value}
          ELSE back <=> fits

\* compress and decompress undo each other in both layers, the range coder's
\* bits and the objects built on it.
CodecsRoundTrip == DecoderFollows /\ ObjectsRoundTrip
=============================================================================
