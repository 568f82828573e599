------------------------------ MODULE Templates -----------------------------
(***************************************************************************)
(* The standard output templates of tx/script.py and what they are made    *)
(* of: signatures, hashes and absolute locks.                              *)
(*                                                                         *)
(* A byte string is the tuple of its kind and its content; kinds stand for *)
(* lengths: a key or a hash has 32 bytes, a signature 64, a lock 8, a byte *)
(* one.  The byte 1 is both the number one and the canonical TRUE, and the *)
(* empty string is FALSE.  The hash functions are injective and signatures *)
(* unforgeable: <<"sig", k, m>> is made by the holder of k for m only.     *)
(***************************************************************************)
EXTENDS Integers, Sequences, SequencesExt

CONSTANT MaxKeys   \* MULTISIG_MAX_KEYS

ASSUME KeysBound == MaxKeys \in Nat \ {0}

-----------------------------------------------------------------------------
(* Byte strings. *)

Empty == <<"empty">>
True == <<"byte", 1>>
Bool(b) == IF b THEN True ELSE Empty
Is32(x) == x[1] \in {"hash", "key"}
IsKey(x) == x[1] = "key"
IsSig(x) == x[1] = "sig"

Hash(x) == <<"hash", x>>

\* verify_by_sig_type over _verify_signature_bytes: the lengths, then the signature.
Verifies(sig, key, message) == IsSig(sig) /\ IsKey(key) /\ sig = <<"sig", key[2], message>>

\* _require_distinct_multisig_keys.
Distinct(keys) == Cardinality(Range(keys)) = Len(keys)

\* _verify_ordered_multisig: every signature in turn takes the first key that
\* verifies it among the keys after the one the previous signature took.
OrderedMultisig(sigs, keys, message) ==
    LET Taken[i \in 0..Len(sigs)] ==
          IF i = 0 THEN 0
          ELSE LET fit == {j \in 1..Len(keys) :
                             /\ Taken[i - 1] < j
                             /\ Verifies(sigs[i], keys[j], message)}
               IN  IF Taken[i - 1] > Len(keys) \/ fit = {}
                   THEN Len(keys) + 1
                   ELSE Min(fit)
    IN  Taken[Len(sigs)] <= Len(keys)

\* check_locks, OP_CHECKLOCKTIME and OP_CHECKLOCKHEIGHT: an absolute lock; zero is no lock.
Mature(lock, now) == lock = 0 \/ now >= lock

-----------------------------------------------------------------------------
(* Templates.  A payload is [template, ...]: its length tells the template *)
(* of an inner payload.                                                    *)

\* _parse_multisig_payload's conditions.
ValidMultisig(p) ==
    /\ Len(p.keys) \in 1..MaxKeys
    /\ p.threshold \in 1..Len(p.keys)
    /\ \A i \in 1..Len(p.keys) : Is32(p.keys[i])
    /\ Distinct(p.keys)

\* validate_template_payload; a hashlock holds a PKH or a multisig payload.
ValidPayload(p) ==
    \/ p.template = "pkh" /\ Is32(p.hash)
    \/ p.template = "multisig" /\ ValidMultisig(p)
    \/ /\ p.template = "hashlock" /\ Is32(p.hash)
       /\ \/ p.inner.template = "pkh" /\ Is32(p.inner.hash)
          \/ p.inner.template = "multisig" /\ ValidMultisig(p.inner)

\* _verify_pkh: a signature and a key whose hash the payload names.
VerifyPkh(p, witness, message) ==
    /\ Len(witness) = 2 /\ IsSig(witness[1]) /\ Is32(witness[2])
    /\ Hash(witness[2]) = p.hash
    /\ Verifies(witness[1], witness[2], message)

\* _verify_multisig_template: exactly threshold signatures.
VerifyMultisig(p, witness, message) ==
    /\ Len(witness) = p.threshold
    /\ \A i \in 1..Len(witness) : IsSig(witness[i])
    /\ OrderedMultisig(witness, p.keys, message)

\* _verify_hashlock: the preimage, then a witness of the inner template.
VerifyHashlock(p, witness, message) ==
    /\ witness # <<>>
    /\ Hash(witness[1]) = p.hash
    /\ \/ p.inner.template = "pkh" /\ VerifyPkh(p.inner, Tail(witness), message)
       \/ p.inner.template = "multisig" /\ VerifyMultisig(p.inner, Tail(witness), message)

\* verify_template and verify_utxo_spend.  ctx is [message, time, height].
VerifyTemplate(p, witness, locks, ctx) ==
    /\ ValidPayload(p)
    /\ Mature(locks.time, ctx.time) /\ Mature(locks.height, ctx.height)
    /\ \/ p.template = "pkh" /\ VerifyPkh(p, witness, ctx.message)
       \/ p.template = "multisig" /\ VerifyMultisig(p, witness, ctx.message)
       \/ p.template = "hashlock" /\ VerifyHashlock(p, witness, ctx.message)

=============================================================================
