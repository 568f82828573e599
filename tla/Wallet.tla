------------------------------- MODULE Wallet -------------------------------
(***************************************************************************)
(* wallet/wallet.py's spending side with the transactions it builds (tx/   *)
(* transaction.py) and the node that checks them.  The wallet works from a *)
(* listing of coins that was exported earlier; the node's coins, height,   *)
(* shard tree and fee floors move on meanwhile.  The chain only grows      *)
(* here: after a reorganisation to a lower tip a height lock that had      *)
(* passed may hold again.                                                  *)
(***************************************************************************)
EXTENDS Templates, ShardTree

CONSTANTS
    OwnKey,        \* the wallet's key pair
    Asks,          \* what sends ask for: [key, amount, fee, change, locks], with
                   \* the recipient's key, that of the change and the two locks
    Clocks,        \* times in ms, of an embedding's clock and of fruit headers
    StartCoins,    \* the coins the node may start with (a set of sets)
    FloorTables,   \* what anchors may carry: the leaves of a shard tree -> fee floor
    TxId(_),       \* the bits of a transaction's id that route it
    KbBytes,       \* BYTES_PER_KB
    MaxSupply,     \* MAX_SUPPLY_MATOMS
    MaxTxBytes, TxHeaderBytes, InputBytes, WitnessBytes, OutputBytes,
    Outpoints,     \* outpoints in the order of their bytes
    MaxHeight, MaxSends

\* Coins as the node's set has them: finitely many, no two of one outpoint.
IsCoinSet(S) ==
    /\ IsFiniteSet(S)
    /\ \A c \in S : /\ c.outpoint \in Outpoints
                    /\ {c.amount, c.locks.time, c.locks.height} \subseteq Nat
                    /\ \A d \in S : c.outpoint = d.outpoint => c = d

ASSUME WalletAssumption ==
    /\ IsKey(OwnKey)
    /\ Outpoints \cup {MaxSupply} \subseteq Nat
    /\ \A a \in Asks : {a.amount, a.fee} \subseteq Nat
    /\ \A t \in FloorTables : validate_leaf_partition(DOMAIN t)
    /\ \A S \in StartCoins : IsCoinSet(S)

VARIABLES
    coins,     \* the node's UTXO set: records of outpoint, amount, payload and locks
    height,    \* the node's anchor height
    floors,    \* the fee floors of the last anchor; their shards are the leaves of
               \* its shard tree, which process_anchor checks
    listing,   \* the coins of the exported JSON file
    sent       \* what create_signed_transaction returned: [tx, ask]

walletVars == <<coins, height, floors, listing, sent>>

-----------------------------------------------------------------------------
(* Transactions. *)

Pkh(key) == [template |-> "pkh", hash |-> Hash(key)]
NoLocks == [time |-> 0, height |-> 0]

\* Output.__post_init__ and _require_template_payload.
ValidOutput(o) == o.amount \in 1..MaxSupply /\ ValidPayload(o.payload)

\* The length of to_bytes.
TxBytes(tx) ==
    TxHeaderBytes + Len(tx.outputs) * OutputBytes
        + Len(tx.inputs) * InputBytes
        + Len(SelectSeq(tx.inputs, LAMBDA i : i.witness # <<>>)) * WitnessBytes

\* Transaction.__post_init__.
ValidTransaction(tx) ==
    /\ tx.outputs # <<>>
    /\ \A i \in 1..Len(tx.outputs) : ValidOutput(tx.outputs[i])
    /\ TxBytes(tx) <= MaxTxBytes

\* without_witnesses.
WithoutWitnesses(tx) ==
    [inputs |-> [i \in 1..Len(tx.inputs) |->
                   [outpoint |-> tx.inputs[i].outpoint, witness |-> <<>>]],
     outputs |-> tx.outputs, locks |-> tx.locks]

\* sighash: one input of the transaction without witnesses.
Sighash(tx, i) == <<WithoutWitnesses(tx), i>>

-----------------------------------------------------------------------------
(* The wallet. *)

Amount(S) == SumFunction([c \in S |-> c.amount])

\* Coins sorted by outpoint: the i-th has i - 1 before it.
ByOutpoint(S) ==
    [i \in 1..Cardinality(S) |->
        CHOOSE c \in S : Cardinality({d \in S : d.outpoint < c.outpoint}) = i - 1]

\* _utxo_is_mature.
UtxoIsMature(c, now) == Mature(c.locks.time, now.time) /\ Mature(c.locks.height, now.height)

\* Faulty: coins under a lock are taken as well.
OwnedUtxosAnyLock(S, now) ==
    ByOutpoint({c \in S : c.payload = Pkh(OwnKey)})

\* owned_utxos: the wallet's mature PKH coins, in outpoint order.
OwnedUtxos(S, now) ==
    ByOutpoint({c \in S : c.payload = Pkh(OwnKey) /\ UtxoIsMature(c, now)})

\* balance_matoms.
BalanceMatoms(S, now) == Amount(Range(OwnedUtxos(S, now)))

\* The selection loop: coins in order until they cover what is required.
Selected(S, now, required) ==
    LET owned == OwnedUtxos(S, now)
        Covers(n) == Amount(Range(SubSeq(owned, 1, n))) >= required
    IN  SubSeq(owned, 1, Min({n \in 1..Len(owned) : Covers(n)}))

\* The recipient's output, and one for the change when there is any.
OutputsFor(ask, change) ==
    LET Out(a, k) == [amount |-> a, payload |-> Pkh(k), locks |-> NoLocks]
        paid == Out(ask.amount, ask.key)
    IN  IF change = 0 THEN <<paid>> ELSE <<paid, Out(change, ask.change)>>

\* sign_transaction: every input by the wallet's key.
SignTransaction(tx) ==
    [inputs |-> [i \in 1..Len(tx.inputs) |->
                   [outpoint |-> tx.inputs[i].outpoint,
                    witness |-> <<<<"sig", OwnKey[2], Sighash(tx, i)>>, OwnKey>>]],
     outputs |-> tx.outputs, locks |-> tx.locks]

\* create_signed_transaction: what it returns, none when it raises.
CreateSignedTransaction(S, now, ask) ==
    LET required == ask.amount + ask.fee
        chosen == Selected(S, now, required)
        unsigned == [inputs |-> [i \in 1..Len(chosen) |->
                                   [outpoint |-> chosen[i].outpoint, witness |-> <<>>]],
                     outputs |-> OutputsFor(ask, Amount(Range(chosen)) - required),
                     locks |-> ask.locks]
        signed == SignTransaction(unsigned)
    IN  IF ask.amount \notin 1..MaxSupply \/ BalanceMatoms(S, now) < required THEN {}
        ELSE IF ValidTransaction(unsigned) /\ ValidTransaction(signed) THEN {signed} ELSE {}

-----------------------------------------------------------------------------
(* The node. *)

Coin(o) == CHOOSE c \in coins : c.outpoint = o
Spent(tx) == {tx.inputs[i].outpoint : i \in 1..Len(tx.inputs)}
InputSum(tx) == Amount({c \in coins : c.outpoint \in Spent(tx)})
OutputSum(tx) == SumFunction([i \in 1..Len(tx.outputs) |-> tx.outputs[i].amount])
Unspent(tx) == Spent(tx) \subseteq {c.outpoint : c \in coins}

\* The fruits a transaction may come in: their shard and their header's timestamp.
Fruits == [shard : ShardIds, time : Clocks]
LocksPassed(locks, fruit) == Mature(locks.time, fruit.time) /\ Mature(locks.height, height + 1)
PaysFloor(tx, fee, fruit) == (fee * KbBytes) \div TxBytes(tx) >= floors[fruit.shard]

\* _apply_spend_tx returns no error, for the anchor that comes next.
NodeAccepts(tx, fruit) ==
    /\ route_tx(DOMAIN floors, TxId(tx)) = fruit.shard
    /\ LocksPassed(tx.locks, fruit)
    /\ Cardinality(Spent(tx)) = Len(tx.inputs)
    /\ Unspent(tx)
    /\ \A i \in 1..Len(tx.inputs) :
         LET c == Coin(tx.inputs[i].outpoint)
         IN  VerifyTemplate(c.payload, tx.inputs[i].witness, c.locks,
                            [message |-> Sighash(tx, i), time |-> fruit.time,
                             height |-> height + 1])
    /\ OutputSum(tx) <= InputSum(tx)
    /\ PaysFloor(tx, InputSum(tx) - OutputSum(tx), fruit)

\* A shard without a stored floor has floor 0.
WalletInit ==
    /\ coins \in StartCoins
    /\ height = 0
    /\ floors = [shard \in ROOT_TREE |-> 0]
    /\ listing = {}
    /\ sent = {}

\* utxos_to_json over the node's set, read back by load_utxos_json.
ExportUtxos ==
    /\ listing' = coins
    /\ UNCHANGED <<coins, height, floors, sent>>

Send(now, ask) ==
    /\ Cardinality(sent) < MaxSends
    /\ \E tx \in CreateSignedTransaction(listing, now, ask) :
         sent' = sent \cup {[tx |-> tx, ask |-> ask]}
    /\ UNCHANGED <<coins, height, floors, listing>>

\* The node applies a transaction; its outputs get outpoints nobody has seen,
\* its id followed by their index.
Confirm(e, fruit) ==
    /\ e \in sent /\ NodeAccepts(e.tx, fruit)
    /\ LET known == {c.outpoint : c \in coins \cup listing} \cup UNION {Spent(d.tx) : d \in sent}
           n == Len(e.tx.outputs)
       IN  \E at \in [1..n -> Outpoints \ known] :
             /\ \A i, j \in 1..n : i < j => at[i] < at[j]
             /\ coins' = {c \in coins : c.outpoint \notin Spent(e.tx)}
                         \cup {[outpoint |-> at[i], amount |-> e.tx.outputs[i].amount,
                                payload |-> e.tx.outputs[i].payload,
                                locks |-> e.tx.outputs[i].locks] : i \in 1..n}
    /\ UNCHANGED <<height, floors, listing, sent>>

\* An anchor, with the shard tree and the fee floors it brings.
NextHeight ==
    /\ height < MaxHeight
    /\ height' = height + 1
    /\ floors' \in FloorTables
    /\ UNCHANGED <<coins, listing, sent>>

\* tensorpow-wallet send reckons at time 0 and height 0; an embedding passes its
\* clock and the node's height.
Reckonings == {NoLocks} \cup [time : Clocks, height : {height}]

WalletNext ==
    \/ ExportUtxos
    \/ \E now \in Reckonings, ask \in Asks : Send(now, ask)
    \/ \E e \in sent, fruit \in Fruits : Confirm(e, fruit)
    \/ NextHeight

WalletSpec == WalletInit /\ [][WalletNext]_walletVars

-----------------------------------------------------------------------------
(* Properties. *)

\* A fruit may carry e's transaction as far as the chain and the clock go, which
\* the wallet has no say in: it is of the shard the id is routed to in the tree
\* of the day, the locks that were asked for have passed, nobody else has spent
\* the coins, their time locks have passed at the fruit's own timestamp (fruits
\* may be dated earlier than the wallet's clock), and the fee that was asked for
\* meets the floor of the day.
MayCarry(e, fruit) ==
    /\ route_tx(DOMAIN floors, TxId(e.tx)) = fruit.shard
    /\ LocksPassed(e.ask.locks, fruit)
    /\ Unspent(e.tx)
    /\ \A c \in coins : c.outpoint \in Spent(e.tx) => Mature(c.locks.time, fruit.time)
    /\ PaysFloor(e.tx, e.ask.fee, fruit)

\* A transaction create_signed_transaction returned is accepted in just the
\* fruits that may carry it, however old the listing it was built from and
\* however far the chain has moved since: it never fails on a witness, a height
\* lock of a coin, a repeated input or its value.  Its first output is what was
\* asked for, the change goes where it was asked to, and it leaves exactly the
\* fee.
SentRefusedOnlyByChain ==
    \A e \in sent :
        /\ \A fruit \in Fruits : NodeAccepts(e.tx, fruit) <=> MayCarry(e, fruit)
        /\ Unspent(e.tx) => InputSum(e.tx) - OutputSum(e.tx) = e.ask.fee
        /\ e.tx.outputs[1].amount = e.ask.amount
        /\ \A i \in 1..Len(e.tx.outputs) :
             e.tx.outputs[i].payload = Pkh(IF i = 1 THEN e.ask.key ELSE e.ask.change)
=============================================================================
