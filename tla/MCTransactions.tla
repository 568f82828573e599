--------------------------- MODULE MCTransactions ---------------------------
(***************************************************************************)
(* Transactions before they are mined: the script interpreter, the wallet, *)
(* its keystore file, the codecs they travel in, the mempool and the shard *)
(* tree that routes them.                                                  *)
(* They share no variable here, so a behaviour moves one of them, its      *)
(* focus, and leaves the others in an initial state.                       *)
(***************************************************************************)
EXTENDS Script, Wallet, Keystore, Codec, Mempool, ShardTreeOps, TLC

CONSTANT Focuses        \* the components this instance explores

VARIABLE focus

mcVars == <<focus, scriptVars, walletVars, keystoreVars, rangeVars, codecVars, poolVars,
            treeVars>>

Key(k) == <<"key", k>>
Sig(k, m) == <<"sig", k, m>>
NoSpend == [single |-> FALSE, threshold |-> 1, keys |-> <<Key(1)>>, sigs |-> <<Sig(1, 0)>>,
            hashlock |-> <<>>, preimage |-> <<"data", 1>>, locks |-> [time |-> 0, height |-> 0],
            ctx |-> [message |-> 0, time |-> 1, height |-> 1], suffix |-> <<>>]
CoinOf(o, v, p, l) == [outpoint |-> o, amount |-> v, payload |-> p, locks |-> l]
SomeCoins(v, w, l) ==
  {CoinOf(2, v, Pkh(Key(1)), l), CoinOf(4, 2, Pkh(Key(1)), NoLocks),
   CoinOf(6, w, Pkh(Key(1)), NoLocks), CoinOf(8, 5, Pkh(Key(2)), NoLocks),
   CoinOf(9, 5, [template |-> "multisig", threshold |-> 1, keys |-> <<Key(1)>>], NoLocks)}

Init ==
  /\ focus \in Focuses
  /\ ScriptInit
  /\ focus # "script" => spend = NoSpend
  /\ WalletInit
  /\ focus # "wallet" => coins = SomeCoins(1, 1, NoLocks)
  /\ KeystoreInit
  /\ RangeInit /\ CodecInit
  /\ PoolInit
  /\ IF focus = "tree" THEN DecodedInit ELSE TreeInit

Next ==
  \/ /\ focus = "script" /\ ScriptNext
     /\ UNCHANGED <<focus, walletVars, keystoreVars, rangeVars, codecVars, poolVars, treeVars>>
  \/ /\ focus = "wallet" /\ WalletNext
     /\ UNCHANGED <<focus, scriptVars, keystoreVars, rangeVars, codecVars, poolVars, treeVars>>
  \/ /\ focus = "keystore" /\ KeystoreNext
     /\ UNCHANGED <<focus, scriptVars, walletVars, rangeVars, codecVars, poolVars, treeVars>>
  \/ /\ focus = "range" /\ RangeNext
     /\ UNCHANGED <<focus, scriptVars, walletVars, keystoreVars, codecVars, poolVars, treeVars>>
  \/ /\ focus = "codec" /\ CodecNext
     /\ UNCHANGED <<focus, scriptVars, walletVars, keystoreVars, rangeVars, poolVars, treeVars>>
  \/ /\ focus = "mempool" /\ PoolNext
     /\ UNCHANGED <<focus, scriptVars, walletVars, keystoreVars, rangeVars, codecVars, treeVars>>
  \/ /\ focus = "tree" /\ TreeNext
     /\ UNCHANGED <<focus, scriptVars, walletVars, keystoreVars, rangeVars, codecVars, poolVars>>

Spec == Init /\ [][Next]_mcVars
-----------------------------------------------------------------------------
(* Constants *)

\* Spends of up to four keys and three signatures, right, wrong, repeated, out
\* of order or not signatures at all.
SomeSigs == {Sig(1, 0), Sig(2, 0), Sig(3, 0), Sig(1, 1), <<"data", 1>>}
KeyLists == {<<Key(1)>>, <<Key(1), Key(2)>>, <<Key(2), Key(1)>>, <<Key(1), Key(1)>>,
             <<Key(1), <<"data", 2>>>>, <<Key(1), Key(2), Key(3)>>,
             <<Key(1), Key(2), Key(3), Key(4)>>, <<>>}
MultisigSpends == {[NoSpend EXCEPT !.threshold = t, !.keys = k, !.sigs = s] :
                     t \in 0..3, k \in KeyLists, s \in UNION {[1..n -> SomeSigs] : n \in 0..3}}
LockedSpends == {[NoSpend EXCEPT !.single = o, !.sigs = s, !.hashlock = h,
                                 !.locks = [time |-> t, height |-> m]] :
                   o \in BOOLEAN,
                   s \in {<<>>, <<Sig(1, 0)>>, <<Sig(1, 1)>>, <<Sig(2, 0), Sig(1, 0)>>},
                   h \in {<<>>, <<Hash(<<"data", 1>>)>>, <<Hash(<<"data", 2>>)>>},
                   t \in 0..2, m \in 0..2}
\* Scripts that go on after the template, up to both limits and past them.
Checks(n) == [i \in 1..n |-> IF i % 2 = 1 THEN Op("DUP") ELSE Op("VERIFY")]
LongSpends == {[NoSpend EXCEPT !.suffix = x, !.sigs = s] :
                 s \in {<<>>, <<Sig(1, 0)>>, <<Sig(1, 1)>>},
                 x \in {Checks(n) : n \in {2, 14, 16}} \cup
                       {<<Op("UNKNOWN")>>, <<Push(<<"byte", 2>>), Op("VERIFY")>>,
                        <<Push(<<"byte", 2>>)>>, [i \in 1..10 |-> Op("DUP")]}}
\* Stacks of about the size the limit allows.
DeepSpends == {[NoSpend EXCEPT !.single = o, !.sigs = [i \in 1..n |-> Sig(1, 0)],
                               !.hashlock = h] :
                 o \in BOOLEAN, n \in 5..10, h \in {<<>>, <<Hash(<<"data", 1>>)>>}}
MCSpends == MultisigSpends \cup LockedSpends \cup LongSpends \cup DeepSpends

MCOwn == Key(1)
Locked(t, h) == [time |-> t, height |-> h]
Ask(k, a, f, c, l) == [key |-> k, amount |-> a, fee |-> f, change |-> c, locks |-> l]
\* Payments to others and to itself, with the change to either and both locks,
\* nothing at all, and fees below and above the floors.
MCAsks == {Ask(Key(2), 2, 1, Key(1), NoLocks), Ask(Key(2), 4, 0, Key(1), NoLocks),
           Ask(Key(1), 2, 3, Key(2), Locked(2, 0)), Ask(Key(2), 0, 1, Key(1), NoLocks),
           Ask(Key(2), 3, 0, Key(2), Locked(1, 2))}
MCStartCoins == {SomeCoins(x, y, l) : x \in {1, 3}, y \in {1, 4},
                                      l \in {NoLocks, Locked(0, 2), Locked(2, 1)}}
MCFloorTables == {[s \in {<<>>} |-> 0], [s \in {<<0>>, <<1>>} |-> IF s = <<0>> THEN 0 ELSE 1]}
MCTxId(t) == [i \in 1..SHARD_MAX_DEPTH |-> (t.outputs[1].amount \div 2) % 2]

\* Transactions with up to two inputs, of one signer or of two, and outputs that
\* refer to a signer, to nobody or to a key under a hash lock; a prior that has
\* learned a header, and one that has learned a whole payment.
Standard(k) == <<"std", Sig(k, 0), Key(k)>>
Witnesses == {Standard(1), Standard(2), <<"raw", 1>>}
PayTo(k) == [template |-> "pkh", hash |-> Hash(Key(k))]
TwoKeys == [template |-> "multisig", threshold |-> 1, keys |-> <<Key(1), Key(2)>>]
Payees == {PayTo(1), PayTo(2), TwoKeys} \cup
          {[template |-> "hashlock", hash |-> Hash(Key(3)), inner |-> p] : p \in {PayTo(1), TwoKeys}}
InputLists == {<<>>} \cup {<<[op |-> 1, wit |-> w]>> : w \in Witnesses} \cup
              {<<[op |-> 1, wit |-> v], [op |-> 2, wit |-> w]>> : v, w \in Witnesses}
OutputTo(p, l) == [amount |-> 1, payload |-> p, locks |-> l]
Payment(ins, p) == [locks |-> NoLocks, ins |-> ins, outs |-> <<OutputTo(p, NoLocks)>>]
MCCodecTxs ==
  {Payment(ins, p) : ins \in InputLists, p \in Payees} \cup
  {[locks |-> l, ins |-> <<[op |-> 1, wit |-> w]>>,
    outs |-> <<OutputTo(p, m), OutputTo(PayTo(1), NoLocks)>>] :
     l, m \in {NoLocks, [time |-> 1, height |-> 0], [time |-> 1, height |-> 2]},
     w \in {Standard(1), <<"raw", 1>>}, p \in {PayTo(1), TwoKeys}}
MCWeights == {[prior |-> SubSeq(CompressTx(Payment(<<[op |-> 1, wit |-> Standard(1)]>>, PayTo(2))),
                                1, n),
               fallback |-> <<"coded", <<"flags", {}>>>>] : n \in {6, 13}}
MCTopologyLists ==
  {<<>>, <<<<0, 0>>, <<0, 1>>, <<0, 2>>, <<1, 3>>>>} \cup
  {[i \in 1..n |-> <<(x + (i - 1) * s) % 4, (x + (i - 1) * t) % 4>>] :
     n \in 1..5, x \in {0, 3}, s \in 0..3, t \in {1, 3}}

\* Five transactions over three outputs and two shards: conflicts within and
\* across shards, a negative fee, equal rates and sizes that compete for the
\* same budget.
CONSTANTS outA, outB, outC
tx(ins, shard, size, fee) == [ins |-> ins, shard |-> shard, size |-> size, fee |-> fee]
MCTx == 1 :> tx({outA}, 0, 2, 6) @@ 2 :> tx({outA, outB}, 1, 3, 9) @@ 3 :> tx({outB}, 0, 3, 7)
     @@ 4 :> tx({outC}, 0, 1, 2) @@ 5 :> tx({outC}, 1, 1, -1)
MCShards == {0, 1}
MCViews == {{outA, outB, outC}, {outB}}
MCFloors == {0, 3}
MCSamples == {[fees |-> 0, bytes |-> 0], [fees |-> 9, bytes |-> 2]}
=============================================================================
