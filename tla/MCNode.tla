------------------------------- MODULE MCNode -------------------------------
(***************************************************************************)
(* Instances of Node.  Amounts are a few matoms, an epoch is two anchors,  *)
(* coinbases mature after one or two anchors, and targets adjust at once,  *)
(* so that competing branches differ in work as well as in height.         *)
(* The commands that run the node's process share no variable with it: a   *)
(* behaviour moves one of the two, its focus.                              *)
(***************************************************************************)
EXTENDS Node, NodeCli

CONSTANT Focuses        \* which of the two this instance explores

VARIABLE focus

mcVars == <<focus, vars, cliVars>>

MCInit == focus \in Focuses /\ Init /\ CliInit

MCNext == \/ focus = "node" /\ Next /\ UNCHANGED <<focus, cliVars>>
          \/ focus = "commands" /\ LockedNext /\ UNCHANGED <<focus, vars>>

\* With the focus on the node no process is ever spawned, so that the fairness of
\* its steps asks for nothing.
MCSpec == MCInit /\ [][MCNext]_mcVars /\ CliFairness

Out(amount) == [amount |-> amount, lockheight |-> 0, locktime |-> 0]

RootPayload(rewards) == [rewards |-> rewards, tree |-> ROOT_TREE, floors |-> ROOT_SHARD :> 0]
NoTx(coinbase) == [shard |-> ROOT_SHARD, coinbase |-> coinbase, txs |-> << >>]

OneCoinbaseEach == [c \in 1..3 |-> [outs |-> <<Out(1)>>, key |-> c]]

(* Forks: three anchors over the genesis.                                     *)
ForkAnchorIds == 11..14
ForkAnchors   == [a \in ForkAnchorIds |-> {RootPayload(<< >>)}]

(* Ledger: the reward of anchor 12 is spent by the conflicting transactions  *)
(* 1 and 2; 3 spends the output of 1, and 4 the coinbase of fruit 1.  The    *)
(* fee floor can rise above the fee of 2 in anchor 13.                       *)
LedgerFruitIds  == {1, 2, 3}
LedgerAnchorIds == 11..14
Spend(ins, outs) == [ins |-> ins, outs |-> outs, size |-> 2, lockheight |-> 0, locktime |-> 0]
LedgerTxs == <<Spend({<<"anchor", 12, 1>>}, <<Out(1)>>),
               Spend({<<"anchor", 12, 1>>}, <<Out(2)>>),
               Spend({<<"tx", 1, 1>>}, <<Out(1)>>),
               Spend({<<"coinbase", 1, 1>>}, <<Out(1)>>)>>
With(coinbase, txs) == [NoTx(coinbase) EXCEPT !.txs = txs]
LedgerFruits == <<{NoTx(1)}, {With(2, <<1>>)}, {With(3, <<2>>), With(3, <<1, 3>>)}>>
LedgerAnchors == [a \in LedgerAnchorIds |->
                    IF a = 12 THEN {RootPayload(<<Out(2)>>)}
                    ELSE IF a = 13 THEN {[RootPayload(<< >>) EXCEPT !.floors = ROOT_SHARD :> 1]}
                    ELSE {RootPayload(<< >>)}]

(* In the forks transaction 4 spends the coinbase of fruit 1, from fruit 3.  *)
MaturityTxs    == [t \in {4} |-> LedgerTxs[4]]
MaturityFruits == <<{NoTx(1)}, {NoTx(2)}, {With(3, <<4>>)}>>
=============================================================================
