---------------------------- MODULE MCConsensus ----------------------------
(***************************************************************************)
(* The fruit DAG, the anchor difficulty and the blocks that travel, which  *)
(* share no variable: a behaviour moves one of them, its focus.  Four      *)
(* fruits are enough for three parallel ones merged by a fourth, where     *)
(* K = 0 and K = 1 both colour a fruit red; over seven anchors the window  *)
(* of three slides, and both target bounds are reached.                    *)
(***************************************************************************)
EXTENDS Finality, AnchorChain, Blocks

VARIABLE focus

mcVars == <<focus, dagVars, history, blockVars>>

Init == focus \in {"dag", "anchors", "blocks"} /\ DagInit /\ ChainInit /\ BlocksInit

Next ==
  \/ focus = "dag" /\ DagNext /\ UNCHANGED <<focus, history, blockVars>>
  \/ focus = "anchors" /\ ChainNext /\ UNCHANGED <<focus, dagVars, blockVars>>
  \/ focus = "blocks" /\ BlocksNext /\ UNCHANGED <<focus, dagVars, history>>

Spec == Init /\ [][Next]_mcVars
-----------------------------------------------------------------------------
MCFruits     == 1..4
MCTimestamps == 1..3
MCWorks      == {1}
MCKs         == {0, 1}
MCIntervals  == {1, 3, 4, 5, 9}

\* Transaction lists of up to five, so that two levels of the tree are odd, and
\* one that is too large; bitmaps of up to two bytes over three candidates.
MCTxSize(t) == 1
TxLists == {<<>>, <<1>>, <<2>>, <<1, 1>>, <<1, 2>>, <<2, 1>>, <<1, 2, 2>>, <<1, 2, 2, 2>>,
            <<1, 1, 1, 1, 1>>, <<1, 1, 1, 1, 1, 1>>}
FruitOf(bitmap, txs, nonce) ==
  [header |-> [version |-> 1, sigs |-> 1, parent |-> 1, bitmap |-> bitmap, latest |-> 1,
               root |-> TxRoot(txs), ts |-> 1, shard |-> <<1, 1>>, nonce |-> nonce],
   txs |-> txs]
MCFruitBlocks ==
  {FruitOf(<<>>, txs, 0) : txs \in {l \in TxLists : FruitOk(FruitOf(<<>>, l, 0))}} \cup
  {FruitOf(bitmap, <<1>>, 1) : bitmap \in {<<>>, <<{}>>, <<{0}>>, <<{1}>>, <<{0, 1}>>, <<{0}, {0}>>,
                                           <<{0}, {}>>, <<{1}, {1}>>}}
AnchorOf(fruits, candidates, tree, floors, rewards, commitment) ==
  [header |-> [version |-> 1, parent |-> ZeroHash, ts |-> 1, nonce |-> 1,
               fruitRoot |-> MerkleRoot("fruits", fruits),
               candidateRoot |-> MerkleRoot("candidates", candidates),
               treeRoot |-> <<"tree", tree>>, floorRoot |-> MerkleRoot("floors", floors),
               rewardRoot |-> MerkleRoot("rewards", rewards)],
   fruits |-> fruits, candidates |-> candidates, tree |-> tree, floors |-> floors,
   rewards |-> rewards, commitment |-> commitment]
MCAnchorBlocks ==
  {AnchorOf(<<>>, <<>>, 0, <<<<0, 0>>>>, <<>>, <<c>>) : c \in 1..2} \cup
  {AnchorOf(<<1>>, c, 0, <<<<0, 0>>>>, <<>>, ZeroHash) : c \in {<<>>, <<2, 3, 4>>, <<3, 2>>, <<1>>}} \cup
  {AnchorOf(<<1, 3>>, <<2>>, t, <<<<0, f>>, <<1, 1>>>>, r, ZeroHash) :
     t \in 0..1, f \in 0..1, r \in {<<>>, <<1>>, <<1, 1>>}}
=============================================================================
