----------------------------- MODULE MCNetwork -----------------------------
(***************************************************************************)
(* The components that exchange data with peers, checked in one instance:  *)
(* state sync over the UTXO set, data availability sampling, Erlay,        *)
(* Graphene, Turbine, the libp2p node, and the locks of nodes that sync    *)
(* from one another.  They share no variable, so a behaviour moves one of  *)
(* them, its focus, and leaves the others in an initial state: every       *)
(* behaviour of every component is still explored, without the product.    *)
(***************************************************************************)
EXTENDS StateSync, DAS, Erlay, Graphene, Turbine, LibP2P, NodeSync

CONSTANT Focuses        \* the components this instance explores

VARIABLE focus

mcVars == <<focus, syncVars, dasVars, erlayVars, grapheneVars, turbineVars, p2pVars, lockVars>>

Init ==
  /\ focus \in Focuses
  /\ SyncInit
  /\ DasInit
  /\ focus # "das" => payload = <<3>> /\ grid = EncodeGrid(payload) /\ missing = {}
  /\ ErlayInit
  /\ GrapheneInit
  /\ TurbineInit
  /\ focus # "turbine" => relayed = <<3, 1>> /\ dropout = {}
  /\ P2PInit
  /\ LockInit

Next ==
  \/ /\ focus = "sync" /\ SyncNext
     /\ UNCHANGED <<focus, dasVars, erlayVars, grapheneVars, turbineVars, p2pVars, lockVars>>
  \/ /\ focus = "das" /\ DasNext
     /\ UNCHANGED <<focus, syncVars, erlayVars, grapheneVars, turbineVars, p2pVars, lockVars>>
  \/ /\ focus = "erlay" /\ ErlayNext
     /\ UNCHANGED <<focus, syncVars, dasVars, grapheneVars, turbineVars, p2pVars, lockVars>>
  \/ /\ focus = "graphene" /\ GrapheneNext
     /\ UNCHANGED <<focus, syncVars, dasVars, erlayVars, turbineVars, p2pVars, lockVars>>
  \/ /\ focus = "turbine" /\ TurbineNext
     /\ UNCHANGED <<focus, syncVars, dasVars, erlayVars, grapheneVars, p2pVars, lockVars>>
  \/ /\ focus = "libp2p" /\ P2PNext
     /\ UNCHANGED <<focus, syncVars, dasVars, erlayVars, grapheneVars, turbineVars, lockVars>>
  \/ /\ focus = "locks" /\ LockNext
     /\ UNCHANGED <<focus, syncVars, dasVars, erlayVars, grapheneVars, turbineVars, p2pVars>>

\* A peer's calls to its own session are made again and again (weak fairness);
\* a message that is sent again and again is delivered in the end (strong).
Fairness ==
  /\ WF_erlayVars(focus = "erlay" /\ StartRound)
  /\ WF_erlayVars(focus = "erlay" /\ ErlayTick)
  /\ SF_erlayVars(focus = "erlay" /\ \E s \in sketches : Reconcile(s))
  /\ SF_erlayVars(focus = "erlay" /\ \E r \in replies : FinishRound(r))
  /\ SF_erlayVars(focus = "erlay" /\ \E t \in served : TakeServed(t))

Spec == Init /\ [][Next]_mcVars /\ Fairness
-----------------------------------------------------------------------------
(* Constants *)

Coin(o, w, a) == [outpoint |-> o, owner |-> w, amount |-> a]
MCCoins == {Coin(1, "a", 1), Coin(1, "a", 2), Coin(2, "a", 1), Coin(3, "b", 1)}
MCKeyOf(o) == <<<<0, 0>>, <<0, 1>>, <<1, 1>>>>[o]
\* Change keys by outpoint, amount and direction; spending coin 2 and creating
\* coin 3 collide, so that the full snapshot is used.
MCChangeKey(ch) == LET c == ch[2][2] IN
   IF ch[1] = "add" THEN <<<<1, 2>>, <<3, 0>>, <<4, 0>>>>[c.outpoint][c.amount]
   ELSE <<<<5, 6>>, <<4, 0>>, <<7, 0>>>>[c.outpoint][c.amount]
MCProbe(k, a) == 3 * k * k + a * (k + 1) + a * a

MCPayloads == {<<3>>, <<1, 2, 4>>}
MCSpoilt == {<<1, 3>>, <<2, 0>>}
MCMissing == {{}, {<<1, 1>>}, {<<0, 0>>, <<3, 2>>}}
MCDigest(i, a) == (7 * i + 5 * a + 2) % 19

MCShortIdOf(t) == <<3, 5, 6>>[t]

\* Transactions 2 and 5 set the same filter bits; 1 and 3 share a short id
\* under the first parameters, so that the second ones are used.
MCFruits == {<<1, 2>>, <<3, 1>>, <<2>>}
MCBloomPos(t, j) == <<<<0, 3, 5>>, <<1, 3, 6>>, <<2, 4, 7>>, <<0, 1, 6>>, <<1, 3, 6>>>>[t][j]
MCShortIds(t, p) == IF p = 1 THEN <<1, 2, 1, 3, 4>>[t] ELSE t

MCScore(p) == <<0, 2, 0, 1, 2>>[p]
MCLatency(p) == <<3, 1, 2, 5, 4>>[p]
MCTreeRank(p) == <<2, 4, 1, 3, 0>>[p]
MCCustodians(i) == {i + 1, i + 2}
MCRelayPayloads == {<<3, 1>>, <<4, 0, 2>>}

=============================================================================
