------------------------------- MODULE MCRpc -------------------------------
(***************************************************************************)
(* The JSON-RPC server: its HTTP connections, its WebSocket frames and its *)
(* subscription hub, one of them moving in a behaviour (its focus): they   *)
(* share no variable here.                                                 *)
(***************************************************************************)
EXTENDS SubscriptionHub, WebSocket, RpcHttp, TLC

CONSTANT Focuses        \* the components this instance explores

VARIABLE focus

mcVars == <<focus, hubVars, wsVars, rpcVars>>

Init == focus \in Focuses /\ HubInit /\ WsInit /\ RpcInit

Next ==
  \/ focus = "hub" /\ HubNext /\ UNCHANGED <<focus, wsVars, rpcVars>>
  \/ focus = "websocket" /\ WsNext /\ UNCHANGED <<focus, hubVars, rpcVars>>
  \/ focus = "http" /\ RpcNext /\ UNCHANGED <<focus, hubVars, wsVars>>

Spec == Init /\ [][Next]_mcVars
-----------------------------------------------------------------------------
(* Constants *)

\* Three ids for two places, two topics, queues of two: limits, overflow and
\* expiry all happen.
CONSTANTS i1, i2, i3, fruit, anchor, c1, c2, c3

MCIds == {i1, i2, i3}
MCTopics == {fruit, anchor}
MCConns == {c1, c2, c3}

\* Ids, topics and connections are interchangeable; no liveness is checked.
Symmetry == Permutations(MCIds) \cup Permutations(MCTopics) \cup Permutations(MCConns)

\* Two fragments can pass the limit of three together; an empty one counts.
MCSizes == 0..2

\* Batches that mix answered items, notifications, malformed items and failing
\* methods, one past MaxBatch, and the empty one.
Item(s, i, m) == [shape |-> s, id |-> i, method |-> m]
MCBodies == {<<>>, <<Item("ok", 1, "getbalance")>>, <<Item("ok", 0, "fails")>>,
  <<Item("ok", 1, "other"), Item("ok", 0, "fails"), Item("ok", 2, "fails")>>,
  <<Item("badrequest", 0, "other"), Item("ok", 0, "other"), Item("badid", 3, "other")>>,
  <<Item("ok", 1, "other"), Item("notdict", 0, "other"), Item("ok", 2, "getbalance"),
    Item("ok", 3, "other")>>}

MCRpcCoins == {[name |-> 1, time |-> 0, height |-> 0], [name |-> 2, time |-> 0, height |-> 1]}
MCTimeLocked == {[name |-> 1, time |-> 1, height |-> 0]}
=============================================================================
