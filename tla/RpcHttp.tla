------------------------------- MODULE RpcHttp ------------------------------
(***************************************************************************)
(* The threading HTTP server of rpc/server.py and the JSON-RPC dispatcher  *)
(* behind it: connection slots, request bodies, batches, the subscription  *)
(* drain, and the unlocked reads of the node that answer getbalance while  *)
(* the node's own thread applies anchors.                                  *)
(***************************************************************************)
EXTENDS Integers, Sequences, SequencesExt, FiniteSets

CONSTANTS
    Conns,            \* client connections
    MaxConnections,   \* MAX_RPC_CONNECTIONS
    MaxBatch,         \* MAX_JSON_RPC_BATCH_SIZE
    Bodies,           \* request bodies: sequences of items, see Handled
    MaxRequests,      \* bound on the requests of a behaviour
    DrainLimit,       \* DEFAULT_EVENT_DRAIN_LIMIT
    MaxIssued,     \* bound on the events issued
    RpcCoins,         \* coins of the queried address: [name, time, height] with its locks
    MaxAnchors        \* bound on the anchors the node applies

ASSUME RpcAssumption ==
    /\ MaxConnections \in Nat /\ MaxBatch \in Nat /\ DrainLimit \in Nat
    /\ MaxIssued \in Nat /\ MaxRequests \in Nat /\ MaxAnchors \in Nat
    /\ Bodies \subseteq Seq([shape : {"ok", "notdict", "badid", "badrequest"}, id : Nat,
                             method : {"getbalance", "fails", "other"}])

VARIABLES
    slots,      \* _connection_slots: free slots
    conn,       \* each connection's thread
    requests,   \* requests taken so far
    answered,   \* the bodies answered, each with its response
    queue,      \* the pending events of one subscription
    issued,     \* events issued so far
    received,   \* the events each connection's client got
    stored,     \* the node's height (and clock) in its store
    memory,     \* the node's in-memory UTXO set for the address
    applying    \* the set an anchor in progress will install, or Nothing

rpcVars == <<slots, conn, requests, answered, queue, issued, received,
             stored, memory, applying>>

Nothing == <<>>
Starting == [pc |-> "starting"]
Closed == [pc |-> "closed"]
Waiting == [pc |-> "waiting"]

RpcInit ==
    /\ slots = MaxConnections
    /\ conn = [c \in Conns |-> Closed]
    /\ requests = 0 /\ answered = {}
    /\ queue = <<>> /\ issued = 0
    /\ received = [c \in Conns |-> <<>>]
    /\ stored = 0
    /\ memory \in SUBSET RpcCoins
    /\ applying = Nothing

nodeVars == <<stored, memory, applying>>
eventVars == <<queue, issued, received>>

-----------------------------------------------------------------------------
(* Connections. *)

\* process_request: without a free slot the connection is closed at once; with
\* one the slot is taken and the server starts a thread.
AcceptConn(c) ==
    /\ conn[c] = Closed /\ slots > 0
    /\ slots' = slots - 1
    /\ conn' = [conn EXCEPT ![c] = Starting]
    /\ UNCHANGED <<requests, answered, eventVars, nodeVars>>

StartThread(c) ==
    /\ conn[c] = Starting
    /\ conn' = [conn EXCEPT ![c] = Waiting]
    /\ UNCHANGED <<slots, requests, answered, eventVars, nodeVars>>

\* The thread cannot be started: the except clause gives the slot back.
StartThreadFails(c) ==
    /\ conn[c] = Starting
    /\ conn' = [conn EXCEPT ![c] = Closed]
    /\ slots' = slots + 1
    /\ UNCHANGED <<requests, answered, eventVars, nodeVars>>

\* The slot is given back only when the last request was answered.
EndThreadIdleOnly(c) ==
    /\ conn[c] \notin {Closed, Starting}
    /\ conn' = [conn EXCEPT ![c] = Closed]
    /\ slots' = IF conn[c] = Waiting THEN slots + 1 ELSE slots
    /\ UNCHANGED <<requests, answered, eventVars, nodeVars>>

\* The thread ends: the client left, the body timed out or was cut short, the
\* socket broke, or what follows an unread body is no request line; the finally
\* clause gives the slot back.
EndThread(c) ==
    /\ conn[c] \notin {Closed, Starting}
    /\ conn' = [conn EXCEPT ![c] = Closed]
    /\ slots' = slots + 1
    /\ UNCHANGED <<requests, answered, eventVars, nodeVars>>

TakeRequest(c) ==
    /\ conn[c] = Waiting /\ requests < MaxRequests
    /\ requests' = requests + 1

\* do_POST and do_GET refuse a path or a length.  The connection stays open: a
\* request without a body is followed by the next one, and a body is left
\* unread, which the handler then takes for a request line, answers 400 and ends.
RefuseRequest(c) ==
    /\ TakeRequest(c)
    /\ \E after \in {Waiting, [pc |-> "unread"]} : conn' = [conn EXCEPT ![c] = after]
    /\ UNCHANGED <<slots, answered, eventVars, nodeVars>>

-----------------------------------------------------------------------------
(* JSON-RPC over POST. *)

\* handle_json and handle_message: unparsable bodies, empty batches and batches
\* over the limit get one error; a single request is a batch of one here.
PostBody(c, body) ==
    /\ TakeRequest(c)
    /\ conn' = [conn EXCEPT ![c] =
                  IF Len(body) \in 1..MaxBatch
                  THEN [pc |-> "batch", body |-> body, done |-> 0, responses |-> <<>>]
                  ELSE [pc |-> "reply", body |-> body, done |-> 0, responses |-> <<<<0, "error">>>>]]
    /\ UNCHANGED <<slots, answered, eventVars, nodeVars>>

\* Faulty: a failing notification is answered too.
HandledFailingNotification(item) ==
    IF item.shape = "notdict" \/ item.shape = "badid" THEN <<<<0, "error">>>>
    ELSE IF item.shape = "badrequest" \/ item.method = "fails" THEN <<<<item.id, "error">>>>
    ELSE IF item.id = 0 THEN <<>>
    ELSE <<<<item.id, "result">>>>

\* _handle_request: an item is [shape, id, method]; id 0 is no id.  A malformed
\* request is answered even without an id, a failing notification is not.
Handled(item) ==
    IF item.shape = "notdict" \/ item.shape = "badid" THEN <<<<0, "error">>>>
    ELSE IF item.shape = "badrequest" THEN <<<<item.id, "error">>>>
    ELSE IF item.id = 0 THEN <<>>
    ELSE <<<<item.id, IF item.method = "fails" THEN "error" ELSE "result">>>>

NextItem(c) == conn[c].body[conn[c].done + 1]
InBatch(c) == conn[c].pc = "batch" /\ conn[c].done < Len(conn[c].body)
ItemDone(c) ==
    [pc |-> "batch", body |-> conn[c].body, done |-> conn[c].done + 1,
     responses |-> conn[c].responses \o Handled(NextItem(c))]

\* An item that reads nothing in two steps.
HandleItem(c) ==
    /\ InBatch(c)
    /\ ~ (NextItem(c).shape = "ok" /\ NextItem(c).method = "getbalance")
    /\ conn' = [conn EXCEPT ![c] = ItemDone(c)]
    /\ UNCHANGED <<slots, requests, answered, eventVars, nodeVars>>

\* Every item is handled: the response goes out, or 204 when there is none.
Reply(c) ==
    /\ \/ conn[c].pc = "batch" /\ conn[c].done = Len(conn[c].body)
       \/ conn[c].pc = "reply"
    /\ answered' = answered \cup {<<conn[c].body, conn[c].responses>>}
    /\ conn' = [conn EXCEPT ![c] = Waiting]
    /\ UNCHANGED <<slots, requests, eventVars, nodeVars>>

-----------------------------------------------------------------------------
(* getbalance. *)

Passed(lock, now) == lock = 0 \/ now >= lock
\* The node spends a coin when both its locks have passed.
SpendableNow == {k \in memory : Passed(k.time, stored) /\ Passed(k.height, stored)}

\* _node_spendability_context: the stored height; the node has no clock method,
\* so the time is zero.
ReadContext(c) ==
    /\ InBatch(c)
    /\ NextItem(c).shape = "ok" /\ NextItem(c).method = "getbalance"
    /\ conn' = [conn EXCEPT ![c] =
                  [pc |-> "balance", body |-> @.body, done |-> @.done, responses |-> @.responses,
                   time |-> 0, height |-> stored, ever |-> SpendableNow, always |-> SpendableNow,
                   counted |-> Nothing]]
    /\ UNCHANGED <<slots, requests, answered, eventVars, nodeVars>>

\* _spendable_utxos_for_owner over the set the node holds now.
ReadCoins(c) ==
    /\ conn[c].pc = "balance" /\ conn[c].counted = Nothing
    /\ conn' = [conn EXCEPT ![c].counted =
                  <<{k \in memory : Passed(k.time, conn[c].time) /\ Passed(k.height, conn[c].height)}>>]
    /\ UNCHANGED <<slots, requests, answered, eventVars, nodeVars>>

BalanceDone(c) ==
    /\ conn[c].pc = "balance" /\ conn[c].counted # Nothing
    /\ conn' = [conn EXCEPT ![c] = ItemDone(c)]
    /\ UNCHANGED <<slots, requests, answered, eventVars, nodeVars>>

\* What was spendable at some moment, and at every moment, of the calls in progress.
Watch ==
    conn' = [c \in Conns |->
               IF conn[c].pc # "balance" THEN conn[c]
               ELSE LET now == {k \in memory' : Passed(k.time, stored') /\ Passed(k.height, stored')}
                    IN  [conn[c] EXCEPT !.ever = @ \cup now, !.always = @ \cap now]]

\* process_anchor commits the batch, the height in it, ...
StoreAnchor(coinsAfter) ==
    /\ applying = Nothing /\ stored < MaxAnchors
    /\ stored' = stored + 1
    /\ applying' = <<coinsAfter>>
    /\ UNCHANGED <<slots, requests, answered, eventVars, memory>>
    /\ Watch

\* ... and then replaces the in-memory set.
InstallAnchor ==
    /\ applying # Nothing
    /\ memory' = applying[1] /\ applying' = Nothing
    /\ UNCHANGED <<slots, requests, answered, eventVars, stored>>
    /\ Watch

-----------------------------------------------------------------------------
(* Subscription events over GET. *)

\* MaxIssued keeps the queue below the maxlen of its deque; SubscriptionHub
\* models the overflow.
PublishEvent ==
    /\ issued < MaxIssued
    /\ issued' = issued + 1
    /\ queue' = Append(queue, issued + 1)
    /\ UNCHANGED <<slots, conn, requests, answered, received, nodeVars>>

\* Faulty: the events stay queued.
AfterPeek(events, n) == events

\* drain takes the events off the queue before the response is sent.
AfterDrain(events, n) == SubSeq(events, n + 1, Len(events))

GetEvents(c) ==
    LET n == IF Len(queue) < DrainLimit THEN Len(queue) ELSE DrainLimit
    IN  /\ TakeRequest(c)
        /\ conn' = [conn EXCEPT ![c] = [pc |-> "events", events |-> SubSeq(queue, 1, n)]]
        /\ queue' = AfterDrain(queue, n)
        /\ UNCHANGED <<slots, answered, issued, received, nodeVars>>

SendEvents(c) ==
    /\ conn[c].pc = "events"
    /\ received' = [received EXCEPT ![c] = @ \o conn[c].events]
    /\ conn' = [conn EXCEPT ![c] = Waiting]
    /\ UNCHANGED <<slots, requests, answered, queue, issued, nodeVars>>

RpcNext ==
    \/ \E c \in Conns :
         \/ AcceptConn(c) \/ StartThread(c) \/ StartThreadFails(c) \/ EndThread(c)
         \/ RefuseRequest(c)
         \/ HandleItem(c) \/ Reply(c)
         \/ ReadContext(c) \/ ReadCoins(c) \/ BalanceDone(c)
         \/ GetEvents(c) \/ SendEvents(c)
    \/ \E c \in Conns, body \in Bodies : PostBody(c, body)
    \/ \E coinsAfter \in SUBSET RpcCoins : StoreAnchor(coinsAfter)
    \/ InstallAnchor
    \/ PublishEvent

RpcSpec == RpcInit /\ [][RpcNext]_rpcVars

-----------------------------------------------------------------------------
(* Properties. *)

\* Every slot is free or held by exactly one live connection thread, whatever
\* order connections are accepted, refused, broken or timed out in: slots
\* neither leak nor multiply.
SlotsAccounted == slots + Cardinality({c \in Conns : conn[c] # Closed}) = MaxConnections

\* The items of a body's first n that JSON-RPC 2.0 wants answered: those with an
\* id and the malformed ones.
Asked(body, n) == {i \in 1..n : body[i].shape # "ok" \/ body[i].id # 0}

\* The responses answer the first n items: one each, in the order of the items
\* and under their ids, none for a notification that is well formed.
Answers(responses, body, n) ==
    /\ Len(responses) = Cardinality(Asked(body, n))
    /\ \A i \in Asked(body, n) :
         responses[Cardinality(Asked(body, i))][1] =
           IF body[i].shape \in {"notdict", "badid"} THEN 0 ELSE body[i].id

\* What JSON-RPC 2.0 asks of a batch: one response per request that has an id
\* or is malformed, in order, none for a notification that is well formed; a
\* body that is no batch within the limit gets one error.
AnsweredInOrder ==
    \A a \in answered :
        IF Len(a[1]) \in 1..MaxBatch THEN Answers(a[2], a[1], Len(a[1]))
        ELSE a[2] = <<<<0, "error">>>>

\* An event reaches a client at most once and each client in publication order,
\* with several connections draining one subscription and connections that
\* break after the drain.
EventsAtMostOnce ==
    /\ \A c \in Conns : \A i, j \in 1..Len(received[c]) : i < j => received[c][i] < received[c][j]
    /\ \A c, d \in Conns : c # d => Range(received[c]) \cap Range(received[d]) = {}

\* openrpc_document on getbalance, "Return spendable balance for an address.":
\* what is counted was spendable at some moment of the call, and what was
\* spendable throughout the call is counted.
BalanceIsSpendable ==
    \A c \in Conns : (conn[c].pc = "balance" /\ conn[c].counted # Nothing) =>
        /\ conn[c].counted[1] \subseteq conn[c].ever
        /\ conn[c].always \subseteq conn[c].counted[1]
=============================================================================
