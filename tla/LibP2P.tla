------------------------------- MODULE LibP2P -------------------------------
(***************************************************************************)
(* The managed libp2p host of net/libp2p_node.py: the asynchronous start   *)
(* and stop of its services and its subscription to a topic.               *)
(*                                                                         *)
(* A task runs alone between two awaits.  The py-libp2p services are       *)
(* external: entering one may fail and leaving one takes time.  publish    *)
(* and next_message leave the node's own state alone and are left out.     *)
(***************************************************************************)
EXTENDS Integers, Sequences

CONSTANTS
    Tasks,            \* concurrent callers of the node's coroutines
    EnableKademlia,   \* the enable_kademlia option
    MaxStarts         \* bound on the start calls of a behaviour

VARIABLES
    handle,     \* _host, _pubsub, _dht and _exit_stack: the start they come from, 0 for None
    starts,     \* start calls so far; each makes its own exit stack
    stack,      \* the services left on the exit stack of each start
    open,       \* the services that run, each with its start
    task,       \* where each task is
    subs        \* _subscriptions of one topic: the start whose pubsub serves it, 0 for none

p2pVars == <<handle, starts, stack, open, task, subs>>

-----------------------------------------------------------------------------
(* Starting and stopping. *)

Services == IF EnableKademlia THEN <<"host", "pubsub", "dht">> ELSE <<"host", "pubsub">>

Idle == [pc |-> "idle", of |-> 0, closing |-> <<>>]

P2PInit ==
    /\ handle = 0 /\ starts = 0
    /\ stack = <<>> /\ open = {}
    /\ task = [t \in Tasks |-> Idle]
    /\ subs = 0

\* start, up to its first await; a started node refuses.
Start(t) ==
    /\ task[t].pc = "idle" /\ handle = 0 /\ starts < MaxStarts
    /\ starts' = starts + 1
    /\ stack' = Append(stack, <<>>)
    /\ task' = [task EXCEPT ![t] = [Idle EXCEPT !.pc = "starting", !.of = starts + 1]]
    /\ UNCHANGED <<handle, open, subs>>

\* enter_async_context of the next service; after the last one start assigns
\* the handles and returns.
EnterService(t) ==
    LET s == task[t].of
        entered == Append(stack[s], Services[Len(stack[s]) + 1])
    IN  /\ task[t].pc = "starting"
        /\ stack' = [stack EXCEPT ![s] = entered]
        /\ open' = open \cup {<<s, entered[Len(entered)]>>}
        /\ IF entered = Services
           THEN handle' = s /\ task' = [task EXCEPT ![t] = Idle]
           ELSE UNCHANGED <<handle, task>>
        /\ UNCHANGED <<starts, subs>>

\* enter_async_context raises: start propagates the exception, and its exit
\* stack is closed by nobody.
StartFails(t) ==
    /\ task[t].pc = "starting"
    /\ task' = [task EXCEPT ![t] = Idle]
    /\ UNCHANGED <<handle, starts, stack, open, subs>>

\* The assignments after aclose.
Stopped ==
    /\ handle' = 0
    /\ subs' = 0

\* stop: with an exit stack, the call awaits its aclose first.
Stop(t) ==
    /\ task[t].pc = "idle"
    /\ IF handle = 0
       THEN Stopped /\ UNCHANGED task
       ELSE /\ task' = [task EXCEPT ![t] = [Idle EXCEPT !.pc = "stopping", !.of = handle]]
            /\ UNCHANGED <<handle, subs>>
    /\ UNCHANGED <<starts, stack, open>>

\* aclose takes the last service off the stack and awaits its exit.
LeaveService(t) ==
    LET s == task[t].of
        n == Len(stack[s])
    IN  /\ task[t].pc = "stopping" /\ task[t].closing = <<>> /\ n > 0
        /\ stack' = [stack EXCEPT ![s] = SubSeq(@, 1, n - 1)]
        /\ task' = [task EXCEPT ![t].closing = <<s, stack[s][n]>>]
        /\ UNCHANGED <<handle, starts, open, subs>>

\* The service has stopped.
ServiceLeft(t) ==
    /\ task[t].pc = "stopping" /\ task[t].closing # <<>>
    /\ open' = open \ {task[t].closing}
    /\ task' = [task EXCEPT ![t].closing = <<>>]
    /\ UNCHANGED <<handle, starts, stack, subs>>

\* The stack is empty: stop clears what the node holds, whoever put it there.
StopReturns(t) ==
    /\ task[t].pc = "stopping" /\ task[t].closing = <<>> /\ stack[task[t].of] = <<>>
    /\ Stopped
    /\ task' = [task EXCEPT ![t] = Idle]
    /\ UNCHANGED <<starts, stack, open>>

-----------------------------------------------------------------------------
(* Subscribing. *)

\* subscribe: _require_pubsub, then the await of that pubsub's subscribe.
Subscribe(t) ==
    /\ task[t].pc = "idle" /\ handle # 0
    /\ task' = [task EXCEPT ![t] = [Idle EXCEPT !.pc = "subscribing", !.of = handle]]
    /\ UNCHANGED <<handle, starts, stack, open, subs>>

\* The subscription is kept, also when a stop has cleared it meanwhile.
Subscribed(t) ==
    /\ task[t].pc = "subscribing"
    /\ subs' = task[t].of
    /\ task' = [task EXCEPT ![t] = Idle]
    /\ UNCHANGED <<handle, starts, stack, open>>

P2PNext ==
    \/ \E t \in Tasks : \/ Start(t) \/ EnterService(t) \/ StartFails(t)
                        \/ Stop(t) \/ LeaveService(t) \/ ServiceLeft(t) \/ StopReturns(t)
                        \/ Subscribe(t) \/ Subscribed(t)

-----------------------------------------------------------------------------
(* Properties. *)

\* A call of stop returns in this step.
StopDone == \E t \in Tasks : StopReturns(t) \/ (Stop(t) /\ handle = 0)

\* stop's docstring, "Stop all libp2p services.": when a call of stop returns
\* and no other start or stop is under way, no service of the node runs.
StopStopsAll ==
    [][(StopDone /\ \A t \in Tasks : task'[t].pc \notin {"starting", "stopping"}) => open' = {}]_p2pVars
=============================================================================
