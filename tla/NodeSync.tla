------------------------------ MODULE NodeSync ------------------------------
(***************************************************************************)
(* The locks of node/node.py: every operation of a node runs under its     *)
(* _state_lock, and sync_from holds the locks of two nodes, taken in the   *)
(* order of the nodes' ids, while it copies the other's store column by    *)
(* column into one batch.  A column is abstracted to the version it holds, *)
(* and what a node keeps in memory (shard tree, UTXO set, mempool, DAG     *)
(* cache) to the columns it was made from.                                 *)
(***************************************************************************)
EXTENDS Integers, Sequences, FiniteSets

CONSTANTS
    Nodes,      \* nodes in one process, numbered in the order of id()
    Threads,    \* threads that call their methods
    NColumns,   \* number of STORAGE_COLUMNS
    MaxCalls    \* bound on the calls of a behaviour

NoThread == "nobody"

\* The nodes are numbered in the order of their ids, and a store has columns.
ASSUME SyncAssumption ==
    /\ IsFiniteSet(Nodes) /\ Nodes = 1..Cardinality(Nodes)
    /\ NoThread \notin Threads
    /\ NColumns \in Nat \ {0}

VARIABLES
    holder,     \* the thread that holds each node's lock, or NoThread
    call,       \* what each thread is doing
    content,    \* the version in each column of each node's store
    inMemory,   \* the columns each node's memory was made from
    calls       \* calls so far

lockVars == <<holder, call, content, inMemory, calls>>

NoCall == [pc |-> "none", self |-> 0, other |-> 0, taken |-> 0, copied |-> <<>>]

Whole(version) == [i \in 1..NColumns |-> version]

LockInit ==
    /\ holder = [n \in Nodes |-> NoThread]
    /\ call = [t \in Threads |-> NoCall]
    /\ content = [n \in Nodes |-> Whole(n)]
    /\ inMemory = content
    /\ calls = 0

\* Faulty: the caller's own lock first.
OwnFirst(self, other) == IF self = other THEN <<self>> ELSE <<self, other>>

\* Faulty: the other node's lock is not taken.
OwnOnly(self, other) == <<self>>

\* The locks of sync_from in the order taken; other = self stands for an
\* operation of one node.
LockOrder(self, other) ==
    IF self = other THEN <<self>>
    ELSE IF self < other THEN <<self, other>> ELSE <<other, self>>

Call(t, self, other) ==
    /\ call[t] = NoCall /\ calls < MaxCalls
    /\ calls' = calls + 1
    /\ call' = [call EXCEPT ![t] = [NoCall EXCEPT !.pc = "locks", !.self = self, !.other = other]]
    /\ UNCHANGED <<holder, content, inMemory>>

\* The lock a thread waits for.
Wants(t) ==
    IF call[t].pc = "locks"
    THEN {LockOrder(call[t].self, call[t].other)[call[t].taken + 1]} ELSE {}

Take(t) ==
    \E n \in Wants(t) :
      /\ holder[n] = NoThread
      /\ holder' = [holder EXCEPT ![n] = t]
      /\ call' = [call EXCEPT ![t].taken = @ + 1,
                              ![t].pc = IF call[t].taken + 1 = Len(LockOrder(call[t].self, call[t].other))
                                        THEN "copy" ELSE @]
      /\ UNCHANGED <<content, inMemory, calls>>

\* sync_from reads the next column of the other store.
CopyColumn(t) ==
    /\ call[t].pc = "copy" /\ call[t].self # call[t].other
    /\ Len(call[t].copied) < NColumns
    /\ call' = [call EXCEPT ![t].copied = Append(@, content[call[t].other][Len(@) + 1])]
    /\ UNCHANGED <<holder, content, inMemory, calls>>

\* The batch: the copied columns, or the operation's own change to them all.
WriteStore(t) ==
    LET c == call[t] IN
    /\ c.pc = "copy" /\ (c.self # c.other => Len(c.copied) = NColumns)
    /\ content' = [content EXCEPT ![c.self] =
                     IF c.self = c.other THEN [i \in 1..NColumns |-> @[i] + Cardinality(Nodes)]
                     ELSE c.copied]
    /\ call' = [call EXCEPT ![t].pc = "memory"]
    /\ UNCHANGED <<holder, inMemory, calls>>

\* The caches are rebuilt from the store, and the locks are released.
Reload(t) ==
    /\ call[t].pc = "memory"
    /\ inMemory' = [inMemory EXCEPT ![call[t].self] = content[call[t].self]]
    /\ holder' = [n \in Nodes |-> IF holder[n] = t THEN NoThread ELSE holder[n]]
    /\ call' = [call EXCEPT ![t] = NoCall]
    /\ UNCHANGED <<content, calls>>

LockNext ==
    \/ \E t \in Threads, self, other \in Nodes : Call(t, self, other)
    \/ \E t \in Threads : Take(t) \/ CopyColumn(t) \/ WriteStore(t) \/ Reload(t)

LockSpec == LockInit /\ [][LockNext]_lockVars

-----------------------------------------------------------------------------
(* Properties. *)

\* Two nodes that sync from each other, and any longer ring of them, never wait
\* for one another for ever: no set of threads is made of threads that each
\* wait for a lock another one of the set holds.
NoWaitCycle ==
    \A S \in (SUBSET Threads) \ {{}} :
        \E t \in S : \A n \in Wants(t) : holder[n] \notin S

\* What sync_from copies is one state of the other node, never columns from
\* before and after one of its operations, and a node whose lock is free has in
\* memory what its store holds.
SyncCopiesOneState ==
    \A n \in Nodes :
        /\ \A i \in 1..NColumns : content[n][i] = content[n][1]
        /\ holder[n] = NoThread => inMemory[n] = content[n]
=============================================================================
