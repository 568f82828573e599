------------------------------ MODULE RpcProofs ------------------------------
(***************************************************************************)
(* For every number of clients, limit, time to live and queue length: the  *)
(* dicts of the subscription hub keep the same keys, a queue holds exactly *)
(* the newest undelivered events, and a subscription is dropped only when  *)
(* its client or its deadline says so.  For every number of connections,   *)
(* slot and batch limit the HTTP server accounts for its slots, answers a  *)
(* batch item by item and gives an event to one client once.  For every    *)
(* limit and sequence of frames a WebSocket client's messages are handled  *)
(* as it framed them.                                                      *)
(***************************************************************************)
EXTENDS SubscriptionHub, WebSocket, RpcHttp, FoldProofs, SequenceTheorems, TLAPS

(***************************************************************************)
(* The subscription hub.                                                   *)
(***************************************************************************)

\* Consecutive numbers that end in last.
IsRun(q, last) == q \in Seq(Nat) /\ \A i \in 1..Len(q) : q[i] = last - Len(q) + i

\* As many of the events after the first `from` as a queue holds.
SizeOf(from, last) == IF last - from <= MAX_EVENTS_PER_SUBSCRIPTION
                        THEN last - from ELSE MAX_EVENTS_PER_SUBSCRIPTION

\* A queue of newest events is a run within the bound.
LEMMA NewestIsRun ==
  ASSUME NEW last \in Nat, NEW from \in 0..last
  PROVE  /\ IsRun(newest(from, last), last)
         /\ Len(newest(from, last)) = SizeOf(from, last)
         /\ SizeOf(from, last) \in 0..last
         /\ SizeOf(from, last) <= MAX_EVENTS_PER_SUBSCRIPTION
<1>1. PICK size \in 0..last : size = SizeOf(from, last) /\ size <= MAX_EVENTS_PER_SUBSCRIPTION
  BY HubAssumption DEF SizeOf
<1> DEFINE q == [i \in 1..size |-> last - size + i]
<1>2. q \in Seq(Nat) /\ Len(q) = size /\ \A i \in 1..size : q[i] = last - size + i
  <2>1. \A i \in 1..size : last - size + i \in Nat
    OBVIOUS
  <2> QED BY <2>1
<1>3. newest(from, last) = q
  BY <1>1 DEF newest, SizeOf
<1> QED BY <1>1, <1>2, <1>3 DEF IsRun

\* A run is determined by its length and its last number.
LEMMA RunsAgree ==
  ASSUME NEW last \in Nat, NEW q, NEW r, IsRun(q, last), IsRun(r, last), Len(q) = Len(r)
  PROVE  q = r
<1>1. \A i \in 1..Len(q) : q[i] = r[i]
  BY DEF IsRun
<1> QED BY <1>1, SeqEqual DEF IsRun

\* A run grows at its end and shrinks at its beginning.
LEMMA AppendRun ==
  ASSUME NEW last \in Nat, NEW q, IsRun(q, last)
  PROVE  IsRun(Append(q, last + 1), last + 1) /\ Len(Append(q, last + 1)) = Len(q) + 1
<1>1. /\ Append(q, last + 1) \in Seq(Nat)
      /\ Len(Append(q, last + 1)) = Len(q) + 1
      /\ \A i \in 1..Len(q) + 1 : Append(q, last + 1)[i] = last + 1 - (Len(q) + 1) + i
  BY DEF IsRun
<1> QED BY <1>1 DEF IsRun

\* Draining a prefix of a run leaves a run.
LEMMA DropRun ==
  ASSUME NEW last \in Nat, NEW q, IsRun(q, last), NEW taken \in 1..Len(q)
  PROVE  /\ IsRun(SubSeq(q, taken + 1, Len(q)), last)
         /\ Len(SubSeq(q, taken + 1, Len(q))) = Len(q) - taken
<1>1. \A i \in taken + 1..Len(q) : q[i] \in Nat
  BY DEF IsRun
<1>2. Len(q) \in Nat
  BY DEF IsRun
<1>3. /\ SubSeq(q, taken + 1, Len(q)) \in Seq(Nat)
      /\ Len(SubSeq(q, taken + 1, Len(q)))
           = IF taken + 1 <= Len(q) THEN Len(q) - (taken + 1) + 1 ELSE 0
      /\ \A i \in 1..Len(q) - (taken + 1) + 1 :
           SubSeq(q, taken + 1, Len(q))[i] = q[taken + 1 + i - 1]
  BY <1>1, <1>2, SubSeqProperties
<1>4. /\ Len(SubSeq(q, taken + 1, Len(q))) = Len(q) - taken
      /\ \A i \in 1..Len(q) - taken :
           SubSeq(q, taken + 1, Len(q))[i] = last - (Len(q) - taken) + i
  BY <1>2, <1>3 DEF IsRun
<1> QED BY <1>3, <1>4 DEF IsRun

\* Appending the next event to a queue of the newest ones keeps it so, full or not.
LEMMA AppendNewest ==
  ASSUME NEW last \in Nat, NEW from \in 0..last
  PROVE  deque_append(newest(from, last), last + 1) = newest(from, last + 1)
<1> DEFINE q == newest(from, last)
           r == newest(from, last + 1)
<1>1. /\ IsRun(q, last) /\ Len(q) = SizeOf(from, last)
      /\ Len(q) \in Nat /\ Len(q) <= MAX_EVENTS_PER_SUBSCRIPTION
  BY NewestIsRun
<1>2. PICK next \in Nat : next = last + 1
  OBVIOUS
<1>3. IsRun(r, next) /\ Len(r) = SizeOf(from, next)
  <2>1. from \in 0..next
    BY <1>2
  <2> QED BY <1>2, <2>1, NewestIsRun
<1> HIDE DEF q, r
<1>4. CASE Len(q) < MAX_EVENTS_PER_SUBSCRIPTION
  <2>1. IsRun(Append(q, next), next) /\ Len(Append(q, next)) = Len(q) + 1
    BY <1>1, <1>2, AppendRun
  <2>2. Len(r) = Len(q) + 1
    BY <1>1, <1>2, <1>3, <1>4, HubAssumption DEF SizeOf
  <2>3. Append(q, next) = r
    BY <1>3, <2>1, <2>2, RunsAgree
  <2> QED BY <1>2, <1>4, <2>3 DEF deque_append, q, r
<1>5. CASE ~(Len(q) < MAX_EVENTS_PER_SUBSCRIPTION)
  <2>1. Len(q) = MAX_EVENTS_PER_SUBSCRIPTION /\ 1 \in 1..Len(q)
    BY <1>1, <1>5, HubAssumption
  <2>2. Tail(q) = SubSeq(q, 1 + 1, Len(q))
    <3>1. q \in Seq(Nat) /\ q # << >>
      BY <1>1, <2>1 DEF IsRun
    <3> QED BY <3>1, TailIsSubSeq
  <2>3. IsRun(Tail(q), last) /\ Len(Tail(q)) = Len(q) - 1
    BY <1>1, <2>1, <2>2, DropRun
  <2>4. IsRun(Append(Tail(q), next), next)
        /\ Len(Append(Tail(q), next)) = Len(Tail(q)) + 1
    BY <1>2, <2>3, AppendRun
  <2>5. Len(r) = Len(Append(Tail(q), next))
    BY <1>1, <1>2, <1>3, <2>1, <2>3, <2>4, HubAssumption DEF SizeOf
  <2>6. Append(Tail(q), next) = r
    BY <1>3, <2>4, <2>5, RunsAgree
  <2> QED BY <1>2, <1>5, <2>6 DEF deque_append, q, r
<1> QED BY <1>4, <1>5

\* Draining the oldest events leaves the newest after the last one taken.
LEMMA DrainNewest ==
  ASSUME NEW last \in Nat, NEW from \in 0..last,
         NEW q, q = newest(from, last), NEW taken \in 1..Len(q)
  PROVE  q[taken] \in 0..last /\ SubSeq(q, taken + 1, Len(q)) = newest(q[taken], last)
<1>1. /\ IsRun(q, last) /\ Len(q) \in 0..last
      /\ Len(q) <= MAX_EVENTS_PER_SUBSCRIPTION
  BY NewestIsRun
<1>2. PICK mark \in 0..last : mark = q[taken] /\ mark = last - Len(q) + taken
  <2>1. q[taken] = last - Len(q) + taken
    BY <1>1 DEF IsRun
  <2>2. last - Len(q) + taken \in 0..last
    BY <1>1
  <2> QED BY <2>1, <2>2
<1>3. IsRun(newest(mark, last), last) /\ Len(newest(mark, last)) = SizeOf(mark, last)
  BY NewestIsRun
<1>4. /\ IsRun(SubSeq(q, taken + 1, Len(q)), last)
      /\ Len(SubSeq(q, taken + 1, Len(q))) = Len(q) - taken
  BY <1>1, DropRun
<1>5. SizeOf(mark, last) = Len(q) - taken
  BY <1>1, <1>2, HubAssumption DEF SizeOf
<1>6. SubSeq(q, taken + 1, Len(q)) = newest(mark, last)
  BY <1>3, <1>4, <1>5, RunsAgree
<1> QED BY <1>2, <1>6
-----------------------------------------------------------------------------
HubInv == HubTypeOK /\ KeysAgree /\ PendingIsNewest

\* A call that only drops subscriptions keeps the invariant of the others.
LEMMA DropsKeepInv ==
  ASSUME HubInv, NEW ids,
         subscriptions' = drop_locked(subscriptions, ids),
         events' = drop_locked(events, ids),
         expires_at' = drop_locked(expires_at, ids),
         seen' = drop_locked(seen, ids),
         UNCHANGED <<clock, published>>
  PROVE  HubInv'
<1>1. HubTypeOK'
  BY DEF HubInv, HubTypeOK, KeysAgree, drop_locked
<1>2. KeysAgree'
  BY DEF HubInv, KeysAgree, drop_locked
<1>3. PendingIsNewest'
  BY DEF HubInv, KeysAgree, PendingIsNewest, drop_locked
<1> QED BY <1>1, <1>2, <1>3 DEF HubInv

\* Every call of the hub preserves the invariant.
LEMMA HubStep ==
  ASSUME HubInv, [HubNext]_hubVars
  PROVE  HubInv'
<1> USE DEF HubInv
<1>1. ASSUME NEW id \in Ids, NEW topic \in Topics, subscribe(id, topic)
      PROVE  HubInv'
  <2>1. published[topic] \in Nat
    BY DEF HubTypeOK
  <2>2. newest(published[topic], published[topic]) = << >>
    BY <2>1, HubAssumption DEF newest
  <2>3. HubTypeOK'
    BY <1>1, HubAssumption DEF HubTypeOK, KeysAgree, subscribe, put, expire_locked, drop_locked
  <2>4. KeysAgree'
    BY <1>1 DEF KeysAgree, subscribe, put, expire_locked, drop_locked
  <2>5. PendingIsNewest'
    BY <1>1, <2>1, <2>2
    DEF KeysAgree, PendingIsNewest, subscribe, put, expire_locked, drop_locked
  <2> QED BY <2>3, <2>4, <2>5
<1>2. ASSUME raise_after_expiry
      PROVE  HubInv'
  BY <1>2, DropsKeepInv DEF raise_after_expiry, expire_locked
<1>3. ASSUME NEW topic \in Topics, publish(topic)
      PROVE  HubInv'
  <2>1. published' \in [Topics -> Nat]
    BY <1>3 DEF publish, HubTypeOK
  <2>2. KeysAgree'
    BY <1>3 DEF KeysAgree, publish, expire_locked, drop_locked
  <2>3. ASSUME NEW id \in DOMAIN subscriptions'
        PROVE  /\ seen'[id] \in 0..published'[subscriptions'[id]]
               /\ events'[id] = newest(seen'[id], published'[subscriptions'[id]])
    <3>1. /\ id \in DOMAIN subscriptions /\ id \in DOMAIN events \ lapsed
          /\ subscriptions'[id] = subscriptions[id] /\ seen'[id] = seen[id]
      BY <1>3, <2>3 DEF KeysAgree, publish, expire_locked, drop_locked
    <3>2. PICK last \in Nat : last = published[subscriptions[id]]
      BY <3>1 DEF HubTypeOK
    <3>3. seen[id] \in 0..last /\ events[id] = newest(seen[id], last)
      BY <3>1, <3>2 DEF PendingIsNewest
    <3>4. CASE subscriptions[id] = topic
      <4>1. events'[id] = deque_append(events[id], last + 1)
        BY <1>3, <3>1, <3>2, <3>4 DEF publish
      <4>2. published'[subscriptions'[id]] = last + 1
        BY <1>3, <3>1, <3>2, <3>4 DEF publish, HubTypeOK
      <4>3. events'[id] = newest(seen[id], last + 1)
        BY <3>3, <4>1, AppendNewest
      <4> QED BY <3>1, <3>3, <4>2, <4>3
    <3>5. CASE subscriptions[id] # topic
      <4>1. events'[id] = events[id]
        BY <1>3, <3>1, <3>5 DEF publish
      <4>2. published'[subscriptions'[id]] = last
        BY <1>3, <3>1, <3>2, <3>5 DEF publish, HubTypeOK
      <4> QED BY <3>1, <3>3, <4>1, <4>2
    <3> QED BY <3>4, <3>5
  <2>4. PendingIsNewest'
    BY <2>3 DEF PendingIsNewest
  <2>5. ASSUME NEW id \in DOMAIN subscriptions'
        PROVE  subscriptions'[id] \in Topics /\ id \in Ids
    BY <1>3, <2>5 DEF HubTypeOK, publish, expire_locked, drop_locked
  <2>6. ASSUME NEW id \in DOMAIN events'
        PROVE  events'[id] \in Seq(Nat) /\ Len(events'[id]) <= MAX_EVENTS_PER_SUBSCRIPTION
    <3>1. id \in DOMAIN subscriptions'
      BY <2>2, <2>6 DEF KeysAgree
    <3>2. PICK last \in Nat : last = published'[subscriptions'[id]]
      BY <2>1, <2>5, <3>1
    <3>3. seen'[id] \in 0..last /\ events'[id] = newest(seen'[id], last)
      BY <2>3, <3>1, <3>2
    <3> QED BY <3>3, NewestIsRun DEF IsRun
  <2>7. HubTypeOK'
    BY <1>3, <2>1, <2>5, <2>6 DEF HubTypeOK, publish, expire_locked, drop_locked
  <2> QED BY <2>2, <2>4, <2>7
<1>4. ASSUME NEW id \in Ids, NEW limit \in 1..MAX_EVENT_DRAIN_LIMIT, drain(id, limit)
      PROVE  HubInv'
  <2> DEFINE q == events[id]
             taken == IF limit <= Len(q) THEN limit ELSE Len(q)
             mark == IF taken = 0 THEN seen[id] ELSE q[taken]
             rest == SubSeq(q, taken + 1, Len(q))
  <2>1. id \in DOMAIN subscriptions /\ id \in DOMAIN events /\ id \notin lapsed
    BY <1>4 DEF drain, live, KeysAgree
  <2>2. PICK last \in Nat : last = published[subscriptions[id]]
    BY <2>1 DEF HubTypeOK
  <2>3. /\ seen[id] \in 0..last /\ q = newest(seen[id], last)
        /\ q \in Seq(Nat) /\ Len(q) \in Nat
    BY <2>1, <2>2 DEF PendingIsNewest, HubTypeOK
  <2>4. mark \in 0..last /\ rest = newest(mark, last)
    <3>1. CASE taken = 0
      <4>1. Len(q) = 0
        BY <2>3, <3>1
      <4>2. rest = q
        BY <2>3, <3>1, <4>1, SubSeqFull
      <4> QED BY <2>3, <3>1, <4>2
    <3>2. CASE taken # 0
      <4>1. taken \in 1..Len(q)
        BY <2>3, <3>2
      <4> HIDE DEF taken, q
      <4> QED BY <2>3, <3>2, <4>1, DrainNewest
    <3> QED BY <3>1, <3>2
  <2>5. rest \in Seq(Nat) /\ Len(rest) <= MAX_EVENTS_PER_SUBSCRIPTION
    BY <2>4, NewestIsRun DEF IsRun
  <2>6. /\ subscriptions' = expire_locked(subscriptions)
        /\ events' = put(expire_locked(events), id, rest)
        /\ expires_at' = put(expire_locked(expires_at), id, clock + SUBSCRIPTION_TTL)
        /\ seen' = put(expire_locked(seen), id, mark)
        /\ UNCHANGED <<clock, published>>
    BY <1>4 DEF drain
  <2> HIDE DEF q, taken, mark, rest
  <2>7. KeysAgree'
    BY <2>1, <2>6 DEF KeysAgree, put, expire_locked, drop_locked
  <2>8. HubTypeOK'
    BY <2>1, <2>5, <2>6, HubAssumption DEF HubTypeOK, KeysAgree, put, expire_locked, drop_locked
  <2>9. PendingIsNewest'
    BY <2>1, <2>2, <2>4, <2>6
    DEF KeysAgree, PendingIsNewest, put, expire_locked, drop_locked
  <2> QED BY <2>7, <2>8, <2>9
<1>5. ASSUME NEW id \in Ids, unsubscribe(id)
      PROVE  HubInv'
  BY <1>5, DropsKeepInv DEF unsubscribe
<1>6. CASE tick
  BY <1>6 DEF tick, HubTypeOK, KeysAgree, PendingIsNewest
<1>7. CASE UNCHANGED hubVars
  BY <1>7 DEF hubVars, HubTypeOK, KeysAgree, PendingIsNewest
<1> QED
  BY <1>1, <1>2, <1>3, <1>4, <1>5, <1>6, <1>7
  DEF HubNext, subscription_limit_reached, unknown_subscription

\* For every number of clients and every limit of the hub, its dicts agree and
\* each queue holds exactly the newest events its client has not been given.
THEOREM QueuesAreNewest == HubSpec => [](HubTypeOK /\ KeysAgree /\ PendingIsNewest)
<1>1. HubInit => HubInv
  BY DEF HubInit, HubInv, HubTypeOK, KeysAgree, PendingIsNewest
<1>2. HubInv /\ [HubNext]_hubVars => HubInv'
  BY HubStep
<1> QED BY <1>1, <1>2, PTL DEF HubSpec, HubInv

\* For every limit, however calls and expiry interleave, the hub never holds
\* more subscriptions than max_subscriptions.
THEOREM LimitHolds == HubSpec => []WithinLimit
<1> DEFINE Bounded == IsFiniteSet(DOMAIN subscriptions) /\ WithinLimit
<1>1. HubInit => Bounded
  BY FS_EmptySet, HubAssumption DEF HubInit, WithinLimit
<1>2. Bounded /\ [HubNext]_hubVars => Bounded'
  <2> SUFFICES ASSUME Bounded, [HubNext]_hubVars
               PROVE  Bounded'
    OBVIOUS
  <2>1. ASSUME DOMAIN subscriptions' \subseteq DOMAIN subscriptions
        PROVE  Bounded'
    <3>1. /\ IsFiniteSet(DOMAIN subscriptions')
          /\ Cardinality(DOMAIN subscriptions') <= Cardinality(DOMAIN subscriptions)
      BY <2>1, FS_Subset
    <3>2. /\ Cardinality(DOMAIN subscriptions') \in Nat
          /\ Cardinality(DOMAIN subscriptions) \in Nat
      BY <3>1, FS_CardinalityType
    <3> QED BY <3>1, <3>2, HubAssumption DEF WithinLimit
  <2>2. ASSUME NEW id \in Ids, NEW topic \in Topics, subscribe(id, topic)
        PROVE  Bounded'
    <3>1. DOMAIN subscriptions' = live \cup {id} /\ id \notin live
      BY <2>2 DEF subscribe, put, expire_locked, drop_locked, live
    <3>2. IsFiniteSet(live) /\ Cardinality(live) \in Nat
      BY FS_Subset, FS_CardinalityType DEF live
    <3>3. /\ IsFiniteSet(DOMAIN subscriptions')
          /\ Cardinality(DOMAIN subscriptions') = Cardinality(live) + 1
      BY <3>1, <3>2, FS_AddElement
    <3> QED BY <2>2, <3>2, <3>3, HubAssumption DEF subscribe, WithinLimit
  <2>3. ASSUME NEW id \in Ids, unsubscribe(id)
        PROVE  DOMAIN subscriptions' \subseteq DOMAIN subscriptions
    BY <2>3 DEF unsubscribe, drop_locked
  <2>4. ASSUME subscriptions' = expire_locked(subscriptions)
        PROVE  DOMAIN subscriptions' \subseteq DOMAIN subscriptions
    BY <2>4 DEF expire_locked, drop_locked
  <2>5. ASSUME tick \/ UNCHANGED hubVars
        PROVE  DOMAIN subscriptions' \subseteq DOMAIN subscriptions
    BY <2>5 DEF tick, hubVars
  <2> HIDE DEF Bounded
  <2> QED
    BY <2>1, <2>2, <2>3, <2>4, <2>5
    DEF HubNext, subscription_limit_reached, unknown_subscription, raise_after_expiry, publish, drain
<1> QED BY <1>1, <1>2, PTL DEF HubSpec

\* For every number of clients and every limit, no call takes a subscription
\* away before its deadline but its own unsubscribe.
THEOREM Survival == HubSpec => LiveSurvives
<1>1. HubInv /\ [HubNext]_hubVars =>
        [\A id \in DOMAIN subscriptions \ DOMAIN subscriptions' :
           clock >= expires_at[id] \/ unsubscribe(id)]_hubVars
  <2> SUFFICES ASSUME HubInv, HubNext, NEW x \in DOMAIN subscriptions \ DOMAIN subscriptions'
               PROVE  clock >= expires_at[x] \/ unsubscribe(x)
    OBVIOUS
  <2> DEFINE Goal == clock >= expires_at[x] \/ unsubscribe(x)
  <2>1. ASSUME x \in lapsed PROVE Goal
    BY <2>1 DEF lapsed, HubInv, HubTypeOK
  <2>2. ASSUME subscriptions' = expire_locked(subscriptions) PROVE Goal
    BY <2>1, <2>2 DEF expire_locked, drop_locked
  <2>3. ASSUME NEW id \in Ids, NEW topic \in Topics, subscribe(id, topic) PROVE Goal
    BY <2>1, <2>3 DEF subscribe, put, expire_locked, drop_locked
  <2>4. ASSUME NEW id \in Ids, unsubscribe(id) PROVE Goal
    <3>1. x \in lapsed \/ x = id
      BY <2>4 DEF unsubscribe, drop_locked
    <3> QED BY <2>1, <2>4, <3>1
  <2>5. ASSUME tick PROVE Goal
    BY <2>5 DEF tick
  <2> HIDE DEF Goal
  <2>6. Goal
    BY <2>2, <2>3, <2>4, <2>5
    DEF HubNext, subscription_limit_reached, unknown_subscription, raise_after_expiry, publish, drain
  <2> QED BY <2>6 DEF Goal
<1>2. HubSpec => []HubInv
  BY QueuesAreNewest, PTL DEF HubInv
<1> QED BY <1>1, <1>2, PTL DEF HubSpec, LiveSurvives

\* For every number of clients and every limit, the deadline alone decides about
\* a subscription its client keeps: it is not taken away before, and after it no
\* call brings the subscription or its queue back.
THEOREM DeadlinesDecide == HubSpec => DeadlinesHold
<1>1. HubInv /\ [HubNext]_hubVars =>
        [\A id \in DOMAIN subscriptions :
           expires_at[id] <= clock /\ id \in DOMAIN subscriptions' =>
             expires_at'[id] = expires_at[id] /\ events'[id] = events[id]]_hubVars
  <2> SUFFICES ASSUME HubInv, HubNext, NEW x \in DOMAIN subscriptions,
                      expires_at[x] <= clock, x \in DOMAIN subscriptions'
               PROVE  expires_at'[x] = expires_at[x] /\ events'[x] = events[x]
    OBVIOUS
  <2> DEFINE Goal == expires_at'[x] = expires_at[x] /\ events'[x] = events[x]
  <2>1. x \in lapsed
    BY DEF lapsed, HubInv, KeysAgree
  <2>2. ASSUME subscriptions' = expire_locked(subscriptions) PROVE FALSE
    BY <2>1, <2>2 DEF expire_locked, drop_locked
  <2>3. ASSUME NEW id \in Ids, NEW topic \in Topics, subscribe(id, topic) PROVE FALSE
    <3>1. DOMAIN subscriptions' = (DOMAIN subscriptions \ lapsed) \cup {id}
      BY <2>3 DEF subscribe, put, expire_locked, drop_locked
    <3> QED BY <2>1, <2>3, <3>1 DEF subscribe
  <2>4. ASSUME NEW id \in Ids, unsubscribe(id) PROVE FALSE
    BY <2>1, <2>4 DEF unsubscribe, drop_locked
  <2>5. ASSUME tick PROVE Goal
    BY <2>5 DEF tick
  <2> QED BY <2>2, <2>3, <2>4, <2>5
          DEF HubNext, subscription_limit_reached, raise_after_expiry, publish, drain,
              unknown_subscription
<1>2. HubSpec => LapsedNeverRevived
  BY <1>1, QueuesAreNewest, PTL DEF HubSpec, HubInv, LapsedNeverRevived
<1> QED BY <1>2, Survival DEF DeadlinesHold
-----------------------------------------------------------------------------
(***************************************************************************)
(* The HTTP connections.                                                   *)
(***************************************************************************)

Items == [shape : {"ok", "notdict", "badid", "badrequest"}, id : Nat,
          method : {"getbalance", "fails", "other"}]
Responses == Seq(Nat \X {"error", "result"})

\* What a connection's thread can be doing.
IdleStates == {Starting, Closed, Waiting, [pc |-> "unread"]}
BatchStates == [pc : {"batch", "reply"}, body : Seq(Items), done : Nat, responses : Responses]
Counts == {Nothing} \cup {<<s>> : s \in SUBSET RpcCoins}
BalanceStates ==
  [pc : {"balance"}, body : Seq(Items), done : Nat, responses : Responses, time : {0},
   height : Nat, ever : SUBSET RpcCoins, always : SUBSET RpcCoins,
   counted : Counts]
EventStates == [pc : {"events"}, events : Seq(Nat)]
ConnStates == IdleStates \cup BatchStates \cup BalanceStates \cup EventStates

\* Slots, threads, queue, clients and the node's state have their types, and a
\* thread that handles an item is inside its batch.
RpcTypeOK ==
  /\ slots \in Int
  /\ conn \in [Conns -> ConnStates]
  /\ \A c \in Conns : conn[c] \in BatchStates \cup BalanceStates =>
       conn[c].done <= Len(conn[c].body)
  /\ \A c \in Conns : conn[c] \in BalanceStates => conn[c].done < Len(conn[c].body)
  /\ requests \in Nat /\ issued \in Nat /\ stored \in Nat
  /\ queue \in Seq(Nat)
  /\ received \in [Conns -> Seq(Nat)]
  /\ memory \subseteq RpcCoins
  /\ applying \in Counts

\* The handler of an item returns at most one response.
LEMMA HandledTyped ==
  ASSUME NEW item \in Items
  PROVE  Handled(item) \in Responses
BY DEF Items, Responses, Handled

\* The program counter tells what a thread is doing.
LEMMA StateByPc ==
  ASSUME NEW x \in ConnStates
  PROVE  /\ x.pc \in {"starting", "closed", "waiting", "unread"} <=> x \in IdleStates
         /\ x.pc \in {"batch", "reply"} <=> x \in BatchStates
         /\ x.pc = "balance" <=> x \in BalanceStates
         /\ x.pc = "events" <=> x \in EventStates
         /\ x.pc = "closed" <=> x = Closed
         /\ x.pc = "starting" <=> x = Starting
         /\ x.pc = "waiting" <=> x = Waiting
<1>1. CASE x \in IdleStates
  BY <1>1 DEF IdleStates, BatchStates, BalanceStates, EventStates, Starting, Closed, Waiting
<1>2. CASE x \in BatchStates
  <2>1. x.pc \in {"batch", "reply"}
    BY <1>2 DEF BatchStates
  <2> QED BY <1>2, <2>1 DEF IdleStates, BalanceStates, EventStates, Starting, Closed, Waiting
<1>3. CASE x \in BalanceStates
  <2>1. x.pc = "balance"
    BY <1>3 DEF BalanceStates
  <2> QED BY <1>3, <2>1 DEF IdleStates, BatchStates, EventStates, Starting, Closed, Waiting
<1>4. CASE x \in EventStates
  <2>1. x.pc = "events"
    BY <1>4 DEF EventStates
  <2> QED BY <1>4, <2>1 DEF IdleStates, BatchStates, BalanceStates, Starting, Closed, Waiting
<1> QED BY <1>1, <1>2, <1>3, <1>4 DEF ConnStates

\* A thread in its batch, and the same thread one item on.
LEMMA ItemTyped ==
  ASSUME RpcTypeOK, NEW c \in Conns, InBatch(c)
  PROVE  /\ conn[c] \in BatchStates /\ NextItem(c) \in Items
         /\ conn[c].done + 1 \in 1..Len(conn[c].body)
<1>1. conn[c] \in BatchStates
  BY StateByPc DEF RpcTypeOK, InBatch
<1>2. conn[c].done + 1 \in 1..Len(conn[c].body) /\ conn[c].body \in Seq(Items)
  BY <1>1 DEF InBatch, BatchStates
<1>3. NextItem(c) \in Items
  BY <1>2 DEF NextItem
<1> QED BY <1>1, <1>2, <1>3

\* A thread in its balance call likewise.
LEMMA BalanceTyped ==
  ASSUME RpcTypeOK, NEW c \in Conns, conn[c].pc = "balance"
  PROVE  /\ conn[c] \in BalanceStates /\ NextItem(c) \in Items
         /\ conn[c].done + 1 \in 1..Len(conn[c].body)
<1>1. conn[c] \in BalanceStates
  BY StateByPc DEF RpcTypeOK
<1>2. conn[c].done + 1 \in 1..Len(conn[c].body) /\ conn[c].body \in Seq(Items)
  <2>1. conn[c].done < Len(conn[c].body)
    BY <1>1 DEF RpcTypeOK
  <2>2. conn[c].done \in Nat /\ conn[c].body \in Seq(Items)
    BY <1>1 DEF BalanceStates
  <2> QED BY <2>1, <2>2
<1>3. NextItem(c) \in Items
  BY <1>2 DEF NextItem
<1> QED BY <1>1, <1>2, <1>3

\* A thread's state within its bounds.
InBounds(x) ==
  /\ x \in BatchStates \cup BalanceStates => x.done <= Len(x.body)
  /\ x \in BalanceStates => x.done < Len(x.body)

OthersTyped ==
  /\ slots' \in Int /\ requests' \in Nat /\ issued' \in Nat /\ queue' \in Seq(Nat)
  /\ received' \in [Conns -> Seq(Nat)]
  /\ UNCHANGED nodeVars

\* Moving one thread to a typed state keeps the threads typed.
LEMMA MovesTyped ==
  ASSUME RpcTypeOK, NEW c \in Conns, NEW x \in ConnStates, InBounds(x),
         conn' = [conn EXCEPT ![c] = x], OthersTyped
  PROVE  RpcTypeOK'
<1>1. conn' \in [Conns -> ConnStates]
  BY DEF RpcTypeOK
<1>2. ASSUME NEW d \in Conns
      PROVE  InBounds(conn'[d])
  BY DEF RpcTypeOK, InBounds
<1> QED BY <1>1, <1>2 DEF RpcTypeOK, InBounds, nodeVars, OthersTyped

\* The states a thread moves to.
LEMMA IdleTyped ==
  ASSUME NEW x \in IdleStates
  PROVE  x \in ConnStates /\ InBounds(x)
<1>1. x.pc \in {"starting", "closed", "waiting", "unread"} /\ x \in ConnStates
  BY DEF IdleStates, Starting, Closed, Waiting, ConnStates
<1>2. x \notin BatchStates /\ x \notin BalanceStates
  BY <1>1, StateByPc
<1> QED BY <1>1, <1>2 DEF InBounds

\* A connection in a batch is in one of the typed states, its position in bounds.
LEMMA BatchTyped ==
  ASSUME NEW pc \in {"batch", "reply"}, NEW body \in Seq(Items), NEW done \in 0..Len(body),
         NEW responses \in Responses, NEW x,
         x = [pc |-> pc, body |-> body, done |-> done, responses |-> responses]
  PROVE  x \in BatchStates /\ x \in ConnStates /\ InBounds(x)
<1>1. x \in BatchStates /\ x.pc \in {"batch", "reply"}
  BY DEF BatchStates
<1>2. x \in ConnStates /\ x \notin BalanceStates
  BY <1>1, StateByPc DEF ConnStates
<1> QED BY <1>1, <1>2 DEF InBounds

\* Every step of the server keeps its types.
LEMMA RpcTypeStep ==
  ASSUME RpcTypeOK, [RpcNext]_rpcVars
  PROVE  RpcTypeOK'
<1> USE RpcAssumption
<1>1. ASSUME NEW c \in Conns, AcceptConn(c) PROVE RpcTypeOK'
  <2>1. Starting \in IdleStates BY DEF IdleStates
  <2>9. OthersTyped
    BY <1>1 DEF OthersTyped, AcceptConn, eventVars, RpcTypeOK
  <2> QED BY <1>1, <2>1, IdleTyped, MovesTyped, <2>9 DEF AcceptConn
<1>2. ASSUME NEW c \in Conns, StartThread(c) PROVE RpcTypeOK'
  <2>1. Waiting \in IdleStates BY DEF IdleStates
  <2>9. OthersTyped
    BY <1>2 DEF OthersTyped, StartThread, eventVars, RpcTypeOK
  <2> QED BY <1>2, <2>1, IdleTyped, MovesTyped, <2>9 DEF StartThread
<1>3. ASSUME NEW c \in Conns, StartThreadFails(c) \/ EndThread(c) PROVE RpcTypeOK'
  <2>1. Closed \in IdleStates BY DEF IdleStates
  <2>9. OthersTyped
    BY <1>3 DEF OthersTyped, StartThreadFails, EndThread, eventVars, RpcTypeOK
  <2> QED BY <1>3, <2>1, IdleTyped, MovesTyped, <2>9 DEF StartThreadFails, EndThread
<1>4. ASSUME NEW c \in Conns, RefuseRequest(c) PROVE RpcTypeOK'
  <2>1. PICK after \in {Waiting, [pc |-> "unread"]} : conn' = [conn EXCEPT ![c] = after]
    BY <1>4 DEF RefuseRequest
  <2>2. after \in IdleStates BY DEF IdleStates
  <2>9. OthersTyped
    BY <1>4 DEF OthersTyped, RefuseRequest, TakeRequest, eventVars, RpcTypeOK
  <2> QED BY <2>1, <2>2, IdleTyped, MovesTyped, <2>9
<1>5. ASSUME NEW c \in Conns, NEW body \in Bodies, PostBody(c, body) PROVE RpcTypeOK'
  <2>1. body \in Seq(Items) /\ 0 \in 0..Len(body)
    BY DEF Items
  <2>2. << >> \in Responses /\ <<<<0, "error">>>> \in Responses
    BY DEF Responses
  <2>3. PICK x \in ConnStates : InBounds(x) /\ conn' = [conn EXCEPT ![c] = x]
    <3>1. CASE Len(body) \in 1..MaxBatch
      BY <1>5, <2>1, <2>2, <3>1, BatchTyped DEF PostBody
    <3>2. CASE Len(body) \notin 1..MaxBatch
      BY <1>5, <2>1, <2>2, <3>2, BatchTyped DEF PostBody
    <3> QED BY <3>1, <3>2
  <2>9. OthersTyped
    BY <1>5 DEF OthersTyped, PostBody, TakeRequest, eventVars, RpcTypeOK
  <2> QED BY <1>5, <2>3, MovesTyped, <2>9
<1>6. ASSUME NEW c \in Conns, HandleItem(c) PROVE RpcTypeOK'
  <2>1. /\ conn[c] \in BatchStates /\ NextItem(c) \in Items
        /\ conn[c].done + 1 \in 1..Len(conn[c].body)
    BY <1>6, ItemTyped DEF HandleItem
  <2>2. Handled(NextItem(c)) \in Responses
    BY <2>1, HandledTyped
  <2>3. /\ conn[c].responses \o Handled(NextItem(c)) \in Responses
        /\ conn[c].done + 1 \in 0..Len(conn[c].body)
    BY <2>1, <2>2 DEF BatchStates, Responses
  <2>4. ItemDone(c) = [pc |-> "batch", body |-> conn[c].body, done |-> conn[c].done + 1,
                       responses |-> conn[c].responses \o Handled(NextItem(c))]
    BY DEF ItemDone
  <2>5. ItemDone(c) \in ConnStates /\ InBounds(ItemDone(c))
    BY <2>1, <2>3, <2>4, BatchTyped DEF BatchStates
  <2>9. OthersTyped
    BY <1>6 DEF OthersTyped, HandleItem, eventVars, RpcTypeOK
  <2> QED BY <1>6, <2>5, MovesTyped, <2>9 DEF HandleItem
<1>7. ASSUME NEW c \in Conns, Reply(c) PROVE RpcTypeOK'
  <2>1. Waiting \in IdleStates BY DEF IdleStates
  <2>9. OthersTyped
    BY <1>7 DEF OthersTyped, Reply, eventVars, RpcTypeOK
  <2> QED BY <1>7, <2>1, IdleTyped, MovesTyped, <2>9 DEF Reply
<1>8. ASSUME NEW c \in Conns, ReadContext(c) PROVE RpcTypeOK'
  <2>1. /\ conn[c] \in BatchStates /\ NextItem(c) \in Items
        /\ conn[c].done + 1 \in 1..Len(conn[c].body)
    BY <1>8, ItemTyped DEF ReadContext
  <2> DEFINE x == [pc |-> "balance", body |-> conn[c].body, done |-> conn[c].done,
                   responses |-> conn[c].responses, time |-> 0, height |-> stored,
                   ever |-> SpendableNow, always |-> SpendableNow, counted |-> Nothing]
  <2>2. SpendableNow \subseteq RpcCoins /\ stored \in Nat
    BY DEF SpendableNow, RpcTypeOK
  <2>3. x \in BalanceStates /\ x.done < Len(x.body)
    BY <2>1, <2>2 DEF BatchStates, BalanceStates, Counts
  <2>4. conn' = [conn EXCEPT ![c] = x]
    BY <1>8 DEF ReadContext, RpcTypeOK
  <2> HIDE DEF x
  <2>5. x \in ConnStates /\ InBounds(x)
    BY <2>3 DEF ConnStates, InBounds, BalanceStates
  <2>9. OthersTyped
    BY <1>8 DEF OthersTyped, ReadContext, eventVars, RpcTypeOK
  <2> QED BY <1>8, <2>4, <2>5, MovesTyped, <2>9
<1>9. ASSUME NEW c \in Conns, ReadCoins(c) PROVE RpcTypeOK'
  <2>1. /\ conn[c] \in BalanceStates /\ NextItem(c) \in Items
        /\ conn[c].done + 1 \in 1..Len(conn[c].body)
    BY <1>9, BalanceTyped DEF ReadCoins
  <2> DEFINE got == {k \in memory : Passed(k.time, conn[c].time) /\ Passed(k.height, conn[c].height)}
             x == [conn[c] EXCEPT !.counted = <<got>>]
  <2>2. got \in SUBSET RpcCoins
    BY DEF RpcTypeOK
  <2> HIDE DEF got
  <2>3. x \in BalanceStates /\ x.done < Len(x.body)
    <3>1. PICK v \in Counts : v = <<got>>
      BY <2>2 DEF Counts
    <3>2. conn[c].done < Len(conn[c].body)
      BY <2>1 DEF RpcTypeOK
    <3>3. x = [conn[c] EXCEPT !.counted = v]
      BY <3>1
    <3> HIDE DEF x
    <3> QED BY <2>1, <3>2, <3>3 DEF BalanceStates
  <2>4. conn' = [conn EXCEPT ![c] = x]
    BY <1>9 DEF ReadCoins, RpcTypeOK, got
  <2> HIDE DEF x
  <2>5. x \in ConnStates /\ InBounds(x)
    BY <2>3 DEF ConnStates, InBounds, BalanceStates
  <2>9. OthersTyped
    BY <1>9 DEF OthersTyped, ReadCoins, eventVars, RpcTypeOK
  <2> QED BY <1>9, <2>4, <2>5, MovesTyped, <2>9
<1>10. ASSUME NEW c \in Conns, BalanceDone(c) PROVE RpcTypeOK'
  <2>1. /\ conn[c] \in BalanceStates /\ NextItem(c) \in Items
        /\ conn[c].done + 1 \in 1..Len(conn[c].body)
    BY <1>10, BalanceTyped DEF BalanceDone
  <2>2. Handled(NextItem(c)) \in Responses
    BY <2>1, HandledTyped
  <2> DEFINE x == [pc |-> "batch", body |-> conn[c].body, done |-> conn[c].done + 1,
                   responses |-> conn[c].responses \o Handled(NextItem(c))]
  <2>3. /\ conn[c].responses \o Handled(NextItem(c)) \in Responses
        /\ conn[c].done + 1 \in 0..Len(conn[c].body)
    BY <2>1, <2>2 DEF BalanceStates, Responses
  <2>4. x \in ConnStates /\ InBounds(x)
    BY <2>1, <2>3, BatchTyped DEF BalanceStates
  <2>5. conn' = [conn EXCEPT ![c] = x]
    BY <1>10 DEF BalanceDone, ItemDone
  <2>9. OthersTyped
    BY <1>10 DEF OthersTyped, BalanceDone, eventVars, RpcTypeOK
  <2> QED BY <1>10, <2>4, <2>5, MovesTyped, <2>9
<1>11. ASSUME NEW c \in Conns, GetEvents(c) PROVE RpcTypeOK'
  <2> DEFINE n == IF Len(queue) < DrainLimit THEN Len(queue) ELSE DrainLimit
             x == [pc |-> "events", events |-> SubSeq(queue, 1, n)]
  <2>1. n \in 0..Len(queue) /\ queue \in Seq(Nat)
    BY DEF RpcTypeOK
  <2>2. SubSeq(queue, 1, n) \in Seq(Nat) /\ SubSeq(queue, n + 1, Len(queue)) \in Seq(Nat)
    <3>1. \A i \in 1..n : queue[i] \in Nat
      BY <2>1
    <3>2. \A i \in n + 1..Len(queue) : queue[i] \in Nat
      BY <2>1
    <3> HIDE DEF n
    <3> QED BY <2>1, <3>1, <3>2, SubSeqProperties
  <2>3. /\ conn' = [conn EXCEPT ![c] = x] /\ queue' \in Seq(Nat) /\ requests' = requests + 1
        /\ UNCHANGED <<slots, issued, received, nodeVars>>
    BY <1>11, <2>2 DEF GetEvents, TakeRequest, AfterDrain
  <2>4. x \in EventStates /\ x.pc = "events"
    BY <2>2 DEF EventStates
  <2> HIDE DEF x, n
  <2>5. x \in ConnStates /\ InBounds(x)
    <3>1. x \in ConnStates
      BY <2>4 DEF ConnStates
    <3>2. x \notin BatchStates /\ x \notin BalanceStates
      BY <2>4, <3>1, StateByPc
    <3> QED BY <3>1, <3>2 DEF InBounds
  <2>9. OthersTyped
    BY <2>3 DEF OthersTyped, RpcTypeOK
  <2> QED BY <2>3, <2>5, MovesTyped, <2>9
<1>12. ASSUME NEW c \in Conns, SendEvents(c) PROVE RpcTypeOK'
  <2>1. Waiting \in IdleStates BY DEF IdleStates
  <2>2. conn[c].events \in Seq(Nat)
    BY <1>12, StateByPc DEF SendEvents, RpcTypeOK, EventStates
  <2>3. received' \in [Conns -> Seq(Nat)]
    BY <1>12, <2>2 DEF SendEvents, RpcTypeOK
  <2>9. OthersTyped
    BY <1>12, <2>3 DEF OthersTyped, SendEvents, RpcTypeOK
  <2> QED BY <1>12, <2>1, IdleTyped, MovesTyped, <2>9 DEF SendEvents
<1>13. ASSUME Watch, memory' \subseteq RpcCoins, stored' \in Nat,
              applying' \in Counts,
              UNCHANGED <<slots, requests, eventVars>>
       PROVE  RpcTypeOK'
  <2>1. ASSUME NEW d \in Conns PROVE conn'[d] \in ConnStates /\ InBounds(conn'[d])
    <3>1. CASE conn[d].pc # "balance"
      BY <1>13, <3>1 DEF Watch, RpcTypeOK, InBounds
    <3>2. CASE conn[d].pc = "balance"
      <4>1. conn[d] \in BalanceStates /\ conn[d].done < Len(conn[d].body)
        BY <3>2, StateByPc DEF RpcTypeOK
      <4> DEFINE now == {k \in memory' : Passed(k.time, stored') /\ Passed(k.height, stored')}
                 x == [conn[d] EXCEPT !.ever = @ \cup now, !.always = @ \cap now]
      <4>2. now \in SUBSET RpcCoins
        BY <1>13
      <4>3. conn'[d] = x
        BY <1>13, <3>2 DEF Watch
      <4> HIDE DEF now
      <4>4. x \in BalanceStates /\ x.done < Len(x.body)
        BY <4>1, <4>2 DEF BalanceStates
      <4> HIDE DEF x
      <4> QED BY <4>3, <4>4 DEF ConnStates, InBounds, BalanceStates
    <3> QED BY <3>1, <3>2
  <2>2. conn' \in [Conns -> ConnStates]
    BY <1>13, <2>1 DEF Watch
  <2> QED BY <1>13, <2>1, <2>2 DEF RpcTypeOK, InBounds, eventVars
<1>14. ASSUME NEW coinsAfter \in SUBSET RpcCoins, StoreAnchor(coinsAfter) PROVE RpcTypeOK'
  BY <1>13, <1>14 DEF StoreAnchor, RpcTypeOK, Counts
<1>15. CASE InstallAnchor
  BY <1>13, <1>15 DEF InstallAnchor, RpcTypeOK, Counts
<1>16. CASE PublishEvent
  BY <1>16 DEF PublishEvent, RpcTypeOK, nodeVars
<1>17. CASE UNCHANGED rpcVars
  BY <1>17 DEF rpcVars, RpcTypeOK
<1> QED BY <1>1, <1>2, <1>3, <1>4, <1>5, <1>6, <1>7, <1>8, <1>9, <1>10, <1>11, <1>12, <1>14,
           <1>15, <1>16, <1>17 DEF RpcNext

\* The connections that hold a slot.
Live == {c \in Conns : conn[c] # Closed}

\* A step takes a slot for a new connection, gives back the slot of one that
\* ends, or moves neither.
LEMMA SlotSteps ==
  ASSUME RpcTypeOK, [RpcNext]_rpcVars
  PROVE  \/ \E c \in Conns \ Live : Live' = Live \cup {c} /\ slots' = slots - 1
         \/ \E c \in Live : Live' = Live \ {c} /\ slots' = slots + 1
         \/ Live' = Live /\ slots' = slots
<1> DEFINE Takes == \E c \in Conns \ Live : Live' = Live \cup {c} /\ slots' = slots - 1
           Gives == \E c \in Live : Live' = Live \ {c} /\ slots' = slots + 1
           Keeps == Live' = Live /\ slots' = slots
<1>1. Starting # Closed /\ Waiting # Closed /\ Starting # Waiting
  BY DEF Starting, Closed, Waiting
<1>2. ASSUME NEW c \in Conns, NEW x, conn' = [conn EXCEPT ![c] = x], x # Closed,
             conn[c] # Closed, slots' = slots
      PROVE  Keeps
  BY <1>2 DEF Live, RpcTypeOK
<1>4. ASSUME NEW c \in Conns, AcceptConn(c) PROVE Takes
  <2>1. conn[c] = Closed /\ conn' = [conn EXCEPT ![c] = Starting] /\ slots' = slots - 1
    BY <1>4 DEF AcceptConn
  <2>2. Live' = Live \cup {c} /\ c \notin Live
    BY <1>1, <2>1 DEF Live, RpcTypeOK
  <2> QED BY <2>1, <2>2
<1>5. ASSUME NEW c \in Conns, StartThreadFails(c) \/ EndThread(c) PROVE Gives
  <2>1. conn[c] # Closed /\ conn' = [conn EXCEPT ![c] = Closed] /\ slots' = slots + 1
    BY <1>1, <1>5 DEF StartThreadFails, EndThread
  <2>2. Live' = Live \ {c} /\ c \in Live
    BY <2>1 DEF Live, RpcTypeOK
  <2> QED BY <2>1, <2>2
<1>6. ASSUME NEW c \in Conns,
             StartThread(c) \/ RefuseRequest(c) \/ Reply(c) \/ SendEvents(c)
      PROVE  Keeps
  <2>1. conn[c] # Closed /\ slots' = slots
    <3>1. CASE StartThread(c) \/ RefuseRequest(c)
      BY <1>1, <3>1 DEF StartThread, RefuseRequest, TakeRequest
    <3>2. CASE Reply(c) \/ SendEvents(c)
      <4>1. conn[c].pc \in {"batch", "reply", "events"} /\ slots' = slots
        BY <3>2 DEF Reply, SendEvents
      <4> QED BY <4>1 DEF Closed
    <3> QED BY <1>6, <3>1, <3>2
  <2>2. PICK x \in {Waiting, [pc |-> "unread"]} : conn' = [conn EXCEPT ![c] = x]
    BY <1>6 DEF StartThread, RefuseRequest, Reply, SendEvents
  <2>3. x # Closed
    BY DEF Waiting, Closed
  <2> QED BY <1>2, <2>1, <2>2, <2>3
<1>7. ASSUME NEW c \in Conns, HandleItem(c) \/ ReadContext(c) \/ ReadCoins(c) \/ BalanceDone(c)
      PROVE  Keeps
  <2>1. conn[c] # Closed /\ slots' = slots
    BY <1>7 DEF HandleItem, ReadContext, ReadCoins, BalanceDone, InBatch, Closed
  <2>2. CASE HandleItem(c) \/ BalanceDone(c)
    <3>1. ItemDone(c).pc = "batch" /\ conn' = [conn EXCEPT ![c] = ItemDone(c)]
      BY <2>2 DEF ItemDone, HandleItem, BalanceDone
    <3>2. ItemDone(c) # Closed
      BY <3>1 DEF Closed
    <3> QED BY <1>2, <2>1, <3>1, <3>2
  <2>3. CASE ReadContext(c)
    <3> DEFINE x == [pc |-> "balance", body |-> conn[c].body, done |-> conn[c].done,
                     responses |-> conn[c].responses, time |-> 0, height |-> stored,
                     ever |-> SpendableNow, always |-> SpendableNow, counted |-> Nothing]
    <3>1. x.pc = "balance" /\ conn' = [conn EXCEPT ![c] = x]
      BY <2>3 DEF ReadContext, RpcTypeOK
    <3> HIDE DEF x
    <3>2. x # Closed
      BY <3>1 DEF Closed
    <3> QED BY <1>2, <2>1, <3>1, <3>2
  <2>4. CASE ReadCoins(c)
    <3>1. conn[c] \in BalanceStates
      BY <2>4, BalanceTyped DEF ReadCoins
    <3> DEFINE got == {k \in memory : Passed(k.time, conn[c].time)
                                        /\ Passed(k.height, conn[c].height)}
               x == [conn[c] EXCEPT !.counted = <<got>>]
    <3>2. x.pc = "balance"
      <4> HIDE DEF got
      <4> QED BY <3>1 DEF BalanceStates
    <3>3. conn' = [conn EXCEPT ![c] = x]
      BY <2>4 DEF ReadCoins, RpcTypeOK
    <3> HIDE DEF x
    <3>4. x # Closed
      BY <3>2 DEF Closed
    <3> QED BY <1>2, <2>1, <3>3, <3>4
  <2> QED BY <1>7, <2>2, <2>3, <2>4
<1>8. ASSUME NEW c \in Conns, NEW body \in Bodies, PostBody(c, body) PROVE Keeps
  <2>1. conn[c] # Closed /\ slots' = slots
    BY <1>1, <1>8 DEF PostBody, TakeRequest
  <2> DEFINE x == IF Len(body) \in 1..MaxBatch
                  THEN [pc |-> "batch", body |-> body, done |-> 0, responses |-> << >>]
                  ELSE [pc |-> "reply", body |-> body, done |-> 0,
                        responses |-> <<<<0, "error">>>>]
  <2>2. x.pc \in {"batch", "reply"} /\ conn' = [conn EXCEPT ![c] = x]
    BY <1>8 DEF PostBody
  <2> HIDE DEF x
  <2>3. x # Closed
    BY <2>2 DEF Closed
  <2> QED BY <1>2, <2>1, <2>2, <2>3
<1>9. ASSUME NEW c \in Conns, GetEvents(c) PROVE Keeps
  <2>1. conn[c] # Closed /\ slots' = slots
    BY <1>1, <1>9 DEF GetEvents, TakeRequest
  <2> DEFINE n == IF Len(queue) < DrainLimit THEN Len(queue) ELSE DrainLimit
             x == [pc |-> "events", events |-> SubSeq(queue, 1, n)]
  <2>2. x.pc = "events" /\ conn' = [conn EXCEPT ![c] = x]
    BY <1>9 DEF GetEvents
  <2> HIDE DEF x
  <2>3. x # Closed
    BY <2>2 DEF Closed
  <2> QED BY <1>2, <2>1, <2>2, <2>3
<1>10. ASSUME Watch, slots' = slots PROVE Keeps
  <2>1. ASSUME NEW c \in Conns PROVE conn'[c] = Closed <=> conn[c] = Closed
    <3>1. CASE conn[c].pc # "balance"
      BY <1>10, <3>1 DEF Watch
    <3>2. CASE conn[c].pc = "balance"
      <4>1. conn[c] \in BalanceStates
        BY <3>2, BalanceTyped
      <4>2. conn'[c].pc = "balance"
        BY <1>10, <3>2, <4>1 DEF Watch, BalanceStates
      <4> QED BY <3>2, <4>2 DEF Closed
    <3> QED BY <3>1, <3>2
  <2> QED BY <1>10, <2>1 DEF Live
<1>11. ASSUME (\E coinsAfter \in SUBSET RpcCoins : StoreAnchor(coinsAfter)) \/ InstallAnchor
       PROVE  Keeps
  BY <1>10, <1>11 DEF StoreAnchor, InstallAnchor
<1>12. ASSUME PublishEvent \/ UNCHANGED rpcVars PROVE Keeps
  BY <1>12 DEF PublishEvent, rpcVars, Live
<1> HIDE DEF Takes, Gives, Keeps
<1>13. Takes \/ Gives \/ Keeps
  BY <1>4, <1>5, <1>6, <1>7, <1>8, <1>9, <1>11, <1>12 DEF RpcNext
<1> QED BY <1>13 DEF Takes, Gives, Keeps

\* For every number of connections and slots, and whatever order connections are
\* accepted, refused, broken or timed out in, a slot is free or held by one live
\* thread: process_request and the finally clause neither leak nor multiply slots.
THEOREM SlotsNeverLeak == RpcSpec => []SlotsAccounted
<1> DEFINE SlotInv == RpcTypeOK /\ IsFiniteSet(Live) /\ SlotsAccounted
<1>1. RpcInit => RpcTypeOK
  BY RpcAssumption DEF RpcInit, RpcTypeOK, ConnStates, IdleStates, BatchStates, BalanceStates,
     Closed, Counts
<1>2. RpcInit => SlotInv
  <2> SUFFICES ASSUME RpcInit PROVE SlotInv
    OBVIOUS
  <2>1. Live = {}
    BY DEF RpcInit, Live
  <2>2. Cardinality(Live) = 0 /\ IsFiniteSet(Live)
    BY <2>1, FS_EmptySet
  <2> QED BY <1>1, <2>2, RpcAssumption DEF RpcInit, SlotsAccounted, Live
<1>3. SlotInv /\ [RpcNext]_rpcVars => SlotInv'
  <2> SUFFICES ASSUME SlotInv, [RpcNext]_rpcVars PROVE SlotInv'
    OBVIOUS
  <2> DEFINE held == Cardinality(Live)
             heldNext == Cardinality(Live')
  <2>1. RpcTypeOK'
    BY RpcTypeStep
  <2>2. held \in Nat /\ slots \in Int /\ slots + held = MaxConnections
    BY FS_CardinalityType DEF SlotsAccounted, Live, RpcTypeOK
  <2>3. IsFiniteSet(Live') /\ slots' + heldNext = MaxConnections
    <3>1. CASE \E c \in Conns \ Live : Live' = Live \cup {c} /\ slots' = slots - 1
      <4>1. IsFiniteSet(Live') /\ heldNext = held + 1
        BY <3>1, FS_AddElement
      <4> HIDE DEF held, heldNext
      <4> QED BY <2>2, <3>1, <4>1
    <3>2. CASE \E c \in Live : Live' = Live \ {c} /\ slots' = slots + 1
      <4>1. IsFiniteSet(Live') /\ heldNext = held - 1
        BY <3>2, FS_RemoveElement
      <4> HIDE DEF held, heldNext
      <4> QED BY <2>2, <3>2, <4>1
    <3>3. CASE Live' = Live /\ slots' = slots
      BY <2>2, <3>3
    <3> QED BY <3>1, <3>2, <3>3, SlotSteps
  <2> QED BY <2>1, <2>3 DEF SlotsAccounted, Live
<1> QED BY <1>2, <1>3, PTL DEF RpcSpec
-----------------------------------------------------------------------------
(* Events: what is queued, on its way and received. *)

\* The events a connection's thread has drained and not sent.
InFlight(c) == IF conn[c].pc = "events" THEN conn[c].events ELSE << >>

Increasing(s) == \A i, j \in 1..Len(s) : i < j => s[i] < s[j]
Below(s, t) == \A i \in 1..Len(s), j \in 1..Len(t) : s[i] < t[j]
Apart(s, t) == \A i \in 1..Len(s), j \in 1..Len(t) : s[i] # t[j]
UpTo(s, n) == \A i \in 1..Len(s) : s[i] <= n

\* What one connection has been given is in order and before what is queued.
InOrderFor(c) ==
  /\ Increasing(received[c]) /\ Increasing(InFlight(c)) /\ Below(received[c], InFlight(c))
  /\ Below(received[c], queue) /\ Below(InFlight(c), queue)
  /\ UpTo(received[c], issued) /\ UpTo(InFlight(c), issued)

\* What two connections have been given is apart.
NotShared(c, d) ==
  /\ Apart(received[c], received[d]) /\ Apart(InFlight(c), InFlight(d))
  /\ Apart(received[c], InFlight(d)) /\ Apart(InFlight(c), received[d])

EventInv ==
  /\ Increasing(queue) /\ UpTo(queue, issued)
  /\ \A c \in Conns : InOrderFor(c)
  /\ \A c, d \in Conns : c # d => NotShared(c, d)

\* All of a comes before all of b, and both are taken from q.
CutOf(q, a, b) ==
  /\ a \in Seq(Nat) /\ b \in Seq(Nat)
  /\ Increasing(a) /\ Increasing(b) /\ Below(a, b)
  /\ \A i \in 1..Len(a) : \E j \in 1..Len(q) : a[i] = q[j]
  /\ \A i \in 1..Len(b) : \E j \in 1..Len(q) : b[i] = q[j]

\* Each element of u is one of s or of t.
JoinOf(s, t, u) ==
  \A i \in 1..Len(u) :
    \/ i \in 1..Len(s) /\ u[i] = s[i]
    \/ i - Len(s) \in 1..Len(t) /\ u[i] = t[i - Len(s)]

\* An increasing sequence cut in two.
LEMMA CutIncreasing ==
  ASSUME NEW q \in Seq(Nat), Increasing(q), NEW n \in 0..Len(q),
         NEW a, a = SubSeq(q, 1, n), NEW b, b = SubSeq(q, n + 1, Len(q))
  PROVE  CutOf(q, a, b)
<1>1. /\ \A i \in 1..n : q[i] \in Nat
      /\ \A i \in n + 1..Len(q) : q[i] \in Nat
      /\ Len(q) \in Nat
  OBVIOUS
<1>2. a \in Seq(Nat) /\ Len(a) = n /\ \A i \in 1..n : a[i] = q[i]
  <2>1. /\ a \in Seq(Nat) /\ Len(a) = (IF 1 <= n THEN n - 1 + 1 ELSE 0)
        /\ \A i \in 1..n - 1 + 1 : a[i] = q[1 + i - 1]
    BY <1>1, SubSeqProperties
  <2> QED BY <2>1
<1>3. b \in Seq(Nat) /\ Len(b) = Len(q) - n /\ \A i \in 1..Len(q) - n : b[i] = q[n + i]
  <2>1. /\ b \in Seq(Nat)
        /\ Len(b) = (IF n + 1 <= Len(q) THEN Len(q) - (n + 1) + 1 ELSE 0)
        /\ \A i \in 1..Len(q) - (n + 1) + 1 : b[i] = q[n + 1 + i - 1]
    BY <1>1, SubSeqProperties
  <2> QED BY <1>1, <2>1
<1> HIDE DEF Increasing, Below
<1>4. Increasing(a) /\ \A i \in 1..Len(a) : \E j \in 1..Len(q) : a[i] = q[j]
  BY <1>1, <1>2 DEF Increasing
<1>5. Increasing(b)
  <2> SUFFICES ASSUME NEW i \in 1..Len(b), NEW j \in 1..Len(b), i < j PROVE b[i] < b[j]
    BY DEF Increasing
  <2>1. b[i] = q[n + i] /\ b[j] = q[n + j] /\ n + i \in 1..Len(q) /\ n + j \in 1..Len(q)
        /\ n + i < n + j
    <3>1. i \in 1..Len(q) - n /\ j \in 1..Len(q) - n
      BY <1>3
    <3>2. b[i] = q[n + i] /\ b[j] = q[n + j]
      BY <1>3, <3>1
    <3>3. n \in Nat /\ Len(q) \in Nat
      BY <1>1
    <3>4. n + i \in 1..Len(q) /\ n + j \in 1..Len(q)
      BY <3>1, <3>3
    <3>5. n + i < n + j
      BY <3>1, <3>3
    <3> QED BY <3>2, <3>4, <3>5
  <2> QED BY <2>1 DEF Increasing
<1>6. Below(a, b)
  <2> SUFFICES ASSUME NEW i \in 1..Len(a), NEW j \in 1..Len(b) PROVE a[i] < b[j]
    BY DEF Below
  <2>1. a[i] = q[i] /\ b[j] = q[n + j] /\ i \in 1..Len(q) /\ n + j \in 1..Len(q) /\ i < n + j
    BY <1>1, <1>2, <1>3
  <2> QED BY <2>1 DEF Increasing
<1>7. \A i \in 1..Len(b) : \E j \in 1..Len(q) : b[i] = q[j]
  <2> SUFFICES ASSUME NEW i \in 1..Len(b) PROVE \E j \in 1..Len(q) : b[i] = q[j]
    OBVIOUS
  <2>1. n + i \in 1..Len(q) /\ b[i] = q[n + i]
    BY <1>1, <1>3
  <2> QED BY <2>1
<1> QED BY <1>2, <1>3, <1>4, <1>5, <1>6, <1>7 DEF CutOf

\* Where the elements of a concatenation come from.
LEMMA ConcatParts ==
  ASSUME NEW s \in Seq(Nat), NEW t \in Seq(Nat), NEW u, u = s \o t
  PROVE  /\ JoinOf(s, t, u)
         /\ Increasing(s) /\ Increasing(t) /\ Below(s, t) => Increasing(u)
<1>1. \A i \in 1..Len(u) : \/ i <= Len(s) /\ u[i] = s[i] /\ i \in 1..Len(s)
                           \/ i > Len(s) /\ u[i] = t[i - Len(s)] /\ i - Len(s) \in 1..Len(t)
  OBVIOUS
<1>2. ASSUME Increasing(s), Increasing(t), Below(s, t),
             NEW i \in 1..Len(u), NEW j \in 1..Len(u), i < j
      PROVE  u[i] < u[j]
  <2>1. CASE j <= Len(s)
    BY <1>1, <1>2, <2>1 DEF Increasing
  <2>2. CASE i <= Len(s) /\ j > Len(s)
    BY <1>1, <1>2, <2>2 DEF Below
  <2>3. CASE i > Len(s)
    <3>1. /\ u[i] = t[i - Len(s)] /\ i - Len(s) \in 1..Len(t)
          /\ u[j] = t[j - Len(s)] /\ j - Len(s) \in 1..Len(t)
          /\ i - Len(s) < j - Len(s)
      BY <1>1, <1>2, <2>3
    <3> QED BY <1>2, <3>1 DEF Increasing
  <2> QED BY <2>1, <2>2, <2>3
<1>3. JoinOf(s, t, u)
  BY <1>1 DEF JoinOf
<1> QED BY <1>2, <1>3 DEF Increasing

\* What is on its way to a client is what its thread drained; a thread that ends
\* or moves on has nothing on its way, and no other step touches an event.
LEMMA EventSteps ==
  ASSUME RpcTypeOK, [RpcNext]_rpcVars
  PROVE  \/ PublishEvent /\ \A d \in Conns : InFlight(d)' = InFlight(d)
         \/ \E c \in Conns : GetEvents(c)
         \/ \E c \in Conns : SendEvents(c)
         \/ /\ UNCHANGED <<queue, issued, received>>
            /\ \A d \in Conns : InFlight(d)' \in {InFlight(d), << >>}
<1> DEFINE Quiet == /\ UNCHANGED <<queue, issued, received>>
                    /\ \A d \in Conns : InFlight(d)' \in {InFlight(d), << >>}
<1>1. ASSUME NEW c \in Conns, NEW x, conn' = [conn EXCEPT ![c] = x], x.pc # "events",
             UNCHANGED eventVars
      PROVE  Quiet
  BY <1>1 DEF InFlight, RpcTypeOK, eventVars
<1>2. ASSUME NEW c \in Conns,
             AcceptConn(c) \/ StartThread(c) \/ StartThreadFails(c) \/ EndThread(c)
               \/ RefuseRequest(c) \/ Reply(c)
      PROVE  Quiet
  <2>1. PICK x \in {Starting, Closed, Waiting, [pc |-> "unread"]} :
          conn' = [conn EXCEPT ![c] = x]
    BY <1>2 DEF AcceptConn, StartThread, StartThreadFails, EndThread, RefuseRequest, Reply
  <2>2. x.pc # "events"
    BY DEF Starting, Closed, Waiting
  <2>3. UNCHANGED eventVars
    BY <1>2 DEF AcceptConn, StartThread, StartThreadFails, EndThread, RefuseRequest, Reply
  <2> QED BY <1>1, <2>1, <2>2, <2>3
<1>3. ASSUME NEW c \in Conns, HandleItem(c) \/ BalanceDone(c) PROVE Quiet
  <2>1. ItemDone(c).pc # "events" /\ conn' = [conn EXCEPT ![c] = ItemDone(c)]
    BY <1>3 DEF ItemDone, HandleItem, BalanceDone
  <2>2. UNCHANGED eventVars
    BY <1>3 DEF HandleItem, BalanceDone
  <2> QED BY <1>1, <2>1, <2>2
<1>4. ASSUME NEW c \in Conns, ReadContext(c) PROVE Quiet
  <2> DEFINE x == [pc |-> "balance", body |-> conn[c].body, done |-> conn[c].done,
                   responses |-> conn[c].responses, time |-> 0, height |-> stored,
                   ever |-> SpendableNow, always |-> SpendableNow, counted |-> Nothing]
  <2>1. x.pc = "balance" /\ conn' = [conn EXCEPT ![c] = x] /\ UNCHANGED eventVars
    BY <1>4 DEF ReadContext, RpcTypeOK
  <2> HIDE DEF x
  <2> QED BY <1>1, <2>1
<1>5. ASSUME NEW c \in Conns, ReadCoins(c) PROVE Quiet
  <2>1. conn[c] \in BalanceStates
    BY <1>5, BalanceTyped DEF ReadCoins
  <2> DEFINE got == {k \in memory : Passed(k.time, conn[c].time)
                                      /\ Passed(k.height, conn[c].height)}
             x == [conn[c] EXCEPT !.counted = <<got>>]
  <2>2. x.pc = "balance"
    <3> HIDE DEF got
    <3> QED BY <2>1 DEF BalanceStates
  <2>3. conn' = [conn EXCEPT ![c] = x] /\ UNCHANGED eventVars
    BY <1>5 DEF ReadCoins, RpcTypeOK
  <2> HIDE DEF x
  <2> QED BY <1>1, <2>2, <2>3
<1>6. ASSUME NEW c \in Conns, NEW body \in Bodies, PostBody(c, body) PROVE Quiet
  <2> DEFINE x == IF Len(body) \in 1..MaxBatch
                  THEN [pc |-> "batch", body |-> body, done |-> 0, responses |-> << >>]
                  ELSE [pc |-> "reply", body |-> body, done |-> 0,
                        responses |-> <<<<0, "error">>>>]
  <2>1. x.pc # "events" /\ conn' = [conn EXCEPT ![c] = x] /\ UNCHANGED eventVars
    BY <1>6 DEF PostBody
  <2> HIDE DEF x
  <2> QED BY <1>1, <2>1
<1>7. ASSUME Watch, UNCHANGED eventVars PROVE Quiet
  <2>1. ASSUME NEW d \in Conns PROVE InFlight(d)' = InFlight(d)
    <3>1. CASE conn[d].pc # "balance"
      BY <1>7, <3>1 DEF Watch, InFlight
    <3>2. CASE conn[d].pc = "balance"
      <4>1. conn[d] \in BalanceStates
        BY <3>2, BalanceTyped
      <4>2. conn'[d].pc = "balance"
        BY <1>7, <3>2, <4>1 DEF Watch, BalanceStates
      <4> QED BY <3>2, <4>2 DEF InFlight
    <3> QED BY <3>1, <3>2
  <2> QED BY <1>7, <2>1 DEF eventVars
<1>8. ASSUME (\E coinsAfter \in SUBSET RpcCoins : StoreAnchor(coinsAfter)) \/ InstallAnchor
      PROVE  Quiet
  BY <1>7, <1>8 DEF StoreAnchor, InstallAnchor
<1>9. ASSUME UNCHANGED rpcVars PROVE Quiet
  BY <1>9 DEF rpcVars, InFlight
<1>10. ASSUME PublishEvent PROVE \A d \in Conns : InFlight(d)' = InFlight(d)
  BY <1>10 DEF PublishEvent, InFlight
<1> HIDE DEF Quiet
<1>11. PublishEvent \/ (\E c \in Conns : GetEvents(c)) \/ (\E c \in Conns : SendEvents(c)) \/ Quiet
  BY <1>2, <1>3, <1>4, <1>5, <1>6, <1>8, <1>9 DEF RpcNext
<1> QED BY <1>10, <1>11 DEF Quiet

\* The events a connection has drained and not sent are event numbers.
LEMMA InFlightTyped ==
  ASSUME RpcTypeOK, NEW c \in Conns
  PROVE  InFlight(c) \in Seq(Nat)
BY StateByPc DEF RpcTypeOK, InFlight, EventStates

\* Every step keeps the events in order and apart.
LEMMA EventStep ==
  ASSUME RpcTypeOK, EventInv, [RpcNext]_rpcVars
  PROVE  EventInv'
<1>1. /\ queue \in Seq(Nat) /\ issued \in Nat
      /\ \A c \in Conns : received[c] \in Seq(Nat) /\ InFlight(c) \in Seq(Nat)
  BY InFlightTyped DEF RpcTypeOK
<1>2. ASSUME PublishEvent, \A d \in Conns : InFlight(d)' = InFlight(d)
      PROVE  EventInv'
  <2>1. queue' = Append(queue, issued + 1) /\ issued' = issued + 1 /\ received' = received
    BY <1>2 DEF PublishEvent
  <2>2. /\ Len(queue') = Len(queue) + 1 /\ queue'[Len(queue) + 1] = issued + 1
        /\ \A i \in 1..Len(queue) : queue'[i] = queue[i]
    BY <1>1, <2>1
  <2>3. \A s \in Seq(Nat) : UpTo(s, issued) => UpTo(s, issued')
    BY <1>1, <2>1 DEF UpTo
  <2>4. \A s \in Seq(Nat) : UpTo(s, issued) /\ Below(s, queue) => Below(s, queue')
    <3> SUFFICES ASSUME NEW s \in Seq(Nat), UpTo(s, issued), Below(s, queue),
                        NEW i \in 1..Len(s), NEW j \in 1..Len(queue')
                 PROVE  s[i] < queue'[j]
      BY DEF Below
    <3>1. CASE j \in 1..Len(queue)
      BY <2>2, <3>1 DEF Below
    <3>2. CASE j = Len(queue) + 1
      BY <1>1, <2>2, <3>2 DEF UpTo
    <3>3. j \in 1..Len(queue) \/ j = Len(queue) + 1
      BY <1>1, <2>2
    <3> QED BY <3>1, <3>2, <3>3
  <2>5. Increasing(queue')
    <3> SUFFICES ASSUME NEW i \in 1..Len(queue'), NEW j \in 1..Len(queue'), i < j
                 PROVE  queue'[i] < queue'[j]
      BY DEF Increasing
    <3>1. i \in 1..Len(queue)
      BY <1>1, <2>2
    <3>2. CASE j \in 1..Len(queue)
      BY <2>2, <3>1, <3>2 DEF EventInv, Increasing
    <3>3. CASE j = Len(queue) + 1
      BY <1>1, <2>2, <3>1, <3>3 DEF EventInv, UpTo
    <3> QED BY <1>1, <2>2, <3>2, <3>3
  <2>6. UpTo(queue', issued')
    BY <1>1, <2>1, <2>2 DEF EventInv, UpTo
  <2>7. ASSUME NEW c \in Conns PROVE InOrderFor(c)'
    <3>1. received'[c] = received[c] /\ InFlight(c)' = InFlight(c) /\ InOrderFor(c)
      BY <1>2, <2>1 DEF EventInv
    <3> QED BY <1>1, <2>3, <2>4, <3>1 DEF InOrderFor
  <2>8. ASSUME NEW c \in Conns, NEW d \in Conns, c # d PROVE NotShared(c, d)'
    <3>1. /\ received'[c] = received[c] /\ InFlight(c)' = InFlight(c)
          /\ received'[d] = received[d] /\ InFlight(d)' = InFlight(d) /\ NotShared(c, d)
      BY <1>2, <2>1, <2>8 DEF EventInv
    <3> QED BY <3>1 DEF NotShared
  <2> QED BY <2>5, <2>6, <2>7, <2>8 DEF EventInv
<1>3. ASSUME NEW c \in Conns, GetEvents(c) PROVE EventInv'
  <2> DEFINE n == IF Len(queue) < DrainLimit THEN Len(queue) ELSE DrainLimit
  <2>1. n \in 0..Len(queue)
    BY <1>1, RpcAssumption
  <2>2. PICK a, b : a = SubSeq(queue, 1, n) /\ b = SubSeq(queue, n + 1, Len(queue))
    OBVIOUS
  <2>3. /\ queue' = b /\ received' = received /\ issued' = issued
        /\ InFlight(c) = << >>
        /\ InFlight(c)' = a
        /\ \A d \in Conns \ {c} : InFlight(d)' = InFlight(d)
    <3>1. /\ conn' = [conn EXCEPT ![c] = [pc |-> "events", events |-> a]]
          /\ queue' = b /\ received' = received /\ issued' = issued
          /\ conn[c] = Waiting
      BY <1>3, <2>2 DEF GetEvents, TakeRequest, AfterDrain
    <3> QED BY <3>1 DEF InFlight, Waiting, RpcTypeOK
  <2> HIDE DEF n
  <2>4. /\ a \in Seq(Nat) /\ b \in Seq(Nat) /\ Increasing(a) /\ Increasing(b) /\ Below(a, b)
        /\ \A i \in 1..Len(a) : \E j \in 1..Len(queue) : a[i] = queue[j]
        /\ \A i \in 1..Len(b) : \E j \in 1..Len(queue) : b[i] = queue[j]
    <3>1. queue \in Seq(Nat) /\ Increasing(queue)
      BY <1>1 DEF EventInv
    <3>2. CutOf(queue, a, b)
      BY <2>1, <2>2, <3>1, CutIncreasing
    <3> QED BY <3>2 DEF CutOf
  <2>5. UpTo(a, issued) /\ UpTo(b, issued)
    BY <2>4 DEF EventInv, UpTo
  <2>6. \A s \in Seq(Nat) : Below(s, queue) =>
          Below(s, a) /\ Below(s, b) /\ Apart(s, a) /\ Apart(a, s)
    <3> SUFFICES ASSUME NEW s \in Seq(Nat), Below(s, queue)
                 PROVE  Below(s, a) /\ Below(s, b) /\ Apart(s, a) /\ Apart(a, s)
      OBVIOUS
    <3>1. Below(s, a) /\ Below(s, b)
      BY <2>4 DEF Below
    <3>2. ASSUME NEW i \in 1..Len(s), NEW j \in 1..Len(a) PROVE s[i] # a[j]
      <4>1. s[i] < a[j]
        BY <3>1, Zenon DEF Below
      <4>2. s[i] \in Nat
        OBVIOUS
      <4>3. a[j] \in Nat
        BY <2>4
      <4> QED BY <4>1, <4>2, <4>3
    <3>3. Apart(s, a) /\ Apart(a, s)
      BY <3>2, Zenon DEF Apart
    <3> QED BY <3>1, <3>3
  <2>7. ASSUME NEW d \in Conns PROVE InOrderFor(d)'
    <3>1. InOrderFor(d) /\ received'[d] = received[d]
      BY <2>3 DEF EventInv
    <3>2. CASE d = c
      BY <1>1, <2>3, <2>4, <2>5, <2>6, <3>1, <3>2 DEF InOrderFor
    <3>3. CASE d # c
      BY <1>1, <2>3, <2>6, <3>1, <3>3 DEF InOrderFor
    <3> QED BY <3>2, <3>3
  <2>8. ASSUME NEW d \in Conns, NEW e \in Conns, d # e PROVE NotShared(d, e)'
    <3>1. /\ NotShared(d, e) /\ received'[d] = received[d] /\ received'[e] = received[e]
          /\ InOrderFor(d) /\ InOrderFor(e)
      BY <2>3, <2>8 DEF EventInv
    <3>2. CASE d # c /\ e # c
      BY <2>3, <3>1, <3>2 DEF NotShared
    <3>3. CASE d = c
      BY <1>1, <2>3, <2>6, <2>8, <3>1, <3>3 DEF NotShared, InOrderFor
    <3>4. CASE e = c
      BY <1>1, <2>3, <2>6, <2>8, <3>1, <3>4 DEF NotShared, InOrderFor
    <3> QED BY <3>2, <3>3, <3>4
  <2> QED BY <2>3, <2>4, <2>5, <2>7, <2>8 DEF EventInv
<1>4. ASSUME NEW c \in Conns, SendEvents(c) PROVE EventInv'
  <2>1. PICK s \in Seq(Nat), t \in Seq(Nat), u \in Seq(Nat) :
          s = received[c] /\ t = InFlight(c) /\ u = s \o t
    BY <1>1, ConcatProperties
  <2>2. /\ queue' = queue /\ issued' = issued
        /\ received'[c] = u /\ InFlight(c)' = << >>
        /\ \A d \in Conns \ {c} : received'[d] = received[d] /\ InFlight(d)' = InFlight(d)
    <3>1. /\ conn' = [conn EXCEPT ![c] = Waiting] /\ queue' = queue /\ issued' = issued
          /\ received' = [received EXCEPT ![c] = received[c] \o conn[c].events]
          /\ InFlight(c) = conn[c].events
      BY <1>4 DEF SendEvents, InFlight
    <3> QED BY <2>1, <3>1 DEF InFlight, Waiting, RpcTypeOK
  <2>3. InOrderFor(c)
    BY DEF EventInv
  <2>4. /\ \A i \in 1..Len(u) : \/ i \in 1..Len(s) /\ u[i] = s[i]
                                \/ i - Len(s) \in 1..Len(t) /\ u[i] = t[i - Len(s)]
        /\ Increasing(u)
    <3>1. Increasing(s) /\ Increasing(t) /\ Below(s, t)
      BY <2>1, <2>3 DEF InOrderFor
    <3>2. JoinOf(s, t, u) /\ (Increasing(s) /\ Increasing(t) /\ Below(s, t) => Increasing(u))
      BY <2>1, ConcatParts
    <3> QED BY <3>1, <3>2 DEF JoinOf
  <2>5. /\ \A v \in Seq(Nat) : Below(s, v) /\ Below(t, v) => Below(u, v)
        /\ \A v \in Seq(Nat) : Apart(s, v) /\ Apart(t, v) => Apart(u, v)
        /\ \A v \in Seq(Nat) : Apart(v, s) /\ Apart(v, t) => Apart(v, u)
        /\ UpTo(s, issued) /\ UpTo(t, issued) => UpTo(u, issued)
    <3>1. \A v \in Seq(Nat) : Below(s, v) /\ Below(t, v) => Below(u, v)
      BY <2>4 DEF Below
    <3>2. \A v \in Seq(Nat) : Apart(s, v) /\ Apart(t, v) => Apart(u, v)
      BY <2>4 DEF Apart
    <3>3. \A v \in Seq(Nat) : Apart(v, s) /\ Apart(v, t) => Apart(v, u)
      BY <2>4 DEF Apart
    <3>4. UpTo(s, issued) /\ UpTo(t, issued) => UpTo(u, issued)
      BY <2>4 DEF UpTo
    <3> QED BY <3>1, <3>2, <3>3, <3>4
  <2>6. \A v : /\ Increasing(<< >>) /\ Below(v, << >>) /\ Below(<< >>, v)
               /\ Apart(v, << >>) /\ Apart(<< >>, v) /\ UpTo(<< >>, issued)
    BY DEF Increasing, Below, Apart, UpTo
  <2>7. ASSUME NEW d \in Conns PROVE InOrderFor(d)'
    <3>1. InOrderFor(d)
      BY DEF EventInv
    <3>2. CASE d = c
      BY <1>1, <2>1, <2>2, <2>3, <2>4, <2>5, <2>6, <3>2 DEF InOrderFor
    <3>3. CASE d # c
      BY <2>2, <3>1, <3>3 DEF InOrderFor
    <3> QED BY <3>2, <3>3
  <2>8. ASSUME NEW d \in Conns, NEW e \in Conns, d # e PROVE NotShared(d, e)'
    <3>1. NotShared(d, e)
      BY <2>8 DEF EventInv
    <3>2. CASE d # c /\ e # c
      BY <2>2, <3>1, <3>2 DEF NotShared
    <3>3. CASE d = c
      BY <1>1, <2>1, <2>2, <2>5, <2>6, <2>8, <3>1, <3>3 DEF NotShared
    <3>4. CASE e = c
      BY <1>1, <2>1, <2>2, <2>5, <2>6, <2>8, <3>1, <3>4 DEF NotShared
    <3> QED BY <3>2, <3>3, <3>4
  <2> QED BY <2>2, <2>7, <2>8 DEF EventInv
<1>5. ASSUME UNCHANGED <<queue, issued, received>>,
             \A d \in Conns : InFlight(d)' \in {InFlight(d), << >>}
      PROVE  EventInv'
  <2>1. \A v : /\ Increasing(<< >>) /\ Below(v, << >>) /\ Below(<< >>, v)
               /\ Apart(v, << >>) /\ Apart(<< >>, v) /\ UpTo(<< >>, issued)
    BY DEF Increasing, Below, Apart, UpTo
  <2>2. ASSUME NEW d \in Conns PROVE InOrderFor(d)'
    BY <1>5, <2>1 DEF EventInv, InOrderFor
  <2>3. ASSUME NEW d \in Conns, NEW e \in Conns, d # e PROVE NotShared(d, e)'
    BY <1>5, <2>1, <2>3 DEF EventInv, NotShared
  <2> QED BY <1>5, <2>2, <2>3 DEF EventInv
<1> QED BY <1>2, <1>3, <1>4, <1>5, EventSteps

\* The types hold always.
LEMMA RpcTypesHold == RpcSpec => []RpcTypeOK
<1>1. RpcInit => RpcTypeOK
  BY RpcAssumption DEF RpcInit, RpcTypeOK, ConnStates, IdleStates, BatchStates, BalanceStates,
     Closed, Counts
<1> QED BY <1>1, RpcTypeStep, PTL DEF RpcSpec

\* For every number of connections that drain one subscription, every drain limit
\* and wherever connections break, an event reaches at most one client, at most
\* once, and each client sees the events in the order they were published.
THEOREM EventsReachOnce == RpcSpec => []EventsAtMostOnce
<1>1. RpcInit => EventInv
  <2> SUFFICES ASSUME RpcInit PROVE EventInv
    OBVIOUS
  <2>1. /\ queue = << >> /\ issued = 0
        /\ \A c \in Conns : received[c] = << >> /\ InFlight(c) = << >>
    BY DEF RpcInit, InFlight, Closed
  <2> QED BY <2>1 DEF EventInv, InOrderFor, NotShared, Increasing, Below, Apart, UpTo
<1>2. RpcTypeOK /\ EventInv /\ [RpcNext]_rpcVars => EventInv'
  BY EventStep
<1>3. RpcTypeOK /\ EventInv => EventsAtMostOnce
  <2> SUFFICES ASSUME RpcTypeOK, EventInv PROVE EventsAtMostOnce
    OBVIOUS
  <2>1. ASSUME NEW c \in Conns, NEW i \in 1..Len(received[c]), NEW j \in 1..Len(received[c]), i < j
        PROVE  received[c][i] < received[c][j]
    BY <2>1 DEF EventInv, InOrderFor, Increasing
  <2>2. ASSUME NEW c \in Conns, NEW d \in Conns, c # d
        PROVE  Range(received[c]) \cap Range(received[d]) = {}
    <3>1. Apart(received[c], received[d])
      BY <2>2 DEF EventInv, NotShared
    <3>2. DOMAIN received[c] = 1..Len(received[c]) /\ DOMAIN received[d] = 1..Len(received[d])
      BY DEF RpcTypeOK
    <3> QED BY <3>1, <3>2 DEF Range, Apart
  <2> QED BY <2>1, <2>2 DEF EventsAtMostOnce
<1> QED BY <1>1, <1>2, <1>3, RpcTypesHold, PTL DEF RpcSpec
-----------------------------------------------------------------------------
(* Batches: responses against the items handled so far. *)

\* The items a body's prefix asks to be answered are finitely many; one more item
\* adds at most itself.
LEMMA AskedGrows ==
  ASSUME NEW body, NEW n \in Nat
  PROVE  /\ IsFiniteSet(Asked(body, n)) /\ Cardinality(Asked(body, n)) \in Nat
         /\ \A i \in Asked(body, n) : Cardinality(Asked(body, i)) \in 1..Cardinality(Asked(body, n))
         /\ n + 1 \in Asked(body, n + 1) =>
              Cardinality(Asked(body, n + 1)) = Cardinality(Asked(body, n)) + 1
         /\ n + 1 \in Asked(body, n + 1) => Asked(body, n + 1) = Asked(body, n) \cup {n + 1}
         /\ n + 1 \notin Asked(body, n + 1) => Asked(body, n + 1) = Asked(body, n)
<1>1. \A m \in Nat : IsFiniteSet(Asked(body, m)) /\ Cardinality(Asked(body, m)) \in Nat
  <2> SUFFICES ASSUME NEW m \in Nat
               PROVE  IsFiniteSet(Asked(body, m)) /\ Cardinality(Asked(body, m)) \in Nat
    OBVIOUS
  <2>1. Asked(body, m) \subseteq 1..m /\ IsFiniteSet(1..m)
    BY FS_Interval DEF Asked
  <2>2. IsFiniteSet(Asked(body, m))
    BY <2>1, FS_Subset
  <2> QED BY <2>2, FS_CardinalityType
<1>2. ASSUME NEW i \in Asked(body, n)
      PROVE  Cardinality(Asked(body, i)) \in 1..Cardinality(Asked(body, n))
  <2>1. i \in Nat /\ i \in Asked(body, i) /\ Asked(body, i) \subseteq Asked(body, n)
    BY <1>2 DEF Asked
  <2>2. Cardinality(Asked(body, i)) <= Cardinality(Asked(body, n))
    BY <1>1, <2>1, FS_Subset
  <2>3. Cardinality(Asked(body, i)) # 0
    BY <1>1, <2>1, FS_EmptySet
  <2> QED BY <1>1, <2>1, <2>2, <2>3
<1>3. /\ n + 1 \in Asked(body, n + 1) => Asked(body, n + 1) = Asked(body, n) \cup {n + 1}
      /\ n + 1 \notin Asked(body, n + 1) => Asked(body, n + 1) = Asked(body, n)
      /\ n + 1 \notin Asked(body, n)
  BY DEF Asked
<1>4. n + 1 \in Asked(body, n + 1) =>
        Cardinality(Asked(body, n + 1)) = Cardinality(Asked(body, n)) + 1
  BY <1>1, <1>3, FS_AddElement
<1> QED BY <1>1, <1>2, <1>3, <1>4

\* The id an item is answered under.
AnswerId(item) == IF item.shape \in {"notdict", "badid"} THEN 0 ELSE item.id

\* An item is answered once, under its id, when it asks for it, and else not.
LEMMA HandledOnce ==
  ASSUME NEW item \in Items, NEW h, h = Handled(item)
  PROVE  /\ h \in Responses
         /\ item.shape # "ok" \/ item.id # 0 => Len(h) = 1 /\ h[1][1] = AnswerId(item)
         /\ ~ (item.shape # "ok" \/ item.id # 0) => h = << >>
<1>1. h \in Responses
  BY HandledTyped
<1> QED BY <1>1 DEF Items, Handled, AnswerId

\* A sequence followed by a single element.
LEMMA JoinOne ==
  ASSUME NEW T, NEW s \in Seq(T), NEW h \in Seq(T), Len(h) = 1
  PROVE  /\ Len(s \o h) = Len(s) + 1
         /\ \A i \in 1..Len(s) : (s \o h)[i] = s[i]
         /\ (s \o h)[Len(s) + 1] = h[1]
<1>1. Len(s) \in Nat
  OBVIOUS
<1> DEFINE u == s \o h
<1>2. /\ Len(u) = Len(s) + Len(h)
      /\ \A i \in 1..Len(s) + Len(h) : u[i] = IF i <= Len(s) THEN s[i] ELSE h[i - Len(s)]
  BY ConcatProperties, Zenon
<1> HIDE DEF u
<1>3. Len(u) = Len(s) + 1 /\ \A i \in 1..Len(s) : u[i] = s[i]
  BY <1>1, <1>2
<1>4. u[Len(s) + 1] = h[1]
  <2>1. /\ Len(s) + 1 \in 1..Len(s) + Len(h) /\ ~(Len(s) + 1 <= Len(s))
        /\ Len(s) + 1 - Len(s) = 1
    BY <1>1
  <2> QED BY <1>2, <2>1
<1> QED BY <1>3, <1>4 DEF u

\* Handling one more item keeps the responses in step with the items.
LEMMA AnswersNext ==
  ASSUME NEW body \in Seq(Items), NEW n \in Nat, n + 1 <= Len(body),
         NEW responses \in Responses, Answers(responses, body, n)
  PROVE  Answers(responses \o Handled(body[n + 1]), body, n + 1)
<1> DEFINE item == body[n + 1]
           h == Handled(item)
           next == responses \o h
<1>1. item \in Items
  OBVIOUS
<1> HIDE DEF item
<1>2. /\ h \in Responses
      /\ item.shape # "ok" \/ item.id # 0 => Len(h) = 1 /\ h[1][1] = AnswerId(item)
      /\ ~ (item.shape # "ok" \/ item.id # 0) => h = << >>
  BY <1>1, HandledOnce
<1> HIDE DEF h
<1>3. n + 1 \in Asked(body, n + 1) <=> (item.shape # "ok" \/ item.id # 0)
  BY DEF Asked, item
<1>4. CASE n + 1 \notin Asked(body, n + 1)
  <2>1. next = responses
    BY <1>2, <1>3, <1>4, ConcatEmptySeq DEF Responses
  <2>2. Asked(body, n + 1) = Asked(body, n)
    BY <1>4, AskedGrows
  <2> QED BY <2>1, <2>2 DEF Answers, h, item
<1>5. CASE n + 1 \in Asked(body, n + 1)
  <2>1. /\ IsFiniteSet(Asked(body, n)) /\ Cardinality(Asked(body, n)) \in Nat
        /\ \A i \in Asked(body, n) : Cardinality(Asked(body, i)) \in 1..Cardinality(Asked(body, n))
        /\ Cardinality(Asked(body, n + 1)) = Cardinality(Asked(body, n)) + 1
        /\ Asked(body, n + 1) = Asked(body, n) \cup {n + 1}
    BY <1>5, AskedGrows
  <2>2. Len(responses) = Cardinality(Asked(body, n))
    BY DEF Answers
  <2>3. /\ Len(next) = Len(responses) + 1
        /\ \A i \in 1..Len(responses) : next[i] = responses[i]
        /\ next[Len(responses) + 1] = h[1]
    <3>1. PICK T : Responses = Seq(T)
      BY DEF Responses
    <3>2. h \in Seq(T) /\ responses \in Seq(T) /\ Len(h) = 1
      BY <1>2, <1>3, <1>5, <3>1
    <3> QED BY <3>2, JoinOne
  <2> HIDE DEF next
  <2>4. Len(next) = Cardinality(Asked(body, n + 1))
    BY <2>1, <2>2, <2>3
  <2>5. ASSUME NEW i \in Asked(body, n + 1)
        PROVE  next[Cardinality(Asked(body, i))][1] = AnswerId(body[i])
    <3>1. CASE i = n + 1
      BY <1>2, <1>3, <1>5, <2>1, <2>2, <2>3, <3>1 DEF item
    <3>2. CASE i \in Asked(body, n)
      <4>1. Cardinality(Asked(body, i)) \in 1..Len(responses)
        BY <2>1, <2>2, <3>2
      <4>2. responses[Cardinality(Asked(body, i))][1] = AnswerId(body[i])
        BY <3>2 DEF Answers, AnswerId
      <4> QED BY <2>3, <4>1, <4>2
    <3> QED BY <2>1, <2>5, <3>1, <3>2
  <2>6. Answers(next, body, n + 1)
    BY <2>4, <2>5 DEF Answers, AnswerId
  <2> QED BY <2>6 DEF next, h, item
<1> QED BY <1>4, <1>5

\* What a thread has answered so far is in step with what it has handled; a body
\* that is no batch has its one error.
InStep(x) ==
  /\ x.pc \in {"batch", "balance"} =>
       Len(x.body) \in 1..MaxBatch /\ Answers(x.responses, x.body, x.done)
  /\ x.pc = "reply" => Len(x.body) \notin 1..MaxBatch /\ x.responses = <<<<0, "error">>>>

BatchInv == AnsweredInOrder /\ \A c \in Conns : InStep(conn[c])

\* Every step keeps the threads in step and the answers right.
LEMMA BatchStep ==
  ASSUME RpcTypeOK, BatchInv, [RpcNext]_rpcVars
  PROVE  BatchInv'
<1>1. ASSUME NEW c \in Conns, NEW x, conn' = [conn EXCEPT ![c] = x], InStep(x),
             answered' = answered
      PROVE  BatchInv'
  BY <1>1 DEF BatchInv, AnsweredInOrder, RpcTypeOK
<1>2. \A x \in {Starting, Closed, Waiting, [pc |-> "unread"]} : InStep(x)
  BY DEF InStep, Starting, Closed, Waiting
<1>3. ASSUME NEW c \in Conns,
             AcceptConn(c) \/ StartThread(c) \/ StartThreadFails(c) \/ EndThread(c)
               \/ RefuseRequest(c) \/ SendEvents(c)
      PROVE  BatchInv'
  <2>1. answered' = answered /\ \E x \in {Starting, Closed, Waiting, [pc |-> "unread"]} :
          conn' = [conn EXCEPT ![c] = x]
    BY <1>3 DEF AcceptConn, StartThread, StartThreadFails, EndThread, RefuseRequest, SendEvents
  <2> QED BY <1>1, <1>2, <2>1
<1>4. ASSUME NEW c \in Conns, NEW body \in Bodies, PostBody(c, body) PROVE BatchInv'
  <2> DEFINE x == IF Len(body) \in 1..MaxBatch
                  THEN [pc |-> "batch", body |-> body, done |-> 0, responses |-> << >>]
                  ELSE [pc |-> "reply", body |-> body, done |-> 0,
                        responses |-> <<<<0, "error">>>>]
  <2>1. conn' = [conn EXCEPT ![c] = x] /\ answered' = answered
    BY <1>4 DEF PostBody
  <2>2. Answers(<< >>, body, 0)
    <3>1. Asked(body, 0) = {}
      BY DEF Asked
    <3> QED BY <3>1, FS_EmptySet DEF Answers
  <2>3. InStep(x)
    BY <2>2 DEF InStep
  <2> HIDE DEF x
  <2> QED BY <1>1, <2>1, <2>3
<1>5. ASSUME NEW c \in Conns, HandleItem(c) \/ BalanceDone(c) PROVE BatchInv'
  <2>1. /\ conn[c].pc \in {"batch", "balance"} /\ answered' = answered
        /\ conn' = [conn EXCEPT ![c] = ItemDone(c)]
    BY <1>5 DEF HandleItem, InBatch, BalanceDone
  <2>2. /\ conn[c].done + 1 \in 1..Len(conn[c].body) /\ conn[c].done \in Nat
        /\ conn[c].body \in Seq(Items) /\ conn[c].responses \in Responses
    <3>1. CASE HandleItem(c)
      BY <3>1, ItemTyped DEF HandleItem, BatchStates
    <3>2. CASE BalanceDone(c)
      BY <3>2, BalanceTyped DEF BalanceDone, BalanceStates
    <3> QED BY <1>5, <3>1, <3>2
  <2>3. Len(conn[c].body) \in 1..MaxBatch /\ Answers(conn[c].responses, conn[c].body, conn[c].done)
    BY <2>1 DEF BatchInv, InStep
  <2>4. Answers(conn[c].responses \o Handled(conn[c].body[conn[c].done + 1]), conn[c].body,
                conn[c].done + 1)
    BY <2>2, <2>3, AnswersNext
  <2>5. InStep(ItemDone(c))
    BY <2>3, <2>4 DEF InStep, ItemDone, NextItem
  <2> QED BY <1>1, <2>1, <2>5
<1>6. ASSUME NEW c \in Conns, ReadContext(c) PROVE BatchInv'
  <2> DEFINE x == [pc |-> "balance", body |-> conn[c].body, done |-> conn[c].done,
                   responses |-> conn[c].responses, time |-> 0, height |-> stored,
                   ever |-> SpendableNow, always |-> SpendableNow, counted |-> Nothing]
  <2>1. conn[c].pc = "batch" /\ conn' = [conn EXCEPT ![c] = x] /\ answered' = answered
    BY <1>6 DEF ReadContext, InBatch, RpcTypeOK
  <2>2. InStep(x)
    BY <2>1 DEF BatchInv, InStep
  <2> HIDE DEF x
  <2> QED BY <1>1, <2>1, <2>2
<1>7. ASSUME NEW c \in Conns, ReadCoins(c) PROVE BatchInv'
  <2>1. conn[c] \in BalanceStates /\ conn[c].pc = "balance"
    BY <1>7, BalanceTyped DEF ReadCoins
  <2> DEFINE got == {k \in memory : Passed(k.time, conn[c].time)
                                      /\ Passed(k.height, conn[c].height)}
             x == [conn[c] EXCEPT !.counted = <<got>>]
  <2>2. conn' = [conn EXCEPT ![c] = x] /\ answered' = answered
    BY <1>7 DEF ReadCoins, RpcTypeOK
  <2>3. /\ x.pc = "balance" /\ x.body = conn[c].body /\ x.done = conn[c].done
        /\ x.responses = conn[c].responses
    <3> HIDE DEF got
    <3> QED BY <2>1 DEF BalanceStates
  <2> HIDE DEF x
  <2>4. InStep(x)
    BY <2>1, <2>3 DEF BatchInv, InStep
  <2> QED BY <1>1, <2>2, <2>4
<1>8. ASSUME NEW c \in Conns, GetEvents(c) PROVE BatchInv'
  <2> DEFINE n == IF Len(queue) < DrainLimit THEN Len(queue) ELSE DrainLimit
             x == [pc |-> "events", events |-> SubSeq(queue, 1, n)]
  <2>1. x.pc = "events" /\ conn' = [conn EXCEPT ![c] = x] /\ answered' = answered
    BY <1>8 DEF GetEvents
  <2> HIDE DEF x
  <2>2. InStep(x)
    BY <2>1 DEF InStep
  <2> QED BY <1>1, <2>1, <2>2
<1>9. ASSUME NEW c \in Conns, Reply(c) PROVE BatchInv'
  <2>1. /\ answered' = answered \cup {<<conn[c].body, conn[c].responses>>}
        /\ conn' = [conn EXCEPT ![c] = Waiting]
        /\ \/ conn[c].pc = "batch" /\ conn[c].done = Len(conn[c].body)
           \/ conn[c].pc = "reply"
    BY <1>9 DEF Reply
  <2>2. IF Len(conn[c].body) \in 1..MaxBatch
        THEN Answers(conn[c].responses, conn[c].body, Len(conn[c].body))
        ELSE conn[c].responses = <<<<0, "error">>>>
    BY <2>1 DEF BatchInv, InStep
  <2>3. AnsweredInOrder'
    BY <2>1, <2>2 DEF BatchInv, AnsweredInOrder
  <2>4. \A d \in Conns : InStep(conn'[d])
    BY <1>2, <2>1 DEF BatchInv, RpcTypeOK
  <2> QED BY <2>3, <2>4 DEF BatchInv
<1>10. ASSUME Watch, answered' = answered PROVE BatchInv'
  <2>1. ASSUME NEW d \in Conns PROVE InStep(conn'[d])
    <3>1. CASE conn[d].pc # "balance"
      BY <1>10, <3>1 DEF Watch, BatchInv
    <3>2. CASE conn[d].pc = "balance"
      <4>1. conn[d] \in BalanceStates
        BY <3>2, BalanceTyped
      <4>2. /\ conn'[d].pc = "balance" /\ conn'[d].body = conn[d].body
            /\ conn'[d].done = conn[d].done /\ conn'[d].responses = conn[d].responses
        BY <1>10, <3>2, <4>1 DEF Watch, BalanceStates
      <4> QED BY <3>2, <4>2 DEF BatchInv, InStep
    <3> QED BY <3>1, <3>2
  <2> QED BY <1>10, <2>1 DEF BatchInv, AnsweredInOrder
<1>11. ASSUME (\E coinsAfter \in SUBSET RpcCoins : StoreAnchor(coinsAfter)) \/ InstallAnchor
       PROVE  BatchInv'
  BY <1>10, <1>11 DEF StoreAnchor, InstallAnchor
<1>12. ASSUME PublishEvent \/ UNCHANGED rpcVars PROVE BatchInv'
  BY <1>12 DEF PublishEvent, rpcVars, BatchInv, AnsweredInOrder
<1> QED BY <1>3, <1>4, <1>5, <1>6, <1>7, <1>8, <1>9, <1>11, <1>12 DEF RpcNext

\* For every batch limit, body and number of connections: handle_message answers
\* each item of a batch that asks for it once, in order and under its id, and
\* nothing else, although the items of several connections interleave and one may
\* read the node in two steps.
THEOREM BatchesAreAnswered == RpcSpec => []AnsweredInOrder
<1>1. RpcInit => BatchInv
  BY DEF RpcInit, BatchInv, AnsweredInOrder, InStep, Closed
<1>2. RpcTypeOK /\ BatchInv /\ [RpcNext]_rpcVars => BatchInv'
  BY BatchStep
<1> QED BY <1>1, <1>2, RpcTypesHold, PTL DEF RpcSpec, BatchInv
-----------------------------------------------------------------------------
(***************************************************************************)
(* WebSocket frames.                                                       *)
(***************************************************************************)

\* A message: numbers of frames that were sent.
MessageOf(m, frames) == m \in Seq(1..Len(frames)) /\ m # << >>

WsTypeOK ==
  /\ open \in BOOLEAN /\ fragmented \in BOOLEAN
  /\ sent \in Seq(DataFrames)
  /\ handled \in Seq(Seq(Nat))
  /\ \A n \in 1..Len(handled) : MessageOf(handled[n], sent)
  /\ fragmented_payload \in Seq(Nat)
  /\ fragmented => MessageOf(fragmented_payload, sent)

WsInv == WsTypeOK /\ FramesBecomeMessages

\* A message stays what it is when another frame is sent.
LEMMA MessageStable ==
  ASSUME NEW frames \in Seq(DataFrames), NEW frame \in DataFrames, NEW m, MessageOf(m, frames),
         NEW more, more = Append(frames, frame)
  PROVE  /\ MessageOf(m, more)
         /\ Continues(m, frames) => Continues(m, more)
         /\ more[m[Len(m)]].fin = frames[m[Len(m)]].fin
         /\ size_of(m, more) = size_of(m, frames)
<1>1. /\ more \in Seq(DataFrames) /\ Len(more) = Len(frames) + 1
      /\ \A i \in 1..Len(frames) : more[i] = frames[i]
  OBVIOUS
<1>2. m \in Seq(1..Len(frames)) /\ m # << >> /\ Len(m) \in Nat /\ Len(m) >= 1
  BY DEF MessageOf
<1>3. \A i \in 1..Len(m) : m[i] \in 1..Len(frames) /\ more[m[i]] = frames[m[i]]
  BY <1>1, <1>2
<1>4. MessageOf(m, more)
  <2>1. \A i \in 1..Len(m) : m[i] \in 1..Len(more)
    BY <1>1, <1>3
  <2> QED BY <1>2, <2>1 DEF MessageOf
<1>5. Continues(m, frames) => Continues(m, more)
  BY <1>2, <1>3 DEF Continues
<1>6. more[m[Len(m)]].fin = frames[m[Len(m)]].fin
  BY <1>2, <1>3
<1>7. size_of(m, more) = size_of(m, frames)
  <2>1. [i \in DOMAIN m |-> more[m[i]].size] = [i \in DOMAIN m |-> frames[m[i]].size]
    BY <1>2, <1>3
  <2> QED BY <2>1, Zenon DEF size_of
<1> QED BY <1>4, <1>5, <1>6, <1>7

\* What is true of the messages handled before a frame is true after it.
HandledSound(messages, frames) ==
  /\ messages \in Seq(Seq(Nat))
  /\ \A n \in 1..Len(messages) :
       /\ MessageOf(messages[n], frames) /\ Continues(messages[n], frames)
       /\ frames[messages[n][Len(messages[n])]].fin
       /\ size_of(messages[n], frames) <= MAX_BODY_BYTES

\* Frames are only appended, so handled messages stay sound.
LEMMA HandledStable ==
  ASSUME NEW frames \in Seq(DataFrames), NEW frame \in DataFrames, NEW messages,
         HandledSound(messages, frames), NEW more, more = Append(frames, frame)
  PROVE  HandledSound(messages, more)
<1> SUFFICES ASSUME NEW n \in 1..Len(messages)
             PROVE  /\ MessageOf(messages[n], more) /\ Continues(messages[n], more)
                    /\ more[messages[n][Len(messages[n])]].fin
                    /\ size_of(messages[n], more) <= MAX_BODY_BYTES
  BY DEF HandledSound
<1>1. /\ MessageOf(messages[n], frames) /\ Continues(messages[n], frames)
      /\ frames[messages[n][Len(messages[n])]].fin
      /\ size_of(messages[n], frames) <= MAX_BODY_BYTES
  BY DEF HandledSound
<1> QED BY <1>1, MessageStable

\* The messages, the incomplete one among them, account for the frames.
Accounted(messages, pending, payload, frames) ==
  /\ \A n \in 1..Len(messages) : messages[n][1] = LastFrame(messages, n - 1) + 1
  /\ IF pending THEN /\ payload[1] = LastFrame(messages, Len(messages)) + 1
                     /\ payload[Len(payload)] = Len(frames)
     ELSE LastFrame(messages, Len(messages)) = Len(frames)

\* The invariant of a connection, of the values of its variables.
WsSound(running, pending, payload, frames, messages) ==
  /\ running \in BOOLEAN /\ pending \in BOOLEAN
  /\ frames \in Seq(DataFrames)
  /\ HandledSound(messages, frames)
  /\ payload \in Seq(Nat)
  /\ pending = (payload # << >>)
  /\ pending => /\ MessageOf(payload, frames) /\ Continues(payload, frames)
                /\ ~ frames[payload[Len(payload)]].fin
                /\ size_of(payload, frames) <= MAX_BODY_BYTES
  /\ running => Accounted(messages, pending, payload, frames)

\* The invariant in terms of the values of the variables, before and after a step.
LEMMA WsInvParts ==
  /\ WsInv => WsSound(open, fragmented, fragmented_payload, sent, handled)
  /\ WsSound(open, fragmented, fragmented_payload, sent, handled)' => WsInv'
<1>1. WsInv => WsSound(open, fragmented, fragmented_payload, sent, handled)
  <2>1. handled \in Seq(Seq(Nat)) => DOMAIN handled = 1..Len(handled)
    OBVIOUS
  <2> QED BY <2>1, Zenon
          DEF WsInv, WsTypeOK, FramesBecomeMessages, HandledAsFramed, FramesAccountedFor,
              WithinBodyLimit, HandledSound, Accounted, WsSound
<1>2. WsSound(open, fragmented, fragmented_payload, sent, handled)' => WsInv'
  <2>1. handled' \in Seq(Seq(Nat)) => DOMAIN handled' = 1..Len(handled')
    OBVIOUS
  <2> QED BY <2>1, Zenon
          DEF WsInv, WsTypeOK, FramesBecomeMessages, HandledAsFramed, FramesAccountedFor,
              WithinBodyLimit, HandledSound, Accounted, WsSound
<1> QED BY <1>1, <1>2

\* One more message that begins where the others end.
LEMMA AppendMessage ==
  ASSUME NEW messages \in Seq(Seq(Nat)), NEW m \in Seq(Nat), m # << >>, NEW all,
         all = Append(messages, m),
         \A n \in 1..Len(messages) : messages[n][1] = LastFrame(messages, n - 1) + 1,
         m[1] = LastFrame(messages, Len(messages)) + 1
  PROVE  /\ \A n \in 1..Len(all) : all[n][1] = LastFrame(all, n - 1) + 1
         /\ LastFrame(all, Len(all)) = m[Len(m)]
<1>1. /\ Len(messages) \in Nat /\ Len(all) = Len(messages) + 1
      /\ \A n \in 1..Len(messages) : all[n] = messages[n]
      /\ all[Len(messages) + 1] = m
  OBVIOUS
<1>2. \A n \in 0..Len(messages) : LastFrame(all, n) = LastFrame(messages, n)
  BY <1>1 DEF LastFrame
<1>3. ASSUME NEW n \in 1..Len(all)
      PROVE  all[n][1] = LastFrame(all, n - 1) + 1
  <2>1. n - 1 \in 0..Len(messages) /\ (n \in 1..Len(messages) \/ n = Len(messages) + 1)
    BY <1>1
  <2>2. CASE n \in 1..Len(messages)
    BY <1>1, <1>2, <2>1, <2>2
  <2>3. CASE n = Len(messages) + 1
    <3>1. n - 1 = Len(messages)
      BY <1>1, <2>3
    <3> QED BY <1>1, <1>2, <2>1, <2>3, <3>1
  <2> QED BY <2>1, <2>2, <2>3
<1>4. LastFrame(all, Len(all)) = m[Len(m)]
  BY <1>1 DEF LastFrame
<1> QED BY <1>3, <1>4

\* The size of a message is a number.
LEMMA SizeTyped ==
  ASSUME NEW frames \in Seq(DataFrames), NEW m, MessageOf(m, frames)
  PROVE  size_of(m, frames) \in Nat
<1> DEFINE f == [i \in DOMAIN m |-> frames[m[i]].size]
<1>1. DOMAIN m = 1..Len(m) /\ Len(m) \in Nat /\ \A i \in DOMAIN m : m[i] \in 1..Len(frames)
  BY DEF MessageOf
<1>2. \A i \in DOMAIN m : f[i] \in Nat
  <2> SUFFICES ASSUME NEW i \in DOMAIN m PROVE frames[m[i]].size \in Nat
    OBVIOUS
  <2>1. frames[m[i]] \in DataFrames
    BY <1>1
  <2> QED BY <2>1, WebSocketAssumption DEF DataFrames
<1>3. IsFiniteSet(DOMAIN m) /\ DOMAIN f = DOMAIN m
  BY <1>1, FS_Interval
<1> HIDE DEF f
<1>4. SumFunctionOnSet(f, DOMAIN m) \in Nat
  BY <1>2, <1>3, SumNat
<1>5. size_of(m, frames) = SumFunctionOnSet(f, DOMAIN f)
  BY Zenon DEF size_of, SumFunction, f
<1> QED BY <1>3, <1>4, <1>5

\* A frame that closes the connection leaves its messages as they are.
LEMMA CloseSound ==
  ASSUME NEW g, NEW p, NEW s, NEW h, WsSound(TRUE, g, p, s, h), NEW frame \in DataFrames,
         NEW more, more = Append(s, frame)
  PROVE  WsSound(FALSE, g, p, more, h)
<1>1. s \in Seq(DataFrames) /\ HandledSound(h, s)
  BY DEF WsSound
<1>2. HandledSound(h, more) /\ more \in Seq(DataFrames)
  <2>1. more \in Seq(DataFrames)
    BY <1>1
  <2>2. HandledSound(h, more)
    BY <1>1, HandledStable, Zenon
  <2> QED BY <2>1, <2>2
<1>3. ASSUME g
      PROVE  /\ MessageOf(p, more) /\ Continues(p, more) /\ ~ more[p[Len(p)]].fin
             /\ size_of(p, more) <= MAX_BODY_BYTES
  <2>1. /\ MessageOf(p, s) /\ Continues(p, s) /\ ~ s[p[Len(p)]].fin
        /\ size_of(p, s) <= MAX_BODY_BYTES
    BY <1>3, Zenon DEF WsSound
  <2>2. /\ MessageOf(p, more)
        /\ Continues(p, s) => Continues(p, more)
        /\ more[p[Len(p)]].fin = s[p[Len(p)]].fin
        /\ size_of(p, more) = size_of(p, s)
    BY <1>1, <2>1, MessageStable, Zenon
  <2> QED BY <2>1, <2>2, Zenon
<1> QED BY <1>2, <1>3, Zenon DEF WsSound

\* A complete message is handled.
LEMMA HandleSound ==
  ASSUME NEW g, NEW p, NEW s, NEW h, WsSound(TRUE, g, p, s, h), NEW frame \in DataFrames,
         NEW more, more = Append(s, frame), NEW m, MessageOf(m, more), Continues(m, more),
         m[Len(m)] = Len(more), m[1] = LastFrame(h, Len(h)) + 1,
         frame.fin, size_of(m, more) <= MAX_BODY_BYTES
  PROVE  WsSound(TRUE, FALSE, << >>, more, Append(h, m))
<1>1. s \in Seq(DataFrames) /\ HandledSound(h, s)
      /\ \A n \in 1..Len(h) : h[n][1] = LastFrame(h, n - 1) + 1
  BY DEF WsSound, Accounted
<1>2. /\ HandledSound(h, more) /\ more \in Seq(DataFrames) /\ more[Len(more)] = frame
      /\ Len(more) \in Nat
  <2>1. more \in Seq(DataFrames) /\ more[Len(more)] = frame /\ Len(more) \in Nat
    BY <1>1
  <2>2. HandledSound(h, more)
    BY <1>1, HandledStable, Zenon
  <2> QED BY <2>1, <2>2
<1>3. m \in Seq(Nat) /\ m # << >> /\ h \in Seq(Seq(Nat))
  BY <1>1, <1>2 DEF MessageOf, HandledSound
<1> DEFINE all == Append(h, m)
<1>4. /\ all \in Seq(Seq(Nat)) /\ Len(h) \in Nat /\ Len(all) = Len(h) + 1
      /\ \A n \in 1..Len(h) : all[n] = h[n]
      /\ all[Len(h) + 1] = m
  BY <1>3
<1>5. /\ \A n \in 1..Len(all) : all[n][1] = LastFrame(all, n - 1) + 1
      /\ LastFrame(all, Len(all)) = m[Len(m)]
  BY <1>1, <1>3, AppendMessage
<1> HIDE DEF all
<1>6. HandledSound(all, more)
  <2> SUFFICES ASSUME NEW n \in 1..Len(all)
               PROVE  /\ MessageOf(all[n], more) /\ Continues(all[n], more)
                      /\ more[all[n][Len(all[n])]].fin
                      /\ size_of(all[n], more) <= MAX_BODY_BYTES
    BY <1>4 DEF HandledSound
  <2>1. CASE n \in 1..Len(h)
    BY <1>2, <1>4, <2>1 DEF HandledSound
  <2>2. CASE n = Len(h) + 1
    <3>1. all[n] = m /\ more[m[Len(m)]].fin
      BY <1>2, <1>4, <2>2
    <3> QED BY <3>1
  <2>3. n \in 1..Len(h) \/ n = Len(h) + 1
    BY <1>4
  <2> QED BY <2>1, <2>2, <2>3
<1>7. Accounted(all, FALSE, << >>, more)
  BY <1>5 DEF Accounted
<1>8. WsSound(TRUE, FALSE, << >>, more, all)
  <2>1. << >> \in Seq(Nat)
    OBVIOUS
  <2> QED BY <1>2, <1>6, <1>7, <2>1, Zenon DEF WsSound
<1> QED BY <1>8 DEF all

\* An incomplete message is kept.
LEMMA KeepSound ==
  ASSUME NEW g, NEW p, NEW s, NEW h, WsSound(TRUE, g, p, s, h), NEW frame \in DataFrames,
         NEW more, more = Append(s, frame), NEW m, MessageOf(m, more), Continues(m, more),
         m[Len(m)] = Len(more), m[1] = LastFrame(h, Len(h)) + 1,
         ~ frame.fin, size_of(m, more) <= MAX_BODY_BYTES
  PROVE  WsSound(TRUE, TRUE, m, more, h)
<1>1. s \in Seq(DataFrames) /\ HandledSound(h, s)
      /\ \A n \in 1..Len(h) : h[n][1] = LastFrame(h, n - 1) + 1
  BY DEF WsSound, Accounted
<1>2. HandledSound(h, more) /\ more \in Seq(DataFrames) /\ more[Len(more)] = frame
  <2>1. more \in Seq(DataFrames) /\ more[Len(more)] = frame
    BY <1>1
  <2>2. HandledSound(h, more)
    BY <1>1, HandledStable, Zenon
  <2> QED BY <2>1, <2>2
<1>3. m \in Seq(Nat) /\ m # << >>
  BY <1>2 DEF MessageOf
<1>4. Accounted(h, TRUE, m, more)
  BY <1>1 DEF Accounted
<1>5. ~ more[m[Len(m)]].fin
  BY <1>2
<1> QED BY <1>2, <1>3, <1>4, <1>5 DEF WsSound

\* Collecting a message that ends in the frame just read.
LEMMA CollectStep ==
  ASSUME WsInv, open, NEW frame \in DataFrames, sent' = Append(sent, frame),
         NEW m, MessageOf(m, sent'), Continues(m, sent'), m[Len(m)] = Len(sent'),
         m[1] = LastFrame(handled, Len(handled)) + 1,
         collect(m, frame.fin)
  PROVE  WsInv'
<1>1. WsSound(TRUE, fragmented, fragmented_payload, sent, handled) /\ open = TRUE
  <2>1. open = TRUE
    BY Zenon DEF WsInv, WsTypeOK
  <2> QED BY <2>1, WsInvParts
<1>2. sent \in Seq(DataFrames) /\ sent' \in Seq(DataFrames)
  BY <1>1 DEF WsSound
<1>3. size_of(m, sent') \in Nat
  BY <1>2, SizeTyped
<1>4. CASE size_of(m, sent') > MAX_BODY_BYTES
  <2>1. open' = FALSE /\ UNCHANGED <<fragmented, fragmented_payload, handled>>
    BY <1>4, Zenon DEF collect, close_with_error
  <2>2. WsSound(FALSE, fragmented, fragmented_payload, sent', handled)
    BY <1>1, CloseSound, Zenon
  <2> QED BY <2>1, <2>2, WsInvParts
<1>5. CASE ~ (size_of(m, sent') > MAX_BODY_BYTES) /\ frame.fin
  <2>1. /\ handled' = Append(handled, m) /\ fragmented' = FALSE /\ fragmented_payload' = << >>
        /\ open' = open
    BY <1>5, Zenon DEF collect, handle_message
  <2>2. size_of(m, sent') <= MAX_BODY_BYTES
    BY <1>3, <1>5, WebSocketAssumption
  <2>3. WsSound(TRUE, FALSE, << >>, sent', Append(handled, m))
    BY <1>1, <1>5, <2>2, HandleSound, Zenon
  <2> QED BY <1>1, <2>1, <2>3, WsInvParts
<1>6. CASE ~ (size_of(m, sent') > MAX_BODY_BYTES) /\ ~ frame.fin
  <2>1. fragmented' = TRUE /\ fragmented_payload' = m /\ handled' = handled /\ open' = open
    BY <1>6, Zenon DEF collect
  <2>2. size_of(m, sent') <= MAX_BODY_BYTES
    BY <1>3, <1>6, WebSocketAssumption
  <2>3. WsSound(TRUE, TRUE, m, sent', handled)
    BY <1>1, <1>6, <2>2, KeepSound, Zenon
  <2> QED BY <1>1, <2>1, <2>3, WsInvParts
<1> QED BY <1>4, <1>5, <1>6

\* Every frame keeps the invariant.
LEMMA WsStep ==
  ASSUME WsInv, [WsNext]_wsVars
  PROVE  WsInv'
<1>1. WsSound(open, fragmented, fragmented_payload, sent, handled)
  BY WsInvParts
<1>2. ASSUME NEW frame \in DataFrames, data_frame(frame) PROVE WsInv'
  <2>1. /\ open /\ open = TRUE /\ sent' = Append(sent, frame)
    BY <1>2, Zenon DEF data_frame, WsInv, WsTypeOK
  <2>2. WsSound(TRUE, fragmented, fragmented_payload, sent, handled)
    BY <1>1, <2>1
  <2>3. sent \in Seq(DataFrames) /\ fragmented_payload \in Seq(Nat) /\ Len(sent) \in Nat
    BY <2>2 DEF WsSound
  <2>4. /\ Len(sent') = Len(sent) + 1 /\ sent'[Len(sent) + 1] = frame
        /\ \A i \in 1..Len(sent) : sent'[i] = sent[i]
    BY <2>1, <2>3
  <2>5. ASSUME close_with_error PROVE WsInv'
    <3>1. open' = FALSE /\ UNCHANGED <<fragmented, fragmented_payload, handled>>
      BY <2>5, Zenon DEF close_with_error
    <3>2. WsSound(FALSE, fragmented, fragmented_payload, sent', handled)
      BY <2>1, <2>2, CloseSound, Zenon
    <3> QED BY <3>1, <3>2, WsInvParts
  <2>6. CASE frame.first /\ ~ fragmented
    <3> DEFINE n == Len(sent')
               m == <<n>>
    <3>1. collect(m, frame.fin)
      BY <1>2, <2>6 DEF data_frame, first_frame
    <3>2. n \in 1..Len(sent') /\ sent'[n] = frame
      BY <2>3, <2>4
    <3>3. /\ m \in Seq(1..Len(sent')) /\ m # << >> /\ Len(m) = 1 /\ m[1] = n
      BY <3>2
    <3>4. MessageOf(m, sent') /\ Continues(m, sent') /\ m[Len(m)] = Len(sent')
      BY <2>6, <3>2, <3>3 DEF MessageOf, Continues
    <3>5. m[1] = LastFrame(handled, Len(handled)) + 1
      <4>1. LastFrame(handled, Len(handled)) = Len(sent)
        BY <2>2, <2>6 DEF WsSound, Accounted
      <4> QED BY <2>4, <3>3, <4>1
    <3> HIDE DEF m
    <3> QED BY <2>1, <3>1, <3>4, <3>5, CollectStep
  <2>7. CASE ~ frame.first /\ fragmented
    <3> DEFINE p == fragmented_payload
               n == Len(sent')
               m == Append(p, n)
    <3>1. collect(m, frame.fin)
      BY <1>2, <2>7 DEF data_frame, continuation_frame
    <3>2. /\ MessageOf(p, sent) /\ Continues(p, sent) /\ ~ sent[p[Len(p)]].fin
          /\ p[1] = LastFrame(handled, Len(handled)) + 1 /\ p[Len(p)] = Len(sent)
      BY <2>2, <2>7 DEF WsSound, Accounted
    <3>3. p \in Seq(1..Len(sent)) /\ p # << >> /\ Len(p) \in Nat \ {0}
      BY <3>2 DEF MessageOf
    <3>4. /\ Len(m) = Len(p) + 1 /\ m[Len(p) + 1] = n
          /\ \A i \in 1..Len(p) : m[i] = p[i] /\ p[i] \in 1..Len(sent)
      BY <3>3
    <3>5. n = Len(sent) + 1 /\ sent'[n] = frame
      BY <2>4
    <3>6. m \in Seq(1..Len(sent')) /\ m # << >>
      <4> DEFINE Sent == 1..Len(sent')
      <4>1. n \in Sent /\ 1..Len(sent) \subseteq Sent
        BY <2>3, <2>4, <3>5
      <4> HIDE DEF Sent
      <4>2. p \in Seq(Sent)
        BY <3>3, <4>1, SeqMonotonic
      <4>3. Append(p, n) \in Seq(Sent) /\ Append(p, n) # << >>
        BY <4>1, <4>2, AppendProperties
      <4> QED BY <4>3 DEF Sent
    <3> HIDE DEF m, p, n
    <3>7. Continues(m, sent')
      <4>1. \A i \in 1..Len(p) : m[i] = p[i] /\ sent'[m[i]] = sent[p[i]]
        BY <2>4, <3>4
      <4>2. sent'[m[1]].first
        BY <3>2, <3>3, <4>1 DEF Continues
      <4>3. ASSUME NEW i \in 2..Len(m)
            PROVE  m[i] = m[i - 1] + 1 /\ ~ sent'[m[i]].first
        <5>1. CASE i \in 2..Len(p)
          <6>1. i - 1 \in 1..Len(p) /\ i \in 1..Len(p)
            BY <3>3, <5>1
          <6> QED BY <3>2, <4>1, <5>1, <6>1 DEF Continues
        <5>2. CASE i = Len(p) + 1
          <6>1. i - 1 = Len(p) /\ Len(p) \in 1..Len(p)
            BY <3>3, <5>2
          <6> QED BY <2>7, <3>2, <3>4, <3>5, <4>1, <5>2, <6>1
        <5> QED BY <3>3, <3>4, <5>1, <5>2
      <4>4. ASSUME NEW i \in 1..Len(m) - 1 PROVE ~ sent'[m[i]].fin
        <5>1. i \in 1..Len(p)
          BY <3>3, <3>4
        <5>2. CASE i = Len(p)
          BY <3>2, <4>1, <5>1, <5>2
        <5>3. CASE i # Len(p)
          <6>1. i \in 1..Len(p) - 1
            BY <3>3, <5>1, <5>3
          <6> QED BY <3>2, <4>1, <5>1, <6>1 DEF Continues
        <5> QED BY <5>2, <5>3
      <4> QED BY <3>6, <4>2, <4>3, <4>4 DEF Continues
    <3>8. m[Len(m)] = Len(sent') /\ m[1] = LastFrame(handled, Len(handled)) + 1
      <4>1. 1 \in 1..Len(p)
        BY <3>3
      <4> QED BY <2>4, <3>2, <3>4, <3>5, <4>1
    <3> QED BY <2>1, <3>1, <3>6, <3>7, <3>8, CollectStep DEF MessageOf
  <2>8. CASE frame.first /\ fragmented
    <3>1. close_with_error
      BY <1>2, <2>8, Zenon DEF data_frame, first_frame
    <3> QED BY <2>5, <3>1
  <2>9. CASE ~ frame.first /\ ~ fragmented
    <3>1. close_with_error
      BY <1>2, <2>9, Zenon DEF data_frame, continuation_frame
    <3> QED BY <2>5, <3>1
  <2> QED BY <2>6, <2>7, <2>8, <2>9
<1>3. CASE connection_ends
  <2>1. open' = FALSE /\ UNCHANGED <<fragmented, fragmented_payload, sent, handled>>
    BY <1>3, Zenon DEF connection_ends
  <2>2. WsSound(FALSE, fragmented, fragmented_payload, sent, handled)
    BY <1>1, Zenon DEF WsSound
  <2> QED BY <2>1, <2>2, WsInvParts
<1>4. CASE UNCHANGED wsVars
  BY <1>1, <1>4, WsInvParts DEF wsVars
<1> QED BY <1>2, <1>3, <1>4 DEF WsNext, control_frame

\* For every limit and every sequence of frames, control frames between them,
\* protocol errors and lost connections: each message handle_json gets is one the
\* client framed, whole and in order, no frame of an open connection is dropped or
\* used twice, and nothing above max_body_bytes is handled or kept.
THEOREM MessagesAreFramed == WsSpec => []FramesBecomeMessages
<1>1. WsInit => WsInv
  <2> SUFFICES ASSUME WsInit PROVE WsInv
    OBVIOUS
  <2>1. /\ open = TRUE /\ fragmented = FALSE /\ fragmented_payload = << >> /\ sent = << >>
        /\ handled = << >>
    BY DEF WsInit
  <2>2. /\ Len(handled) = 0 /\ Len(sent) = 0 /\ DOMAIN handled = {} /\ 1..Len(handled) = {}
        /\ sent \in Seq(DataFrames) /\ handled \in Seq(Seq(Nat))
        /\ fragmented_payload \in Seq(Nat)
    BY <2>1
  <2>3. WsTypeOK
    BY <2>1, <2>2, Zenon DEF WsTypeOK
  <2>4. HandledAsFramed /\ WithinBodyLimit
    BY <2>1, <2>2, Zenon DEF HandledAsFramed, WithinBodyLimit
  <2>5. LastFrame(handled, Len(handled)) = Len(sent)
    BY <2>2 DEF LastFrame
  <2>6. FramesAccountedFor
    BY <2>1, <2>2, <2>5, Zenon DEF FramesAccountedFor
  <2> QED BY <2>3, <2>4, <2>6 DEF WsInv, FramesBecomeMessages
<1>2. WsInv /\ [WsNext]_wsVars => WsInv'
  BY WsStep
<1> QED BY <1>1, <1>2, PTL DEF WsSpec, WsInv
=============================================================================
