--------------------------- MODULE SubscriptionHub ---------------------------
(***************************************************************************)
(* class SubscriptionHub of rpc/server.py: topic subscriptions of RPC      *)
(* clients, each with a bounded queue of pending events and a deadline.    *)
(* The request threads of the HTTP server call it; every method holds      *)
(* _lock throughout and so is one step.  Deadlines are compared only       *)
(* inside a call: a lapsed subscription stays until the next one.          *)
(*                                                                         *)
(* An event is its number among those published on its topic.              *)
(***************************************************************************)
EXTENDS Integers, Sequences, FiniteSets

CONSTANTS Ids,                         \* what token_hex can draw
          Topics,
          MAX_SUBSCRIPTIONS, MAX_EVENTS_PER_SUBSCRIPTION, SUBSCRIPTION_TTL,
          MAX_EVENT_DRAIN_LIMIT,
          MaxClock, MaxPublished       \* bounds of the model

ASSUME HubAssumption ==
  /\ MAX_SUBSCRIPTIONS \in Nat \ {0}
  /\ MAX_EVENTS_PER_SUBSCRIPTION \in Nat \ {0}
  /\ SUBSCRIPTION_TTL \in Nat \ {0}
  /\ MAX_EVENT_DRAIN_LIMIT \in Nat \ {0}
  /\ MaxClock \in Nat /\ MaxPublished \in Nat

VARIABLES subscriptions,               \* id -> topic
          events,                      \* id -> pending events, oldest first
          expires_at,                  \* id -> deadline
          clock,
          published,                   \* topic -> how many events so far
          seen                         \* id -> last event drained, or published before it

hubVars == <<subscriptions, events, expires_at, clock, published, seen>>

HubInit == /\ subscriptions = << >> /\ events = << >> /\ expires_at = << >>
           /\ clock = 0
           /\ published = [topic \in Topics |-> 0]
           /\ seen = << >>
-----------------------------------------------------------------------------
\* Faulty: a deadline counts a tick before.
lapsed_early == {id \in DOMAIN expires_at : expires_at[id] <= clock + 1}

lapsed == {id \in DOMAIN expires_at : expires_at[id] <= clock}

\* _drop_locked of a set of ids, as each dict sees it.
drop_locked(dict, ids) == [id \in DOMAIN dict \ ids |-> dict[id]]

\* What _expire_locked leaves of a dict.
expire_locked(dict) == drop_locked(dict, lapsed)

put(dict, id, value) == [x \in DOMAIN dict \cup {id} |-> IF x = id THEN value ELSE dict[x]]

\* Faulty: a full queue refuses new events.
append_refusing(queue, event) ==
  IF Len(queue) < MAX_EVENTS_PER_SUBSCRIPTION THEN Append(queue, event) ELSE queue

\* deque(maxlen=n).append: a full queue loses its oldest event.
deque_append(queue, event) ==
  IF Len(queue) < MAX_EVENTS_PER_SUBSCRIPTION
    THEN Append(queue, event) ELSE Append(Tail(queue), event)

\* A call that raises JsonRpcError has still dropped what lapsed.
raise_after_expiry ==
  /\ subscriptions' = expire_locked(subscriptions)
  /\ events' = expire_locked(events)
  /\ expires_at' = expire_locked(expires_at)
  /\ seen' = expire_locked(seen)
  /\ UNCHANGED <<clock, published>>

live == DOMAIN subscriptions \ lapsed

subscribe(id, topic) ==
  /\ id \notin DOMAIN subscriptions
  /\ Cardinality(live) < MAX_SUBSCRIPTIONS
  /\ subscriptions' = put(expire_locked(subscriptions), id, topic)
  /\ events' = put(expire_locked(events), id, << >>)
  /\ expires_at' = put(expire_locked(expires_at), id, clock + SUBSCRIPTION_TTL)
  /\ seen' = put(expire_locked(seen), id, published[topic])
  /\ UNCHANGED <<clock, published>>

subscription_limit_reached ==
  /\ Cardinality(live) >= MAX_SUBSCRIPTIONS
  /\ raise_after_expiry

publish(topic) ==
  /\ published[topic] < MaxPublished
  /\ published' = [published EXCEPT ![topic] = @ + 1]
  /\ subscriptions' = expire_locked(subscriptions)
  /\ events' = [id \in DOMAIN events \ lapsed |->
                  IF subscriptions[id] = topic
                    THEN deque_append(events[id], published[topic] + 1) ELSE events[id]]
  /\ expires_at' = expire_locked(expires_at)
  /\ seen' = expire_locked(seen)
  /\ UNCHANGED clock

drain(id, limit) ==
  LET taken == IF limit <= Len(events[id]) THEN limit ELSE Len(events[id])
      rest  == SubSeq(events[id], taken + 1, Len(events[id]))
  IN  /\ id \in live
      /\ subscriptions' = expire_locked(subscriptions)
      /\ events' = put(expire_locked(events), id, rest)
      /\ expires_at' = put(expire_locked(expires_at), id, clock + SUBSCRIPTION_TTL)
      /\ seen' = put(expire_locked(seen), id, IF taken = 0 THEN seen[id] ELSE events[id][taken])
      /\ UNCHANGED <<clock, published>>

unsubscribe(id) ==
  /\ id \in live
  /\ subscriptions' = drop_locked(subscriptions, lapsed \cup {id})
  /\ events' = drop_locked(events, lapsed \cup {id})
  /\ expires_at' = drop_locked(expires_at, lapsed \cup {id})
  /\ seen' = drop_locked(seen, lapsed \cup {id})
  /\ UNCHANGED <<clock, published>>

\* drain and unsubscribe of an id that is not, or no longer, subscribed.
unknown_subscription(id) ==
  /\ id \notin live
  /\ raise_after_expiry

\* Time passes.
tick == /\ clock < MaxClock
        /\ clock' = clock + 1
        /\ UNCHANGED <<subscriptions, events, expires_at, published, seen>>

HubNext == \/ \E id \in Ids, topic \in Topics : subscribe(id, topic)
           \/ subscription_limit_reached
           \/ \E topic \in Topics : publish(topic)
           \/ \E id \in Ids, limit \in 1..MAX_EVENT_DRAIN_LIMIT : drain(id, limit)
           \/ \E id \in Ids : unsubscribe(id)
           \/ \E id \in Ids : unknown_subscription(id)
           \/ tick

HubSpec == HubInit /\ [][HubNext]_hubVars
-----------------------------------------------------------------------------
\* The hub holds subscriptions to topics, queues of numbered events that never
\* exceed max_events_per_subscription, and deadlines.
HubTypeOK ==
  /\ DOMAIN subscriptions \subseteq Ids
  /\ \A id \in DOMAIN subscriptions : subscriptions[id] \in Topics
  /\ \A id \in DOMAIN events : /\ events[id] \in Seq(Nat)
                               /\ Len(events[id]) <= MAX_EVENTS_PER_SUBSCRIPTION
  /\ \A id \in DOMAIN expires_at : expires_at[id] \in Nat
  /\ clock \in Nat
  /\ published \in [Topics -> Nat]

\* The three dicts always have the same keys, so publish and drain, which index
\* _events by the keys of _subscriptions, never raise KeyError, and no queue
\* outlives its subscription.
KeysAgree ==
  /\ DOMAIN events = DOMAIN subscriptions
  /\ DOMAIN expires_at = DOMAIN subscriptions
  /\ DOMAIN seen = DOMAIN subscriptions

\* The newest events after the first `from` of `last`, as many as a queue holds.
newest(from, last) ==
  LET size == IF last - from <= MAX_EVENTS_PER_SUBSCRIPTION
                THEN last - from ELSE MAX_EVENTS_PER_SUBSCRIPTION
  IN  [i \in 1..size |-> last - size + i]

\* What is pending for a subscription is the newest events of its topic that
\* were published since it began and not drained yet, in order and without a
\* gap, all of them unless the queue is full: an event is lost to a live client
\* only by overflow, never delivered twice, and never from before subscribing.
PendingIsNewest ==
  \A id \in DOMAIN subscriptions :
    /\ seen[id] \in 0..published[subscriptions[id]]
    /\ events[id] = newest(seen[id], published[subscriptions[id]])

\* The number of subscriptions stays within max_subscriptions.
WithinLimit == Cardinality(DOMAIN subscriptions) <= MAX_SUBSCRIPTIONS

\* A subscription disappears only when its client unsubscribes or once its
\* deadline has come; calls for other ids, refused calls and publishes, which do
\* not renew it, never take it away early.
LiveSurvives ==
  [][\A id \in DOMAIN subscriptions \ DOMAIN subscriptions' :
       clock >= expires_at[id] \/ unsubscribe(id)]_hubVars

\* Once a subscription lapsed it is never revived: a call that changes the hub
\* at or after its deadline leaves it dropped, so a late poll gets the error and
\* not events with a gap it could not see.
LapsedNeverRevived ==
  [][\A id \in DOMAIN subscriptions :
       expires_at[id] <= clock /\ id \in DOMAIN subscriptions' =>
         expires_at'[id] = expires_at[id] /\ events'[id] = events[id]]_hubVars

\* The deadline alone decides about a subscription that its client keeps:
\* no call takes it away before, and none brings it back after.
DeadlinesHold == LiveSurvives /\ LapsedNeverRevived
=============================================================================
