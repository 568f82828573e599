SPECIFICATION Spec
CONSTANTS
  i1 = i1
  i2 = i2
  i3 = i3
  fruit = fruit
  anchor = anchor
  c1 = c1
  c2 = c2
  c3 = c3
  Ids <- MCIds
  Topics <- MCTopics
  MAX_SUBSCRIPTIONS = 2
  MAX_EVENTS_PER_SUBSCRIPTION = 2
  SUBSCRIPTION_TTL = 2
  MAX_EVENT_DRAIN_LIMIT = 2
  MaxClock = 4
  MaxPublished = 4
  MAX_BODY_BYTES = 3
  Sizes <- MCSizes
  MaxFrames = 5
  Conns <- MCConns
  MaxConnections = 2
  MaxBatch = 3
  Bodies <- MCBodies
  MaxRequests = 2
  DrainLimit = 1
  MaxIssued = 2
  RpcCoins <- MCTimeLocked
  MaxAnchors = 1
  Focuses = {"http"}
SYMMETRY Symmetry
INVARIANT BalanceIsSpendable
CHECK_DEADLOCK FALSE
