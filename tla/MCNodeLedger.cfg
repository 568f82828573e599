SPECIFICATION MCSpec
CONSTANTS
  WORK_CAP = 1000
  U64_MAX = 1000
  ANCHOR_INITIAL_TARGET = 16
  ANCHOR_MIN_TARGET = 1
  ANCHOR_MAX_TARGET = 64
  FRUIT_TARGET = 64
  ANCHOR_INTERVAL_MS = 2
  WTEMA_WINDOW_ANCHORS = 2
  WTEMA_ALPHA_NUM = 1
  WTEMA_ALPHA_DEN = 2
  WTEMA_MAX_ADJUSTMENT_FACTOR = 2
  FIXED_POINT_SCALE = 8
  MAX_SUPPLY_MATOMS = 20
  INITIAL_EPOCH_SUBSIDY_MATOMS = 12
  HALVING_INTERVAL_ANCHORS = 2
  COINBASE_MATURITY_ANCHORS = 1
  FRUIT_REWARD_WEIGHT = 1
  SHARD_MAX_DEPTH = 1
  BYTES_PER_KB = 2
  EXPECTED_GENESIS = 11
  DYNAMIC_K_MIN = 0
  PARENT_CANDIDATE_MAX_COUNT = 1
  FruitTimes = {1, 2}
  AnchorTimes = {0, 1, 2}
  FruitIds <- LedgerFruitIds
  AnchorIds <- LedgerAnchorIds
  FruitPayloads <- LedgerFruits
  AnchorPayloads <- LedgerAnchors
  Tx <- LedgerTxs
  Coinbase <- OneCoinbaseEach
  NoPid = NoPid
  Unwritten = Unwritten
  Pids = {p1, p2, p3}
  Stops = {s1}
  Focuses = {"node"}
INVARIANTS
  UtxoMirrorsStore
  ActiveStateIsReplay
  MempoolSpendable
  SupplyConserved
PROPERTIES
  BranchReplayStable
\* Every hash may be used up, with nothing left to restart into.
CHECK_DEADLOCK FALSE
