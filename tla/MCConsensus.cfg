SPECIFICATION Spec
CONSTANTS
  WORK_CAP = 1000
  Fruits <- MCFruits
  Timestamps <- MCTimestamps
  Works <- MCWorks
  Ks <- MCKs
  ANCHOR_INITIAL_TARGET = 13
  ANCHOR_MIN_TARGET = 2
  ANCHOR_MAX_TARGET = 50
  FRUIT_TARGET = 64
  ANCHOR_INTERVAL_MS = 4
  WTEMA_WINDOW_ANCHORS = 3
  WTEMA_ALPHA_NUM = 1
  WTEMA_ALPHA_DEN = 2
  WTEMA_MAX_ADJUSTMENT_FACTOR = 2
  FIXED_POINT_SCALE = 16
  U64_MAX = 1000
  Intervals <- MCIntervals
  MaxAnchors = 7
  FAST_BLUE_DEPTH = 1
  ECONOMIC_BLUE_DEPTH = 2
  SETTLEMENT_BLUE_DEPTH = 3
  ANCHOR_SECURED_DEPTH = 1
  SETTLEMENT_ANCHOR_DEPTH = 2
  Heights = {0, 1, 2}
  FruitBlocks <- MCFruitBlocks
  AnchorBlocks <- MCAnchorBlocks
  TxSize <- MCTxSize
  MaxPayload = 17
  MaxBitmap = 2
  ByteBits = 2
  MaxCandidates = 3
  MaxDepth = 1
  RootTree = 0
  MaxAccepted = 2
INVARIANTS
  CachesCoherent
  OrderIsTopological
  BlocksBound
PROPERTIES
  MetadataStable
  TierFallsOnlyByReorg
  MovementBounded
\* The bounds end every behaviour.
CHECK_DEADLOCK FALSE
