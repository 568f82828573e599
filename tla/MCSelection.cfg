SPECIFICATION Spec
CONSTANTS
  MaxOps = 24
  MaxStackItems = 9
  MaxKeys = 3
  Spends <- MCSpends
  OwnKey <- MCOwn
  Asks <- MCAsks
  Clocks = {1, 2}
  FloorTables <- MCFloorTables
  TxId <- MCTxId
  KbBytes = 10
  StartCoins <- MCStartCoins
  MaxSupply = 100
  MaxTxBytes = 24
  TxHeaderBytes = 1
  InputBytes = 2
  WitnessBytes = 5
  OutputBytes = 3
  Outpoints = {1, 2, 3, 4, 5, 6, 7, 8, 9}
  MaxHeight = 2
  MaxSends = 2
  Commands = {w1, w2}
  Seeds = {1, 2}
  Passwords = {"p", "q"}
  outA = outA
  outB = outB
  outC = outC
  Tx <- MCTx
  Shards <- MCShards
  Views <- MCViews
  Floors <- MCFloors
  Samples <- MCSamples
  BYTES_PER_KB = 1
  FEE_FLOOR_WINDOW_FRUITS = 2
  FEE_FLOOR_MIN_MATOMS_PER_KB = 1
  FEE_FLOOR_EWMA_PREV_WEIGHT = 3
  FEE_FLOOR_EWMA_NEW_WEIGHT = 1
  FEE_FLOOR_EWMA_DEN = 4
  SHARD_MAX_DEPTH = 3
  MaxBatch = 4
  CodeBits = 5
  NumSymbols = 3
  MaxTotal = 8
  MaxMessage = 7
  CodecTxs <- MCCodecTxs
  Weights <- MCWeights
  TopologyLists <- MCTopologyLists
  ByteValues = 4
  MaxObject = 27
  MaxCommitments = 4
  Focuses = {"mempool"}
INVARIANT SelectionFitsFruit
CHECK_DEADLOCK FALSE
