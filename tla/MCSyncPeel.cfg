SPECIFICATION Spec
CONSTANTS
  Coins <- MCCoins
  KeyOf <- MCKeyOf
  Depth = 2
  ChangeKey <- MCChangeKey
  Probe <- MCProbe
  MaxEntries = 2
  MaxDiffs = 1
  P = 5
  Payloads <- MCPayloads
  Spoilt <- MCSpoilt
  Missing <- MCMissing
  Guesses = {0, 3}
  Digest <- MCDigest
  HashSpace = 19
  SampleCount = 3
  ThresholdPct = 60
  MaxDataSide = 2
  Bits = 3
  FieldPolyLow = 3
  SplitSeedStep = 5
  MaxSplitAttempts = 8
  Txs = {1, 2, 3}
  ShortIdOf <- MCShortIdOf
  Capacity = 2
  Interval = 2
  MaxChanges = 4
  PoolTxs = {1, 2, 3, 4, 5}
  Fruits <- MCFruits
  BloomPos <- MCBloomPos
  ShortIds <- MCShortIds
  ShortIdParams = 2
  Peers = {1, 2, 3, 4, 5}
  Score <- MCScore
  Latency <- MCLatency
  TreeRank <- MCTreeRank
  Custodians <- MCCustodians
  MaxFanout = 2
  DataShards = 2
  ParityShards = 2
  RelayPayloads <- MCRelayPayloads
  Faulty = {3}
  Tasks = {k1}
  EnableKademlia = FALSE
  MaxStarts = 2
  Nodes = {1, 2, 3}
  Threads = {h1, h2, h3}
  NColumns = 2
  MaxCalls = 3
  Focuses = {"sync"}
INVARIANT BuiltDiffApplies
