SPECIFICATION FairSpec
CONSTANTS
  k1 = k1
  k2 = k2
  Keys = {k1}
  GasPriceDefault = 1
  GasBumpPercent = 20
  GasBumpWei = 1
  MaxGasPrice = 2
  Refused = {1}
  MaxBlocks = 1
  MaxForks = 1
  MaxFloor = 3
  Externals = {1}
  Values = {0, 1}
  MaxTxs = 3
  MaxCrashes = 1
CHECK_DEADLOCK FALSE
INVARIANTS
  TypeOK
  NoncesHaveNoGap
  SentIsSaved
PROPERTIES
  EveryTxIsBroadcast
