SPECIFICATION ConfirmerSpec
CONSTANTS
  k1 = k1
  k2 = k2
  Keys = {k1, k2}
  GasPriceDefault = 1
  GasBumpPercent = 20
  GasBumpWei = 1
  MaxGasPrice = 1
  Refused = {}
  MaxBlocks = 2
  MaxForks = 0
  MaxFloor = 1
  Externals = {}
  BumpThreshold = 1
  BumpTxDepth = 1
  FinalityDepth = 1
  Broadcast <- TwoKeys
CHECK_DEADLOCK FALSE
PROPERTIES
  MissingReceiptIsSuperseded
