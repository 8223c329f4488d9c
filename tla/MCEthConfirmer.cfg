\* Two transactions of one account, the first of which the node has come to
\* refuse; three blocks and one reorganisation.
SPECIFICATION ConfirmerSpec

CONSTANTS
    k1 = k1
    k2 = k2
    Keys = {k1}
    GasPriceDefault = 1
    GasBumpPercent = 20
    GasBumpWei = 1
    MaxGasPrice = 2
    Refused = {1}
    MaxBlocks = 3
    MaxForks = 1
    MaxFloor = 3
    Externals = {}
    BumpThreshold = 1
    BumpTxDepth = 1
    FinalityDepth = 1
    Broadcast <- TwoTxs

CHECK_DEADLOCK FALSE

INVARIANTS
    ConfirmerTypeOK
    ReceiptMeansConfirmed
    NoReceiptOfAnotherChain
    InProgressIsHighest

PROPERTIES
    ReorganisedIsSentAgain
