SPECIFICATION Spec
CONSTANTS
  Jobs = {good, bad}
  BadSeeds = {bad}
  Malformed = {}
  Streams <- MCStreams
  ChanCap = 1
  MaxRetries = 1
  MaxCrashes = 1
  MaxItems = 1
  MaxBlock = 2
CHECK_DEADLOCK FALSE
INVARIANTS
  RequestAndCursorTogether
