\* Every stream of three items in two blocks, of which one job has a bad seed and
\* one does not unmarshal; two requests fit in the channel; one crash.
SPECIFICATION FairSpec

CONSTANTS
    Jobs = {good, bad, broken}
    BadSeeds = {bad}
    Malformed = {broken}
    Streams <- MCStreams
    ChanCap = 2
    MaxRetries = 1
    MaxCrashes = 1
    MaxItems = 3
    MaxBlock = 2

CHECK_DEADLOCK FALSE

INVARIANTS
    NoFirstJobSkipped
    DuplicatesNeedCrashes

PROPERTIES
    FirstJobsGetRecorded
    RequestsGetResolved
    ServiceSpec
