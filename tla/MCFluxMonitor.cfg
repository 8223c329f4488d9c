\* One round with two failures, reorganisations or crashes, two rounds with one
\* of them or with two runs, and four changes of flags; the queue holds one log
\* of a round and two of flags.
SPECIFICATION Spec

CONSTANTS
    NULL = NULL
    NewRoundCap = 1
    FlagCap = 2
    Bounds <- Instances

CHECK_DEADLOCK FALSE

INVARIANTS
    TypeOK

PROPERTIES
    OneOpenRun
    RoundsGetAnswered
    HibernationFollowsFlags
