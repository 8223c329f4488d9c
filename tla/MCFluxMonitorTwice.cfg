\* No failure, no crash and no reorganisation: a log that comes late deletes the
\* submissions of the rounds after it.
SPECIFICATION Spec

CONSTANTS
    NULL = NULL
    NewRoundCap = 1
    FlagCap = 1
    Bounds <- Faultless

CHECK_DEADLOCK FALSE

PROPERTIES
    NeverTwoOpenRuns
