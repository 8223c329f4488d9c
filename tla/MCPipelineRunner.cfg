\* Two workers, one run, one transaction that takes too long and one crash.
SPECIFICATION Spec

CONSTANTS
    first = first
    second = second
    both = both
    Tasks = {first, second, both}
    Successor <- Meeting
    Workers = {w1, w2}
    NULL = NULL
    MaxRuns = 1
    MaxTimeouts = 1
    MaxCrashes = 1

\* In the end every run is reaped.
CHECK_DEADLOCK FALSE

INVARIANTS
    TypeOK
    FanIn
    FinishedOnce

PROPERTIES
    RunsGetFinished
    AwaitReturns
