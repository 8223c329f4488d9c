\* Two processes that start three times in all, and one job.
SPECIFICATION Spec

CONSTANTS
    Nodes = {n1, n2}
    Jobs = {j1}
    NULL = NULL
    MaxStarts = 3

\* In the end everything is deleted and every process is down.
CHECK_DEADLOCK FALSE

INVARIANTS
    OneProcessPerJob
    CloseStopsServices

PROPERTIES
    JobsGetTaken
    DeletedJobsStop
