\* A chain of five blocks, two reorganisations of any depth, and two failures or
\* crashes; the table is trimmed to four heights, the callbacks get three blocks.
SPECIFICATION Spec

CONSTANTS
    FinalityDepth = 3
    HistoryDepth = 4
    BufferSize = 2
    MaxHeight = 5
    MaxReorgs = 2
    MaxFaults = 2

CHECK_DEADLOCK FALSE

INVARIANTS
    TypeOK
    ChainIsComplete

PROPERTIES
    HeadsAscend
    HeadsAreTold
