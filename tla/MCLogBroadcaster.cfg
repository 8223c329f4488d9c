\* Two listeners to one contract, one of which may be removed, two blocks,
\* and a reorganisation, a failure of the connection or a crash.
SPECIFICATION Spec

CONSTANTS
    l1 = l1
    l2 = l2
    contract = contract
    Listeners = {l1, l2}
    AddressOf <- OneContract
    Depth = 0
    MaxHeight = 2
    MaxDeleted = 1
    MaxFaults = 1

CHECK_DEADLOCK FALSE

INVARIANTS
    TypeOK
    SubscriptionCovers
    ListenersKnow

PROPERTIES
    NoLogIsMissed
