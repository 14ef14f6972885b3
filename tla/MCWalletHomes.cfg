SPECIFICATION Spec
CONSTANTS
    Locations = {L1, L2, L3}
    L1 = L1
    L2 = L2
    L3 = L3
    Registered = L1
    Moves = {m1, m2, m3}
    Ops = {o1, o2}
    none = none
SYMMETRY Symmetry
INVARIANTS
    TypeOK
    OneHome
    HistoryKept
    HistoryFollowsWallet
    SealedWithinMeasure
    SessionsFollowWallet
PROPERTY GenerationsAdvance
CHECK_DEADLOCK FALSE
