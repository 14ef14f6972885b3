SPECIFICATION Spec
CONSTANTS
    t1 = t1
    t2 = t2
    o1 = o1
    o2 = o2
    null = null
    Tabs <- TwoTabs
    Ops <- TwoOps
    MaxNonce = 1
    Settings <- FourSettings
SYMMETRY Symmetry
INVARIANTS
    TypeOK
    LiveLeaseRecorded
PROPERTIES
    NoGrantOverLiveLease
    
CHECK_DEADLOCK FALSE
