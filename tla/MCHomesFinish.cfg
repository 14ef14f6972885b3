SPECIFICATION FairSpec
CONSTANTS
    Locations = {L1, L2}
    L1 = L1
    L2 = L2
    Registered = L1
    Moves = {m1, m2, m3}
    Ops = {o1}
    none = none
PROPERTY MoveFinishes
PROPERTY RejectedMoveLetsGo
CHECK_DEADLOCK FALSE
