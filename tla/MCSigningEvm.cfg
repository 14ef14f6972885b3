SPECIFICATION Spec
CONSTANTS
    Ops = {o1, o2}
    Requests = {r1, r2, r3}
    Uses = 1
    Capacity = 1
    AnswersFromRecord = FALSE
SYMMETRY Symmetry
INVARIANT DeliveredSignatureCounted
CHECK_DEADLOCK FALSE
