SPECIFICATION Spec
CONSTANTS
    Ops = {o1, o2}
    Requests = {r1, r2, r3}
    Uses = 1
    Capacity = 1
    AnswersFromRecord = TRUE
SYMMETRY Symmetry
INVARIANTS
    TypeOK
    QuotaSpentOncePerClaim
    CreditUnitsAreClaims
    AnswersAgree
    DeliveredSignatureCounted
CHECK_DEADLOCK FALSE
