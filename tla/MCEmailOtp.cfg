SPECIFICATION Spec
CONSTANTS
    a = a
    b = b
    s = s
    LoginChallenges = {a, b}
    StartChallenges = {s}
    Requests = {r1, r2, r3}
    Starts = {x, y}
    MaxAttempts = 2
    MaxActive = 1
    Scenarios <- TwoScenarios
    none = none
SYMMETRY Symmetry
INVARIANTS
    TypeOK
    ChallengeUsedOnce
PROPERTY RetryOfConfirmedStart
CHECK_DEADLOCK FALSE
