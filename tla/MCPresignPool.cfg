SPECIFICATION Spec
CONSTANTS
    Presigs = {p1}
    Requests = {q1, q2}
    NoRequest = NoRequest
    LeaseMs = 2
    Times <- MCTimes
INVARIANTS
    TypeOK
    OneUse
    UsedInTime
    RevisionNamesState
PROPERTIES
    ImplementsOneUse
    TerminalAbsorbing
    ReservationFixed
