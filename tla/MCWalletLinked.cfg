SPECIFICATION Spec
CONSTANTS
    q1 = q1
    q2 = q2
    p1 = p1
    p2 = p2
    own = own
    dev = dev
    Requests <- MCRequests
    NoRequest = NoRequest
    OpOf <- MCOpOf
    AuthOf <- MCAuthOf
    PresigOf <- MCPresigOf
    Presigs <- MCPresigs
    MaterialOf <- MCMaterialOf
    OwnMaterials = {own}
    LinkedMaterials = {dev}
    Sessions = {}
    Workers = {w1}
    Moves = {m1}
    NoMove = NoMove
    MaxGen = 2
    NoRow = NoRow
    Batch = 3
    Segments = 1
    SegmentOf <- MCSegmentOf
INVARIANTS
    TypeOK
    SingleExecution
    FrozenFaithful
PROPERTIES
    RevocationFinal
