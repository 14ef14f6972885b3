SPECIFICATION Spec
CONSTANTS
    q1 = q1
    q2 = q2
    q3 = q3
    p1 = p1
    p2 = p2
    own = own
    Requests <- MCRequests
    NoRequest = NoRequest
    OpOf <- MCOpOf
    AuthOf <- MCAuthOf
    PresigOf <- MCPresigOf
    Presigs <- MCPresigs
    MaterialOf <- MCMaterialOf
    OwnMaterials = {own}
    LinkedMaterials = {}
    Sessions = {}
    Workers = {w1}
    Moves = {m1, m2}
    NoMove = NoMove
    MaxGen = 2
    NoRow = NoRow
    Batch = 2
    Segments = 2
    SegmentOf <- MCSegmentOf
SYMMETRY MoveSymmetry
INVARIANTS
    SingleExecution
    ExecutionsRemembered
    FrozenFaithful
PROPERTIES
    WalletIsOneUse
