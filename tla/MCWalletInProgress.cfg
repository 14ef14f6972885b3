SPECIFICATION Spec
CONSTANTS
    q1 = q1
    q2 = q2
    p1 = p1
    p2 = p2
    own = own
    Requests <- MCRequests
    NoRequest = NoRequest
    OpOf <- MCOpOf
    AuthOf <- MCAuthOf
    PresigOf <- MCPresigOf
    Presigs <- MCPresigs
    MaterialOf <- MCMaterialOf
    OwnMaterials = {own}
    LinkedMaterials = {}
    Sessions = {s1}
    Workers = {w1, w2}
    Moves = {m1}
    NoMove = NoMove
    MaxGen = 1
    NoRow = NoRow
    Batch = 1
    Segments = 1
    SegmentOf <- MCSegmentOf
INVARIANTS
    InProgressMeansRunning
