SPECIFICATION Spec
CONSTANTS
    q1 = q1
    q2 = q2
    p1 = p1
    p2 = p2
    own = own
    Requests <- MCRequests
    NoRequest = NoRequest
    OpOf <- MCOpOf
    AuthOf <- MCAuthOf
    PresigOf <- MCPresigOf
    Presigs <- MCPresigs
    MaterialOf <- MCMaterialOf
    OwnMaterials = {own}
    LinkedMaterials = {}
    Sessions = {}
    Workers = {w1}
    Moves = {m1}
    NoMove = NoMove
    MaxGen = 3
    NoRow = NoRow
    Batch = 4
    Segments = 1
    SegmentOf <- MCSegmentOf
INVARIANTS
    SingleExecution
    OneWriter
PROPERTIES
    SourceStaysClosed
