SPECIFICATION MCSpec
CONSTANTS
    Call = {c1, c2}
    Event = {e1}
    MaxOrders = 3
    MaxVersion = 1
    MaxFailures = 1
    PageSize = 2
    MaxItems = 2
    MaxPacks = 2
    Total = 2
    MaxFile = 4
    MaxAssetVersion = 3
    Mutation = {m1, m2}
SYMMETRY Symmetry
INVARIANT LinkedByFirstChunk
CHECK_DEADLOCK FALSE
