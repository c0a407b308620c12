SPECIFICATION FairSpec
CONSTANTS
    Call = {c1, c2}
    Event = {e1}
    MaxOrders = 3
    MaxVersion = 2
    MaxFailures = 1
    PageSize = 2

PROPERTY PollingCatchesUp
