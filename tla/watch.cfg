SPECIFICATION LoneSpec
CONSTANTS
    Parts = {"watch"}
    User = {u1}
    Request = {r1}
    Watch = {}
    Key = {k1}
    Ops = {"adjust"}
    Points = {1}
    MaxAmount = 1
    MinRedeem = 1
    DailyCap = 1
    ActionCap = 1
    Cooldown = FALSE
    OpeningPoints = 1
    DiscountSubtotal = 1
    Opening <- MCOpening
    WatchUser <- MCWatchUser
    Discount <- MCDiscount
    Session = {s1}
    Caller = {c1, c2}
    Orderly = FALSE
    TicksPerSecond = 2
    MaxTime = 3
    MaxBeats = 2
    MaxWatchesPerDay = 1
    Interval = 1
    GapThreshold = 2
    OverflowTolerance = 1
    MinWatchSeconds = 1
    Duration = 2
SYMMETRY MCSymmetry
INVARIANT VerifiedAndPaid
PROPERTY SuspectsStay
