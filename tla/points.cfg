SPECIFICATION MCSpec
CONSTANTS
    Parts = {"wallet", "watch"}
    User = {u1, u2}
    Request = {r1, r2, r3}
    Watch = {w1}
    Key = {k1}
    Ops = {"award", "confirm", "refund", "expire", "reject"}
    Points = {1, 2}
    MaxAmount = 2
    MinRedeem = 1
    DailyCap = 3
    ActionCap = 3
    Cooldown = FALSE
    OpeningPoints = 2
    DiscountSubtotal = 2
    Opening <- MCOpening
    WatchUser <- MCWatchUser
    Discount <- MCDiscount
    Session = {s1, s2}
    Caller = {c1, c2}
    Orderly = TRUE
    TicksPerSecond = 1
    MaxTime = 2
    MaxBeats = 1
    MaxWatchesPerDay = 2
    Interval = 1
    GapThreshold = 1
    OverflowTolerance = 1
    MinWatchSeconds = 1
    Duration = 1
SYMMETRY MCSymmetry
INVARIANTS SourceRowsUnique PurchaserMadeWhole LiabilityReconciles OnePaidOfTwo
PROPERTY ImplementsBook
