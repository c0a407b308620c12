SPECIFICATION FairSpec
CONSTANTS
    User = {u1}
    Request = {r1, r2, r3}
    Watch = {w1}
    Key = {k1}
    Ops = {"adjust", "award", "confirm", "refund", "expire", "reject"}
    Points = {1}
    MaxAmount = 2
    MinRedeem = 1
    DailyCap = 3
    ActionCap = 3
    Cooldown = TRUE
    OpeningPoints = 2
    DiscountSubtotal = 2
    Opening <- MCOpening
    WatchUser <- MCWatchUser
    Discount <- MCDiscount
INVARIANT BalanceIsDerived
PROPERTY RequestsFinish
