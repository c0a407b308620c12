SPECIFICATION Spec
CONSTANTS
    User = {u1}
    Request = {r1, r2}
    Watch = {w1}
    Key = {k1, k2}
    Ops = {"confirm"}
    Points = {1, 2}
    MaxAmount = 2
    MinRedeem = 1
    DailyCap = 3
    ActionCap = 3
    Cooldown = FALSE
    OpeningPoints = 2
    DiscountSubtotal = 2
    Opening <- MCOpening
    WatchUser <- MCWatchUser
    Discount <- MCDiscount
PROPERTY RedemptionWithinBalance
