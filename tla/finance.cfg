SPECIFICATION Spec
CONSTANTS
    Call = {c1, c2}
    Order = {o1, o2}
    Expense = {x1}
    Payout = {p1, p2}
    OrderRows <- MCOrderRows
    Adjustments <- MCAdjustments
    OpSets <- MCOpSets
    MaxAmount = 2
    MaxPostings = 2
SYMMETRY Symmetry
INVARIANTS EntriesAreSound PayoutsAreSound ProfitIsNetAssets SubscriptionAgrees
PROPERTY LockHolds
