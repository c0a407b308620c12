SPECIFICATION MCSpec
CONSTANTS
    Call = {c1, c2}
    RefundKey = {k1, k2}
    FulfilmentKey = {f1}
    Purchase = {p1}
    TotalMinor = 2
    MaxAmount = 3
    Channels = {TRUE, FALSE}
    Ops = {"hold", "release", "cancel", "sync", "fulfil", "ship", "deliver", "refund"}
SYMMETRY Symmetry
INVARIANTS EndStatesAreEarned SubmittedOncePerKey RefundsWithinTotal HeldCanBeReleased
PROPERTY RefundedIsPaidBack
