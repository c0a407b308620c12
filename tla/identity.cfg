SPECIFICATION MCSpec
CONSTANTS
    Call = {c1, c2}
    ResetToken = {t1}
    MaxSessions = 3
    MaxSecrets = 3
    MaxBatches = 3
    Person = {p1, p2}
    Founder = p1
    Address = {p2}
    MaxInvites = 2
    Offered <- MCOffered
SYMMETRY Symmetry
INVARIANTS SweepsEndSessions RotationIsLinear UsedOnce EnabledIsProven MembersHold
PROPERTY SettledStays
CHECK_DEADLOCK FALSE
