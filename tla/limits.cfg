SPECIFICATION MCSpec
CONSTANTS
    Call = {c1, c2}
    State = {s1, s2}
    MaxCredentials = 3
    Key = {k1, k2, k3}
    Buyer = {b1, b2}
    MaxLimit = 2
    Device = {d1, d2, d3}
    activationLimit = 1
    Token = {t1, t2}
    maxDownloads = 2
    Body = {x1, x2}
    MaxRuns = 3
SYMMETRY Symmetry
INVARIANTS KeyIsKept StateOnce CredentialAgrees LimitsHold OncePerKey
CHECK_DEADLOCK FALSE
