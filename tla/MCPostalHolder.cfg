CONSTANTS
    w1 = w1
    w2 = w2
    u1 = u1
    u2 = u2
    Workers = {w1, w2}
    Users = {u1, u2}
    Jobs = {1, 2}
    Lease = 2
    MaxRetries = 1
    MaxCrashes = 1
    CountCap = 2
    JobKind <- MCJobKind
    JobUser <- MCJobUser
    GloballyUnsubscribed = {u2}
    Unsubscribed = {}
    KindCritical = TRUE
    EmailOf <- MCEmailOf
SPECIFICATION Spec
SYMMETRY MCSymmetry
INVARIANT
    AtMostOneHolder
