CONSTANTS
    w1 = w1
    w2 = w2
    u1 = u1
    u2 = u2
    Workers = {w1, w2}
    Users = {u1, u2}
    Jobs = {1, 2}
    Lease = 2
    MaxRetries = 2
    MaxCrashes = 1
    CountCap = 3
    JobKind <- MCPolicyJobKind
    JobUser <- MCPolicyJobUser
    GloballyUnsubscribed = {u2}
    Unsubscribed = {}
    KindCritical = FALSE
    EmailOf <- MCEmailOf
SPECIFICATION Spec
SYMMETRY MCSymmetry
INVARIANT
    SuppressionRespected
