CONSTANTS
    w1 = w1
    w2 = w2
    p1 = p1
    p2 = p2
    Workers = {w1, w2}
    PlatformUsers = {p1, p2}
    Jobs = {1, 2}
    Lease = 2
    MaxCrashes = 1
    CountCap = 2
    TokenMayFail = TRUE
    GUIDsMayFail = TRUE
    EnqueueMayFail = TRUE
SPECIFICATION Spec
PROPERTY
    CampaignEventuallyDeleted
