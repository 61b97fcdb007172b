SPECIFICATION Spec
CONSTANTS
    r1 = r1  r2 = r2  k1 = k1  NoKey = NoKey
    Relays = {r1, r2}
    Rows <- MCRows
    KeyOf <- MCKeyOf
    Offset <- MCOffset
    Editable = {}
    Skew = 1
    Lease = 2
    PublishTimeout = 1
    StoreTimeout = 0
    Backoff = 0
    MaxAttempts = 1
    PageSize = 2
    MaxFailedScan = 2
    MaxBlocked = 1
    DeleteNow = TRUE
    MaxFaults = 1
    MaxReleases = 0
INVARIANT FirstPublishesInOrder
