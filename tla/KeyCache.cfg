CONSTANTS
    Requests = {r1, r2}
    Loops = {1, 2}
    Ttl = 30
    Short = 1
    FetchTime = 1
    MaxBackoff = 3
SPECIFICATION FairSpec
INVARIANTS CacheInv KeysFresh
PROPERTY RotationArrives
