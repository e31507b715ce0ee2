SPECIFICATION CacheSpec
CONSTANTS
    t1 = t1 t2 = t2
    Tokens = {t1, t2}
    Verifies = {v1, v2}
    Expiry <- MCExpiry
    CacheTTL = 2
    CacheMax = 1
    MaxTime = 4
INVARIANTS RevocationTakesEffect CacheBounded
