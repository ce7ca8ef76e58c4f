SPECIFICATION Spec
CONSTANTS
    Reviews = {1}
    Comments = {11, 12}
    ReviewOf <- OneReviewOf
    State <- OneState
    HasBody = {1}
    CRConfigured = FALSE
    CRFirst = {FALSE}
    CRTakes = {}
    TTL = 0
    CacheMax = 1
    ReadsFail = FALSE
    Trailing = {1, 11, 12}
    Days = FALSE
    MaxTime = 0
    MaxBoots = 0
    MaxCloses = 0
INVARIANTS
    CarriesEveryComment
CHECK_DEADLOCK FALSE
