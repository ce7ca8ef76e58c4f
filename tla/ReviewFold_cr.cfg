SPECIFICATION FoldsSpec
CONSTANTS
    Reviews = {1, 2}
    Comments = {11}
    ReviewOf <- TwoReviewOf
    State <- TwoState
    HasBody = {2}
    CRConfigured = TRUE
    CRFirst = {TRUE}
    CRTakes = {1, 2}
    TTL = 0
    CacheMax = 1
    ReadsFail = FALSE
    Trailing = {}
    Days = FALSE
    MaxTime = 1
    MaxBoots = 1
    MaxCloses = 0
    OtherReviews = {1}
    OtherComments = {11, 12}
    OtherReviewOf <- OneReviewOf
    OtherState <- OneState
    OtherHasBody = {1}
    OtherConfigured = FALSE
    OtherFirst = {FALSE}
    OtherTakes = {}
    OtherReadsFail = TRUE
    OtherTrailing = {1}
INVARIANTS
    AllTyped
    OneEventForAll
    CursorsCover
    NewCommentsRunOnce
CHECK_DEADLOCK FALSE
