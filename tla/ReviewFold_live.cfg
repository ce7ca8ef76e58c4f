SPECIFICATION LiveSpec
CONSTANTS
    Reviews = {1, 2}
    Comments = {}
    ReviewOf <- NoComments
    State <- BothComment
    HasBody = {1, 2}
    CRConfigured = FALSE
    CRFirst = {FALSE}
    CRTakes = {}
    TTL = 0
    CacheMax = 1
    ReadsFail = FALSE
    Trailing = {}
    Days = TRUE
    MaxTime = 1
    MaxBoots = 1
    MaxCloses = 1
    OtherReviews = {1, 2}
    OtherComments = {11}
    OtherReviewOf <- TwoReviewOf
    OtherState <- ApprovedState
    OtherHasBody = {2}
    OtherConfigured = TRUE
    OtherFirst = {TRUE, FALSE}
    OtherTakes = {2}
    OtherReadsFail = FALSE
    OtherTrailing = {}
PROPERTIES
    AllCovered
CHECK_DEADLOCK FALSE
