SPECIFICATION FairSpec
CONSTANTS
    r1 = r1
    r2 = r2
    r3 = r3
    plain = plain
    other = other
    reactions = reactions
    Bucket = {plain, reactions}
    Custom = {reactions}
    Request = {r1, r2}
    NoRequest = NoRequest
    Window = 2
    Remainings = {0, 1}
    Resets = {0, 2}
    MaxRestRetries = 1
    ShouldRetryOnRateLimit = TRUE
INVARIANTS TypeOK Limited
PROPERTIES BucketRespected CustomRespected RequestsReturn
