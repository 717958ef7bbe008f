\* The registry contract and the projection of its events.
SPECIFICATION MCSpec
CONSTANTS
    None = None
    d1 = d1
    d2 = d2
    c1 = c1
    c2 = c2
    v1 = v1
    v2 = v2
    h1 = h1
    h2 = h2
    Domains = {d1, d2}
    Controllers = {c1, c2}
    Validators = {v1, v2}
    Hashes = {h1, h2}
    Ids <- MCIds
    Scenes <- AllScenes
    FeedId <- TheRecord
    FeedControllers = {c1, c2}
    LastBlock = 4
    MaxEvents = 3
    MaxAge = 2
    MaxLag = 1
CHECK_DEADLOCK FALSE
INVARIANTS
    DomainHasOneRecord
    BuyersSeeTheContract
    FeedIsTrue
PROPERTIES
    RevokedHashStaysRevoked
