\* Submissions, revocations and monitor runs, alone and at once, with crashes.
SPECIFICATION MCSpec
CONSTANTS
    None = None
    StoreError = StoreError
    t1 = t1
    t2 = t2
    m1 = m1
    m2 = m2
    old = old
    new = new
    other = other
    t3 = t3
    Threads = {t1, t2, t3}
    Merchants = {m1, m2}
    Records = {old, new, other}
    MerchantOf <- Owners
    Scenes <- AllScenes
    Tellers = {t1, t2}
    Phones <- TwoPhones
    Malformed = {"phone"}
    TailLimit = 2
    HistoryLimit = 2
    Tellings <- EveryTelling
    Nothing = Nothing
CHECK_DEADLOCK FALSE
INVARIANTS
    FeedIsAuditable
    RevocationIsKept
    AdaptersFollowFeed
    TheOperatorIsTold
