\* The scheduler decides every paid checkout.
SPECIFICATION MCFairSpec
CONSTANTS
    None = None
    q1 = q1
    q2 = q2
    k1 = k1
    k2 = k2
    x1 = x1
    x2 = x2
    r1 = r1
    r2 = r2
    r3 = r3
    r4 = r4
    r5 = r5
    p1 = p1
    p2 = p2
    Procs = {p1, p2}
    Quotes = {q1}
    Keys = {k1, k2}
    Refs = {x1, x2}
    Requests = {r1}
    KeyOf <- MCKeyOf
    QuoteOf <- MCQuoteOf
    RefOf <- MCRefOf
    Stock = 1
    HardHolds = TRUE
    Recovered = {q1}
    MaxLosses = 0
    SlowSweep = FALSE
    Scenes <- Alone
CHECK_DEADLOCK FALSE
PROPERTIES
    PaidIsDecided
