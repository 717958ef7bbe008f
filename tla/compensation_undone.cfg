\* A process without its locks takes a compensating checkout back.
SPECIFICATION MCSpec
CONSTANTS
    None = None
    q1 = q1
    q2 = q2
    k1 = k1
    k2 = k2
    x1 = x1
    x2 = x2
    r1 = r1
    r2 = r2
    r3 = r3
    r4 = r4
    r5 = r5
    p1 = p1
    p2 = p2
    Procs = {p1, p2}
    Quotes = {q1}
    Keys = {k1, k2}
    Refs = {x1, x2}
    Requests = {r1}
    KeyOf <- MCKeyOf
    QuoteOf <- MCQuoteOf
    RefOf <- MCRefOf
    Stock = 1
    HardHolds = TRUE
    Recovered = {q1}
    MaxLosses = 1
    SlowSweep = FALSE
    Scenes <- Disconnected
SYMMETRY Symmetry
CHECK_DEADLOCK FALSE
PROPERTIES
    CompensationIsFinal
