\* Purchases that wait, replies to them, and surplus energy, in concurrent jobs.
SPECIFICATION MCSpec
CONSTANTS
    None = None
    j1 = j1
    j2 = j2
    j3 = j3
    Threads = {j1, j2, j3}
    Quotes = {q1, q2}
    Approvals = {a1, a2}
    Challenges = {c1, c2}
    Keys = {a1, a2}
    Offers = {o1, o2}
    Neighbours = {j1, j2, j3, n1}
    Readings <- AllReadings
    MinExport = 1
    MinBattery = 2
    FullBattery = 5
    AskedRails = {}
    Messages <- AllMessages
    Setups <- AllScenes
    Tasks = {1, 2, 3, 4, 5, 6, 7}
    Clerks = {e1, e2}
    PageSize = 2
    MaxPages = 3
    BucketSize = 2
    TextLines = 1
    NoDue = NoDue
    Boards <- AllBoards
    Listeners = {l1, l2}
CHECK_DEADLOCK FALSE
INVARIANTS
    ToldTheTruth
    EnergyIsSoldOnce
    PlanIsComplete
PROPERTIES
    MessagesAreAnswered
