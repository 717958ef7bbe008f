\* Refund requests one at a time and at once, with lost answers; and the ledger of
\* the verifier with workers that die, repeat and reconcile.
SPECIFICATION MCSpec
CONSTANTS
    None = None
    t1 = t1
    t2 = t2
    k1 = k1
    k2 = k2
    Threads = {t1, t2}
    Requests <- AnyAmount
    Retried <- OneHalf
    Total = 3
    Scenes <- AllScenes
    r1 = r1
    r2 = r2
    Nothing = Nothing
    Workers = {w1, w2}
    References = {r1, r2}
    Paid = 2
    Payments <- AllPayments
    Bytes = {x1, x2}
    MaxAttempts = 2
CHECK_DEADLOCK FALSE
INVARIANTS
    RefundsAreRight
    ClaimsAreTrue
    LedgerIsTrue
PROPERTIES
    RefundsAreFinished
