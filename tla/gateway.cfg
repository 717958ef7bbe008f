\* Concurrent payments, shared budgets and stock, changing rails, crashes.
SPECIFICATION MCSpec
CONSTANTS
    None = None
    Threads = {t1, t2}
    Quotes = {q1, q2}
    Approvals = {a1, a2}
    Challenges = {c1, c2}
    Keys = {k1, k2}
    AskedRails = {"tempo", "x402-compatible", "unknown"}
    Setups <- AllSetups
    Products <- AllProducts
    Terms <- AllTerms
    Nothing = Nothing
    Markets <- AllMarkets
SYMMETRY Symmetry
CHECK_DEADLOCK FALSE
INVARIANTS
    WithinLimits
    PaymentsAreTheOrders
    AnsweredIsDurable
    TournamentIsFair
PROPERTIES
    ImplementsPurchases
