SPECIFICATION Spec
CONSTANTS
    None = None
    Users = {u1, u2, u3}
    Rooms = {r1, r2, r3}
    Stamps = {t1}
    Batch = 2
    MaxRequests = 4
    FailingCalls = {}
    MaxFaults = 0
    ClaimMayLapse = FALSE
INVARIANTS
    PairExclusive
    AttemptsSettle
    SearchersReachable
PROPERTIES
    BindingEndsWithRoom
    ImplementsPairing
SYMMETRY Symmetry
CHECK_DEADLOCK FALSE
