SPECIFICATION FairSpec
CONSTANTS
    None = None
    Users = {u1, u2}
    Rooms = {r1, r2, r3}
    Stamps = {t1, t2}
    Batch = 50
    MaxRequests = 3
    FailingCalls = {"createRoom", "addToQueue", "findMatch"}
    MaxFaults = 1
    ClaimMayLapse = FALSE
INVARIANTS
    PairingInv
    ActiveHasRoom
PROPERTIES
    EventuallyPaired
CHECK_DEADLOCK FALSE
