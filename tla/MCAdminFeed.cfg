SPECIFICATION FeedSpec
CONSTANTS
    u1 = u1
    u2 = u2
    User = {u1, u2}
    MaxRooms = 1
    MaxJoins = 2
    MaxBatch = 2
    MaxRest = 2
INVARIANTS
    DashboardAgrees
SYMMETRY Symmetry
CHECK_DEADLOCK FALSE
