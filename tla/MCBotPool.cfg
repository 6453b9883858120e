SPECIFICATION Spec
CONSTANTS
    u1 = u1
    u2 = u2
    User = {u1, u2}
    MaxBots = 2
    MaxErrors = 2
    MaxJoins = 2
    MaxRooms = 2
    MaxMessages = 2
    MaxSwitches = 1
INVARIANTS
    ActiveHasRoom
    BotsAndRoomsAgree
    DisabledIsClean
SYMMETRY Symmetry
CHECK_DEADLOCK FALSE
