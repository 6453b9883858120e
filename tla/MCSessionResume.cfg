SPECIFICATION FairSpec
CONSTANTS
    None = None
    u1 = u1
    u2 = u2
    u3 = u3
    s1 = s1
    s2 = s2
    s3 = s3
    s4 = s4
    s5 = s5
    r1 = r1
    r2 = r2
    Users = {u1, u2}
    Sockets = {s1, s2, s3, s4}
    Rooms = {r1, r2}
    Leavers = {u1, u2}
    MaxEvents = 3
    MaxFaults = 1
INVARIANTS
    HeldAlone
    RoomAttended
PROPERTIES
    AwayResolves
    EmptyRoomEnds
CHECK_DEADLOCK FALSE
