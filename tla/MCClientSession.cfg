SPECIFICATION FairSpec
CONSTANTS
    MaxRooms = 2
    MaxClicks = 2
    MaxDrops = 1
    MaxMediaFaults = 1
INVARIANTS
    MatchmakingAgrees
    CallFollowsSession
PROPERTIES
    ResumeResolves
    LeavingResolves
    CallComesUp
CHECK_DEADLOCK FALSE
