SPECIFICATION FairSpec
CONSTANTS
    u1 = u1
    u2 = u2
    bot = bot
    User = {u1, u2}
    Talker = {u1}
    Bot = bot
    MaxChats = 2
    MaxSaid = 2
    MaxMoves = 1
    MaxActs = 3
INVARIANTS
    NoCrossTalk
    CleanOrderKept
    ShownIsRecorded
PROPERTIES
    SaidIsSettled
    BotStopsTyping
CHECK_DEADLOCK FALSE
