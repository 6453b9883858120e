SPECIFICATION Spec
CONSTANTS
    t1 = t1
    t2 = t2
    Tab = {t1, t2}
    MaxConns = 2
    MaxMsgs = 2
    Limit = 1
    MaxActs = 3
INVARIANTS
    WatcherHasSocket
    MessagesShownOnce
    WaiterIsTold
SYMMETRY Symmetry
CHECK_DEADLOCK FALSE
