SPECIFICATION FairSpec
CONSTANTS
    o = o
    a = a
    Offerer = o
    Answerer = a
    MaxRebuilds = 3
    MaxToggles = 1
    MaxFaults = 2
INVARIANTS
    SignallingConverges
    LatestTrackIsSent
PROPERTIES
    AnswersOwnOffer
    NeverSilentlyDead
    CallRecovers
CHECK_DEADLOCK FALSE
