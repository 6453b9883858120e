SPECIFICATION FairSpec
CONSTANTS
    MaxToggles = 2
    MaxFaults = 2
    MaxHours = 2
INVARIANTS
    EnforcedIsStored
    ClosedIsEmpty
PROPERTIES
    AdminReopens
    PageFollows
CHECK_DEADLOCK FALSE
