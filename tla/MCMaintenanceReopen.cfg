SPECIFICATION FairSpec
CONSTANTS
    MaxToggles = 2
    MaxFaults = 2
    MaxHours = 2
PROPERTY SchedulerSparesToggle
CHECK_DEADLOCK FALSE
