SPECIFICATION FairSpec
CONSTANTS
    dtNBR_ALARMS = 2
    MaxDepth = 3
    Sensors = {"TANK02_LOW_LEVEL_ID", "TANK02_HIGH_LEVEL_ID", "TANK03_LOW_LEVEL_ID", "TANK03_HIGH_LEVEL_ID"}
INVARIANTS
    TypeOK
    FlagFollowsRelay
    PumpProtected
    ToldFollowsRelay
PROPERTIES
    PumpStops
    ControllerLearns
