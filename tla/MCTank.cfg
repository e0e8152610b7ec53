SPECIFICATION FairSpec
CONSTANTS
    dtNBR_ALARMS = 3
    MaxDepth = 2
    Sensors = {"TANK_LOW_LEVEL_ID"}
    RepeatingHandlers <- OnePoll
    ONE_MINUTE = 1
    TWENTY_SECS = 1
INVARIANTS
    TypeOK
    RetryComes
PROPERTIES
    LevelGetsTold
