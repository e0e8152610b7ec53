SPECIFICATION FairControlSpec
CONSTANTS
    dtNBR_ALARMS = 3
    MaxDepth = 2
    Sensors = {"TANK_HIGH_LEVEL_ID"}
    RepeatingHandlers <- OnePoll
    ONE_MINUTE = 1
    TWENTY_SECS = 1
INVARIANTS
    DifferenceIsMended
PROPERTIES
    FullTankStopsPump
    NotFullIsLearnt
