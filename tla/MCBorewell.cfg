SPECIFICATION FairSpec
CONSTANTS
    dtNBR_ALARMS = 3
    MaxDepth = 2
    RELAY_TRIGGER_INTERVAL = 1
    Sensors = {"TANK_LOW_LEVEL_ID", "TANK_HIGH_LEVEL_ID"}
INVARIANTS
    TypeOK
    OverflowCutOff
    RelayHasToggle
    FlagFollowsPulse
    MessageFollowsPulse
PROPERTIES
    RelaysReleased
    ImplementsPumpGuard
