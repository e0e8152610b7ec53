SPECIFICATION FairSpec
CONSTANTS
    dtNBR_ALARMS = 3
    MaxDepth = 3
    ONE_MINUTE = 2
    REQUEST_INTERVAL = 1
INVARIANTS
    TypeOK
    LightHasEnd
    AsksOn
PROPERTIES
    HeartbeatGoesOn
    LightGoesOut
