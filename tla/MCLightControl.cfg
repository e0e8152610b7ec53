SPECIFICATION FairControlSpec
CONSTANTS
    dtNBR_ALARMS = 3
    MaxDepth = 2
INVARIANTS
    ControlTypeOK
    AsksOn
    RelayObeysLast
PROPERTIES
    StaircaseFollows
