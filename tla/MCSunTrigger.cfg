SPECIFICATION Spec
CONSTANTS
    dtNBR_ALARMS = 8
    MaxDepth = 2
    Answers <- SunsetIsKnown
INVARIANTS
    TriggerTimeStands
