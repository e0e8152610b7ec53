SPECIFICATION Spec
CONSTANTS
    dtNBR_ALARMS = 4
    MaxDepth = 3
    Sensors = {"TANK_HIGH_LEVEL_ID"}
    RepeatingHandlers <- Tank02Handlers
    ONE_MINUTE = 1
    TWENTY_SECS = 1
INVARIANTS
    ReportIsCurrent
