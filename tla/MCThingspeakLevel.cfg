SPECIFICATION Spec
CONSTANTS
    dtNBR_ALARMS = 5
    MaxDepth = 3
    Channels = {"SEND_STATIC_DATA", "SEND_WATER_LEVEL_DATA", "SEND_VOLTAGE_DATA"}
    Fields = {1, 2}
INVARIANTS
    WaterLevelQueued
