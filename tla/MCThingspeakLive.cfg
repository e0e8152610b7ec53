SPECIFICATION FairSpec
CONSTANTS
    dtNBR_ALARMS = 3
    MaxDepth = 3
    Channels = {"SEND_STATIC_DATA", "SEND_WATER_LEVEL_DATA"}
    Fields = {1}
PROPERTIES
    EntryComesUp
