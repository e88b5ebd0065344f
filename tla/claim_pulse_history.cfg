SPECIFICATION Spec
CONSTANTS
    MQTT_MSG_MAX_NUM = 50
    LongWords <- mcLongWords
    HexAddress <- mcAddress
    Ballasts <- mcBallasts
    Scenarios <- mcPulse
    Equipped <- mcEquipped
    Underway = 3
INVARIANT PulseHistoryTrue
CHECK_DEADLOCK FALSE
