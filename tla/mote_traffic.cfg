SPECIFICATION FairSpec
CONSTANTS
    MQTT_MSG_MAX_NUM = 50
    LongWords <- mcLongWords
    HexAddress <- mcAddress
    Ballasts <- mcBallasts
    Scenarios <- mcScenarios
    Equipped <- mcEquipped
    Underway = 3
INVARIANTS
    TypeOK M230ReadBack M200ReadBack IecReadBack DaliReadBack ModbusReadBack
    ReadingsTrue ReachesItsMote OwnNotObeyed FramesWhole PublishedIsJson
PROPERTIES CommandAnswered Settles
CHECK_DEADLOCK FALSE
