\* Limits of 32, 256 and 65536 characters and codes of 32 bits, scaled down; texts of up to 7 characters.
CONSTANTS
    None = None
    Letters <- MCLetters
    FixLimit = 2
    Limit8 = 4
    Limit16 = 5
    Half = 2
    Situations <- MCSituations
    Json <- MCJson
    ReservedLevels <- MCReserved
    HexDigits <- MCHexDigits
    ThumbprintLength = 2
    ReplyTopic <- MCReplyTopic
SPECIFICATION Spec
CHECK_DEADLOCK FALSE
INVARIANTS FrameCarriesMessage CutFrameIsRefused SensitiveIsDelivered CollectorReadsRecord OneLineEach
