SPECIFICATION DeviceSpec
CONSTANTS
    Apdus <- MCApdus
    MAX_MESSAGE_LENGTH = 256
    MaxTransfer = 256
    Parsed <- MCParsed
    Exceptions <- MCExceptions
    MaxBacks = 0
    DefaultPubkeyDisplay = 1
INVARIANTS
    DeviceTypeOK
    StoredIsChosen
PROPERTIES
    SettingsFixedInReview
