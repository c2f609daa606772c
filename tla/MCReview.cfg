CONSTANTS
    Apdus <- ReviewApdus
    MAX_MESSAGE_LENGTH = 1280
    MaxTransfer = 1
    Parsed <- MCParsed
    Exceptions <- MCExceptions
    MaxBacks = 1
SPECIFICATION SessionSpec
PROPERTIES
    SignedNumbersReviewed
    Answered
    ImplementsTxSigner
