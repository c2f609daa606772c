CONSTANTS
    Apdus <- MCApdus
    MAX_MESSAGE_LENGTH = 1280
    MaxTransfer = 2
    Parsed <- MCParsed
    Exceptions <- MCExceptions
    MaxBacks = 0
SPECIFICATION SafeSpec
INVARIANTS
    SessionTypeOK
    PendingIsOnScreen
    ReviewShowsTransaction
PROPERTIES
    SignatureAfterReview
    SignatureOfReviewed
    KeySentIsShown
    ImplementsAssembler
