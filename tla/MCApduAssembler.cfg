CONSTANTS
    Apdus <- MCApdus
    MAX_MESSAGE_LENGTH = 1280
    MaxTransfer = 9
SPECIFICATION Spec
INVARIANTS
    TypeOK
    BufferBounded
    OneCommandPerBuffer
    MessageTransferWhole
    TransactionLengthFitsByte
    PathOfFirstChunk
