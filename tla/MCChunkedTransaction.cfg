CONSTANTS
    Apdus <- ChunkedTransaction
    MAX_MESSAGE_LENGTH = 1280
    MaxTransfer = 3
SPECIFICATION Spec
INVARIANT TransactionTransferWhole
