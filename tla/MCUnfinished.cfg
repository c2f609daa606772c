CONSTANTS
    Apdus <- UnfinishedApdus
    MAX_MESSAGE_LENGTH = 1280
    MaxTransfer = 1
    Parsed <- MCParsed
    Exceptions <- MCExceptions
    MaxBacks = 0
SPECIFICATION SafeSpec
PROPERTY UnprocessedNeverSigned
