SPECIFICATION OutputSpec
CONSTANTS
    Items <- MCItems
    MaxDisplays = 2
    Apdus <- MCApdus
    Signatures <- MCSignatures
INVARIANTS
    TextEnds
    TextIsOfTitle
    OnlyWideAmountsFail
    AnswerIsSignature
    VIsOfChain
