CONSTANTS
    Headers <- MCHeaders
    Lengths <- MCLengths
SPECIFICATION Spec
INVARIANTS
    TypeOK
    HashedOnce
    FieldsInOrder
    FinishedDetermines
PROPERTY Returns
