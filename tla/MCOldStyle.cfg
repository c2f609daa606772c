CONSTANTS
    Headers <- MCHeaders
    Lengths <- MCLengths
SPECIFICATION Spec
INVARIANT FinishedAtFieldEnd
