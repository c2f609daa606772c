SPECIFICATION Spec
CONSTANTS
    FirstBytes <- MCFirstBytes
    LengthBytes <- MCLengthBytes
INVARIANTS
    TypeOK
    DecodedIsEncoded
    ReadsHeaderForms
