SPECIFICATION Spec
CONSTANTS
    Byte = 3
    Tag = 1
    Limit = 3
INVARIANTS
    TypeOK
    StoredIsRead
    MixIsNoticed
