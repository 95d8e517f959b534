SPECIFICATION Spec
CONSTANTS
    NPlugs = 2
    MaxPages = 4
    Null = null
INVARIANTS
    TypeOK
    SearchStaysInTable
    OwnCallback
    SwitchIsWhole
    StatusIsTrue
PROPERTIES
    DefaultsComeFirst
    RequestsEnd
