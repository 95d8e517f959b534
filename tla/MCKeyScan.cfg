SPECIFICATION Spec
CONSTANTS
    ShortMin = 2
    ShortMax = 20
    ReportAt = 40
    LampAt = 44
    StartAt = 50
    WrapAbove = 51
    WrapTo = 43
INVARIANTS
    TypeOK
    CountBelowWrap
    IInv
PROPERTIES
    ToggleOncePerPress
    SmartLinkAfterHold
    LedGoesDark
