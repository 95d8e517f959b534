SPECIFICATION Spec
CONSTANTS
    udp = udp
    rtc = rtc
    httpd = httpd
    NPlugs = 2
    LowThreads <- MCLow
    MidThreads <- MCNone
    KeyIrq = irq
    KeyTimer = timer
    Vals <- MCVals
SYMMETRY Sym
INVARIANTS
    TypeOK
    AgreesUnlessRaced
    LedFollowsRecords
    IInv
