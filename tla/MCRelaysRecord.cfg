SPECIFICATION Spec
CONSTANTS
    udp = udp
    rtc = rtc
    httpd = httpd
    NPlugs = 2
    LowThreads <- MCLow
    MidThreads <- MCMid
    KeyIrq = irq
    KeyTimer = timer
    Vals <- MCBits
INVARIANT OnRecordsSwitch
