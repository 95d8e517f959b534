SPECIFICATION Spec
CONSTANTS
    udp = udp
    rtc = rtc
    timer = timer
    Udp = udp
    Senders <- MCAll
    Capacity = 2
    MaxSends = 3
    MaxCalls = 4
    Null = null
INVARIANTS
    TypeOK
    OneOwner
    OnePerSender
    OwnAnswerIsLatest
PROPERTIES
    IsLossyFifo
    ServedWhilePackets
