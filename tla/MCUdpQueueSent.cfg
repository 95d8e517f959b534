SPECIFICATION Spec
CONSTANTS
    udp = udp
    rtc = rtc
    timer = timer
    Udp = udp
    Senders <- MCAll
    Capacity = 2
    MaxSends = 1
    MaxCalls = 3
    Null = null
PROPERTY AcceptedIsSent
