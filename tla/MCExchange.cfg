SPECIFICATION Spec
CONSTANTS
    udp = udp
    rtc = rtc
    Senders <- MCSenders
    Udp = udp
    Capacity = 2
    MaxSends = 3
    MaxCalls = 3
    Null = null
    text = text
    long = long
    NSettings = 0
    NPlugs = 1
    NSlots = 1
    Texts <- MCTexts
    Plain <- MCPlain
    Numbers <- MCNumbers
    Levels <- MCLevels
    Lost = lost
    Absent = absent
    Bad = bad
    Commands <- MCCommands
INVARIANTS
    TypeOK
    BroadcastIsTrue
