----------------------------- MODULE MCExchange -----------------------------
(***************************************************************************)
(* Exchange with one plug of one task; the other sender is the rtc thread. *)
(***************************************************************************)
EXTENDS Exchange

CONSTANTS udp, rtc, text, long

MCSenders == {udp, rtc}
MCTexts   == {text, long}
MCPlain   == {text}
MCLevels  == {0, 1}
MCNumbers == {0, 1}

\* Command's Cells for one plug with one task and without settings.
On    == <<"on", 0>>
Cells == {On, <<"name", 0>>, <<"task", 0, 0>>}

Asking(report, name, asked) ==
    [report |-> report, name |-> name, mac |-> FALSE,
     ask |-> [c \in Cells |-> IF c \in DOMAIN asked THEN asked[c] ELSE Absent]]

NoonTask == [f \in {"hour", "minute", "repeat", "action", "on"} |->
                IF f \in {"action", "on"} THEN 1 ELSE 0]

\* switches the plug on and arms its task
SwitchOn  == Asking(FALSE, TRUE, [c \in {On, <<"task", 0, 0>>} |->
                                     IF c = On THEN 1 ELSE NoonTask])
\* switches it off, without a report, and with one and a name too long
SwitchOff == Asking(FALSE, TRUE, [c \in {On} |-> 0])
Both      == Asking(TRUE, TRUE, [c \in {On, <<"name", 0>>} |->
                                    IF c = On THEN 0 ELSE long])
Foreign   == Asking(FALSE, FALSE, [c \in {On} |-> 1])

MCCommands == {SwitchOn, SwitchOff, Both, Foreign}
=============================================================================
