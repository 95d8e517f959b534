----------------------------- MODULE MCCommand ------------------------------
(***************************************************************************)
(* Command with two plugs of two tasks and three settings, the third of    *)
(* which is mqtt_port.                                                     *)
(***************************************************************************)
EXTENDS Command

CONSTANTS old, new, long

MCTexts   == {old, new, long}
MCPlain   == {old, new}
MCNumbers == {-1, 0, 1, 2, 257}
MCLevels  == {0}

Msg(report, name, mac, asked) ==
    [report |-> report, name |-> name, mac |-> mac,
     ask |-> [c \in Cells |-> IF c \in DOMAIN asked THEN asked[c] ELSE Absent]]

Order(hour, action, on) ==
    [f \in Fields |-> CASE f = "hour" -> hour [] f = "action" -> action
                        [] f = "on" -> on [] OTHER -> 0]
OnlySwitch(a, b) == [c \in Ons |-> IF c[2] = 0 THEN a ELSE b]

\* switches, one of them with a number beyond a byte
SwitchBoth == Msg(FALSE, TRUE, FALSE, OnlySwitch(257, 2))
\* a task, an incomplete one, and the other plug's name
TaskAndName == Msg(FALSE, FALSE, TRUE,
    [c \in {<<"task", 0, 1>>, <<"task", 1, 0>>, <<"name", 1>>} |->
        CASE c = <<"task", 0, 1>> -> Order(-1, 257, 1)
          [] c = <<"task", 1, 0>> -> Bad
          [] OTHER -> new])
\* a setting too long, one of the wrong type, a port, a report, and a switch
\* that is no number
SettingAndReport == Msg(TRUE, TRUE, TRUE,
    [c \in Settings \cup Ons |-> IF c = <<"setting", 2>> THEN long
                                 ELSE IF c = Port THEN 257 ELSE Bad])
\* a task over a task, and a name too long
Rearm == Msg(TRUE, TRUE, FALSE, [c \in {<<"task", 0, 1>>, <<"name", 1>>} |->
            IF c[1] = "task" THEN Order(0, 0, 1) ELSE long])
\* for another device, with a report
Foreign == Msg(TRUE, FALSE, FALSE, OnlySwitch(1, 1))

MCCommands == {SwitchBoth, TaskAndName, SettingAndReport, Rearm, Foreign}
=============================================================================
