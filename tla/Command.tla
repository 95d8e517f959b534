------------------------------ MODULE Command -------------------------------
(***************************************************************************)
(* A JSON command from its parsing to its answer: the functions            *)
(* user_function_cmd_received, json_plug_analysis and                      *)
(* json_plug_task_analysis of src/src/user_function.c, run by udp_thread,  *)
(* while other contexts set relays and the rtc thread disarms tasks.       *)
(*                                                                         *)
(* The configuration is a function from cells to values, and a command     *)
(* asks something, or nothing, of each cell:                               *)
(*   <<"setting", k>>  the k-th of deviceid, mqtt_ip, mqtt_port,           *)
(*                     mqtt_user and mqtt_password                         *)
(*   <<"on", x>>, <<"name", x>>, <<"task", x, j>>  of plug x               *)
(* A text is printed into an array of 32 bytes, with itself for a format.  *)
(* One that fits and has no % is stored as it is; any other leaves bytes   *)
(* nobody can tell in the array and, if it is long, in what lies behind.   *)
(***************************************************************************)
EXTENDS Integers, Sequences

CONSTANTS
    NSettings,  \* 5
    NPlugs,     \* PLUG_NUM
    NSlots,     \* PLUG_TIME_TASK_NUM
    Texts,      \* the texts of settings and names in JSON
    Plain,      \* those of less than 32 bytes without a %
    Numbers,    \* the integers in JSON
    Levels,     \* what others may set a relay to
    Lost,       \* bytes that a text not plain was printed into or over
    Absent,     \* the command has no such entry
    Bad,        \* the entry has the wrong type, or is a task without a field
    Commands    \* the commands that may arrive

Plugs == 0..(NPlugs - 1)
Slots == 0..(NSlots - 1)

Settings == {<<"setting", k>> : k \in 1..NSettings}
Ons      == {<<"on", x>> : x \in Plugs}
Names    == {<<"name", x>> : x \in Plugs}
Tasks    == {<<"task", x, j>> : x \in Plugs, j \in Slots}
Cells    == Settings \cup Ons \cup Names \cup Tasks

Port     == <<"setting", 3>>    \* mqtt_port, an int

\* Where a cell lies in memory: the settings, then plug for plug its name, its
\* switch and its tasks.  The linker may put deviceid ahead of u_config.
Place(c) == IF c \in Settings THEN c[2]
            ELSE NSettings + c[2] * (NSlots + 2)
                 + (IF c \in Names THEN 1 ELSE IF c \in Ons THEN 2 ELSE 3 + c[3])
Places   == 1..(NSettings + NPlugs * (NSlots + 2))

Fields == {"hour", "minute", "repeat", "action", "on"}
Task(numbers) == [Fields -> numbers]

\* What a cell may hold; bytes is 0..255, and what JSON has is Numbers.
Values(c, numbers) == IF c \in Ons THEN numbers
                      ELSE IF c \in Tasks THEN Task(numbers)
                      ELSE IF c = Port THEN Int
                      ELSE Texts

ASSUME SizesAssumption == /\ NSettings \in Nat /\ NPlugs \in Nat \ {0}
                          /\ NSlots \in Nat \ {0} /\ Numbers \subseteq Int
                          /\ Plain \subseteq Texts /\ Plain # {}
                          /\ Levels \subseteq 0..255
\* report: is it a device report?  name: is there a string?  mac: is it this
\* device's?  ask: what it asks of every cell.
ASSUME CommandsAssumption ==
    \A m \in Commands :
        /\ {m.report, m.name, m.mac} \subseteq BOOLEAN
        /\ DOMAIN m.ask = Cells
        /\ \A c \in Cells : m.ask[c] \in {Absent, Bad} \/ m.ask[c] \in Values(c, Numbers)

VARIABLES
    u_config,   \* [Cells -> values], with deviceid
    pc,         \* where the handler is
    x, j,       \* the plug and the task it looks at
    cmd,        \* the command; the last one when idle
    answer      \* json_send: [Cells -> values or Absent]

(***************************************************************************)
(* Auxiliary variables, read by the properties only.                       *)
(***************************************************************************)
VARIABLES
    before,     \* u_config when the command arrived
    touched,    \* cells others wrote since then
    again,      \* the command is the last one again, and nobody else has
                \* written anything since that one arrived
    sent        \* what the handler sent for the command

where == <<pc, x, j>>
aux   == <<before, touched, again, sent>>
vars  == <<u_config, where, cmd, answer, aux>>

Empty  == [c \in Cells |-> Absent]
NoCmd  == [report |-> FALSE, name |-> FALSE, mac |-> FALSE, ask |-> Empty]

\* appRestoreDefault; its texts are taken for one.
Default == [c \in Cells |->
              IF c \in Ons \/ c = Port THEN 0
              ELSE IF c \in Tasks THEN [f \in Fields |-> IF f = "action" THEN 1 ELSE 0]
              ELSE CHOOSE t \in Plain : TRUE]

Init ==
    /\ u_config = Default
    /\ pc = "idle" /\ x = 0 /\ j = 0
    /\ cmd = NoCmd /\ answer = Empty
    /\ before = u_config /\ touched = {} /\ again = FALSE /\ sent = <<>>

-----------------------------------------------------------------------------
(***************************************************************************)
(* What one entry of a command does to its cell.                           *)
(***************************************************************************)
Byte(n) == n % 256

\* Mutant: the fields of a task are as wide as the integers of JSON.
StoredInt(c, v) == IF c \in Ons THEN Byte(v) ELSE v

\* A relay's y and the fields of a task are bytes, mqtt_port and valueint are
\* ints.
Stored(c, v) == IF c \in Ons THEN Byte(v)
                ELSE IF c \in Tasks THEN [f \in Fields |-> Byte(v[f])]
                ELSE v

Asked(c)   == cmd.ask[c] # Absent
Written(c) == cmd.ask[c] \notin {Absent, Bad}

\* The command prints a text that is not plain into c.
Wild(c) == /\ Written(c) /\ cmd.ask[c] \notin Plain
           /\ c \in (Settings \ {Port}) \cup Names

\* c lies where a text of the command that is not plain begins, or behind.
Endangered(c) == \E w \in Cells : Wild(w) /\ Place(w) <= Place(c)

\* The cells of S are written as the command asks.  A text that is not plain
\* runs from its own cell to some place; S is written in the order of memory,
\* so that a later cell of S holds what it was given nevertheless.
Write(S) ==
    \E end \in [{w \in S : Wild(w)} -> Places] :
        u_config' = [c \in Cells |->
                       IF c \in S /\ Written(c) /\ ~Wild(c)
                       THEN Stored(c, cmd.ask[c])
                       ELSE IF \E w \in S : /\ Wild(w)
                                            /\ \/ w = c
                                               \/ Place(w) < Place(c) /\ Place(c) <= end[w]
                            THEN Lost ELSE u_config[c]]

\* Those of S that are in the command go into the answer.
Collect(S) ==
    answer' = [c \in Cells |-> IF c \in S /\ Asked(c) THEN u_config'[c] ELSE answer[c]]

-----------------------------------------------------------------------------
(***************************************************************************)
(* user_function_cmd_received.                                             *)
(***************************************************************************)

\* What does not parse is ignored.
Receive(m) ==
    /\ pc = "idle"
    /\ cmd' = m
    /\ pc' = IF m.report THEN "report" ELSE "dispatch"
    /\ answer' = Empty
    /\ before' = u_config /\ touched' = {} /\ sent' = <<>>
    /\ again' = (m = cmd /\ touched = {} /\ ~\E c \in Cells : Wild(c))
    /\ UNCHANGED <<u_config, x, j>>

\* Mutant: a device report is all that is asked.
ReportReturns ==
    /\ pc = "report"
    /\ sent' = Append(sent, "report")
    /\ pc' = "idle"
    /\ UNCHANGED <<u_config, x, j, cmd, answer, before, touched, again>>

Report ==
    /\ pc = "report"
    /\ sent' = Append(sent, "report")
    /\ pc' = "dispatch"
    /\ UNCHANGED <<u_config, x, j, cmd, answer, before, touched, again>>

\* Mutant: the test is missing.
DispatchAll ==
    /\ pc = "dispatch"
    /\ pc' = "settings"
    /\ UNCHANGED <<u_config, x, j, cmd, answer, aux>>

\* Any name will do; a mac must be this device's.
Addressed(m) == m.name \/ m.mac

Dispatch ==
    /\ pc = "dispatch"
    /\ pc' = IF Addressed(cmd) THEN "settings" ELSE "idle"
    /\ UNCHANGED <<u_config, x, j, cmd, answer, aux>>

\* No other context writes a setting.
DoSettings ==
    /\ pc = "settings"
    /\ Write(Settings) /\ Collect(Settings)
    /\ pc' = "on"
    /\ UNCHANGED <<x, j, cmd, aux>>

(***************************************************************************)
(* json_plug_analysis of plug x.                                           *)
(***************************************************************************)
\* Mutant: the relay is toggled.
PlugOnToggles ==
    /\ pc = "on"
    /\ u_config' = [c \in Cells |-> IF c = <<"on", x>> /\ Written(c)
                                    THEN (IF u_config[c] = 0 THEN 1 ELSE 0)
                                    ELSE u_config[c]]
    /\ pc' = "name"
    /\ UNCHANGED <<x, j, cmd, answer, aux>>

\* user_relay_set; the answer waits.
PlugOn ==
    /\ pc = "on"
    /\ Write({<<"on", x>>})
    /\ pc' = "name"
    /\ UNCHANGED <<x, j, cmd, answer, aux>>

PlugName ==
    /\ pc = "name"
    /\ Write({<<"name", x>>}) /\ Collect({<<"name", x>>})
    /\ pc' = "task"
    /\ UNCHANGED <<x, j, cmd, aux>>

\* json_plug_task_analysis of task j.
PlugTask ==
    /\ pc = "task"
    /\ Write({<<"task", x, j>>}) /\ Collect({<<"task", x, j>>})
    /\ IF j < NSlots - 1 THEN j' = j + 1 /\ UNCHANGED pc
                         ELSE j' = 0 /\ pc' = "answer"
    /\ UNCHANGED <<x, cmd, aux>>

\* Mutant: only a plug that was switched is reported.
PlugAnswerAsked ==
    /\ pc = "answer"
    /\ answer' = [answer EXCEPT ![<<"on", x>>] =
                    IF Asked(<<"on", x>>) THEN u_config[<<"on", x>>] ELSE @]
    /\ IF x < NPlugs - 1 THEN x' = x + 1 /\ pc' = "on"
                         ELSE x' = 0 /\ pc' = "send"
    /\ UNCHANGED <<u_config, j, cmd, aux>>

\* Every plug's switch goes into the answer, asked or not.
PlugAnswer ==
    /\ pc = "answer"
    /\ answer' = [answer EXCEPT ![<<"on", x>>] = u_config[<<"on", x>>]]
    /\ IF x < NPlugs - 1 THEN x' = x + 1 /\ pc' = "on"
                         ELSE x' = 0 /\ pc' = "send"
    /\ UNCHANGED <<u_config, j, cmd, aux>>

Send ==
    /\ pc = "send"
    /\ sent' = Append(sent, "answer")
    /\ pc' = "idle"
    /\ UNCHANGED <<u_config, x, j, cmd, answer, before, touched, again>>

-----------------------------------------------------------------------------
(***************************************************************************)
(* The other contexts.                                                     *)
(***************************************************************************)

\* A page, the key or a due task switches plug i; the relay's record is a
\* byte that can be told again.
SetRelay(i, y) ==
    /\ u_config' = [u_config EXCEPT ![<<"on", i>>] = y]
    /\ touched' = touched \cup {<<"on", i>>}
    /\ again' = FALSE
    /\ UNCHANGED <<where, cmd, answer, before, sent>>

\* The rtc thread disarms a once-only task.  Of lost bytes it may take one for
\* the switch of a task and clear it, and they are as lost as before.
Disarm(c) ==
    /\ u_config[c] # Lost /\ u_config[c]["on"] # 0
    /\ u_config' = [u_config EXCEPT ![c]["on"] = 0]
    /\ touched' = touched \cup {c}
    /\ again' = FALSE
    /\ UNCHANGED <<where, cmd, answer, before, sent>>

-----------------------------------------------------------------------------
Handler == \/ Report \/ Dispatch \/ DoSettings
           \/ PlugOn \/ PlugName \/ PlugTask \/ PlugAnswer \/ Send

Next == \/ \E m \in Commands : Receive(m)
        \/ Handler
        \/ \E i \in Plugs, y \in Levels : SetRelay(i, y)
        \/ \E c \in Tasks : Disarm(c)

Spec == Init /\ [][Next]_vars

-----------------------------------------------------------------------------
(***************************************************************************)
(* Properties.                                                             *)
(***************************************************************************)
TypeOK ==
    /\ DOMAIN u_config = Cells /\ DOMAIN answer = Cells
    /\ \A c \in Cells : /\ u_config[c] = Lost \/ u_config[c] \in Values(c, 0..255)
                        /\ answer[c] \in {Lost, Absent} \/ answer[c] \in Values(c, 0..255)
    /\ pc \in {"idle", "report", "dispatch", "settings", "on", "name", "task",
               "answer", "send"}
    /\ x \in Plugs /\ j \in Slots /\ cmd \in Commands \cup {NoCmd}
    /\ touched \subseteq Cells /\ again \in BOOLEAN

\* When the answer is sent, the command has been carried out: what it asks in
\* the right form is stored, every number as its low byte, and nothing else
\* has changed; a command for nobody here has changed nothing at all.  The
\* exception are cells that other contexts wrote meanwhile, and cells lost to
\* a text of this very command that is not plain, all of which lie at or
\* behind that text (user_function.c:72, 99-166, 298-302).
CarriedOut ==
    pc = "send" \/ (pc = "idle" /\ ~Addressed(cmd)) =>
        \A c \in Cells \ touched :
            \/ u_config[c] = IF pc = "send" /\ Written(c) THEN Stored(c, cmd.ask[c])
                                                        ELSE before[c]
            \/ pc = "send" /\ u_config[c] = Lost /\ Endangered(c)

\* The answer has the switch of every plug and whatever the command named,
\* with the values that hold when it is sent unless another context has just
\* written them; of lost bytes nothing is said (user_function.c:143-168, 241,
\* 256, 304).
AnswerIsTrue ==
    pc = "send" =>
        \A c \in Cells \ touched :
            LET told == c \in Ons \/ Asked(c) IN
            /\ ~told => answer[c] = Absent
            /\ told /\ u_config[c] # Lost => answer[c] = u_config[c]

\* A device report and an answer are both sent if both are asked for, in
\* this order, and once (user_function.c:47-65, 171).
SentAsAsked ==
    pc = "idle" /\ cmd # NoCmd =>
        sent = (IF cmd.report THEN <<"report">> ELSE <<>>)
               \o (IF Addressed(cmd) THEN <<"answer">> ELSE <<>>)

\* A datagram the network repeats changes nothing, if its texts are plain
\* (user_function.c:218, 298).
RepetitionIsHarmless == again => u_config = before
=============================================================================
