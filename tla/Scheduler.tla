----------------------------- MODULE Scheduler ------------------------------
(***************************************************************************)
(* The timed tasks of src/src/user_rtc.c.  A timer counts seconds and      *)
(* breaks them down into the struct tm that rtc_thread_func shares; the    *)
(* thread loops without sleeping, asks NTP for the time in every tenth     *)
(* minute, and compares every task with the clock.  A task is edited by    *)
(* json_plug_task_analysis (user_function.c) in the udp thread, one field  *)
(* at a time and without a lock, while the thread reads it.                *)
(*                                                                         *)
(* Time is counted in seconds of one week.                                 *)
(***************************************************************************)
EXTENDS Integers, FiniteSets

CONSTANTS
    NPlugs, NSlots,         \* PLUG_NUM, PLUG_TIME_TASK_NUM
    SPM, MPH, HPD, DPW,     \* seconds, minutes, hours and days: 60 60 24 7
    Sync,                   \* NTP is asked in minutes divisible by it: 10
    Boot,                   \* t_t until the first tick: 2019 (user_rtc.c:28)
    Zone,                   \* what t_t is ahead of rtctimes: 8 * 3600
    Drift,                  \* what NTP may add to the clock, in seconds
    NewTasks,               \* the tasks the user may ask for
    Levels,                 \* what others may set a relay to
    MaxEdits,               \* bound: tasks written
    None                    \* no edit in progress

\* A minute has several seconds, and a slot's number fits a byte.
ASSUME ClockAssumption ==
    /\ \A n \in {NPlugs, NSlots, SPM, MPH, HPD, DPW, Sync} : n \in Nat \ {0}
    /\ SPM > 1 /\ NSlots <= 256
    /\ Boot \in Nat /\ Zone \in Nat /\ Drift \subseteq Nat /\ MaxEdits \in Nat

Week  == SPM * MPH * HPD * DPW
Plugs == 0..(NPlugs - 1)
Tasks == 0..(NPlugs * NSlots - 1)   \* task[j] of plug[i] is number i*NSlots+j

PlugOf(p) == p \div NSlots
SlotOf(p) == p % NSlots

Sec(n)  == n % SPM
Min(n)  == (n \div SPM) % MPH
Hour(n) == (n \div (SPM * MPH)) % HPD
Wday(n) == (n \div (SPM * MPH * HPD)) % DPW   \* 0 is Sunday

\* A task has five bytes, and nothing keeps its hour below 24; repeat is the
\* set of the bits that are 1.
Task == [hour : 0..255, minute : 0..255, repeat : SUBSET (0..7),
         action : 0..255, on : 0..255]

\* What a command asks for are five integers of JSON.
Order == [hour : Int, minute : Int, repeat : SUBSET Nat, action : Int, on : Int]

ASSUME InputsAssumption == NewTasks \subseteq Order /\ Levels \subseteq 0..255

VARIABLES
    rtctimes,   \* the seconds counter
    t_t,        \* the broken-down time, as a second of the week
    ntpok,      \* ntptime_succeed
    task,       \* [Tasks -> Task]
    on,         \* [Plugs -> 0..255]: u_config.plug[i].on
    rpc,        \* where rtc_thread_func is
    pos,        \* the task it looks at
    rep,        \* its local copy of repeat
    upd,        \* update_user_config_flag
    task_flag,  \* [Plugs -> 0..255]: unsigned char, -1 is 255
    edit,       \* the edit in progress: [of: a task number, new: Order], or None
    written,    \* fields it has written
    edits       \* edits begun

(***************************************************************************)
(* Auxiliary variables.  passed alone guards an action (Tick): it states   *)
(* the timing assumption that a whole pass fits into every second.         *)
(***************************************************************************)
VARIABLES
    fresh,      \* the pass in progress began after the last tick
    passed,     \* a whole pass was made since the last tick
    due,        \* tasks that were due when this second began
    calm,       \* nobody edited a task or set a relay in this second, nor did
                \* a firing or a stale copy of repeat hang over from the last
    touched,    \* the task at pos was edited since the thread looked at it
    was,        \* it was due at some moment since then, or the clock jumped
    shots       \* [Tasks -> times it fired once-only since it was armed]

clock   == <<rtctimes, t_t>>
thread  == <<ntpok, rpc, pos, rep, upd, task_flag>>
editing == <<edit, written, edits>>
aux     == <<fresh, passed, due, calm, touched, was, shots>>
vars    == <<clock, thread, task, on, editing, aux>>

Off == [hour |-> 0, minute |-> 0, repeat |-> {}, action |-> 1, on |-> 0]

\* The initializer of task_flag has five values for six plugs.
Init ==
    /\ rtctimes = 0 /\ t_t = Boot % Week
    /\ ntpok = FALSE /\ rpc = "loop" /\ pos = 0 /\ rep = {} /\ upd = FALSE
    /\ task_flag = [i \in Plugs |-> IF i = NPlugs - 1 THEN 0 ELSE 255]
    /\ task = [p \in Tasks |-> Off]
    /\ on = [i \in Plugs |-> 0]
    /\ edit = None /\ written = 0 /\ edits = 0
    /\ fresh = FALSE /\ passed = FALSE /\ due = {} /\ calm = FALSE
    /\ touched = FALSE /\ was = FALSE /\ shots = [p \in Tasks |-> 0]

-----------------------------------------------------------------------------
(***************************************************************************)
(* When a task matches the clock.                                          *)
(***************************************************************************)

\* repeat & (1 << (tm_wday - 1)); on Sunday the shift is by -1, which the
\* processor's register shift (by 255) turns into 0.
DayMatches(repeat, n) ==
    repeat = {} \/ (Wday(n) # 0 /\ Wday(n) - 1 \in repeat)

\* The places of the thread where it has not yet compared everything.
Comparing == {"second", "minute", "hour", "day"}

Matches(k, repeat, n) ==
    /\ Sec(n) = 0 /\ Min(n) = k.minute /\ Hour(n) = k.hour
    /\ DayMatches(repeat, n)

IsDue(p, n) == task[p].on # 0 /\ Matches(task[p], task[p].repeat, n)

-----------------------------------------------------------------------------
(***************************************************************************)
(* The timer: rtctime_timeout_handler.                                     *)
(***************************************************************************)

\* What the comparison in progress is to know of a change of t_t.
Noticed(jump) == was' = (rpc \in Comparing
                            /\ (was \/ Matches(task[pos], rep, t_t') \/ jump))

Tick ==
    /\ passed
    /\ rtctimes' = (rtctimes + 1) % Week
    /\ t_t' = (rtctimes' + Zone) % Week
    /\ fresh' = FALSE /\ passed' = FALSE
    /\ due' = {p \in Tasks : IsDue(p, t_t')}
    /\ calm' = /\ edit = None /\ rpc \notin {"switch", "disarm"}
               /\ rpc \in Comparing => ~touched
    /\ Noticed(t_t' # (t_t + 1) % Week)
    /\ UNCHANGED <<thread, task, on, editing, touched, shots>>

\* printtime, which the key's timer calls: the broken-down time follows the
\* counter without a tick, so it may jump after an answer of NTP.
PrintTime ==
    /\ t_t' = (rtctimes + Zone) % Week
    /\ t_t' # t_t
    /\ due' = {} /\ calm' = FALSE
    /\ Noticed(TRUE)
    /\ UNCHANGED <<rtctimes, thread, task, on, editing, fresh, passed, touched,
                   shots>>

-----------------------------------------------------------------------------
(***************************************************************************)
(* rtc_thread_func.                                                        *)
(***************************************************************************)
\* The loop begins: NTP is asked in every tenth minute until it answers.
Loop ==
    /\ rpc = "loop"
    /\ fresh' = TRUE
    /\ IF Min(t_t) % Sync = 0
       THEN rpc' = (IF ntpok THEN "look" ELSE "ntp") /\ UNCHANGED ntpok
       ELSE rpc' = "look" /\ ntpok' = FALSE
    /\ UNCHANGED <<clock, task, on, pos, rep, upd, task_flag, editing,
                   passed, due, calm, touched, was, shots>>

\* update_rtctime: the counter is set, the broken-down time is not.
NtpAnswers(d) ==
    /\ rpc = "ntp"
    /\ rtctimes' = (rtctimes + d) % Week
    /\ ntpok' = TRUE
    /\ rpc' = "look"
    /\ UNCHANGED <<t_t, task, on, pos, rep, upd, task_flag, editing, aux>>

\* Mutant: the thread asks until it gets an answer.
NtpRetries ==
    /\ rpc = "ntp"
    /\ rpc' = "loop"
    /\ UNCHANGED <<clock, ntpok, task, on, pos, rep, upd, task_flag, editing, aux>>

NtpFails ==
    /\ rpc = "ntp"
    /\ rpc' = "look"
    /\ UNCHANGED <<clock, ntpok, task, on, pos, rep, upd, task_flag, editing, aux>>

\* Mutant: the pass leaves out the last task.
AdvanceEarly(flag) ==
    IF pos + 1 < NPlugs * NSlots - 1
    THEN rpc' = "look" /\ pos' = pos + 1 /\ UNCHANGED passed
    ELSE /\ pos' = 0
         /\ passed' = (passed \/ fresh)
         /\ rpc' = IF flag THEN "report" ELSE "loop"

\* The loop over plugs and tasks goes on, or the pass ends, with a report if
\* flag says that something changed.
Advance(flag) ==
    IF pos < NPlugs * NSlots - 1
    THEN rpc' = "look" /\ pos' = pos + 1 /\ UNCHANGED passed
    ELSE /\ pos' = 0
         /\ passed' = (passed \/ fresh)
         /\ rpc' = IF flag THEN "report" ELSE "loop"

\* Mutant: a task is looked at whether it is switched on or not.
LookAtAll ==
    /\ rpc = "look"
    /\ touched' = (edit # None /\ edit.of = pos)
    /\ rpc' = "second" /\ rep' = task[pos].repeat
    /\ was' = Matches(task[pos], rep', t_t)
    /\ UNCHANGED <<clock, ntpok, task, on, pos, upd, task_flag, editing,
                   fresh, passed, due, calm, shots>>

\* A task that is switched on is looked at; its repeat is copied.
Look ==
    /\ rpc = "look"
    /\ touched' = (edit # None /\ edit.of = pos)
    /\ IF task[pos].on # 0
       THEN /\ rpc' = "second" /\ rep' = task[pos].repeat
            /\ was' = Matches(task[pos], rep', t_t)
            /\ UNCHANGED <<pos, passed>>
       ELSE Advance(upd) /\ UNCHANGED <<rep, was>>
    /\ UNCHANGED <<clock, ntpok, task, on, upd, task_flag, editing,
                   fresh, due, calm, shots>>

\* One field of the broken-down time is compared; the timer may change all of
\* them before the next one is.
Compare(from, equal, to) ==
    /\ rpc = from
    /\ IF equal THEN rpc' = to /\ UNCHANGED <<pos, passed, was>>
                ELSE Advance(upd) /\ was' = FALSE
    /\ UNCHANGED <<clock, ntpok, task, on, rep, upd, task_flag, editing,
                   fresh, due, calm, touched, shots>>

\* Mutant: the fields are compared from the hour down to the second.
MatchHourFirst ==
    \/ Compare("second", Hour(t_t) = task[pos].hour, "minute")
    \/ Compare("minute", Min(t_t) = task[pos].minute, "hour")
    \/ Compare("hour", Sec(t_t) = 0, "day")

Match ==
    \/ Compare("second", Sec(t_t) = 0, "minute")
    \/ Compare("minute", Min(t_t) = task[pos].minute, "hour")
    \/ Compare("hour", Hour(t_t) = task[pos].hour, "day")

\* The day is the last of them, and the task fires.
Fire ==
    /\ rpc = "day"
    /\ IF DayMatches(rep, t_t)
       THEN /\ rpc' = "switch"
            /\ shots' = [shots EXCEPT ![pos] = IF rep = {} /\ @ < 2 THEN @ + 1 ELSE @]
            /\ UNCHANGED <<pos, passed>>
       ELSE Advance(upd) /\ UNCHANGED shots
    /\ was' = FALSE
    /\ UNCHANGED <<clock, ntpok, task, on, rep, upd, task_flag, editing,
                   fresh, due, calm, touched>>

\* user_relay_set when the plug differs from the action.
Switch ==
    /\ rpc = "switch"
    /\ LET changes == on[PlugOf(pos)] # task[pos].action IN
       /\ on' = [on EXCEPT ![PlugOf(pos)] = task[pos].action]
       /\ upd' = (upd \/ changes)
       /\ IF rep = {} THEN rpc' = "disarm" /\ UNCHANGED <<pos, passed>>
                      ELSE Advance(upd \/ changes)
    /\ UNCHANGED <<clock, ntpok, task, rep, task_flag, editing,
                   fresh, due, calm, touched, was, shots>>

\* Mutant: the task that fired stays armed.
DisarmNothing ==
    /\ rpc = "disarm"
    /\ task_flag' = [task_flag EXCEPT ![PlugOf(pos)] = SlotOf(pos)]
    /\ upd' = TRUE
    /\ Advance(TRUE)
    /\ UNCHANGED <<clock, ntpok, task, on, rep, editing, fresh, due, calm,
                   touched, was, shots>>

\* A task without repeat is switched off and marked for the report.
Disarm ==
    /\ rpc = "disarm"
    /\ task_flag' = [task_flag EXCEPT ![PlugOf(pos)] = SlotOf(pos)]
    /\ task' = [task EXCEPT ![pos].on = 0]
    /\ upd' = TRUE
    /\ Advance(TRUE)
    /\ UNCHANGED <<clock, ntpok, on, rep, editing, fresh, due, calm,
                   touched, was, shots>>

\* The report carries the setting of every plug whose task_flag is >= 0, a
\* test every unsigned char passes; the flags are cleared.
Reported == {i \in Plugs : task_flag[i] >= 0}

Report ==
    /\ rpc = "report"
    /\ task_flag' = [i \in Plugs |-> IF i \in Reported THEN 255 ELSE task_flag[i]]
    /\ upd' = FALSE
    /\ rpc' = "loop"
    /\ UNCHANGED <<clock, ntpok, task, on, pos, rep, editing, fresh, passed, due,
                   calm, touched, was, shots>>

-----------------------------------------------------------------------------
(***************************************************************************)
(* The other contexts.                                                     *)
(***************************************************************************)

\* json_plug_task_analysis has a complete task and begins to write it.
BeginEdit(p, new) ==
    /\ edit = None /\ edits < MaxEdits
    /\ edit' = [of |-> p, new |-> new]
    /\ written' = 0 /\ edits' = edits + 1
    /\ calm' = FALSE
    /\ touched' = (touched \/ p = pos)
    /\ UNCHANGED <<clock, thread, task, on, fresh, passed, due, was, shots>>

Fields == <<"hour", "minute", "repeat", "action", "on">>

\* Mutant: the fields are as wide as the integers of JSON.
Unconverted(f, v) == v

\* valueint is an int, the field an unsigned char.
Byte(f, v) == IF f = "repeat" THEN v \cap (0..7) ELSE v % 256

WriteField ==
    /\ edit # None
    /\ LET f == Fields[written + 1] IN
       /\ task' = [task EXCEPT ![edit.of][f] = Byte(f, edit.new[f])]
       /\ shots' = IF f = "on" THEN [shots EXCEPT ![edit.of] = 0] ELSE shots
       /\ IF f = "on" THEN edit' = None /\ written' = 0
                      ELSE written' = written + 1 /\ UNCHANGED edit
    /\ calm' = FALSE
    /\ touched' = (touched \/ edit.of = pos)
    /\ UNCHANGED <<clock, thread, on, edits, fresh, passed, due, was>>

\* A command, httpd or the key sets a relay.
SetRelay(i, y) ==
    /\ on[i] # y
    /\ on' = [on EXCEPT ![i] = y]
    /\ calm' = FALSE
    /\ UNCHANGED <<clock, thread, task, editing, fresh, passed, due, touched,
                   was, shots>>

-----------------------------------------------------------------------------
Rtc == \/ Loop \/ (\E d \in Drift : NtpAnswers(d)) \/ NtpFails
       \/ Look \/ Match \/ Fire \/ Switch \/ Disarm \/ Report

Next ==
    \/ Tick \/ PrintTime
    \/ Rtc
    \/ \E p \in Tasks, new \in NewTasks : BeginEdit(p, new)
    \/ WriteField
    \/ \E i \in Plugs, y \in Levels : SetRelay(i, y)

\* The timer ticks, the thread loops and a begun edit ends.
Fairness == WF_vars(Tick) /\ WF_vars(Rtc) /\ WF_vars(WriteField)

Spec == Init /\ [][Next]_vars /\ Fairness

-----------------------------------------------------------------------------
(***************************************************************************)
(* Properties.                                                             *)
(***************************************************************************)
TypeOK ==
    /\ rtctimes \in 0..(Week - 1) /\ t_t \in 0..(Week - 1)
    /\ ntpok \in BOOLEAN /\ upd \in BOOLEAN
    /\ rpc \in {"loop", "ntp", "look", "switch", "disarm", "report"} \cup Comparing
    /\ pos \in Tasks /\ rep \in SUBSET (0..7)
    /\ task_flag \in [Plugs -> 0..255]
    /\ task \in [Tasks -> Task] /\ on \in [Plugs -> 0..255]
    /\ edit = None \/ (edit.of \in Tasks /\ edit.new \in NewTasks)
    /\ written \in 0..4 /\ edits \in 0..MaxEdits
    /\ fresh \in BOOLEAN /\ passed \in BOOLEAN /\ calm \in BOOLEAN
    /\ touched \in BOOLEAN /\ was \in BOOLEAN /\ due \subseteq Tasks
    /\ shots \in [Tasks -> 0..2]

\* A once-only task fires at most once between two edits of it, although the
\* thread meets it many times in its second, and whatever is edited meanwhile
\* (user_rtc.c:73-78).
OneShotFiresOnce == \A p \in Tasks : shots[p] <= 1

\* Tasks of the same plug that were due together and want different things.
Contested(i) == \E p, q \in due : /\ PlugOf(p) = i /\ PlugOf(q) = i
                                  /\ task[p].action # task[q].action

\* When a second ends in which a task was due and nobody interfered, the plug
\* is as the task wants it and a once-only task is disarmed, even if NTP was
\* asked in that second (user_rtc.c:35-83).
DueIsServed ==
    [][Tick /\ calm /\ edit = None
         => \A p \in due :
              /\ ~Contested(PlugOf(p)) => on[PlugOf(p)] = task[p].action
              /\ task[p].repeat = {} => task[p].on = 0]_vars

\* The thread disarms only the task it found due: a task that nobody touched
\* since it was looked at is a once-only task of this time (user_rtc.c:59-76).
DisarmsWhatFired ==
    [][Disarm /\ ~touched => task[pos].on # 0 /\ task[pos].repeat = {}]_vars

\* A task fires only if it was due at some moment since the thread began to
\* look at it, although the clock may go on between its fields: the second,
\* which a carry changes last to 0, is compared first.  Excused are a task
\* edited meanwhile and a clock that jumped (user_rtc.c:60-62).
FiresWhenDue == [][rpc = "day" /\ rpc' = "switch" /\ ~touched => was]_vars

\* An armed once-only task is disarmed or edited in the end, however often
\* NTP fails and the relays are set by others, unless its hour or minute is a
\* byte no clock shows: such a task is stored as any other is, and waits for
\* ever (user_rtc.c:35-83, user_function.c:298-299).
Shown(p) == task[p].hour < HPD /\ task[p].minute < MPH
Armed(p) == task[p].on # 0 /\ task[p].repeat = {} /\ Shown(p)
OneShotFires == \A p \in Tasks : Armed(p) ~> ~Armed(p)

\* appmain.h:32 gives bit 7 of repeat to a task that is due once, and the bits
\* 6 to 0 to Sunday to Monday: a task is served on the days it is marked for,
\* and one marked once on any day.
Documented(repeat, n) == 7 \in repeat \/ (Wday(n) + 6) % 7 \in repeat
RepeatAsDocumented ==
    [][Tick /\ calm /\ edit = None /\ Sec(t_t) = 0
         => \A p \in Tasks :
              /\ task[p].on # 0 /\ Documented(task[p].repeat, t_t)
              /\ Min(t_t) = task[p].minute /\ Hour(t_t) = task[p].hour
              => on[PlugOf(p)] = task[p].action]_vars
=============================================================================
