------------------------------- MODULE Relays -------------------------------
(***************************************************************************)
(* The relay bank of src/src/user_gpio.c: the GPIO level of every relay,   *)
(* the two copies of its recorded state (u_config and user_defaultconfig)  *)
(* and the LED, written by user_relay_set from every execution context of  *)
(* the firmware without a lock (keythread_lock is created, user_gpio.c:248,*)
(* and never taken).                                                       *)
(*                                                                         *)
(* One action is one access to shared memory or to a pin.  A context of    *)
(* higher priority runs to its end before a lower one resumes; threads of  *)
(* the same priority interleave.                                           *)
(***************************************************************************)
EXTENDS Naturals

CONSTANTS
    NPlugs,     \* PLUG_NUM (6 in the firmware)
    LowThreads, \* the threads of priority 1 that call user_relay_set: udp, rtc
    MidThreads, \* those of priority 2: httpd (app_main.c:393)
    KeyIrq,     \* the GPIO interrupt key_rising_irq_handler
    KeyTimer,   \* the 50 ms timer callback key_timeout_handler
    Vals        \* the uint8_t values passed as y

ASSUME NPlugsAssumption == NPlugs \in Nat \ {0}
ASSUME ValsAssumption   == Vals \subseteq 0..255
ASSUME CtxsAssumption   ==
    /\ KeyIrq # KeyTimer
    /\ LowThreads \cap MidThreads = {}
    /\ {KeyIrq, KeyTimer} \cap (LowThreads \cup MidThreads) = {}

Plugs   == 0..(NPlugs - 1)
Threads == LowThreads \cup MidThreads
Ctxs  == Threads \cup {KeyIrq, KeyTimer}

VARIABLES
    gpio,   \* [Plugs -> BOOLEAN], TRUE: the relay pin is driven high
    on,     \* u_config.plug[x].on
    defOn,  \* user_defaultconfig.plug[x].on
    led,    \* the LED pin
    pc,     \* what each context does next
    tgt,    \* argument x of the user_relay_set in progress
    last,   \* last x of the loop in progress (user_relay_set_all), else tgt
    val,    \* argument y of the user_relay_set in progress
    idx,    \* loop index of the relay_out in progress
    lit     \* the answer of the last relay_out, for user_led_set

(***************************************************************************)
(* Auxiliary variables: they record overlaps and never guard an action.    *)
(***************************************************************************)
VARIABLES
    raced,      \* plug x: two user_relay_set of x overlapped since its last
                \* undisturbed beginning
    stale,      \* context c: a record was written by another context since
                \* c began the relay_out whose answer it will show
    ledStale    \* the LED was last written from a stale answer

shared == <<gpio, on, defOn, led>>
call   == <<tgt, last, val>>
local  == <<pc, call, idx, lit>>
aux    == <<raced, stale, ledStale>>
vars   == <<shared, local, aux>>

PCs     == {"idle", "gpio", "def", "cfg", "scan", "lamp", "key", "dim"}
Reading == {"scan", "dim", "lamp"}  \* a relay_out answer is being formed or shown

-----------------------------------------------------------------------------
(***************************************************************************)
(* Scheduling.  The key interrupt preempts everything, the timer callback  *)
(* preempts threads, httpd preempts udp and rtc, and these two interleave. *)
(***************************************************************************)
Prio(c) == CASE c = KeyIrq         -> 4
             [] c = KeyTimer       -> 3
             [] c \in MidThreads   -> 2
             [] c \in LowThreads   -> 1

MayRun(c) == \A d \in Ctxs : pc[d] # "idle" => Prio(d) <= Prio(c)

At(c, label) == pc[c] = label /\ MayRun(c)

Goto(c, label) == pc' = [pc EXCEPT ![c] = label]

\* Context c writes a record: the answers others are forming may be stale.
Disturb(c) ==
    stale' = [d \in Ctxs |-> stale[d] \/ (d # c /\ pc[d] \in Reading)]

\* user_relay_set(i, y) is to be called for i = x..z.
Begin(c, x, z, y) ==
    /\ Goto(c, "gpio")
    /\ tgt'  = [tgt EXCEPT ![c] = x]
    /\ last' = [last EXCEPT ![c] = z]
    /\ val'  = [val EXCEPT ![c] = y]

\* The context is done; what it held is forgotten.
Return(c) ==
    /\ Goto(c, "idle")
    /\ tgt'  = [tgt EXCEPT ![c] = 0]
    /\ last' = [last EXCEPT ![c] = 0]
    /\ val'  = [val EXCEPT ![c] = 0]

Window(x) == {c \in Ctxs : pc[c] \in {"def", "cfg"} /\ tgt[c] = x}

-----------------------------------------------------------------------------
(***************************************************************************)
(* Calls.                                                                  *)
(***************************************************************************)

\* A thread calls user_relay_set(x, y).  Every caller passes x < PLUG_NUM.
CallSet(c, x, y) ==
    /\ At(c, "idle")
    /\ Begin(c, x, x, y)
    /\ UNCHANGED <<shared, idx, lit, aux>>

\* key_short_press starts with relay_out.
KeyPress ==
    /\ At(KeyIrq, "idle")
    /\ Goto(KeyIrq, "key")
    /\ UNCHANGED <<shared, call, lit, idx, aux>>

\* The timer finds the key released and asks relay_out whether to darken
\* the LED.
TimerReleased ==
    /\ At(KeyTimer, "idle")
    /\ Goto(KeyTimer, "dim")
    /\ UNCHANGED <<shared, call, lit, idx, aux>>

\* The timer finds the key held long: it shows progress on the LED.
TimerFeedback(b) ==
    /\ At(KeyTimer, "idle")
    /\ led' = b
    /\ ledStale' = TRUE
    /\ UNCHANGED <<gpio, on, defOn, local, raced, stale>>

-----------------------------------------------------------------------------
(***************************************************************************)
(* user_relay_set, one access at a time.                                   *)
(***************************************************************************)
\* Mutant: any y but 0 drives the relay high.
WriteGpioNonzero(c) ==
    LET x == tgt[c] IN
    /\ At(c, "gpio")
    /\ gpio'  = [gpio EXCEPT ![x] = (val[c] # 0)]
    /\ raced' = [raced EXCEPT ![x] = (Window(x) # {})]
    /\ Goto(c, "def")
    /\ UNCHANGED <<on, defOn, led, call, idx, lit, stale, ledStale>>

WriteGpio(c) ==
    LET x == tgt[c] IN
    /\ At(c, "gpio")
    /\ gpio'  = [gpio EXCEPT ![x] = (val[c] = 1)]
    /\ raced' = [raced EXCEPT ![x] = (Window(x) # {})]
    /\ Goto(c, "def")
    /\ UNCHANGED <<on, defOn, led, call, idx, lit, stale, ledStale>>

\* Mutant: the default record is forgotten.
WriteDefaultSkipped(c) ==
    /\ At(c, "def")
    /\ Disturb(c)
    /\ Goto(c, "cfg")
    /\ UNCHANGED <<gpio, on, defOn, led, call, idx, lit, raced, ledStale>>

WriteDefault(c) ==
    /\ At(c, "def")
    /\ defOn' = [defOn EXCEPT ![tgt[c]] = val[c]]
    /\ Disturb(c)
    /\ Goto(c, "cfg")
    /\ UNCHANGED <<gpio, on, led, call, idx, lit, raced, ledStale>>

WriteConfig(c) ==
    /\ At(c, "cfg")
    /\ on' = [on EXCEPT ![tgt[c]] = val[c]]
    /\ Disturb(c)
    /\ Goto(c, "scan")
    /\ UNCHANGED <<gpio, defOn, led, call, idx, lit, raced, ledStale>>

\* Mutant: the LED is switched on but never off (no else branch).
WriteLedOnly(c) ==
    /\ At(c, "lamp")
    /\ led' = (led \/ lit[c])
    /\ ledStale' = stale[c]
    /\ lit'   = [lit EXCEPT ![c] = FALSE]
    /\ stale' = [stale EXCEPT ![c] = FALSE]
    /\ \/ /\ tgt[c] < last[c]
          /\ Goto(c, "gpio")
          /\ tgt' = [tgt EXCEPT ![c] = @ + 1]
          /\ UNCHANGED <<last, val>>
       \/ /\ tgt[c] = last[c]
          /\ Return(c)
    /\ UNCHANGED <<gpio, on, defOn, idx, raced>>

WriteLed(c) ==
    /\ At(c, "lamp")
    /\ led' = lit[c]
    /\ ledStale' = stale[c]
    /\ lit'   = [lit EXCEPT ![c] = FALSE]
    /\ stale' = [stale EXCEPT ![c] = FALSE]
    /\ \/ /\ tgt[c] < last[c]
          /\ Goto(c, "gpio")
          /\ tgt' = [tgt EXCEPT ![c] = @ + 1]
          /\ UNCHANGED <<last, val>>
       \/ /\ tgt[c] = last[c]
          /\ Return(c)
    /\ UNCHANGED <<gpio, on, defOn, idx, raced>>

-----------------------------------------------------------------------------
(***************************************************************************)
(* relay_out: a loop over the plugs that returns at the first one lit in   *)
(* either record.  What the caller does with the answer depends on the     *)
(* place of the call.                                                      *)
(***************************************************************************)
PlugLit(x) == on[x] # 0 \/ defOn[x] # 0

\* user_relay_set and the timer's else branch show the answer on the LED;
\* key_short_press begins user_relay_set_all with its negation.
Answer(c, b) ==
    /\ idx' = [idx EXCEPT ![c] = 0]
    /\ \/ /\ pc[c] = "scan" \/ (pc[c] = "dim" /\ ~b)
          /\ Goto(c, "lamp")
          /\ lit' = [lit EXCEPT ![c] = b]
          /\ UNCHANGED <<call, stale>>
       \/ /\ pc[c] = "dim" /\ b
          /\ Return(c)
          /\ stale' = [stale EXCEPT ![c] = FALSE]
          /\ UNCHANGED lit
       \/ /\ pc[c] = "key"
          /\ Begin(c, 0, NPlugs - 1, IF b THEN 0 ELSE 1)
          /\ UNCHANGED <<lit, stale>>

Scanning(c) == pc[c] \in {"scan", "dim", "key"} /\ MayRun(c)

ScanLit(c) ==
    /\ Scanning(c)
    /\ PlugLit(idx[c])
    /\ Answer(c, TRUE)
    /\ UNCHANGED <<shared, raced, ledStale>>

\* Mutant: the loop runs one plug too far.
ScanNextPastEnd(c) ==
    /\ Scanning(c)
    /\ ~PlugLit(idx[c])
    /\ idx[c] < NPlugs
    /\ idx' = [idx EXCEPT ![c] = @ + 1]
    /\ UNCHANGED <<shared, pc, call, lit, aux>>

ScanNext(c) ==
    /\ Scanning(c)
    /\ ~PlugLit(idx[c])
    /\ idx[c] < NPlugs - 1
    /\ idx' = [idx EXCEPT ![c] = @ + 1]
    /\ UNCHANGED <<shared, pc, call, lit, aux>>

\* Mutant: the loop gives up at the first dark plug.
ScanDarkEarly(c) ==
    /\ Scanning(c)
    /\ ~PlugLit(idx[c])
    /\ Answer(c, FALSE)
    /\ UNCHANGED <<shared, raced, ledStale>>

ScanDark(c) ==
    /\ Scanning(c)
    /\ ~PlugLit(idx[c])
    /\ idx[c] = NPlugs - 1
    /\ Answer(c, FALSE)
    /\ UNCHANGED <<shared, raced, ledStale>>

-----------------------------------------------------------------------------
\* After appRestoreDefault: every record is 0, the LED is low and the relay
\* pins are at their reset level, low.
Init ==
    /\ gpio  = [x \in Plugs |-> FALSE]
    /\ on    = [x \in Plugs |-> 0]
    /\ defOn = [x \in Plugs |-> 0]
    /\ led   = FALSE
    /\ pc    = [c \in Ctxs |-> "idle"]
    /\ tgt   = [c \in Ctxs |-> 0]
    /\ last  = [c \in Ctxs |-> 0]
    /\ val   = [c \in Ctxs |-> 0]
    /\ idx   = [c \in Ctxs |-> 0]
    /\ lit   = [c \in Ctxs |-> FALSE]
    /\ raced = [x \in Plugs |-> FALSE]
    /\ stale = [c \in Ctxs |-> FALSE]
    /\ ledStale = FALSE

Step(c) ==
    \/ WriteGpio(c)
    \/ WriteDefault(c)
    \/ WriteConfig(c)
    \/ WriteLed(c)
    \/ ScanLit(c)
    \/ ScanNext(c)
    \/ ScanDark(c)

Next ==
    \/ \E c \in Threads, x \in Plugs, y \in Vals : CallSet(c, x, y)
    \/ KeyPress
    \/ TimerReleased
    \/ \E b \in BOOLEAN : TimerFeedback(b)
    \/ \E c \in Ctxs : Step(c)

Spec == Init /\ [][Next]_vars

-----------------------------------------------------------------------------
(***************************************************************************)
(* Properties.                                                             *)
(***************************************************************************)
Bytes == 0..255

TypeOK ==
    /\ gpio  \in [Plugs -> BOOLEAN]
    /\ on    \in [Plugs -> Bytes]
    /\ defOn \in [Plugs -> Bytes]
    /\ led   \in BOOLEAN
    /\ pc    \in [Ctxs -> PCs]
    /\ tgt   \in [Ctxs -> Plugs]
    /\ last  \in [Ctxs -> Plugs]
    /\ val   \in [Ctxs -> Bytes]
    /\ idx   \in [Ctxs -> Plugs]
    /\ lit   \in [Ctxs -> BOOLEAN]
    /\ raced \in [Plugs -> BOOLEAN]
    /\ stale \in [Ctxs -> BOOLEAN]
    /\ ledStale \in BOOLEAN

Quiet == \A c \in Ctxs : pc[c] = "idle"

AnyLit == \E x \in Plugs : PlugLit(x)

\* The relay pin of a plug agrees with what both records say of it.
Agrees(x) == gpio[x] = (on[x] = 1) /\ defOn[x] = on[x]

\* A plug nobody is writing agrees with its two records unless two calls of
\* user_relay_set for that same plug overlapped: calls for different plugs
\* never harm each other although nothing locks the bank, and one
\* undisturbed call repairs a plug (user_relay_set, user_gpio.c:67).
AgreesUnlessRaced ==
    \A x \in Plugs : Window(x) = {} /\ ~raced[x] => Agrees(x)

\* Contexts that have written a record and not yet shown it on the LED.
Pending == {c \in Ctxs : pc[c] \in {"cfg", "scan", "lamp"}}

\* Once every context has shown its change, the LED is what relay_out
\* answers, unless the last writer of the LED showed an answer that another
\* context's write had overtaken, or the long-press feedback took the LED
\* (user_gpio.c:78-81, 177-189, 198).
LedFollowsRecords ==
    Pending = {} /\ ~ledStale => led = AnyLit

\* appmain.h:40 says of u_config.plug[x].on that it "records the current
\* switch": when no call is in progress it tells whether the relay is on.
OnRecordsSwitch ==
    Quiet => \A x \in Plugs : gpio[x] = (on[x] = 1)

-----------------------------------------------------------------------------
(***************************************************************************)
(* The inductive strengthening behind AgreesUnlessRaced and                *)
(* LedFollowsRecords.                                                      *)
(***************************************************************************)

\* An unraced plug has at most one writer, and the writer's progress tells
\* which of the pin and the default record already hold its value.
WindowInv ==
    \A x \in Plugs : ~raced[x] =>
        \A c \in Window(x) :
            /\ \A d \in Window(x) : d = c
            /\ gpio[x] = (val[c] = 1)
            /\ pc[c] = "cfg" => defOn[x] = val[c]

\* A scan nobody disturbed has seen only dark plugs so far, and the answer
\* waiting to be shown is the truth.
ScanInv ==
    \A c \in Ctxs : ~stale[c] =>
        /\ pc[c] \in {"scan", "dim"} =>
              \A x \in Plugs : x < idx[c] => ~PlugLit(x)
        /\ pc[c] = "lamp" => lit[c] = AnyLit

\* Every relay_out starts its loop at plug 0.
IdxInv == \A c \in Ctxs : pc[c] \notin {"scan", "dim", "key"} => idx[c] = 0

\* The inductive invariant of the module.
IInv ==
    /\ TypeOK
    /\ AgreesUnlessRaced
    /\ LedFollowsRecords
    /\ WindowInv
    /\ IdxInv
    /\ ScanInv
=============================================================================
