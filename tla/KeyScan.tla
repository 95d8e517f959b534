------------------------------ MODULE KeyScan -------------------------------
(***************************************************************************)
(* The key of the strip (src/src/user_gpio.c): a 50 ms timer callback      *)
(* counts in key_time how many samples saw the key down, and an interrupt  *)
(* on both edges of the pin reads the count, toggles the relays after a    *)
(* short press and clears the count.  key_time is a plain uint8_t, so the  *)
(* callback's key_time++ is a load and a store with room for the           *)
(* interrupt between them.                                                 *)
(*                                                                         *)
(* The relays are abstracted to relay_out's answer; Relays has the detail. *)
(***************************************************************************)
EXTENDS Integers

CONSTANTS
    ShortMin, ShortMax,  \* a short press has ShortMin..ShortMax-1 samples
    ReportAt,            \* count that reports and darkens the LED (180)
    LampAt,              \* count that lights the LED (190)
    StartAt,             \* count that starts SmartLink (203)
    WrapAbove, WrapTo    \* above WrapAbove (204) the count goes to WrapTo (189)

ASSUME ThresholdsAssumption ==
    /\ ShortMin \in Nat \ {0} /\ ShortMax \in Nat /\ ReportAt \in Nat
    /\ LampAt \in Nat /\ StartAt \in Nat /\ WrapAbove \in Nat /\ WrapTo \in Nat
    /\ ShortMin < ShortMax /\ ShortMax < ReportAt /\ ReportAt < LampAt
    /\ LampAt < StartAt /\ StartAt <= WrapAbove /\ WrapAbove < 255
    /\ ShortMax <= WrapTo /\ WrapTo <= WrapAbove

VARIABLES
    down,      \* the key pin is low: the key is pressed
    pend,      \* the edge interrupt is pending
    key_time,  \* uint8_t, shared by the callback and the interrupt
    tpc,       \* where the timer callback is
    reg,       \* the register key_time++ works in
    anyOn,     \* what relay_out answers
    led,       \* the LED pin
    smtlk      \* hfsmtlk_start was called: the module will reboot

(***************************************************************************)
(* Auxiliary variables: what the key really did.  They guard nothing.      *)
(***************************************************************************)
VARIABLES
    held,      \* samples that saw the key down since its last edge
    edge,      \* an edge came since the last sample that saw the key down
    answered,  \* short presses acted on since that sample
    torn       \* the last interrupt struck a callback that had sampled the
               \* key down and not yet finished counting

key  == <<key_time, tpc, reg>>
aux  == <<held, edge, answered, torn>>
vars == <<down, pend, key, anyOn, led, smtlk, aux>>

Saturate(n, max) == IF n < max THEN n ELSE max

MaxHeld == WrapAbove + 1   \* held counts no further
MaxAns  == 2               \* answered counts no further

Init ==
    /\ down = FALSE /\ pend = FALSE
    /\ key_time = 0 /\ tpc = "idle" /\ reg = 0
    /\ anyOn = FALSE /\ led = FALSE /\ smtlk = FALSE
    /\ held = 0 /\ edge = FALSE /\ answered = 0 /\ torn = FALSE

-----------------------------------------------------------------------------
(***************************************************************************)
(* The environment: the key's edges, bounces included, and the threads.    *)
(***************************************************************************)
Edge ==
    /\ down' = ~down
    /\ pend' = TRUE
    /\ edge' = TRUE
    /\ UNCHANGED <<key, anyOn, led, smtlk, held, answered, torn>>

\* A thread's user_relay_set; threads run when no callback does.
SetRelays(b) ==
    /\ ~pend /\ tpc = "idle"
    /\ anyOn' = b
    /\ led' = b
    /\ UNCHANGED <<down, pend, key, smtlk, aux>>

\* hfsmtlk_start ends in a reboot; until it does the callback keeps counting.
Reboot ==
    /\ smtlk
    /\ down' = down
    /\ pend' = FALSE
    /\ key_time' = 0 /\ tpc' = "idle" /\ reg' = 0
    /\ anyOn' = FALSE /\ led' = FALSE /\ smtlk' = FALSE
    /\ held' = 0 /\ edge' = FALSE /\ answered' = 0 /\ torn' = FALSE

-----------------------------------------------------------------------------
(***************************************************************************)
(* key_timeout_handler.  It begins when no interrupt is pending; whether   *)
(* an interrupt that comes later is served between its steps or after it   *)
(* is the closed SDK's affair: both may happen.                            *)
(***************************************************************************)
SampleDown ==
    /\ tpc = "idle" /\ ~pend
    /\ down
    /\ tpc' = "load"
    /\ held' = IF edge THEN 1 ELSE Saturate(held + 1, MaxHeld)
    /\ edge' = FALSE
    /\ answered' = 0
    /\ UNCHANGED <<down, pend, key_time, reg, anyOn, led, smtlk, torn>>

Load ==
    /\ tpc = "load"
    /\ reg' = key_time
    /\ tpc' = "store"
    /\ UNCHANGED <<down, pend, key_time, anyOn, led, smtlk, aux>>

Store ==
    /\ tpc = "store"
    /\ reg' = (reg + 1) % 256
    /\ key_time' = reg'
    /\ tpc' = "act"
    /\ UNCHANGED <<down, pend, anyOn, led, smtlk, aux>>

\* Mutant: key_time is a signed char in the wrap.
ActSigned(v) ==
    /\ tpc = "act"
    /\ led' = CASE v = ReportAt -> FALSE
                [] v = LampAt   -> TRUE
                [] v = StartAt  -> FALSE
                [] OTHER        -> led
    /\ smtlk' = (smtlk \/ v = StartAt)
    /\ key_time' = IF v > WrapAbove THEN v - 256 ELSE key_time
    /\ tpc' = "idle" /\ reg' = 0
    /\ UNCHANGED <<down, pend, anyOn, aux>>

\* Mutant: the count is not taken back.
ActNoWrap(v) ==
    /\ tpc = "act"
    /\ led' = CASE v = ReportAt -> FALSE
                [] v = LampAt   -> TRUE
                [] v = StartAt  -> FALSE
                [] OTHER        -> led
    /\ smtlk' = (smtlk \/ v = StartAt)
    /\ tpc' = "idle" /\ reg' = 0
    /\ UNCHANGED <<down, pend, key_time, anyOn, aux>>

\* The tests on key_time may use the register or read the variable again.
Act(v) ==
    /\ tpc = "act"
    /\ led' = CASE v = ReportAt -> FALSE
                [] v = LampAt   -> TRUE
                [] v = StartAt  -> FALSE
                [] OTHER        -> led
    /\ smtlk' = (smtlk \/ v = StartAt)
    /\ key_time' = IF v > WrapAbove THEN WrapTo ELSE key_time
    /\ tpc' = "idle" /\ reg' = 0
    /\ UNCHANGED <<down, pend, anyOn, aux>>

\* The key is up: relay_out is asked, and if nothing is on the LED goes dark.
\* Mutant: the else branch is missing.
SampleUpBlind ==
    /\ tpc = "idle" /\ ~pend
    /\ ~down
    /\ UNCHANGED vars

SampleUp ==
    /\ tpc = "idle" /\ ~pend
    /\ ~down
    /\ tpc' = IF anyOn THEN "idle" ELSE "dim"
    /\ UNCHANGED <<down, pend, key_time, reg, anyOn, led, smtlk, aux>>

Dim ==
    /\ tpc = "dim"
    /\ led' = FALSE
    /\ tpc' = "idle"
    /\ UNCHANGED <<down, pend, key_time, reg, anyOn, smtlk, aux>>

-----------------------------------------------------------------------------
(***************************************************************************)
(* key_rising_irq_handler, which runs on both edges.  key_short_press      *)
(* turns everything off if anything is on and everything on otherwise, and *)
(* leaves the LED showing the outcome.                                     *)
(***************************************************************************)
IsShort == key_time \in ShortMin..(ShortMax - 1) /\ ~down

ShortPress ==
    /\ IsShort
    /\ anyOn' = ~anyOn
    /\ led' = ~anyOn
    /\ answered' = Saturate(answered + 1, MaxAns)

NoPress ==
    /\ ~IsShort
    /\ UNCHANGED <<anyOn, led, answered>>

\* Mutant: the count survives the interrupt.
IrqKeepsCount ==
    /\ pend
    /\ ShortPress \/ NoPress
    /\ pend' = FALSE
    /\ torn' = (tpc \in {"load", "store", "act"})
    /\ UNCHANGED <<down, key, smtlk, held, edge>>

Irq ==
    /\ pend
    /\ ShortPress \/ NoPress
    /\ key_time' = 0
    /\ pend' = FALSE
    /\ torn' = (tpc \in {"load", "store", "act"})
    /\ UNCHANGED <<down, tpc, reg, smtlk, held, edge>>

-----------------------------------------------------------------------------
Timer == SampleDown \/ SampleUp \/ Load \/ Store \/ Dim
            \/ \E v \in {reg, key_time} : Act(v)

Next ==
    \/ Edge
    \/ \E b \in BOOLEAN : SetRelays(b)
    \/ Reboot
    \/ Timer
    \/ Irq

\* The timer is periodic and interrupts are served; nobody has to press.
Spec == Init /\ [][Next]_vars /\ WF_vars(Timer) /\ WF_vars(Irq)

-----------------------------------------------------------------------------
(***************************************************************************)
(* Properties.                                                             *)
(***************************************************************************)
TypeOK ==
    /\ down \in BOOLEAN /\ pend \in BOOLEAN /\ anyOn \in BOOLEAN
    /\ led \in BOOLEAN /\ smtlk \in BOOLEAN
    /\ key_time \in 0..255 /\ reg \in 0..255
    /\ tpc \in {"idle", "load", "store", "act", "dim"}
    /\ held \in 0..MaxHeld /\ answered \in 0..MaxAns
    /\ edge \in BOOLEAN /\ torn \in BOOLEAN

\* Between two callbacks key_time is never above the wrap: the uint8_t never
\* overflows to 0 under a held key, wherever the interrupt strikes
\* (user_gpio.c:159, 193).
CountBelowWrap ==
    /\ tpc \notin {"store", "act"} => key_time <= WrapAbove
    /\ key_time <= WrapAbove + 1

\* The step in which the interrupt toggles the relays.
Toggles == pend /\ ~pend' /\ smtlk' = smtlk /\ anyOn' # anyOn

\* However contacts bounce, and wherever the interrupt strikes, the relays
\* toggle at most twice between two samples that see the key down
\* (user_gpio.c:159, 208).  They toggle only once, and only after a press
\* whose samples are within the short range, unless this interrupt or the one
\* before struck a callback that was counting: the callback's store then
\* brings the count back that the interrupt has cleared, and a bounce may
\* toggle the relays back.
ToggleOncePerPress ==
    [][Toggles => /\ answered <= 1
                  /\ ~torn /\ ~torn' => answered = 0 /\ held \in ShortMin..(ShortMax - 1)]_vars

\* SmartLink, and the reboot it ends in, starts only when the key was
\* sampled down StartAt times without an edge, unless the last interrupt
\* struck a callback that was counting (user_gpio.c:184): the count from
\* before that edge then goes on behind it, and the hold may be shorter.
SmartLinkAfterHold ==
    [][~smtlk /\ smtlk' /\ ~torn => held >= StartAt]_vars

\* When the key is up and no relay is on, the LED the long press lit goes
\* dark, or the situation changes (user_gpio.c:198).
LedGoesDark ==
    (~down /\ ~anyOn) ~> (~led \/ down \/ anyOn)

-----------------------------------------------------------------------------
(***************************************************************************)
(* The inductive strengthening.                                            *)
(***************************************************************************)

\* What an interrupt between the load and the last test can leave behind.
CountInv ==
    /\ tpc \notin {"store", "act"} => key_time <= WrapAbove
    /\ tpc = "store" => reg <= WrapAbove /\ key_time \in {reg, 0}
    /\ tpc = "act" => reg <= WrapAbove + 1 /\ key_time \in {reg, 0}

\* A count k is the number of samples, up to the wrap.
Counts(k) == k = held \/ (held = MaxHeld /\ k >= WrapTo)

\* As long as no interrupt struck a counting callback, the count is the
\* number of samples since the last edge, or was cleared by that edge.
HoldInv ==
    /\ pend => edge
    /\ ~torn =>
         /\ tpc \in {"idle", "dim"} =>
              /\ key_time = 0 \/ (Counts(key_time) /\ answered = 0)
              /\ key_time = 0 /\ ~edge => held = 0
         /\ tpc \in {"load", "store", "act"} => answered = 0
         /\ tpc = "load"  => Counts(key_time + 1)
         /\ tpc = "store" => reg = key_time /\ Counts(reg + 1)
         /\ tpc = "act"   => reg = key_time /\ Counts(reg)
         /\ edge /\ ~pend => key_time = 0 /\ tpc \in {"idle", "dim"}

\* While the count is one of a short press, one press at most was acted on;
\* while the callback's store is still to come, one that was left a count of 0.
AnswerInv ==
    /\ key_time \in ShortMin..(ShortMax - 1) => answered <= 1
    /\ tpc \in {"load", "store"} => answered = 0 \/ (answered = 1 /\ key_time = 0)

IInv == TypeOK /\ CountInv /\ HoldInv /\ AnswerInv
=============================================================================
