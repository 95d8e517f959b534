-------------------------------- MODULE Boot --------------------------------
(***************************************************************************)
(* The start of the firmware (app_main, key_init and httpd_init) and the   *)
(* web server's thread, which the SDK starts first and which may be asked  *)
(* for a page at any moment (src/src/app_main.c, user_gpio.c, httpd.c).    *)
(* The boot fills the table of pages entry by entry while the server may   *)
(* search it; a page switches or reads the plugs one by one while the key  *)
(* and the threads switch them too.                                        *)
(***************************************************************************)
EXTENDS Naturals, Sequences

CONSTANTS
    NPlugs,     \* PLUG_NUM
    MaxPages,   \* HTTPD_MAX_PAGES (10)
    Null        \* a NULL url or callback

\* The pages httpd_init adds, in this order; a page stands for its url and
\* for its callback.
Pages == <<"styles", "switch", "status">>
PageSet == {Pages[i] : i \in 1..Len(Pages)}

ASSUME BootAssumption == /\ NPlugs \in Nat \ {0} /\ MaxPages \in Nat
                         /\ Len(Pages) < MaxPages
                         /\ Null \notin PageSet \cup {"other"}

Plugs   == 0..(NPlugs - 1)
Entries == 0..(MaxPages - 1)

\* A request: the page, and what follows slot0= to slot5=, if anything.
Requests == [url : PageSet \cup {"other"}, slots : [Plugs -> SUBSET {0, 1}]]

VARIABLES
    bpc,        \* where app_main is
    added,      \* pages httpd_init has gone through
    table,      \* httpd_pages: [Entries -> [url, callback]]
    up,         \* what runs by now: "server", "url" (the url callback),
                \* "irq", "timer", "rtc", "udp"
    on,         \* [Plugs -> 0..1]: relay and record
    samples,    \* key_time, up to what a press needs
    spc,        \* where the server's thread is
    req,        \* its request
    p,          \* the entry or plug it looks at
    shown       \* the status it has put together

(***************************************************************************)
(* Auxiliary variables, read by the properties only.                       *)
(***************************************************************************)
VARIABLES
    onStart,    \* on when the request came
    touched     \* plugs others switched since then

boot   == <<bpc, added, table, up>>
server == <<spc, req, p, shown>>
aux    == <<onStart, touched>>
vars   == <<boot, on, samples, server, aux>>

ShortMin == 2   \* samples of a short press
Dark     == [i \in Plugs |-> 0]

Init ==
    /\ bpc = "server" /\ added = 0 /\ up = {}
    /\ table = [i \in Entries |-> [url |-> Null, callback |-> Null]]
    /\ on = Dark /\ samples = 0
    /\ spc = "idle" /\ req = [url |-> "other", slots |-> [i \in Plugs |-> {}]]
    /\ p = 0 /\ shown = Dark
    /\ onStart = on /\ touched = {}

-----------------------------------------------------------------------------
(***************************************************************************)
(* app_main.  ok tells whether the SDK call of a step succeeds.            *)
(***************************************************************************)
BootStep(from, to) == bpc = from /\ bpc' = to
Unbooted           == UNCHANGED <<on, samples, server, aux>>

\* A failure is printed only.
Starts(what, ok) == up' = IF ok THEN up \cup {what} ELSE up

\* Mutant: the threads are started before key_init.
StartServerAndThreads(ok) ==
    /\ BootStep("server", "mutex")
    /\ up' = (IF ok THEN {"server"} ELSE {}) \cup {"rtc", "udp"}
    /\ UNCHANGED <<added, table>> /\ Unbooted

StartServer(ok) ==
    /\ BootStep("server", "mutex")
    /\ Starts("server", ok)
    /\ UNCHANGED <<added, table>> /\ Unbooted

\* key_init returns early without its mutex, and without its interrupt.
KeyMutex(ok) ==
    /\ BootStep("mutex", IF ok THEN "irq" ELSE "rtc")
    /\ UNCHANGED <<added, table, up>> /\ Unbooted

KeyInterrupt(ok) ==
    /\ BootStep("irq", IF ok THEN "timer" ELSE "rtc")
    /\ Starts("irq", ok)
    /\ UNCHANGED <<added, table>> /\ Unbooted

\* hftimer_start has nothing to start if hftimer_create failed.
StartTimer(ok) ==
    /\ BootStep("timer", "defaults")
    /\ Starts("timer", ok)
    /\ UNCHANGED <<added, table>> /\ Unbooted

\* appRestoreDefault clears the records; the pins it leaves alone.
RestoreDefault ==
    /\ BootStep("defaults", "rtc")
    /\ on' = Dark
    /\ UNCHANGED <<added, table, up, samples, server, aux>>

RtcInit ==
    /\ BootStep("rtc", "udp")
    /\ Starts("rtc", TRUE)
    /\ UNCHANGED <<added, table>> /\ Unbooted

UdpInit ==
    /\ BootStep("udp", "register")
    /\ Starts("udp", TRUE)
    /\ UNCHANGED <<added, table>> /\ Unbooted

Register(ok) ==
    /\ BootStep("register", "url")
    /\ Starts("url", ok)
    /\ UNCHANGED <<added, table>> /\ Unbooted

(***************************************************************************)
(* httpd_add_page: the first free entry is taken, its url is written and   *)
(* then its callback.  A full table takes no page.                         *)
(***************************************************************************)
Free == {i \in Entries : table[i].url = Null}
First(S) == CHOOSE i \in S : \A k \in S : i <= k

AddUrl ==
    /\ BootStep("url", "callback")
    /\ Free # {}
    /\ table' = [table EXCEPT ![First(Free)].url = Pages[added + 1]]
    /\ UNCHANGED <<added, up>> /\ Unbooted

\* Mutant: the callbacks are counted from the end of the list.
AddCallbackReversed ==
    /\ BootStep("callback", IF added + 1 < Len(Pages) THEN "url" ELSE "wifi")
    /\ table' = [table EXCEPT ![added].callback = Pages[Len(Pages) - added]]
    /\ added' = added + 1
    /\ UNCHANGED up /\ Unbooted

AddCallback ==
    /\ BootStep("callback", IF added + 1 < Len(Pages) THEN "url" ELSE "wifi")
    /\ table' = [table EXCEPT ![added].callback = Pages[added + 1]]
    /\ added' = added + 1
    /\ UNCHANGED up /\ Unbooted

\* The wait for the network ends, and mDNS starts.
NetworkIsUp ==
    /\ BootStep("wifi", "done")
    /\ UNCHANGED <<added, table, up>> /\ Unbooted

-----------------------------------------------------------------------------
(***************************************************************************)
(* The server's thread: httpd_callback and the pages.                      *)
(***************************************************************************)
ServerStep(from, to) == spc = from /\ spc' = to

\* The url callback is called for whatever the SDK does not serve itself.
Request(r) ==
    /\ {"server", "url"} \subseteq up
    /\ ServerStep("idle", "search")
    /\ req' = r /\ p' = 0
    /\ onStart' = on /\ touched' = {}
    /\ UNCHANGED <<boot, on, samples, shown>>

\* Mutant: an unknown url is looked for once more.
SearchAgain ==
    /\ spc = "search"
    /\ CASE table[p].url = Null    -> p' = 0 /\ UNCHANGED spc
         [] table[p].url = req.url -> spc' = "call" /\ UNCHANGED p
         [] OTHER                  -> p' = p + 1 /\ UNCHANGED spc
    /\ UNCHANGED <<boot, on, samples, req, shown, aux>>

\* Mutant: the search does not end at an empty entry.
SearchPastEmpty ==
    /\ spc = "search"
    /\ CASE table[p].url = req.url -> spc' = "call" /\ UNCHANGED p
         [] OTHER                  -> p' = p + 1 /\ UNCHANGED spc
    /\ UNCHANGED <<boot, on, samples, req, shown, aux>>

\* One round of the search, which an empty entry ends.
Search ==
    /\ spc = "search"
    /\ CASE table[p].url = Null    -> spc' = "idle" /\ p' = 0
         [] table[p].url = req.url -> spc' = "call" /\ UNCHANGED p
         [] OTHER                  -> p' = p + 1 /\ UNCHANGED spc
    /\ UNCHANGED <<boot, on, samples, req, shown, aux>>

\* Mutant: the digit is taken for the number.
WantedDigit(r, i) == IF 0 \in r.slots[i] THEN 48 ELSE 49

\* httpd_arg_find wants every slot; slotN=0 is looked for first.
Complete(r)  == \A i \in Plugs : r.slots[i] # {}
Wanted(r, i) == IF 0 \in r.slots[i] THEN 0 ELSE 1

\* Mutant: a missing slot is taken for a 1.
CallUnchecked ==
    /\ spc = "call"
    /\ spc' = CASE table[p].callback = "switch" -> "switch"
                [] table[p].callback = "status" -> "status"
                [] table[p].callback = Null     -> "fault"
                [] OTHER                        -> "idle"
    /\ p' = 0
    /\ UNCHANGED <<boot, on, samples, req, shown, aux>>

\* The callback is called, NULL if it is not there yet; /styles.css is
\* constant text.
Call ==
    /\ spc = "call"
    /\ spc' = CASE table[p].callback = "switch" /\ Complete(req) -> "switch"
                [] table[p].callback = "status" -> "status"
                [] table[p].callback = Null     -> "fault"
                [] OTHER                        -> "idle"
    /\ p' = 0
    /\ UNCHANGED <<boot, on, samples, req, shown, aux>>

ToNextPlug(last) == IF p < NPlugs - 1 THEN p' = p + 1 /\ UNCHANGED spc
                                      ELSE p' = 0 /\ spc' = last

\* switch_cbk: json_plug_analysis of one plug after the other.
Switch ==
    /\ spc = "switch"
    /\ on' = [on EXCEPT ![p] = Wanted(req, p)]
    /\ ToNextPlug("switched")
    /\ UNCHANGED <<boot, samples, req, shown, aux>>

\* Mutant: the status of the first plug is shown for every plug.
StatusOfFirst ==
    /\ spc = "status"
    /\ shown' = [shown EXCEPT ![p] = on[0]]
    /\ ToNextPlug("shown")
    /\ UNCHANGED <<boot, on, samples, req, aux>>

\* status_cbk reads one plug after the other.
Status ==
    /\ spc = "status"
    /\ shown' = [shown EXCEPT ![p] = on[p]]
    /\ ToNextPlug("shown")
    /\ UNCHANGED <<boot, on, samples, req, aux>>

Reply ==
    /\ spc \in {"switched", "shown"}
    /\ spc' = "idle" /\ shown' = Dark
    /\ UNCHANGED <<boot, on, samples, req, p, aux>>

\* A call of address 0 ends in a reset.
Reset ==
    /\ spc = "fault"
    /\ bpc' = "server" /\ added' = 0 /\ up' = {}
    /\ table' = [i \in Entries |-> [url |-> Null, callback |-> Null]]
    /\ on' = Dark /\ samples' = 0
    /\ spc' = "idle" /\ req' = [url |-> "other", slots |-> [i \in Plugs |-> {}]]
    /\ p' = 0 /\ shown' = Dark
    /\ onStart' = Dark /\ touched' = {}

-----------------------------------------------------------------------------
(***************************************************************************)
(* The key and the threads.                                                *)
(***************************************************************************)

\* The key's timer sees the key down.  Its first period of 50 ms is longer
\* than the step of app_main that follows hftimer_start.
Sample ==
    /\ "timer" \in up /\ bpc # "defaults"
    /\ samples < ShortMin
    /\ samples' = samples + 1
    /\ UNCHANGED <<boot, on, server, aux>>

\* The interrupt of its release: all off, or all on, or nothing if the press
\* was too long or the key bounces.
KeyPress ==
    /\ "irq" \in up
    /\ samples' = 0
    /\ \/ /\ samples = ShortMin
          /\ on' = [i \in Plugs |-> IF on = Dark THEN 1 ELSE 0]
          /\ touched' = Plugs
       \/ UNCHANGED <<on, touched>>
    /\ UNCHANGED <<boot, server, onStart>>

\* A command or a due task switches plug i.
ThreadSets(i, y) ==
    /\ up \cap {"rtc", "udp"} # {}
    /\ on' = [on EXCEPT ![i] = y]
    /\ touched' = touched \cup {i}
    /\ UNCHANGED <<boot, samples, server, onStart>>

-----------------------------------------------------------------------------
Booting == \/ \E ok \in BOOLEAN : StartServer(ok) \/ KeyMutex(ok) \/ KeyInterrupt(ok)
                                 \/ StartTimer(ok) \/ Register(ok)
           \/ RestoreDefault \/ RtcInit \/ UdpInit
           \/ AddUrl \/ AddCallback \/ NetworkIsUp

Serving == Search \/ Call \/ Switch \/ Status \/ Reply \/ Reset

Next == \/ Booting
        \/ \E r \in Requests : Request(r)
        \/ Serving
        \/ Sample \/ KeyPress
        \/ \E i \in Plugs, y \in {0, 1} : ThreadSets(i, y)

\* The server's thread runs; the network need never come up.
Spec == Init /\ [][Next]_vars /\ WF_vars(Serving)

-----------------------------------------------------------------------------
(***************************************************************************)
(* Properties.                                                             *)
(***************************************************************************)
TypeOK ==
    /\ bpc \in {"server", "mutex", "irq", "timer", "defaults", "rtc", "udp",
                "register", "url", "callback", "wifi", "done"}
    /\ added \in 0..Len(Pages)
    /\ table \in [Entries -> [url : PageSet \cup {Null}, callback : PageSet \cup {Null}]]
    /\ up \subseteq {"server", "url", "irq", "timer", "rtc", "udp"}
    /\ on \in [Plugs -> {0, 1}] /\ onStart \in [Plugs -> {0, 1}]
    /\ samples \in 0..ShortMin
    /\ spc \in {"idle", "search", "call", "switch", "switched", "status",
                "shown", "fault"}
    /\ req \in Requests /\ p \in Nat /\ shown \in [Plugs -> {0, 1}]
    /\ touched \subseteq Plugs

\* The server never looks behind the table, and what it is about to call has
\* the url it was asked for (httpd.c:145-158).
SearchStaysInTable ==
    /\ spc \in {"search", "call"} => p \in Entries
    /\ spc = "call" => table[p].url = req.url

\* It calls that page's own callback, or NULL: this can happen only for the
\* page being added at this moment (httpd.c:132-133).
OwnCallback ==
    spc = "call" =>
        \/ table[p].callback = req.url
        \/ table[p].callback = Null /\ bpc = "callback" /\ p = added

\* The defaults are restored before anybody has switched a plug on, so the
\* cleared records never belie a relay (user_gpio.c:264-265, app_main.c:415-418).
DefaultsComeFirst == [][RestoreDefault => on = Dark]_vars

\* A /switch with every slot sets every plug, any other request sets none,
\* but for what others did meanwhile (httpd.c:188-208).
SwitchIsWhole ==
    /\ spc = "switched" => \A i \in Plugs \ touched : on[i] = Wanted(req, i)
    /\ spc \in {"switch", "switched"} => Complete(req) /\ req.url = "switch"

\* The status shows plugs as they are, unless they were switched while the
\* page was put together (httpd.c:227).
StatusIsTrue ==
    spc = "shown" => \A i \in Plugs \ touched : shown[i] = on[i]

\* Every request comes to an end (httpd.c:145-160).
RequestsEnd == spc # "idle" ~> spc = "idle"
=============================================================================
