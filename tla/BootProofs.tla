----------------------------- MODULE BootProofs -----------------------------
(***************************************************************************)
(* Proofs about Boot for any number of plugs and any size of the table     *)
(* that the pages do not fill: the web server finds whole pages, its pages *)
(* do what they say, and the defaults are restored in time.                *)
(***************************************************************************)
EXTENDS Boot, TLAPS

-----------------------------------------------------------------------------
(***************************************************************************)
(* The inductive invariant.                                                *)
(***************************************************************************)

\* The boot steps up to the restoring of the defaults, the others up to the
\* pages, and those that add the pages.
Early  == {"server", "mutex", "irq", "timer", "defaults"}
Middle == {"rtc", "udp", "register"}
Adding == {"url", "callback"}

\* Until the defaults are restored no switch can be operated: no thread runs,
\* no page can be asked for, and the key's timer has not fired.
EarlyInv ==
    bpc \in Early =>
        /\ up \subseteq {"server", "irq", "timer"}
        /\ bpc # "defaults" => "timer" \notin up
        /\ on = Dark /\ samples = 0 /\ spc = "idle"

\* The pages are a prefix of the table in the order of Pages, whole but for the
\* callback of the one being added; the rest is empty.
Filled == IF bpc = "callback" THEN added + 1 ELSE added
TableInv ==
    /\ bpc \in Early \cup Middle => added = 0
    /\ bpc \in Adding => added < Len(Pages)
    /\ \A i \in Entries :
          /\ i < Filled => table[i].url = Pages[i + 1]
          /\ i < added  => table[i].callback = Pages[i + 1]
          /\ i >= Filled => table[i].url = Null
          /\ i >= added  => table[i].callback = Null

\* The search is at most at the first empty entry, and a page is called only
\* when it was found.
SearchInv ==
    /\ spc = "search" => p <= Filled
    /\ spc = "call"   => p < Filled /\ table[p].url = req.url

\* Half-way through /switch, the plugs passed are as it asks.
SwitchInv ==
    /\ spc \in {"switch", "switched"} => Complete(req) /\ req.url = "switch"
    /\ spc = "switch" =>
          p \in Plugs /\ \A i \in Plugs \ touched : i < p => on[i] = Wanted(req, i)
    /\ spc = "switched" => \A i \in Plugs \ touched : on[i] = Wanted(req, i)

\* Half-way through /status, the plugs passed are as it shows.
StatusInv ==
    /\ spc = "status" =>
          p \in Plugs /\ \A i \in Plugs \ touched : i < p => shown[i] = on[i]
    /\ spc = "shown" => \A i \in Plugs \ touched : shown[i] = on[i]

IInv == TypeOK /\ EarlyInv /\ TableInv /\ SearchInv /\ SwitchInv /\ StatusInv

-----------------------------------------------------------------------------
(***************************************************************************)
(* Lemmas.                                                                 *)
(***************************************************************************)

\* There are three pages, and no page is NULL.
LEMMA PageFacts ==
    /\ Len(Pages) = 3 /\ \A i \in 1..3 : Pages[i] \in PageSet
    /\ \A i \in 1..3 : Pages[i] # Null
    /\ Null \notin PageSet
<1>1. Len(Pages) = 3
  BY DEF Pages
<1>2. \A i \in 1..3 : Pages[i] \in PageSet
  BY <1>1 DEF PageSet
<1> QED
  BY <1>1, <1>2, BootAssumption

\* The table is longer than the list of pages, and there is a plug.
LEMMA SizeFacts ==
    /\ NPlugs \in Nat \ {0} /\ MaxPages \in Nat /\ 3 < MaxPages
    /\ 0 \in Plugs /\ NPlugs - 1 \in Plugs /\ Plugs \subseteq Nat /\ Entries \subseteq Nat
    /\ \A i \in Plugs : i <= NPlugs - 1 /\ (i # NPlugs - 1 => i + 1 \in Plugs)
    /\ \A i \in Nat : i <= 3 => i \in Entries
  BY BootAssumption, PageFacts DEF Plugs, Entries

\* A plug is wanted on or off.
LEMMA WantedType == \A r, i : Wanted(r, i) \in {0, 1}
  BY DEF Wanted

\* No plug is on.
LEMMA DarkType == Dark \in [Plugs -> {0, 1}]
  BY DEF Dark

\* The first free entry is the one behind the pages added.
LEMMA FirstFree ==
  ASSUME TypeOK, TableInv, bpc = "url"
  PROVE  added \in Entries /\ First(Free) = added
<1>1. added \in 0..2 /\ added \in Entries
  BY PageFacts, SizeFacts DEF TypeOK, TableInv, Adding
<1>2. added \in Free
  BY <1>1 DEF Free, TableInv, Filled
<1>3. ASSUME NEW k \in Free
      PROVE  added <= k
  <2>1. k \in Entries /\ k \in Nat /\ table[k].url = Null
    BY SizeFacts DEF Free
  <2>2. CASE k < added
    <3>1. table[k].url = Pages[k + 1] /\ k + 1 \in 1..3
      BY <1>1, <2>1, <2>2 DEF TableInv, Filled
    <3> QED
      BY <2>1, <3>1, PageFacts
  <2> QED
    BY <1>1, <2>1, <2>2
<1>4. \E i \in Free : \A k \in Free : i <= k
  BY <1>2, <1>3
<1>5. First(Free) \in Free /\ \A k \in Free : First(Free) <= k
  BY <1>4 DEF First
<1>6. First(Free) \in Nat
  BY <1>5, SizeFacts DEF Free
<1>7. First(Free) <= added
  BY <1>2, <1>5
<1>8. added <= First(Free)
  BY <1>3, <1>5
<1>9. added \in Nat
  BY <1>1
<1> QED
  BY <1>1, <1>6, <1>7, <1>8, <1>9

-----------------------------------------------------------------------------
(***************************************************************************)
(* Every step keeps the invariant.                                         *)
(***************************************************************************)

\* At the start nothing runs and the table is empty.
LEMMA InitInv == Init => IInv
<1> SUFFICES ASSUME Init
             PROVE  IInv
  OBVIOUS
<1> USE PageFacts, SizeFacts, DarkType DEF Init
<1>1. TypeOK
  <2>1. req \in Requests
    BY DEF Requests
  <2>2. samples \in 0..ShortMin /\ added \in 0..Len(Pages)
    BY DEF ShortMin
  <2>3. table \in [Entries -> [url : PageSet \cup {Null}, callback : PageSet \cup {Null}]]
    OBVIOUS
  <2> QED
    BY <2>1, <2>2, <2>3 DEF TypeOK
<1>2. EarlyInv /\ TableInv
  BY DEF EarlyInv, TableInv, Early, Middle, Adding, Filled
<1>3. SearchInv /\ SwitchInv /\ StatusInv
  BY DEF SearchInv, SwitchInv, StatusInv
<1> QED
  BY <1>1, <1>2, <1>3 DEF IInv

\* The boot does not disturb the server, and the table only grows.
LEMMA BootingKeeps ==
  ASSUME IInv, Booting
  PROVE  IInv'
<1> USE PageFacts, SizeFacts DEF IInv
\* What a step of the boot does to the rest.
<1>1. /\ UNCHANGED <<samples, server, aux>>
      /\ on' = on
  <2>1. CASE RestoreDefault
    <3>1. on = Dark /\ on' = Dark
      BY <2>1 DEF RestoreDefault, BootStep, EarlyInv, Early
    <3> QED
      BY <2>1, <3>1 DEF RestoreDefault
  <2> QED
    BY <2>1 DEF Booting, StartServer, KeyMutex, KeyInterrupt, StartTimer, Register, RtcInit,
           UdpInit, AddUrl, AddCallback, NetworkIsUp, Unbooted
\* What it does to the table.
<1>2. \/ UNCHANGED <<table, added>> /\ bpc \notin Adding /\ bpc' # "callback"
            /\ (bpc \in {"wifi", "done"} <=> bpc' \in {"wifi", "done"})
      \/ /\ bpc = "url" /\ bpc' = "callback" /\ UNCHANGED added
         /\ table' = [table EXCEPT ![added].url = Pages[added + 1]]
      \/ /\ bpc = "callback" /\ added' = added + 1
         /\ bpc' = (IF added + 1 < 3 THEN "url" ELSE "wifi")
         /\ table' = [table EXCEPT ![added].callback = Pages[added + 1]]
  BY FirstFree DEF Booting, BootStep, Adding, StartServer, KeyMutex, KeyInterrupt, StartTimer,
     Register, RestoreDefault, RtcInit, UdpInit, AddUrl, AddCallback, NetworkIsUp
<1>3. added \in 0..3 /\ (bpc \in Adding => added \in 0..2 /\ added \in Entries)
  BY DEF TypeOK, TableInv
<1>4. table' \in [Entries -> [url : PageSet \cup {Null}, callback : PageSet \cup {Null}]]
      /\ added' \in 0..3
  BY <1>2, <1>3 DEF TypeOK, Adding
<1>5. TypeOK'
  <2>1. bpc' \in {"server", "mutex", "irq", "timer", "defaults", "rtc", "udp",
                  "register", "url", "callback", "wifi", "done"}
        /\ up' \subseteq {"server", "url", "irq", "timer", "rtc", "udp"}
    BY DEF Booting, TypeOK, BootStep, Starts, StartServer, KeyMutex, KeyInterrupt, StartTimer,
       Register, RestoreDefault, RtcInit, UdpInit, AddUrl, AddCallback, NetworkIsUp
  <2> QED
    BY <1>1, <1>4, <2>1 DEF TypeOK, server, aux
<1>6. EarlyInv'
  BY <1>1 DEF EarlyInv, Early, Booting, BootStep, Starts, StartServer, KeyMutex, KeyInterrupt,
     StartTimer, Register, RestoreDefault, RtcInit, UdpInit, AddUrl, AddCallback, NetworkIsUp,
     server
<1>7. TableInv' /\ Filled <= Filled' /\ Filled \in Nat /\ Filled' \in Nat
  <2>1. (bpc \in Early \cup Middle => added = 0)' /\ (bpc \in Adding => added < 3)'
    <3> USE DEF Early, Middle, Adding
    <3>1. CASE bpc \in Early \cup Middle
      <4>1. added = 0 /\ added' = 0
        BY <1>2, <3>1 DEF TableInv
      <4> QED
        BY <4>1
    <3>2. CASE bpc = "url"
      BY <1>2, <1>3, <3>2
    <3>3. CASE bpc = "callback"
      BY <1>2, <1>3, <3>3
    <3>4. CASE bpc \in {"wifi", "done"}
      BY <1>2, <3>4
    <3> QED
      BY <3>1, <3>2, <3>3, <3>4 DEF TypeOK
  <2>2. Filled <= Filled' /\ Filled \in Nat /\ Filled' \in Nat
    BY <1>2, <1>3 DEF Filled, Adding
  <2>3. ASSUME NEW i \in Entries
        PROVE  /\ i < Filled' => table'[i].url = Pages[i + 1]
               /\ i < added'  => table'[i].callback = Pages[i + 1]
               /\ i >= Filled' => table'[i].url = Null
               /\ i >= added'  => table'[i].callback = Null
    <3>0. /\ i < Filled => table[i].url = Pages[i + 1]
          /\ i < added  => table[i].callback = Pages[i + 1]
          /\ i >= Filled => table[i].url = Null
          /\ i >= added  => table[i].callback = Null
          /\ i \in Nat
      BY DEF TableInv
    <3>1. CASE bpc \notin Adding
      BY <1>2, <3>0, <3>1 DEF Filled, Adding
    <3>2. CASE bpc = "url"
      <4>1. /\ bpc' = "callback" /\ added' = added /\ added \in Entries
            /\ table'[i].callback = table[i].callback
            /\ table'[i].url = IF i = added THEN Pages[added + 1] ELSE table[i].url
        BY <1>2, <1>3, <3>2 DEF TypeOK, Adding
      <4> QED
        BY <1>3, <3>0, <3>2, <4>1 DEF Filled
    <3>3. CASE bpc = "callback"
      <4>1. /\ bpc' # "callback" /\ added' = added + 1 /\ added \in Entries
            /\ table'[i].url = table[i].url
            /\ table'[i].callback = IF i = added THEN Pages[added + 1] ELSE table[i].callback
        BY <1>2, <1>3, <3>3 DEF TypeOK, Adding
      <4> QED
        BY <1>3, <3>0, <3>3, <4>1 DEF Filled
    <3> QED
      BY <3>1, <3>2, <3>3 DEF Adding
  <2> QED
    BY <2>1, <2>2, <2>3 DEF TableInv
<1>8. SearchInv'
  <2>1. ASSUME spc = "call"
        PROVE  p < Filled' /\ table'[p].url = req.url
    <3>1. p < Filled /\ p \in Entries /\ table[p].url = Pages[p + 1]
      BY <1>3, <2>1 DEF SearchInv, TableInv, TypeOK, Filled, Adding
    <3>2. table'[p].url = Pages[p + 1]
      BY <1>7, <3>1 DEF TableInv, TypeOK
    <3> QED
      BY <1>7, <2>1, <3>1, <3>2 DEF SearchInv, TypeOK
  <2>2. spc = "search" => p <= Filled'
    BY <1>7 DEF SearchInv, TypeOK
  <2> QED
    BY <1>1, <2>1, <2>2 DEF SearchInv, server
<1>9. SwitchInv' /\ StatusInv'
  BY <1>1 DEF SwitchInv, StatusInv, server, aux
<1> QED
  BY <1>5, <1>6, <1>7, <1>8, <1>9

\* A request comes only when the defaults are restored.
LEMMA RequestKeeps ==
  ASSUME IInv, NEW r \in Requests, Request(r)
  PROVE  IInv'
<1> USE SizeFacts DEF IInv, Request, ServerStep, boot
<1>1. TypeOK' /\ TableInv'
  BY DEF TypeOK, TableInv, Filled
<1>2. EarlyInv'
  BY DEF EarlyInv
<1>3. 0 <= Filled
  BY DEF TypeOK, Filled
<1>4. SearchInv' /\ SwitchInv' /\ StatusInv'
  BY <1>3 DEF SearchInv, SwitchInv, StatusInv, Filled
<1> QED
  BY <1>1, <1>2, <1>4

\* The search goes on over filled entries only, and the first empty one ends it.
LEMMA SearchKeeps ==
  ASSUME IInv, Search
  PROVE  IInv'
<1> USE SizeFacts DEF IInv, Search, boot, aux
<1>1. Filled \in Nat /\ Filled <= 3 /\ p \in Nat /\ p <= Filled /\ p \in Entries
  BY PageFacts DEF TypeOK, TableInv, Filled, Adding, SearchInv
<1>2. table[p].url # Null => p < Filled
  BY <1>1 DEF TableInv
<1>3. TypeOK'
  BY <1>1 DEF TypeOK
<1>4. EarlyInv' /\ TableInv'
  BY DEF EarlyInv, TableInv, Filled
<1>5. SearchInv'
  <2>1. CASE table[p].url = Null
    <3>1. req.url # Null
      BY BootAssumption DEF TypeOK, Requests
    <3> QED
      BY <2>1, <3>1 DEF SearchInv
  <2>2. CASE table[p].url # Null /\ table[p].url = req.url
    BY <1>2, <2>2 DEF SearchInv, Filled
  <2>3. CASE table[p].url # Null /\ table[p].url # req.url
    BY <1>1, <1>2, <2>3 DEF SearchInv, Filled
  <2> QED
    BY <2>1, <2>2, <2>3
<1>6. SwitchInv' /\ StatusInv'
  BY DEF SwitchInv, StatusInv
<1> QED
  BY <1>3, <1>4, <1>5, <1>6

\* Of an entry found, url and callback belong together.
LEMMA FoundPage ==
  ASSUME IInv, spc = "call"
  PROVE  /\ p \in Entries /\ table[p].url = req.url
         /\ \/ table[p].callback = req.url
            \/ table[p].callback = Null /\ bpc = "callback" /\ p = added
<1>1. /\ p < Filled /\ table[p].url = req.url /\ p \in Nat /\ added \in 0..3
      /\ Filled \in Nat /\ Filled <= 3
  BY PageFacts DEF IInv, SearchInv, TypeOK, TableInv, Filled, Adding
<1>2. p \in Entries /\ table[p].url = Pages[p + 1]
  BY <1>1, SizeFacts DEF IInv, TableInv
<1>3. CASE p < added
  BY <1>1, <1>2, <1>3 DEF IInv, TableInv
<1>4. CASE p >= added
  BY <1>1, <1>2, <1>4 DEF IInv, TableInv, Filled
<1> QED
  BY <1>1, <1>2, <1>3, <1>4

\* A page begins with plug 0; /switch only with all its slots.
LEMMA CallKeeps ==
  ASSUME IInv, Call
  PROVE  IInv'
<1> USE SizeFacts DEF IInv, Call, boot, aux
<1>1. spc' \in {"idle", "switch", "status", "fault"} /\ p' = 0
      /\ (spc' = "switch" => Complete(req) /\ table[p].callback = "switch")
  OBVIOUS
<1>2. spc' = "switch" => req.url = "switch"
  <2>1. "switch" # Null
    BY PageFacts DEF Pages
  <2> QED
    BY <1>1, <2>1, FoundPage
<1>3. TypeOK'
  BY <1>1 DEF TypeOK
<1>4. EarlyInv' /\ TableInv' /\ SearchInv'
  BY <1>1 DEF EarlyInv, TableInv, SearchInv, Filled
<1>5. SwitchInv' /\ StatusInv'
  <2>1. \A i \in Plugs : ~(i < 0)
    OBVIOUS
  <2>2. Complete(req)' <=> Complete(req)
    BY DEF Complete
  <2> QED
    BY <1>1, <1>2, <2>1, <2>2 DEF SwitchInv, StatusInv
<1> QED
  BY <1>3, <1>4, <1>5

\* /switch sets the plug it looks at and goes on to the next one.
LEMMA SwitchKeeps ==
  ASSUME IInv, Switch
  PROVE  IInv'
<1> USE SizeFacts, WantedType DEF IInv, Switch, ToNextPlug, boot, aux
<1>1. p \in Plugs /\ p \in Nat
  BY DEF SwitchInv
<1>2. \A i \in Plugs : on'[i] = IF i = p THEN Wanted(req, p) ELSE on[i]
  BY <1>1 DEF TypeOK
<1>3. TypeOK'
  <2>1. on' \in [Plugs -> {0, 1}]
    BY <1>1 DEF TypeOK
  <2> QED
    BY <1>1, <2>1 DEF TypeOK
<1>4. EarlyInv' /\ TableInv' /\ SearchInv'
  BY DEF EarlyInv, TableInv, SearchInv, Filled
<1>5. SwitchInv'
  <2>1. CASE p < NPlugs - 1
    <3>1. p' = p + 1 /\ p' \in Plugs /\ spc' = "switch"
      BY <1>1, <2>1
    <3>2. ASSUME NEW i \in Plugs \ touched, i < p'
          PROVE  on'[i] = Wanted(req, i)
      BY <1>1, <1>2, <3>1, <3>2 DEF SwitchInv
    <3> QED
      BY <3>1, <3>2 DEF SwitchInv, Complete, Wanted
  <2>2. CASE ~(p < NPlugs - 1)
    <3>1. spc' = "switched" /\ p = NPlugs - 1
      BY <1>1, <2>2
    <3>2. ASSUME NEW i \in Plugs \ touched
          PROVE  on'[i] = Wanted(req, i)
      BY <1>1, <1>2, <3>1, <3>2 DEF SwitchInv
    <3> QED
      BY <3>1, <3>2 DEF SwitchInv, Complete, Wanted
  <2> QED
    BY <2>1, <2>2
<1>6. StatusInv'
  BY DEF StatusInv
<1> QED
  BY <1>3, <1>4, <1>5, <1>6

\* /status reads the plug it looks at and goes on to the next one.
LEMMA StatusKeeps ==
  ASSUME IInv, Status
  PROVE  IInv'
<1> USE SizeFacts DEF IInv, Status, ToNextPlug, boot, aux
<1>1. p \in Plugs /\ p \in Nat
  BY DEF StatusInv
<1>2. \A i \in Plugs : shown'[i] = IF i = p THEN on[p] ELSE shown[i]
  BY <1>1 DEF TypeOK
<1>3. TypeOK'
  <2>1. shown' \in [Plugs -> {0, 1}]
    BY <1>1 DEF TypeOK
  <2> QED
    BY <1>1, <2>1 DEF TypeOK
<1>4. EarlyInv' /\ TableInv' /\ SearchInv'
  BY DEF EarlyInv, TableInv, SearchInv, Filled
<1>5. SwitchInv'
  BY DEF SwitchInv
<1>6. StatusInv'
  <2>1. CASE p < NPlugs - 1
    <3>1. p' = p + 1 /\ p' \in Plugs /\ spc' = "status"
      BY <1>1, <2>1
    <3>2. ASSUME NEW i \in Plugs \ touched, i < p'
          PROVE  shown'[i] = on[i]
      BY <1>1, <1>2, <3>1, <3>2 DEF StatusInv
    <3> QED
      BY <3>1, <3>2 DEF StatusInv
  <2>2. CASE ~(p < NPlugs - 1)
    <3>1. spc' = "shown" /\ p = NPlugs - 1
      BY <1>1, <2>2
    <3>2. ASSUME NEW i \in Plugs \ touched
          PROVE  shown'[i] = on[i]
      BY <1>1, <1>2, <3>1, <3>2 DEF StatusInv
    <3> QED
      BY <3>1, <3>2 DEF StatusInv
  <2> QED
    BY <2>1, <2>2
<1> QED
  BY <1>3, <1>4, <1>5, <1>6

\* A page ends with its reply.
LEMMA ReplyKeeps ==
  ASSUME IInv, Reply
  PROVE  IInv'
<1> USE DarkType DEF IInv, Reply, boot, aux
<1>1. TypeOK'
  BY DEF TypeOK
<1>2. EarlyInv' /\ TableInv' /\ SearchInv'
  BY DEF EarlyInv, TableInv, SearchInv, Filled
<1>3. SwitchInv' /\ StatusInv'
  BY DEF SwitchInv, StatusInv
<1> QED
  BY <1>1, <1>2, <1>3

\* A reset leads back to the start.
LEMMA ResetKeeps ==
  ASSUME Reset
  PROVE  IInv'
<1> USE DEF Reset
<1>1. Init'
  BY DEF Init
<1>2. (Init => IInv)'
  BY InitInv, PTL
<1> QED
  BY <1>1, <1>2

\* The key and the threads own up to what they switch, and do nothing early.
LEMMA OthersKeep ==
  ASSUME IInv, Sample \/ KeyPress \/ \E i \in Plugs, y \in {0, 1} : ThreadSets(i, y)
  PROVE  IInv'
<1> USE DEF IInv, boot, server
<1>1. /\ UNCHANGED <<bpc, added, table, up, spc, req, p, shown, onStart>>
      /\ touched \subseteq touched' /\ touched' \subseteq Plugs
      /\ \A i \in Plugs \ touched' : on'[i] = on[i]
      /\ on' \in [Plugs -> {0, 1}] /\ samples' \in 0..ShortMin
  <2>1. CASE Sample
    BY <2>1 DEF Sample, aux, TypeOK, ShortMin
  <2>2. CASE KeyPress
    BY <2>2 DEF KeyPress, TypeOK, ShortMin
  <2>3. ASSUME NEW i \in Plugs, NEW y \in {0, 1}, ThreadSets(i, y)
        PROVE  /\ UNCHANGED <<bpc, added, table, up, spc, req, p, shown, onStart>>
               /\ touched \subseteq touched' /\ touched' \subseteq Plugs
               /\ \A k \in Plugs \ touched' : on'[k] = on[k]
               /\ on' \in [Plugs -> {0, 1}] /\ samples' \in 0..ShortMin
    BY <2>3 DEF ThreadSets, TypeOK
  <2> QED
    BY <2>1, <2>2, <2>3
<1>2. TypeOK'
  BY <1>1 DEF TypeOK
<1>3. EarlyInv'
  <2> SUFFICES ASSUME bpc \in Early
               PROVE  on' = Dark /\ samples' = 0
    BY <1>1 DEF EarlyInv
  <2>1. CASE Sample
    BY <2>1 DEF Sample, EarlyInv
  <2>2. CASE KeyPress
    BY <2>2 DEF KeyPress, EarlyInv, ShortMin
  <2>3. CASE \E i \in Plugs, y \in {0, 1} : ThreadSets(i, y)
    BY <2>3 DEF ThreadSets, EarlyInv
  <2> QED
    BY <2>1, <2>2, <2>3
<1>4. TableInv' /\ SearchInv'
  BY <1>1 DEF TableInv, SearchInv, Filled
<1>5. SwitchInv' /\ StatusInv'
  BY <1>1 DEF SwitchInv, StatusInv, Complete, Wanted
<1> QED
  BY <1>2, <1>3, <1>4, <1>5

\* Whatever step is taken, the invariant is kept.
LEMMA NextInv == IInv /\ [Next]_vars => IInv'
<1> SUFFICES ASSUME IInv, [Next]_vars
             PROVE  IInv'
  OBVIOUS
<1>1. CASE Booting
  BY <1>1, BootingKeeps
<1>2. CASE \E r \in Requests : Request(r)
  BY <1>2, RequestKeeps
<1>3. CASE Serving
  BY <1>3, SearchKeeps, CallKeeps, SwitchKeeps, StatusKeeps, ReplyKeeps, ResetKeeps DEF Serving
<1>4. CASE Sample \/ KeyPress \/ \E i \in Plugs, y \in {0, 1} : ThreadSets(i, y)
  BY <1>4, OthersKeep
<1>5. CASE UNCHANGED vars
  <2> USE <1>5 DEF IInv, vars, boot, server, aux
  <2>1. TypeOK' /\ EarlyInv' /\ TableInv'
    BY DEF TypeOK, EarlyInv, TableInv, Filled
  <2>2. SearchInv' /\ SwitchInv' /\ StatusInv'
    BY DEF SearchInv, SwitchInv, StatusInv, Filled
  <2> QED
    BY <2>1, <2>2
<1> QED
  BY <1>1, <1>2, <1>3, <1>4, <1>5 DEF Next

-----------------------------------------------------------------------------
(***************************************************************************)
(* The theorems.                                                           *)
(***************************************************************************)

\* The invariant holds from the start of the web server on, in every state of
\* the boot, the pages and the switches (app_main.c:393-433, httpd.c:120-243).
THEOREM Inductive == Spec => []IInv
  BY InitInv, NextInv, PTL DEF Spec

\* Every relay's record is 0 or 1, the table holds pages or nothing, and the
\* arguments of a page are its own (httpd.c:61-160, user_gpio.c:205-226).
THEOREM TypeCorrect == Spec => []TypeOK
<1>1. IInv => TypeOK
  BY DEF IInv
<1> QED
  BY <1>1, Inductive, PTL

\* The search stays in the table for every size of it that the pages do not
\* fill, at whatever moment of the boot a request comes (httpd.c:145-158).
THEOREM SearchInTable == Spec => []SearchStaysInTable
<1>1. IInv => SearchStaysInTable
  <2> SUFFICES ASSUME IInv
               PROVE  SearchStaysInTable
    OBVIOUS
  <2>1. spc = "search" => p \in Entries
    BY PageFacts, SizeFacts DEF IInv, TypeOK, TableInv, SearchInv, Filled, Adding
  <2> QED
    BY <2>1, FoundPage DEF SearchStaysInTable
<1> QED
  BY <1>1, Inductive, PTL

\* Whoever calls a page gets its own callback, or NULL while this very page is
\* being added (httpd.c:132-133).
THEOREM CallbackIsOwn == Spec => []OwnCallback
<1>1. IInv => OwnCallback
  BY FoundPage DEF OwnCallback
<1> QED
  BY <1>1, Inductive, PTL

\* /switch sets every plug as it asks, whatever the number of plugs, but for
\* what others switched meanwhile; without all its slots it sets none
\* (httpd.c:188-208).
THEOREM SwitchWhole == Spec => []SwitchIsWhole
<1>1. IInv => SwitchIsWhole
  BY DEF IInv, SwitchInv, SwitchIsWhole
<1> QED
  BY <1>1, Inductive, PTL

\* /status shows every plug as it is, but for what was switched while the page
\* was put together (httpd.c:219-233).
THEOREM StatusTrue == Spec => []StatusIsTrue
<1>1. IInv => StatusIsTrue
  BY DEF IInv, StatusInv, StatusIsTrue
<1> QED
  BY <1>1, Inductive, PTL

\* The records are cleared only while every plug is off, with whichever of the
\* steps before failing (user_gpio.c:264-265, app_main.c:415-418).
THEOREM DefaultsAreFirst == Spec => DefaultsComeFirst
<1>1. IInv /\ [Next]_vars => [RestoreDefault => on = Dark]_vars
  BY DEF IInv, EarlyInv, Early, RestoreDefault, BootStep
<1> QED
  BY <1>1, Inductive, PTL DEF Spec, DefaultsComeFirst
=============================================================================
