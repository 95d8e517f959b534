---------------------------- MODULE RelaysProofs ----------------------------
(***************************************************************************)
(* Proofs about Relays for any number of plugs and any set of threads.     *)
(*                                                                         *)
(* IInv is inductive.  The theorems are about Spec, whose contexts move by *)
(* the priorities of MayRun; the proofs never use them.                    *)
(***************************************************************************)
EXTENDS Relays, TLAPS

\* Bytes hold the values a caller may pass and the two that the key passes.
LEMMA ByteFacts == Vals \subseteq Bytes /\ 0 \in Bytes /\ 1 \in Bytes
  BY ValsAssumption DEF Bytes

\* Plug 0 and the last plug exist.
LEMMA PlugFacts == /\ 0 \in Plugs
                   /\ NPlugs - 1 \in Plugs
                   /\ Plugs \subseteq Nat
                   /\ \A x \in Plugs : x <= NPlugs - 1
  BY NPlugsAssumption DEF Plugs

-----------------------------------------------------------------------------
(***************************************************************************)
(* Type correctness.                                                       *)
(***************************************************************************)

\* No step of any context leaves the types.
LEMMA TypeInductive == TypeOK /\ [Next]_vars => TypeOK'
<1> SUFFICES ASSUME TypeOK, [Next]_vars
             PROVE  TypeOK'
  OBVIOUS
<1> USE ByteFacts, PlugFacts DEF TypeOK, PCs, Goto, Begin, Return, Disturb, At,
                                 shared, call, local, aux
<1>1. ASSUME NEW c \in Threads, NEW x \in Plugs, NEW y \in Vals,
             CallSet(c, x, y)
      PROVE  TypeOK'
  BY <1>1 DEF CallSet
<1>2. CASE KeyPress
  BY <1>2 DEF KeyPress
<1>3. CASE TimerReleased
  BY <1>3 DEF TimerReleased
<1>4. ASSUME NEW b \in BOOLEAN, TimerFeedback(b)
      PROVE  TypeOK'
  BY <1>4 DEF TimerFeedback
<1>5. ASSUME NEW c \in Ctxs, WriteGpio(c)
      PROVE  TypeOK'
  BY <1>5 DEF WriteGpio
<1>6. ASSUME NEW c \in Ctxs, WriteDefault(c)
      PROVE  TypeOK'
  BY <1>6 DEF WriteDefault
<1>7. ASSUME NEW c \in Ctxs, WriteConfig(c)
      PROVE  TypeOK'
  BY <1>7 DEF WriteConfig
<1>8. ASSUME NEW c \in Ctxs, WriteLed(c)
      PROVE  TypeOK'
  <2>1. tgt[c] < last[c] => tgt[c] + 1 \in Plugs
    BY NPlugsAssumption DEF Plugs
  <2> QED
    BY <1>8, <2>1 DEF WriteLed
<1>9. ASSUME NEW c \in Ctxs, ScanLit(c)
      PROVE  TypeOK'
  <2>1. CASE pc[c] = "key"
    BY <1>9, <2>1 DEF ScanLit, Answer
  <2>2. CASE pc[c] = "dim"
    <3>1. Return(c) /\ stale' = [stale EXCEPT ![c] = FALSE] /\ UNCHANGED lit
      BY <1>9, <2>2 DEF ScanLit, Answer
    <3> QED
      BY <1>9, <3>1 DEF ScanLit, Answer
  <2>3. CASE pc[c] = "scan"
    BY <1>9, <2>3 DEF ScanLit, Answer
  <2> QED
    BY <1>9, <2>1, <2>2, <2>3 DEF ScanLit, Scanning
<1>10. ASSUME NEW c \in Ctxs, ScanNext(c)
       PROVE  TypeOK'
  <2>1. idx[c] < NPlugs - 1 => idx[c] + 1 \in Plugs
    BY NPlugsAssumption DEF Plugs
  <2> QED
    BY <1>10, <2>1 DEF ScanNext
<1>11. ASSUME NEW c \in Ctxs, ScanDark(c)
       PROVE  TypeOK'
  <2>1. CASE pc[c] = "key"
    BY <1>11, <2>1 DEF ScanDark, Answer
  <2>2. CASE pc[c] = "dim"
    BY <1>11, <2>2 DEF ScanDark, Answer
  <2>3. CASE pc[c] = "scan"
    BY <1>11, <2>3 DEF ScanDark, Answer
  <2> QED
    BY <1>11, <2>1, <2>2, <2>3 DEF ScanDark, Scanning
<1>12. CASE UNCHANGED vars
  BY <1>12 DEF vars
<1> QED
  BY <1>1, <1>2, <1>3, <1>4, <1>5, <1>6, <1>7, <1>8, <1>9, <1>10, <1>11, <1>12
     DEF Next, Step

-----------------------------------------------------------------------------
(***************************************************************************)
(* Pins and records.                                                       *)
(***************************************************************************)
PlugInv == AgreesUnlessRaced /\ WindowInv

\* Steps that write no pin and no record, and neither begin nor end a
\* window, keep PlugInv.
LEMMA PlugFrame ==
  ASSUME PlugInv,
         UNCHANGED <<gpio, on, defOn, raced>>,
         \A c \in Ctxs : pc[c] \in {"def", "cfg"} \/ pc'[c] \in {"def", "cfg"}
           => pc'[c] = pc[c] /\ tgt'[c] = tgt[c] /\ val'[c] = val[c]
  PROVE  PlugInv'
<1>1. ASSUME NEW x \in Plugs
      PROVE  Window(x)' = Window(x)
  BY DEF Window
<1>2. AgreesUnlessRaced'
  BY <1>1 DEF PlugInv, AgreesUnlessRaced, Agrees
<1>3. WindowInv'
  <2> SUFFICES ASSUME NEW x \in Plugs, ~raced'[x], NEW c \in Window(x)'
               PROVE  /\ \A d \in Window(x)' : d = c
                      /\ gpio'[x] = (val'[c] = 1)
                      /\ pc'[c] = "cfg" => defOn'[x] = val'[c]
    BY DEF WindowInv
  <2>1. c \in Window(x) /\ pc[c] = pc'[c] /\ val[c] = val'[c]
    BY <1>1 DEF Window
  <2> QED
    BY <1>1, <2>1 DEF PlugInv, WindowInv
<1> QED
  BY <1>2, <1>3 DEF PlugInv

\* Each access of user_relay_set to the pin or to a record keeps PlugInv.
LEMMA PlugInductive == TypeOK /\ PlugInv /\ [Next]_vars => PlugInv'
<1> SUFFICES ASSUME TypeOK, PlugInv, [Next]_vars
             PROVE  PlugInv'
  OBVIOUS
<1> USE DEF TypeOK, Goto, Begin, Return, At, shared, call, local, aux
<1>1. ASSUME NEW c \in Threads, NEW x \in Plugs, NEW y \in Vals,
             CallSet(c, x, y)
      PROVE  PlugInv'
  BY <1>1, PlugFrame DEF CallSet
<1>2. CASE KeyPress
  BY <1>2, PlugFrame DEF KeyPress
<1>3. CASE TimerReleased
  BY <1>3, PlugFrame DEF TimerReleased
<1>4. ASSUME NEW b \in BOOLEAN, TimerFeedback(b)
      PROVE  PlugInv'
  BY <1>4, PlugFrame DEF TimerFeedback
<1>5. ASSUME NEW c \in Ctxs, WriteGpio(c)
      PROVE  PlugInv'
  <2>1. \A x \in Plugs : Window(x)' = IF x = tgt[c] THEN Window(x) \cup {c}
                                                   ELSE Window(x)
    BY <1>5 DEF WriteGpio, Window
  <2>2. AgreesUnlessRaced'
    BY <1>5, <2>1 DEF WriteGpio, PlugInv, AgreesUnlessRaced, Agrees
  <2>3. WindowInv'
    <3> SUFFICES ASSUME NEW x \in Plugs, ~raced'[x], NEW d \in Window(x)'
                 PROVE  /\ \A e \in Window(x)' : e = d
                        /\ gpio'[x] = (val'[d] = 1)
                        /\ pc'[d] = "cfg" => defOn'[x] = val'[d]
      BY DEF WindowInv
    <3>1. CASE x = tgt[c]
      <4>1. Window(x)' = {c}
        BY <1>5, <2>1, <3>1 DEF WriteGpio
      <4>2. gpio'[x] = (val'[c] = 1) /\ pc'[c] = "def"
        BY <1>5, <3>1 DEF WriteGpio
      <4> QED
        BY <4>1, <4>2
    <3>2. CASE x # tgt[c]
      <4>1. Window(x)' = Window(x) /\ ~raced[x] /\ d # c
        BY <1>5, <2>1, <3>2 DEF WriteGpio, Window
      <4> QED
        BY <1>5, <3>2, <4>1 DEF WriteGpio, PlugInv, WindowInv, Window
    <3> QED
      BY <3>1, <3>2
  <2> QED
    BY <2>2, <2>3 DEF PlugInv
<1>6. ASSUME NEW c \in Ctxs, WriteDefault(c)
      PROVE  PlugInv'
  <2>1. \A x \in Plugs : Window(x)' = Window(x)
    BY <1>6 DEF WriteDefault, Window
  <2>2. c \in Window(tgt[c])
    BY <1>6 DEF WriteDefault, Window
  <2>3. AgreesUnlessRaced'
    BY <1>6, <2>1, <2>2 DEF WriteDefault, PlugInv, AgreesUnlessRaced, Agrees
  <2>4. WindowInv'
    <3> SUFFICES ASSUME NEW x \in Plugs, ~raced'[x], NEW d \in Window(x)'
                 PROVE  /\ \A e \in Window(x)' : e = d
                        /\ gpio'[x] = (val'[d] = 1)
                        /\ pc'[d] = "cfg" => defOn'[x] = val'[d]
      BY DEF WindowInv
    <3>1. ~raced[x] /\ d \in Window(x) /\ val'[d] = val[d] /\ gpio' = gpio
      BY <1>6, <2>1 DEF WriteDefault
    <3>2. (\A e \in Window(x)' : e = d) /\ gpio'[x] = (val'[d] = 1)
      BY <2>1, <3>1 DEF PlugInv, WindowInv
    <3>3. CASE x = tgt[c]
      BY <1>6, <2>1, <2>2, <3>2, <3>3 DEF WriteDefault
    <3>4. CASE x # tgt[c]
      BY <1>6, <3>1, <3>2, <3>4 DEF WriteDefault, PlugInv, WindowInv, Window
    <3> QED
      BY <3>3, <3>4
  <2> QED
    BY <2>3, <2>4 DEF PlugInv
<1>7. ASSUME NEW c \in Ctxs, WriteConfig(c)
      PROVE  PlugInv'
  <2>1. \A x \in Plugs : Window(x)' = IF x = tgt[c] THEN Window(x) \ {c}
                                                   ELSE Window(x)
    BY <1>7 DEF WriteConfig, Window
  <2>2. c \in Window(tgt[c])
    BY <1>7 DEF WriteConfig, Window
  <2>3. AgreesUnlessRaced'
    <3> SUFFICES ASSUME NEW x \in Plugs, Window(x)' = {}, ~raced'[x]
                 PROVE  gpio'[x] = (on'[x] = 1) /\ defOn'[x] = on'[x]
      BY DEF AgreesUnlessRaced, Agrees
    <3>1. CASE x = tgt[c]
      BY <1>7, <2>2, <3>1 DEF WriteConfig, PlugInv, WindowInv
    <3>2. CASE x # tgt[c]
      BY <1>7, <2>1, <3>2 DEF WriteConfig, PlugInv, AgreesUnlessRaced, Agrees
    <3> QED
      BY <3>1, <3>2
  <2>4. WindowInv'
    BY <1>7, <2>1, <2>2 DEF WriteConfig, PlugInv, WindowInv, Window
  <2> QED
    BY <2>3, <2>4 DEF PlugInv
<1>8. ASSUME NEW c \in Ctxs, WriteLed(c)
      PROVE  PlugInv'
  BY <1>8, PlugFrame DEF WriteLed
<1>9. ASSUME NEW c \in Ctxs, ScanLit(c) \/ ScanNext(c) \/ ScanDark(c)
      PROVE  PlugInv'
  <2>1. UNCHANGED <<gpio, on, defOn, raced>>
    BY <1>9 DEF ScanLit, ScanNext, ScanDark
  <2>2. pc[c] \notin {"def", "cfg"} /\ pc'[c] \notin {"def", "cfg"}
    BY <1>9 DEF ScanLit, ScanNext, ScanDark, Scanning, Answer
  <2>3. \A d \in Ctxs \ {c} :
          pc'[d] = pc[d] /\ tgt'[d] = tgt[d] /\ val'[d] = val[d]
    BY <1>9 DEF ScanLit, ScanNext, ScanDark, Answer
  <2> QED
    BY <2>1, <2>2, <2>3, PlugFrame
<1>10. CASE UNCHANGED vars
  BY <1>10, PlugFrame DEF vars
<1> QED
  BY <1>1, <1>2, <1>3, <1>4, <1>5, <1>6, <1>7, <1>8, <1>9, <1>10 DEF Next, Step

-----------------------------------------------------------------------------
(***************************************************************************)
(* The LED.                                                                *)
(***************************************************************************)
LedInv == LedFollowsRecords /\ IdxInv /\ ScanInv

\* Steps that touch neither the records nor the LED nor a scan keep LedInv.
LEMMA LedFrame ==
  ASSUME LedInv,
         UNCHANGED <<on, defOn, led, idx, lit, stale, ledStale>>,
         \A c \in Ctxs :
           \/ pc'[c] = pc[c]
           \/ /\ pc[c]  \notin {"cfg", "scan", "lamp", "dim", "key"}
              /\ pc'[c] \notin {"cfg", "scan", "lamp", "dim", "key"}
  PROVE  LedInv'
<1>1. Pending' = Pending
  BY DEF Pending
<1>2. \A x : PlugLit(x)' = PlugLit(x)
  BY DEF PlugLit
<1>3. AnyLit' = AnyLit
  BY <1>2 DEF AnyLit
<1>4. LedFollowsRecords'
  BY <1>1, <1>3 DEF LedInv, LedFollowsRecords
<1>5. IdxInv'
  BY DEF LedInv, IdxInv
<1>6. ScanInv'
  BY <1>2, <1>3 DEF LedInv, ScanInv
<1> QED
  BY <1>4, <1>5, <1>6 DEF LedInv

\* Writing a record makes the writer pending and every answer being formed
\* stale, so LedInv is kept.
LEMMA RecordWrite ==
  ASSUME TypeOK, LedInv, NEW c \in Ctxs,
         Disturb(c), UNCHANGED idx,
         \/ pc[c] = "def" /\ Goto(c, "cfg")
         \/ pc[c] = "cfg" /\ Goto(c, "scan")
  PROVE  LedInv'
<1> USE DEF TypeOK, Goto
<1>1. c \in Pending'
  BY DEF Pending
<1>2. LedFollowsRecords'
  BY <1>1 DEF LedFollowsRecords
<1>3. IdxInv'
  BY DEF LedInv, IdxInv
<1>4. ScanInv'
  <2> SUFFICES ASSUME NEW d \in Ctxs, ~stale'[d]
               PROVE  /\ pc'[d] \in {"scan", "dim"} =>
                            \A x \in Plugs : x < idx'[d] => ~PlugLit(x)'
                      /\ pc'[d] = "lamp" => lit'[d] = AnyLit'
    BY DEF ScanInv
  <2>1. CASE d = c
    <3>1. idx'[c] = 0 /\ pc'[c] # "lamp"
      BY DEF LedInv, IdxInv
    <3> QED
      BY <2>1, <3>1, PlugFacts
  <2>2. CASE d # c
    BY <2>2 DEF Disturb, Reading
  <2> QED
    BY <2>1, <2>2
<1> QED
  BY <1>2, <1>3, <1>4 DEF LedInv

\* relay_out keeps LedInv: its answer, when nothing overtook it, is the truth.
LEMMA ScanKeeps ==
  ASSUME TypeOK, LedInv, NEW c \in Ctxs,
         ScanLit(c) \/ ScanNext(c) \/ ScanDark(c)
  PROVE  LedInv'
<1> USE DEF TypeOK, Goto, Begin, Return, shared, call, aux
<1>1. UNCHANGED <<on, defOn, led, ledStale>>
  BY DEF ScanLit, ScanNext, ScanDark
<1>2. \A x : PlugLit(x)' = PlugLit(x)
  BY <1>1 DEF PlugLit
<1>3. AnyLit' = AnyLit
  BY <1>2 DEF AnyLit
<1>4. \A d \in Ctxs \ {c} : /\ pc'[d] = pc[d] /\ idx'[d] = idx[d]
                            /\ lit'[d] = lit[d] /\ stale'[d] = stale[d]
  BY DEF ScanLit, ScanNext, ScanDark, Answer
<1>5. pc[c] \in {"scan", "dim", "key"}
  BY DEF ScanLit, ScanNext, ScanDark, Scanning
<1>6. pc[c] = "scan" => pc'[c] \in {"scan", "lamp"}
  BY DEF ScanLit, ScanNext, ScanDark, Answer
<1>7. LedFollowsRecords'
  <2>1. Pending' = {} => Pending = {}
    BY <1>4, <1>5, <1>6 DEF Pending
  <2> QED
    BY <1>1, <1>3, <2>1 DEF LedInv, LedFollowsRecords
<1>8. IdxInv'
  <2>1. pc'[c] \in {"scan", "dim", "key"} \/ idx'[c] = 0
    <3>1. CASE ScanNext(c)
      BY <1>5, <3>1 DEF ScanNext
    <3>2. CASE ScanLit(c) \/ ScanDark(c)
      BY <3>2, PlugFacts DEF ScanLit, ScanDark, Answer
    <3> QED
      BY <3>1, <3>2
  <2> QED
    BY <1>4, <2>1 DEF LedInv, IdxInv
<1>9. ASSUME ~stale'[c], pc'[c] \in {"scan", "dim"}
      PROVE  \A x \in Plugs : x < idx'[c] => ~PlugLit(x)
  <2>1. ScanNext(c)
    BY <1>5, <1>9 DEF ScanLit, ScanDark, Answer
  <2>2. /\ pc'[c] = pc[c] /\ ~stale[c] /\ ~PlugLit(idx[c])
        /\ idx'[c] = idx[c] + 1
    BY <1>9, <2>1 DEF ScanNext
  <2>3. \A x \in Plugs : x < idx[c] => ~PlugLit(x)
    BY <1>9, <2>2 DEF LedInv, ScanInv
  <2> SUFFICES ASSUME NEW x \in Plugs, x < idx'[c]
               PROVE  ~PlugLit(x)
    OBVIOUS
  <2>4. x < idx[c] \/ x = idx[c]
    BY <2>2, PlugFacts
  <2> QED
    BY <2>2, <2>3, <2>4
<1>10. ASSUME ~stale'[c], pc'[c] = "lamp"
       PROVE  lit'[c] = AnyLit
  <2>1. CASE ScanLit(c)
    <3>1. PlugLit(idx[c]) /\ lit'[c] = TRUE
      BY <1>5, <1>10, <2>1 DEF ScanLit, Answer
    <3>2. AnyLit = TRUE
      BY <3>1 DEF AnyLit
    <3> QED
      BY <3>1, <3>2
  <2>2. CASE ScanDark(c)
    <3>1. /\ ~PlugLit(idx[c]) /\ idx[c] = NPlugs - 1
          /\ lit'[c] = FALSE /\ pc[c] \in {"scan", "dim"} /\ ~stale[c]
      BY <1>5, <1>10, <2>2 DEF ScanDark, Answer
    <3>2. \A x \in Plugs : x < idx[c] => ~PlugLit(x)
      BY <3>1 DEF LedInv, ScanInv
    <3>3. \A x \in Plugs : x < idx[c] \/ x = idx[c]
      BY <3>1, NPlugsAssumption DEF Plugs
    <3>4. AnyLit = FALSE
      BY <3>1, <3>2, <3>3 DEF AnyLit
    <3> QED
      BY <3>1, <3>4
  <2>3. CASE ScanNext(c)
    BY <1>5, <1>10, <2>3 DEF ScanNext
  <2> QED
    BY <2>1, <2>2, <2>3
<1>11. ScanInv'
  BY <1>2, <1>3, <1>4, <1>9, <1>10 DEF LedInv, ScanInv
<1> QED
  BY <1>7, <1>8, <1>11 DEF LedInv

\* No step of any context breaks LedInv.
LEMMA LedInductive == TypeOK /\ LedInv /\ [Next]_vars => LedInv'
<1> SUFFICES ASSUME TypeOK, LedInv, [Next]_vars
             PROVE  LedInv'
  OBVIOUS
<1> USE DEF TypeOK, Goto, Begin, Return, At, shared, call, local, aux
<1>1. ASSUME NEW c \in Threads, NEW x \in Plugs, NEW y \in Vals,
             CallSet(c, x, y)
      PROVE  LedInv'
  BY <1>1, LedFrame DEF CallSet
<1>2. ASSUME NEW c \in Ctxs, pc[c] = "idle",
             Goto(c, "dim") \/ Goto(c, "key"),
             UNCHANGED <<shared, idx, lit, aux>>
      PROVE  LedInv'
  <2>1. idx[c] = 0 /\ Pending' = Pending
    BY <1>2 DEF LedInv, IdxInv, Pending
  <2>2. \A x : PlugLit(x)' = PlugLit(x)
    BY <1>2 DEF PlugLit
  <2>3. AnyLit' = AnyLit
    BY <2>2 DEF AnyLit
  <2>4. LedFollowsRecords' /\ IdxInv'
    BY <1>2, <2>1, <2>3 DEF LedInv, LedFollowsRecords, IdxInv
  <2>5. ScanInv'
    BY <1>2, <2>1, <2>2, <2>3, PlugFacts DEF LedInv, ScanInv
  <2> QED
    BY <2>4, <2>5 DEF LedInv
<1>3. CASE KeyPress \/ TimerReleased
  BY <1>2, <1>3 DEF KeyPress, TimerReleased, Ctxs
<1>4. ASSUME NEW b \in BOOLEAN, TimerFeedback(b)
      PROVE  LedInv'
  <2>1. LedFollowsRecords'
    BY <1>4 DEF TimerFeedback, LedFollowsRecords
  <2>2. \A x : PlugLit(x)' = PlugLit(x)
    BY <1>4 DEF TimerFeedback, PlugLit
  <2>3. AnyLit' = AnyLit
    BY <2>2 DEF AnyLit
  <2> QED
    BY <1>4, <2>1, <2>2, <2>3 DEF TimerFeedback, LedInv, IdxInv, ScanInv
<1>5. ASSUME NEW c \in Ctxs, WriteGpio(c)
      PROVE  LedInv'
  BY <1>5, LedFrame DEF WriteGpio
<1>6. ASSUME NEW c \in Ctxs, WriteDefault(c) \/ WriteConfig(c)
      PROVE  LedInv'
  BY <1>6, RecordWrite DEF WriteDefault, WriteConfig
<1>7. ASSUME NEW c \in Ctxs, WriteLed(c)
      PROVE  LedInv'
  <2>1. \A x : PlugLit(x)' = PlugLit(x)
    BY <1>7 DEF WriteLed, PlugLit
  <2>2. AnyLit' = AnyLit
    BY <2>1 DEF AnyLit
  <2>3. pc[c] = "lamp" /\ pc'[c] \in {"gpio", "idle"} /\ UNCHANGED idx
    BY <1>7 DEF WriteLed
  <2>4. \A d \in Ctxs \ {c} : /\ pc'[d] = pc[d] /\ lit'[d] = lit[d]
                             /\ stale'[d] = stale[d]
    BY <1>7 DEF WriteLed
  <2>5. LedFollowsRecords'
    <3>1. ~ledStale' => led' = AnyLit
      BY <1>7, <2>3 DEF WriteLed, LedInv, ScanInv
    <3> QED
      BY <2>2, <3>1 DEF LedFollowsRecords
  <2>6. IdxInv'
    BY <2>3, <2>4 DEF LedInv, IdxInv
  <2>7. ScanInv'
    BY <2>1, <2>2, <2>3, <2>4 DEF LedInv, ScanInv
  <2> QED
    BY <2>5, <2>6, <2>7 DEF LedInv
<1>8. ASSUME NEW c \in Ctxs, ScanLit(c) \/ ScanNext(c) \/ ScanDark(c)
      PROVE  LedInv'
  BY <1>8, ScanKeeps
<1>9. CASE UNCHANGED vars
  BY <1>9, LedFrame DEF vars
<1> QED
  BY <1>1, <1>3, <1>4, <1>5, <1>6, <1>7, <1>8, <1>9 DEF Next, Step

-----------------------------------------------------------------------------
(***************************************************************************)
(* The theorems.                                                           *)
(***************************************************************************)

\* After appRestoreDefault everything agrees.
LEMMA InitInv == Init => TypeOK /\ PlugInv /\ LedInv
<1> SUFFICES ASSUME Init
             PROVE  TypeOK /\ PlugInv /\ LedInv
  OBVIOUS
<1>1. TypeOK
  BY ByteFacts, PlugFacts DEF Init, TypeOK, PCs
<1>2. ASSUME NEW x \in Plugs
      PROVE  Window(x) = {}
  BY DEF Init, Window
<1>3. ASSUME NEW x \in Plugs
      PROVE  Agrees(x)
  <2>1. gpio[x] = FALSE /\ on[x] = 0 /\ defOn[x] = 0
    BY DEF Init
  <2>2. (on[x] = 1) = FALSE
    BY <2>1
  <2> QED
    BY <2>1, <2>2, Zenon DEF Agrees
<1>4. led = FALSE /\ AnyLit = FALSE
  BY DEF Init, AnyLit, PlugLit
<1>5. LedInv
  BY <1>4 DEF Init, LedInv, LedFollowsRecords, IdxInv, ScanInv
<1> QED
  BY <1>1, <1>2, <1>3, <1>5 DEF PlugInv, AgreesUnlessRaced, WindowInv

\* The whole invariant that TLC checks holds for every number of plugs and
\* every set of threads.
THEOREM Inductive == Spec => []IInv
<1>1. TypeOK /\ PlugInv /\ LedInv => IInv
  BY DEF IInv, PlugInv, LedInv
<1>2. Init => TypeOK /\ PlugInv /\ LedInv
  BY InitInv
<1>3. TypeOK /\ PlugInv /\ LedInv /\ [Next]_vars
        => (TypeOK /\ PlugInv /\ LedInv)'
  BY TypeInductive, PlugInductive, LedInductive
<1> QED
  BY <1>1, <1>2, <1>3, PTL DEF Spec

\* Every access made by user_relay_set, relay_out and their callers keeps
\* the records bytes and the indices plugs: relay[x] and plug[i] are never
\* indexed out of bounds.
THEOREM TypeCorrect == Spec => []TypeOK
<1>1. IInv => TypeOK
  BY DEF IInv
<1> QED
  BY <1>1, Inductive, PTL

\* A plug whose calls of user_relay_set did not overlap agrees with both of
\* its records, whatever the calls for other plugs do.
THEOREM PlugsAgree == Spec => []AgreesUnlessRaced
<1>1. IInv => AgreesUnlessRaced
  BY DEF IInv
<1> QED
  BY <1>1, Inductive, PTL

\* The LED shows what relay_out answers once every change has been shown,
\* unless its last writer was overtaken or was the long-press feedback.
THEOREM LedIsRight == Spec => []LedFollowsRecords
<1>1. IInv => LedFollowsRecords
  BY DEF IInv
<1> QED
  BY <1>1, Inductive, PTL
=============================================================================
