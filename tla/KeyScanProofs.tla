--------------------------- MODULE KeyScanProofs ----------------------------
(***************************************************************************)
(* Proofs about KeyScan for all thresholds in the order the code has them, *)
(* and whether or not the interrupt preempts the timer callback.           *)
(***************************************************************************)
EXTENDS KeyScan, TLAPS

\* Saturate counts up to its bound.
LEMMA SaturateFacts ==
  ASSUME NEW n \in Nat, NEW max \in Nat, n <= max
  PROVE  /\ Saturate(n, max) = n
         /\ Saturate(n + 1, max) = IF n = max THEN max ELSE n + 1
  BY DEF Saturate

\* The thresholds lie within a byte, in the order of the code.
LEMMA Bounds ==
    /\ ShortMin \in Nat \ {0} /\ ShortMax \in Nat /\ ReportAt \in Nat
    /\ LampAt \in Nat /\ StartAt \in Nat /\ WrapAbove \in Nat /\ WrapTo \in Nat
    /\ MaxHeld \in Nat /\ MaxHeld = WrapAbove + 1 /\ MaxHeld <= 255
    /\ 0 < WrapTo /\ WrapTo < MaxHeld /\ 0 < StartAt /\ StartAt < MaxHeld
    /\ ShortMax <= WrapTo /\ MaxAns = 2
  BY ThresholdsAssumption DEF MaxHeld, MaxAns

\* At power-up nothing is counted.
LEMMA InitInv == Init => IInv
<1> SUFFICES ASSUME Init
             PROVE  IInv
  OBVIOUS
<1>1. 0 \in 0..255 /\ 0 \in 0..MaxHeld /\ 0 \in 0..MaxAns
  BY Bounds
<1>2. TypeOK
  BY <1>1 DEF Init, TypeOK
<1>3. CountInv
  BY Bounds DEF Init, CountInv
<1>4. HoldInv
  BY Bounds DEF Init, HoldInv, Counts
<1>5. AnswerInv
  BY Bounds DEF Init, AnswerInv
<1> QED
  BY <1>2, <1>3, <1>4, <1>5 DEF IInv

-----------------------------------------------------------------------------
\* One press at most is acted on while the count is that of a short press:
\* the interrupt that acts on it clears the count, and what a callback then
\* stores over the cleared count is acted on once more at most.
LEMMA AnswerStep ==
  ASSUME IInv, [Next]_vars
  PROVE  AnswerInv'
<1> USE Bounds DEF IInv, TypeOK, key, aux
<1>1. CASE Edge
  BY <1>1 DEF Edge, AnswerInv
<1>2. ASSUME NEW b \in BOOLEAN, SetRelays(b)
      PROVE  AnswerInv'
  BY <1>2 DEF SetRelays, AnswerInv
<1>3. CASE Reboot
  BY <1>3 DEF Reboot, AnswerInv
<1>4. CASE SampleDown
  BY <1>4 DEF SampleDown, AnswerInv
<1>5. CASE SampleUp
  BY <1>5 DEF SampleUp, AnswerInv
<1>6. CASE Load
  BY <1>6 DEF Load, AnswerInv
<1>7. CASE Store
  BY <1>7 DEF Store, AnswerInv
<1>8. CASE Dim
  BY <1>8 DEF Dim, AnswerInv
<1>9. ASSUME NEW v \in {reg, key_time}, Act(v)
      PROVE  AnswerInv'
  BY <1>9 DEF Act, AnswerInv
<1>10. CASE Irq
  <2>1. key_time' = 0 /\ tpc' = tpc
    BY <1>10 DEF Irq
  <2>2. ASSUME tpc \in {"load", "store"}
        PROVE  answered' = 0 \/ answered' = 1
    <3>1. CASE ShortPress
      <4>1. answered = 0
        BY <2>2, <3>1 DEF ShortPress, IsShort, AnswerInv
      <4>2. answered' = 1
        BY <3>1, <4>1 DEF ShortPress, Saturate
      <4> QED
        BY <4>2
    <3>2. CASE NoPress
      BY <2>2, <3>2 DEF NoPress, AnswerInv
    <3> QED
      BY <1>10, <3>1, <3>2 DEF Irq
  <2> QED
    BY <2>1, <2>2 DEF AnswerInv
<1>11. CASE UNCHANGED vars
  BY <1>11 DEF vars, AnswerInv
<1> QED
  BY <1>1, <1>2, <1>3, <1>4, <1>5, <1>6, <1>7, <1>8, <1>9, <1>10, <1>11
     DEF Next, Timer

\* No step of the key, the callback or the interrupt breaks IInv.
LEMMA Inductive == IInv /\ [Next]_vars => IInv'
<1> SUFFICES ASSUME IInv, [Next]_vars
             PROVE  TypeOK' /\ CountInv' /\ HoldInv'
  BY AnswerStep DEF IInv
<1> USE Bounds DEF IInv, TypeOK, key, aux
<1>1. CASE Edge
  BY <1>1 DEF Edge, CountInv, HoldInv, Counts
<1>2. ASSUME NEW b \in BOOLEAN, SetRelays(b)
      PROVE  TypeOK' /\ CountInv' /\ HoldInv'
  BY <1>2 DEF SetRelays, CountInv, HoldInv, Counts
<1>3. CASE Reboot
  <2>1. 0 \in 0..255 /\ 0 \in 0..MaxHeld /\ 0 \in 0..MaxAns
    OBVIOUS
  <2>2. TypeOK'
    BY <1>3, <2>1 DEF Reboot
  <2>3. CountInv' /\ HoldInv'
    BY <1>3 DEF Reboot, CountInv, HoldInv, Counts
  <2> QED
    BY <2>2, <2>3
<1>4. CASE SampleDown
  <2>1. held' \in 0..MaxHeld /\ (~edge => held' = IF held = MaxHeld THEN MaxHeld ELSE held + 1)
    BY <1>4, SaturateFacts DEF SampleDown
  <2>2. TypeOK' /\ CountInv'
    <3>1. 0 \in 0..MaxAns
      OBVIOUS
    <3>2. TypeOK'
      BY <1>4, <2>1, <3>1 DEF SampleDown
    <3>3. CountInv'
      BY <1>4 DEF SampleDown, CountInv
    <3> QED
      BY <3>2, <3>3
  <2>3. ~torn => Counts(key_time + 1)'
    <3>1. CASE edge
      BY <1>4, <3>1 DEF SampleDown, HoldInv, Counts
    <3>2. CASE ~edge
      BY <1>4, <2>1, <3>2 DEF SampleDown, CountInv, HoldInv, Counts
    <3> QED
      BY <3>1, <3>2
  <2>4. HoldInv'
    BY <1>4, <2>3 DEF SampleDown, HoldInv
  <2> QED
    BY <2>2, <2>4
<1>5. CASE SampleUp
  BY <1>5 DEF SampleUp, CountInv, HoldInv, Counts
<1>6. CASE Load
  BY <1>6 DEF Load, CountInv, HoldInv, Counts
<1>7. CASE Store
  <2>1. reg' = reg + 1 /\ key_time' = reg + 1
    BY <1>7 DEF Store, CountInv
  <2> QED
    BY <1>7, <2>1 DEF Store, CountInv, HoldInv, Counts
<1>8. CASE Dim
  BY <1>8 DEF Dim, CountInv, HoldInv, Counts
<1>9. ASSUME NEW v \in {reg, key_time}, Act(v)
      PROVE  TypeOK' /\ CountInv' /\ HoldInv'
  <2>1. v \in 0..MaxHeld
    BY <1>9 DEF Act, CountInv
  <2>2. led' \in BOOLEAN /\ smtlk' \in BOOLEAN
    BY <1>9 DEF Act
  <2>3. TypeOK' /\ CountInv'
    <3>1. key_time' \in 0..255 /\ reg' \in 0..255 /\ key_time' <= WrapAbove
      BY <1>9, <2>1 DEF Act, CountInv
    <3>2. TypeOK'
      BY <1>9, <2>2, <3>1 DEF Act
    <3>3. CountInv'
      BY <1>9, <3>1 DEF Act, CountInv
    <3> QED
      BY <3>2, <3>3
  <2>4. HoldInv'
    BY <1>9, <2>1 DEF Act, CountInv, HoldInv, Counts
  <2> QED
    BY <2>3, <2>4
<1>10. CASE Irq
  <2>1. answered' \in 0..MaxAns /\ anyOn' \in BOOLEAN /\ led' \in BOOLEAN
    <3>1. CASE ShortPress
      BY <3>1 DEF ShortPress, Saturate
    <3>2. CASE NoPress
      BY <3>2 DEF NoPress
    <3> QED
      BY <1>10, <3>1, <3>2 DEF Irq
  <2>2. TypeOK' /\ CountInv'
    <3>1. 0 \in 0..255 /\ torn' \in BOOLEAN
      BY <1>10 DEF Irq
    <3>2. TypeOK'
      BY <1>10, <2>1, <3>1 DEF Irq
    <3>3. CountInv'
      BY <1>10 DEF Irq, CountInv
    <3> QED
      BY <3>2, <3>3
  <2>3. HoldInv'
    BY <1>10 DEF Irq, HoldInv, Counts
  <2> QED
    BY <2>2, <2>3
<1>11. CASE UNCHANGED vars
  BY <1>11 DEF vars, CountInv, HoldInv, Counts
<1> QED
  BY <1>1, <1>2, <1>3, <1>4, <1>5, <1>6, <1>7, <1>8, <1>9, <1>10, <1>11
     DEF Next, Timer

\* The strengthened invariant that TLC checks holds for all thresholds.
THEOREM Invariant == Spec => []IInv
  BY InitInv, Inductive, PTL DEF Spec

\* The counters, the answers and the LED keep their types at every point
\* where the interrupt may strike (user_gpio.c:157-198, 205-226).
THEOREM TypeCorrect == Spec => []TypeOK
<1>1. IInv => TypeOK
  BY DEF IInv
<1> QED
  BY <1>1, Invariant, PTL

\* key_time stays within a byte and, whenever no callback is between its load
\* and its last test, below the wrap.
THEOREM CountStaysBelowWrap == Spec => [](TypeOK /\ CountBelowWrap)
<1>1. IInv => TypeOK /\ CountBelowWrap
  BY Bounds DEF IInv, TypeOK, CountInv, CountBelowWrap
<1> QED
  BY <1>1, Invariant, PTL

-----------------------------------------------------------------------------
\* SmartLink starts only when the last StartAt samples saw the key down with
\* no edge between them, unless the last interrupt struck a callback that was
\* counting (torn): the count of the hold before it then goes on behind it.
THEOREM SmartLinkNeedsHold == Spec => SmartLinkAfterHold
<1>1. IInv /\ [Next]_vars => [~smtlk /\ smtlk' /\ ~torn => held >= StartAt]_vars
  <2> SUFFICES ASSUME IInv, Next, ~smtlk, smtlk', ~torn
               PROVE  held >= StartAt
    OBVIOUS
  <2>1. PICK v \in {reg, key_time} : Act(v)
    BY DEF Next, Timer, Edge, SetRelays, Reboot, SampleDown, SampleUp, Load,
           Store, Dim, Irq
  <2>2. v = StartAt /\ tpc = "act"
    BY <2>1 DEF Act
  <2>3. v = reg /\ Counts(reg)
    BY <2>1, <2>2 DEF IInv, HoldInv
  <2> QED
    BY <2>2, <2>3, Bounds DEF Counts
<1> QED
  BY <1>1, Invariant, PTL DEF Spec, SmartLinkAfterHold

\* The relays toggle at most twice between two samples that see the key down;
\* only once, and only after a short press, unless this interrupt or the one
\* before struck a callback that was counting (torn).
THEOREM TogglesOnce == Spec => ToggleOncePerPress
<1>1. IInv /\ [Next]_vars
        => [Toggles => /\ answered <= 1
                       /\ ~torn /\ ~torn' => answered = 0 /\ held \in ShortMin..(ShortMax - 1)]_vars
  <2> SUFFICES ASSUME IInv, Next, Toggles
               PROVE  /\ answered <= 1
                      /\ ~torn /\ ~torn' => answered = 0 /\ held \in ShortMin..(ShortMax - 1)
    OBVIOUS
  <2>1. Irq
    BY DEF Next, Timer, Edge, SetRelays, Reboot, SampleDown, SampleUp, Load,
           Store, Dim, Act, Toggles, key, aux
  <2>2. key_time \in ShortMin..(ShortMax - 1)
    BY <2>1 DEF Irq, ShortPress, NoPress, IsShort, Toggles
  <2>3. answered <= 1
    BY <2>2 DEF IInv, AnswerInv
  <2>4. ASSUME ~torn, ~torn'
        PROVE  answered = 0 /\ held \in ShortMin..(ShortMax - 1)
    <3>1. tpc \in {"idle", "dim"}
      BY <2>1, <2>4 DEF Irq, IInv, TypeOK
    <3>2. Counts(key_time) /\ answered = 0
      BY <2>2, <2>4, <3>1, Bounds DEF IInv, HoldInv
    <3>3. key_time = held
      BY <2>2, <3>2, Bounds DEF Counts, IInv, TypeOK
    <3> QED
      BY <2>2, <3>2, <3>3
  <2> QED
    BY <2>3, <2>4
<1> QED
  BY <1>1, Invariant, PTL DEF Spec, ToggleOncePerPress
=============================================================================
