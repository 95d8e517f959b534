-------------------------- MODULE SchedulerProofs --------------------------
(***************************************************************************)
(* Proofs about Scheduler for any number of plugs and tasks, any lengths   *)
(* of minutes, hours, days and weeks, and any corrections of the clock:    *)
(* what is due is served, nothing else fires, and nothing fires twice.     *)
(***************************************************************************)
EXTENDS Scheduler, TLAPS

-----------------------------------------------------------------------------
(***************************************************************************)
(* The inductive invariant.                                                *)
(***************************************************************************)

\* The thread is busy with the task at pos.
Looking == Comparing \cup {"switch", "disarm"}

\* A pass begins with the first task.  If the timer ticked in the middle of a
\* pass, no pass has been completed since.
PassInv ==
    /\ rpc \in {"loop", "ntp", "report"} => pos = 0
    /\ rpc # "loop" /\ ~fresh => ~passed
    /\ rpc = "disarm" => rep = {}

\* The thread's copy of repeat is right as long as nobody edits the task.
LookInv ==
    rpc \in Looking /\ ~touched =>
        /\ task[pos].on # 0 /\ task[pos].repeat = rep
        /\ edit = None \/ edit.of # pos

\* A once-only task that has fired is switched off, or is about to be.
ShotsInv ==
    /\ \A p \in Tasks :
          \/ shots[p] = 0
          \/ /\ shots[p] = 1
             /\ \/ task[p].on = 0
                \/ p = pos /\ rep = {} /\ rpc \in {"switch", "disarm"}
    /\ rpc \in Comparing => shots[pos] = 0

\* As long as the task was not due since it was looked at, it is not due now;
\* once its second was found 0, it is not due in this minute at all, because
\* the clock goes on by a second at most, and none that carries.
MinuteMatches(k, repeat, n) ==
    Min(n) = k.minute /\ Hour(n) = k.hour /\ DayMatches(repeat, n)
WasInv ==
    rpc \in Comparing /\ ~touched /\ ~was =>
        /\ ~Matches(task[pos], rep, t_t)
        /\ rpc # "second" =>
              /\ ~MinuteMatches(task[pos], rep, t_t)
              /\ fresh => Sec(t_t) = 0
              /\ rpc # "minute" => Min(t_t) = task[pos].minute
              /\ rpc = "day"    => Hour(t_t) = task[pos].hour

\* The plug of task p is as p wants it, and p is disarmed if it is once-only.
Settled(p) == ~Contested(PlugOf(p)) => on[PlugOf(p)] = task[p].action
Served(p)  == Settled(p) /\ (task[p].repeat = {} => task[p].on = 0)

\* The thread looks at its task since before the last tick, and has served
\* nothing since; or all it compared so far is so at this moment.
Stale == ~fresh /\ \A p \in due : task[p].on # 0
Clean == /\ rpc # "second" => Sec(t_t) = 0
         /\ rpc \notin {"second", "minute"} => Min(t_t) = task[pos].minute
         /\ rpc \notin {"second", "minute", "hour"} => Hour(t_t) = task[pos].hour

\* In a calm second, what was due at its beginning is due, unless it was
\* served; what a pass that began in it has passed was served.
CalmInv ==
    calm =>
        /\ edit = None /\ (rpc \in Looking => ~touched)
        /\ \A p \in due : /\ Matches(task[p], task[p].repeat, t_t)
                          /\ task[p].on # 0 \/ (task[p].repeat = {} /\ Settled(p))
        /\ \A p \in Tasks : IsDue(p, t_t) => p \in due
        /\ rpc \in Comparing => Stale \/ Clean
        /\ rpc \in {"switch", "disarm"} => pos \in due \/ Stale
        /\ rpc = "disarm" => on[PlugOf(pos)] = task[pos].action
        /\ fresh  => \A p \in due : p < pos => Served(p)
        /\ passed => \A p \in due : Served(p)

IInv == TypeOK /\ PassInv /\ LookInv /\ ShotsInv /\ WasInv /\ CalmInv

-----------------------------------------------------------------------------
(***************************************************************************)
(* Lemmas: arithmetic of the clock and of the tasks' numbers.              *)
(***************************************************************************)

\* A product of positive numbers is positive.
LEMMA ProductPositive ==
  ASSUME NEW a \in Nat \ {0}, NEW b \in Nat \ {0}
  PROVE  a * b \in Nat \ {0}
  OBVIOUS

\* A product grows with its factors.
LEMMA ProductMonotone ==
  ASSUME NEW a \in Nat, NEW b \in Nat, NEW c \in Nat, b <= c
  PROVE  a * b <= a * c
<1>1. c - b \in Nat
  OBVIOUS
<1>2. a * (c - b) \in Nat
  BY <1>1
<1>3. a * c = a * b + a * (c - b)
  OBVIOUS
<1> QED
  BY <1>2, <1>3

\* A product distributes over a sum.
LEMMA ProductDistributes ==
  ASSUME NEW a \in Nat, NEW b \in Nat, NEW q \in Nat, NEW m \in Nat
  PROVE  a * (b * q + m) = a * b * q + a * m
  OBVIOUS

\* Division with a remainder.
LEMMA Division ==
  ASSUME NEW n \in Nat, NEW a \in Nat \ {0}
  PROVE  /\ n \div a \in Nat /\ n % a \in 0..(a - 1)
         /\ n = a * (n \div a) + (n % a)
  BY SMT

\* The quotient and the remainder are the only such pair.
LEMMA DivisionUnique ==
  ASSUME NEW n \in Nat, NEW a \in Nat \ {0}, NEW q \in Nat, NEW r \in 0..(a - 1),
         n = a * q + r
  PROVE  n \div a = q /\ n % a = r
<1> DEFINE d == n \div a
           s == n % a
<1>1. d \in Nat /\ s \in 0..(a - 1) /\ n = a * d + s
  BY Division
<1> HIDE DEF d, s
<1>2. CASE d < q
  <2>1. a * (d + 1) <= a * q
    BY <1>1, <1>2, ProductMonotone
  <2>2. a * (d + 1) = a * d + a
    BY <1>1
  <2> QED
    BY <1>1, <2>1, <2>2
<1>3. CASE q < d
  <2>1. a * (q + 1) <= a * d
    BY <1>1, <1>3, ProductMonotone
  <2>2. a * (q + 1) = a * q + a
    BY <1>1
  <2> QED
    BY <1>1, <2>1, <2>2
<1>4. CASE d = q
  BY <1>1, <1>4 DEF d, s
<1> QED
  BY <1>1, <1>2, <1>3, <1>4

\* A second that does not end a minute carries to nothing above it.
LEMMA NoCarry ==
  ASSUME NEW n \in Nat, NEW a \in Nat \ {0}, NEW b \in Nat \ {0}, 1 < a, n % a = 0
  PROVE  (n + 1) \div (a * b) = n \div (a * b)
<1> DEFINE ab == a * b
           q == n \div ab
           r == n % ab
           m == r \div a
<1>1. ab \in Nat \ {0}
  BY ProductPositive
<1>2. q \in Nat /\ r \in 0..(ab - 1) /\ n = ab * q + r
  BY <1>1, Division
<1> HIDE DEF q, r
<1>3. m \in Nat /\ r % a \in 0..(a - 1) /\ r = a * m + (r % a)
  <2>1. r \in Nat
    BY <1>1, <1>2
  <2> QED
    BY <2>1, Division
<1> HIDE DEF m
<1>4. n = a * (b * q + m) + (r % a)
  <2>1. a * (b * q + m) = a * b * q + a * m
    BY <1>2, <1>3, ProductDistributes
  <2> QED
    BY <1>2, <1>3, <2>1
<1>5. b * q + m \in Nat
  BY <1>2, <1>3
<1>6. r % a = 0
  BY <1>3, <1>4, <1>5, DivisionUnique
<1>7. r = a * m
  BY <1>3, <1>6
<1>8. r + 1 \in 0..(ab - 1)
  <2>1. CASE b <= m
    <3>1. a * b <= a * m
      BY <1>3, <2>1, ProductMonotone
    <3> QED
      BY <1>2, <1>7, <3>1
  <2>2. CASE m < b
    <3>1. a * (m + 1) <= a * b
      BY <1>3, <2>2, ProductMonotone
    <3>2. a * (m + 1) = a * m + a
      BY <1>3
    <3> QED
      BY <1>2, <1>7, <3>1, <3>2
  <2> QED
    BY <1>3, <2>1, <2>2
<1>9. n + 1 = ab * q + (r + 1)
  BY <1>1, <1>2
<1>10. n + 1 \in Nat
  OBVIOUS
<1> HIDE DEF ab
<1>11. (n + 1) \div ab = q
  BY <1>1, <1>2, <1>8, <1>9, <1>10, DivisionUnique
<1> QED
  BY <1>11 DEF ab, q

\* The lengths are positive, there is a task, and the week has a second.
LEMMA SizeFacts ==
    /\ SPM \in Nat \ {0} /\ MPH \in Nat \ {0} /\ HPD \in Nat \ {0} /\ DPW \in Nat \ {0}
    /\ NPlugs \in Nat \ {0} /\ NSlots \in Nat \ {0} /\ Sync \in Nat \ {0} /\ 1 < SPM
    /\ SPM * MPH \in Nat \ {0} /\ SPM * MPH * HPD \in Nat \ {0} /\ Week \in Nat \ {0}
    /\ NPlugs * NSlots \in Nat \ {0} /\ Tasks \subseteq Nat /\ 0 \in Tasks
<1>1. /\ SPM \in Nat \ {0} /\ MPH \in Nat \ {0} /\ HPD \in Nat \ {0} /\ DPW \in Nat \ {0}
      /\ NPlugs \in Nat \ {0} /\ NSlots \in Nat \ {0} /\ Sync \in Nat \ {0} /\ 1 < SPM
  BY ClockAssumption
<1>2. SPM * MPH \in Nat \ {0}
  BY <1>1, ProductPositive
<1>3. SPM * MPH * HPD \in Nat \ {0}
  BY <1>1, <1>2, ProductPositive
<1>4. Week \in Nat \ {0}
  BY <1>1, <1>3, ProductPositive DEF Week
<1>5. NPlugs * NSlots \in Nat \ {0}
  BY <1>1, ProductPositive
<1>6. Tasks \subseteq Nat /\ 0 \in Tasks
  BY <1>5 DEF Tasks
<1> QED
  BY <1>1, <1>2, <1>3, <1>4, <1>5, <1>6

\* A task belongs to a plug, and its slot fits a byte.
LEMMA TaskFacts ==
  ASSUME NEW p \in Tasks
  PROVE  PlugOf(p) \in Plugs /\ SlotOf(p) \in 0..255
<1> DEFINE q == p \div NSlots
           r == p % NSlots
<1>1. p \in Nat /\ p < NPlugs * NSlots
  BY SizeFacts DEF Tasks
<1>2. q \in Nat /\ r \in 0..(NSlots - 1) /\ p = NSlots * q + r
  BY <1>1, SizeFacts, Division
<1> HIDE DEF q, r
<1>3. q < NPlugs
  <2>1. CASE NPlugs <= q
    <3>1. NSlots * NPlugs <= NSlots * q
      BY <1>2, <2>1, SizeFacts, ProductMonotone
    <3>2. NSlots * NPlugs = NPlugs * NSlots
      BY SizeFacts
    <3> QED
      BY <1>1, <1>2, <3>1, <3>2, SizeFacts
  <2> QED
    BY <1>2, <2>1, SizeFacts
<1>4. PlugOf(p) \in Plugs
  BY <1>2, <1>3, SizeFacts DEF PlugOf, Plugs, q
<1>5. r \in 0..255
  BY <1>2, SizeFacts, ClockAssumption
<1> QED
  BY <1>4, <1>5 DEF SlotOf, r

\* The clock stays within the week.
LEMMA InWeek ==
  ASSUME NEW n \in Nat
  PROVE  n % Week \in 0..(Week - 1)
  BY SizeFacts, Division

\* When the second is 0, the next second is of the same minute, hour and day.
LEMMA SameMinute ==
  ASSUME NEW n \in 0..(Week - 1), Sec(n) = 0, NEW t, t = (n + 1) % Week
  PROVE  Min(t) = Min(n) /\ Hour(t) = Hour(n) /\ Wday(t) = Wday(n)
<1>1. n \in Nat /\ n + 1 \in Nat /\ n < Week
  BY SizeFacts
<1>2. n % SPM = 0
  BY DEF Sec
<1>3. (n + 1) \div (SPM * (MPH * HPD * DPW)) = n \div (SPM * (MPH * HPD * DPW))
  <2>1. MPH * HPD * DPW \in Nat \ {0}
    BY SizeFacts, ProductPositive
  <2> QED
    BY <1>1, <1>2, <2>1, SizeFacts, NoCarry
<1>4. SPM * (MPH * HPD * DPW) = Week
  BY SizeFacts DEF Week
<1>5. n \div Week = 0
  <2>1. n = Week * 0 + n
    BY <1>1, SizeFacts
  <2> QED
    BY <1>1, <2>1, SizeFacts, DivisionUnique
<1>6. (n + 1) % Week = n + 1
  <2> DEFINE s == (n + 1) % Week
  <2>1. (n + 1) \div Week = 0
    BY <1>3, <1>4, <1>5
  <2>2. n + 1 = Week * ((n + 1) \div Week) + s
    BY <1>1, SizeFacts, Division
  <2>3. s \in Nat
    BY <1>1, SizeFacts, Division
  <2> HIDE DEF s
  <2>4. n + 1 = Week * 0 + s
    BY <2>1, <2>2
  <2>5. n + 1 = s
    BY <1>1, <2>3, <2>4, SizeFacts
  <2> QED
    BY <2>5 DEF s
<1>7. t = n + 1
  BY <1>6
<1>8. (n + 1) \div SPM = n \div SPM
  <2>1. (n + 1) \div (SPM * 1) = n \div (SPM * 1)
    BY <1>1, <1>2, SizeFacts, NoCarry
  <2>2. SPM * 1 = SPM
    BY SizeFacts
  <2> QED
    BY <2>1, <2>2
<1>9. (n + 1) \div (SPM * MPH) = n \div (SPM * MPH)
  BY <1>1, <1>2, SizeFacts, NoCarry
<1>10. (n + 1) \div (SPM * MPH * HPD) = n \div (SPM * MPH * HPD)
  <2>1. MPH * HPD \in Nat \ {0}
    BY SizeFacts, ProductPositive
  <2>2. (n + 1) \div (SPM * (MPH * HPD)) = n \div (SPM * (MPH * HPD))
    BY <1>1, <1>2, <2>1, SizeFacts, NoCarry
  <2>3. SPM * (MPH * HPD) = SPM * MPH * HPD
    BY SizeFacts
  <2> QED
    BY <2>2, <2>3
<1> QED
  BY <1>7, <1>8, <1>9, <1>10 DEF Min, Hour, Wday

-----------------------------------------------------------------------------
(***************************************************************************)
(* Lemmas: what the pass does.                                             *)
(***************************************************************************)

\* The day and the fields of the clock are compared before anything is done.
LEMMA Places ==
    /\ Comparing \subseteq Looking /\ "switch" \in Looking /\ "disarm" \in Looking
    /\ "switch" \notin Comparing /\ "disarm" \notin Comparing
    /\ \A r \in {"loop", "ntp", "look", "report"} : r \notin Looking /\ r \notin Comparing
  BY DEF Looking, Comparing

\* The pass goes on with the next task, or it is complete and pos is 0 again.
LEMMA AdvanceFacts ==
  ASSUME TypeOK, NEW flag, Advance(flag)
  PROVE  /\ pos' \in Tasks /\ passed' \in BOOLEAN
         /\ \/ /\ rpc' = "look" /\ pos' = pos + 1 /\ passed' = passed
            \/ /\ rpc' \in {"loop", "report"} /\ pos' = 0
               /\ passed' = (passed \/ fresh)
               /\ \A p \in Tasks : p <= pos
<1>1. pos \in Nat /\ pos <= NPlugs * NSlots - 1 /\ passed \in BOOLEAN /\ fresh \in BOOLEAN
  BY SizeFacts DEF TypeOK, Tasks
<1>2. CASE pos < NPlugs * NSlots - 1
  <2>1. pos + 1 \in Tasks
    BY <1>1, <1>2, SizeFacts DEF Tasks
  <2> QED
    BY <1>1, <1>2, <2>1 DEF Advance
<1>3. CASE ~(pos < NPlugs * NSlots - 1)
  <2>1. \A p \in Tasks : p <= pos
    BY <1>1, <1>3, SizeFacts DEF Tasks
  <2>2. rpc' = (IF flag THEN "report" ELSE "loop") /\ pos' = 0 /\ passed' = (passed \/ fresh)
    BY <1>3 DEF Advance
  <2> QED
    BY <1>1, <2>1, <2>2, SizeFacts
<1> QED
  BY <1>2, <1>3

\* A step to the next task keeps what is known of the pass and of the copy of
\* repeat.
LEMMA AdvanceKeeps ==
  ASSUME TypeOK, PassInv, NEW flag, Advance(flag), rpc # "loop", fresh' = fresh
  PROVE  PassInv' /\ LookInv' /\ WasInv' /\ rpc' \notin Looking /\ rpc' \notin Comparing
<1>1. rpc' \in {"look", "loop", "report"} /\ (rpc' # "look" => pos' = 0)
  BY AdvanceFacts
<1>2. passed' = passed \/ passed' = (passed \/ fresh)
  BY AdvanceFacts
<1>3. ~fresh => ~passed'
  BY <1>2 DEF PassInv
<1>4. PassInv'
  BY <1>1, <1>3 DEF PassInv
<1> QED
  BY <1>1, <1>4, Places DEF LookInv, WasInv

\* A step to the next task keeps what a calm second has served, if the task
\* it leaves was served.
LEMMA AdvanceCalm ==
  ASSUME TypeOK, NEW flag, Advance(flag), rpc' \notin Looking, rpc' \notin Comparing,
         fresh' = fresh, due' = due, calm' = calm, edit' = edit, CalmInv,
         calm => /\ \A p \in due : /\ Matches(task[p], task[p].repeat, t_t)'
                                   /\ (task[p].on # 0 \/ (task[p].repeat = {} /\ Settled(p)))'
                 /\ \A p \in Tasks : IsDue(p, t_t)' => p \in due
                 /\ fresh => \A p \in due : p <= pos => Served(p)'
                 /\ passed => \A p \in due : Served(p)'
  PROVE  CalmInv'
<1> SUFFICES ASSUME calm
             PROVE  CalmInv'
  BY DEF CalmInv
<1>1. edit' = None
  BY DEF CalmInv
<1>2. due \subseteq Tasks /\ pos \in Nat /\ \A p \in Tasks : p \in Nat
  BY SizeFacts DEF TypeOK
<1>3. \A p \in due : Matches(task[p], task[p].repeat, t_t)'
                     /\ (task[p].on # 0 \/ (task[p].repeat = {} /\ Settled(p)))'
  OBVIOUS
<1>4. \A p \in Tasks : IsDue(p, t_t)' => p \in due
  OBVIOUS
<1>5. fresh => \A p \in due : p < pos' => Served(p)'
  <2> SUFFICES ASSUME fresh, NEW p \in due, p < pos'
               PROVE  Served(p)'
    OBVIOUS
  <2>1. pos' = pos + 1 \/ pos' = 0
    BY AdvanceFacts
  <2>2. p <= pos
    BY <1>2, <2>1
  <2> QED
    BY <2>2
<1>6. passed' => \A p \in due : Served(p)'
  <2> SUFFICES ASSUME passed', NEW p \in due
               PROVE  Served(p)'
    OBVIOUS
  <2>1. CASE passed
    BY <2>1
  <2>2. CASE ~passed
    <3>1. fresh /\ \A q \in Tasks : q <= pos
      BY <2>2, AdvanceFacts
    <3>2. p <= pos
      BY <1>2, <3>1
    <3> QED
      BY <3>1, <3>2
  <2> QED
    BY <2>1, <2>2
<1>7. rpc' \notin {"switch", "disarm"}
  BY Places
<1> QED
  BY <1>1, <1>3, <1>4, <1>5, <1>6, <1>7 DEF CalmInv

\* A step between the tasks changes nothing of what a calm second has served.
LEMMA BetweenTasks ==
  ASSUME CalmInv, rpc' \in {"loop", "ntp", "look", "report"}, pos' = pos,
         UNCHANGED <<t_t, task, on, edit, passed, due, calm>>,
         fresh' => fresh \/ pos = 0, TypeOK
  PROVE  CalmInv'
<1> SUFFICES ASSUME calm
             PROVE  CalmInv'
  BY DEF CalmInv
<1>1. rpc' \notin Looking /\ rpc' \notin Comparing /\ rpc' \notin {"switch", "disarm"}
  BY Places
<1>2. edit' = None
  BY DEF CalmInv
<1>3. \A p \in due : Matches(task[p], task[p].repeat, t_t)'
                     /\ (task[p].on # 0 \/ (task[p].repeat = {} /\ Settled(p)))'
  BY DEF CalmInv, Matches, Settled, Contested, DayMatches
<1>4. \A p \in Tasks : IsDue(p, t_t)' => p \in due
  BY DEF CalmInv, IsDue, Matches, DayMatches
<1>5. \A p \in due : Served(p) => Served(p)'
  BY DEF Served, Settled, Contested
<1>6. fresh' => \A p \in due : p < pos => Served(p)'
  <2>1. CASE fresh
    BY <1>5, <2>1 DEF CalmInv
  <2>2. CASE pos = 0
    <3>1. \A p \in due : p \in Nat
      BY SizeFacts DEF TypeOK
    <3> QED
      BY <2>2, <3>1
  <2> QED
    BY <2>1, <2>2
<1>7. passed' => \A p \in due : Served(p)'
  BY <1>5 DEF CalmInv
<1> QED
  BY <1>1, <1>2, <1>3, <1>4, <1>6, <1>7 DEF CalmInv

\* The fields of a task have their types.
LEMMA TaskType ==
  ASSUME TypeOK, NEW p \in Tasks
  PROVE  /\ task[p] \in Task /\ task[p].on \in 0..255 /\ task[p].action \in 0..255
         /\ task[p].repeat \in SUBSET (0..7)
  BY DEF TypeOK, Task

-----------------------------------------------------------------------------
(***************************************************************************)
(* Every step keeps the invariant.                                         *)
(***************************************************************************)

\* At the start no task is on and the thread begins its loop.
LEMMA InitInv == Init => IInv
<1> SUFFICES ASSUME Init
             PROVE  IInv
  OBVIOUS
<1>1. TypeOK
  <2>1. rtctimes \in 0..(Week - 1) /\ t_t \in 0..(Week - 1)
    <3>1. Boot \in Nat
      BY ClockAssumption
    <3> QED
      BY <3>1, SizeFacts, InWeek DEF Init
  <2>2. Off \in Task
    BY DEF Off, Task
  <2>3. task \in [Tasks -> Task] /\ on \in [Plugs -> 0..255] /\ shots \in [Tasks -> 0..2]
        /\ task_flag \in [Plugs -> 0..255]
    BY <2>2 DEF Init
  <2>4. edits \in 0..MaxEdits
    BY ClockAssumption DEF Init
  <2>5. rpc \in {"loop", "ntp", "look", "switch", "disarm", "report"} \cup Comparing
        /\ rep \in SUBSET (0..7) /\ due \subseteq Tasks /\ written \in 0..4 /\ edit = None
    BY DEF Init
  <2>6. pos \in Tasks
    BY SizeFacts DEF Init
  <2>7. /\ ntpok \in BOOLEAN /\ upd \in BOOLEAN /\ fresh \in BOOLEAN /\ passed \in BOOLEAN
        /\ calm \in BOOLEAN /\ touched \in BOOLEAN /\ was \in BOOLEAN
    BY DEF Init
  <2> QED
    BY <2>1, <2>3, <2>4, <2>5, <2>6, <2>7 DEF TypeOK
<1>2. PassInv
  BY DEF Init, PassInv
<1>3. LookInv /\ WasInv
  BY Places DEF Init, LookInv, WasInv
<1>4. ShotsInv
  BY Places DEF Init, ShotsInv
<1>5. CalmInv
  BY DEF Init, CalmInv
<1> QED
  BY <1>1, <1>2, <1>3, <1>4, <1>5 DEF IInv

\* Tick: a new second begins, in which nothing was compared yet.
LEMMA TickInv == IInv /\ Tick => IInv'
<1> SUFFICES ASSUME IInv, Tick
             PROVE  IInv'
  OBVIOUS
<1>0. TypeOK /\ PassInv /\ LookInv /\ ShotsInv /\ WasInv /\ CalmInv
  BY DEF IInv
<1>a. /\ rpc' = rpc /\ pos' = pos /\ rep' = rep /\ task' = task /\ on' = on
      /\ edit' = edit /\ touched' = touched /\ shots' = shots /\ upd' = upd
      /\ ntpok' = ntpok /\ task_flag' = task_flag /\ written' = written /\ edits' = edits
      /\ fresh' = FALSE /\ passed' = FALSE
  BY DEF Tick, thread, editing
<1>b. /\ rtctimes' = (rtctimes + 1) % Week /\ t_t' = (rtctimes' + Zone) % Week
      /\ due' = {p \in Tasks : IsDue(p, t_t')} /\ passed
      /\ calm' = (edit = None /\ rpc \notin {"switch", "disarm"}
                    /\ (rpc \in Comparing => ~touched))
      /\ Noticed(t_t' # (t_t + 1) % Week)
  BY DEF Tick
<1>c. rtctimes \in Nat /\ Zone \in Nat
  BY <1>0, SizeFacts, ClockAssumption DEF TypeOK
<1>d. rtctimes' \in 0..(Week - 1)
  <2>1. rtctimes + 1 \in Nat
    BY <1>c
  <2> QED
    BY <1>b, <2>1, InWeek
<1>e. t_t' \in 0..(Week - 1)
  <2>1. rtctimes' \in Nat
    BY <1>d
  <2>2. \A n \in Nat : n + Zone \in Nat
    BY <1>c
  <2> QED
    BY <1>b, <2>1, <2>2, InWeek
<1>f. was' = (rpc \in Comparing
                /\ (was \/ Matches(task[pos], rep, t_t') \/ t_t' # (t_t + 1) % Week))
  BY <1>b DEF Noticed
<1>1. TypeOK'
  <2>1. calm' \in BOOLEAN /\ was' \in BOOLEAN /\ due' \subseteq Tasks
    BY <1>b, <1>f
  <2> QED
    BY <1>0, <1>a, <1>d, <1>e, <2>1 DEF TypeOK
<1>2. PassInv'
  BY <1>0, <1>a DEF PassInv
<1>3. LookInv'
  BY <1>0, <1>a DEF LookInv
<1>4. ShotsInv'
  BY <1>0, <1>a DEF ShotsInv
<1>5. WasInv'
  <2> SUFFICES ASSUME rpc \in Comparing, ~touched, ~was'
               PROVE  /\ ~Matches(task[pos], rep, t_t')
                      /\ rpc # "second" =>
                            /\ ~MinuteMatches(task[pos], rep, t_t')
                            /\ rpc # "minute" => Min(t_t') = task[pos].minute
                            /\ rpc = "day"    => Hour(t_t') = task[pos].hour
    BY <1>a DEF WasInv, Matches, MinuteMatches, DayMatches
  <2>1. ~was /\ ~Matches(task[pos], rep, t_t') /\ t_t' = (t_t + 1) % Week
    BY <1>f
  <2>2. CASE rpc # "second"
    <3>1. fresh
      BY <1>0, <1>b, Places DEF PassInv
    <3>2. /\ Sec(t_t) = 0 /\ ~MinuteMatches(task[pos], rep, t_t)
          /\ rpc # "minute" => Min(t_t) = task[pos].minute
          /\ rpc = "day"    => Hour(t_t) = task[pos].hour
      BY <1>0, <2>1, <2>2, <3>1 DEF WasInv
    <3>3. t_t \in 0..(Week - 1)
      BY <1>0 DEF TypeOK
    <3>4. Min(t_t') = Min(t_t) /\ Hour(t_t') = Hour(t_t) /\ Wday(t_t') = Wday(t_t)
      BY <2>1, <3>2, <3>3, SameMinute
    <3> QED
      BY <2>1, <3>2, <3>4 DEF MinuteMatches, DayMatches
  <2> QED
    BY <2>1, <2>2
<1>6. CalmInv'
  <2> SUFFICES ASSUME calm'
               PROVE  CalmInv'
    BY DEF CalmInv
  <2>1. edit' = None /\ rpc' \notin {"switch", "disarm"} /\ (rpc' \in Looking => ~touched')
    BY <1>a, <1>b DEF Looking
  <2>2. \A p \in due' : /\ Matches(task[p], task[p].repeat, t_t)'
                        /\ task'[p].on # 0
    BY <1>a, <1>b DEF IsDue, Matches, DayMatches
  <2>3. \A p \in Tasks : IsDue(p, t_t)' => p \in due'
    BY <1>a, <1>b DEF IsDue, Matches, DayMatches
  <2>4. Stale'
    BY <1>a, <2>2 DEF Stale
  <2> QED
    BY <1>a, <2>1, <2>2, <2>3, <2>4 DEF CalmInv
<1> QED
  BY <1>1, <1>2, <1>3, <1>4, <1>5, <1>6 DEF IInv

\* PrintTime: the clock jumps, which the comparison in progress knows.
LEMMA PrintTimeInv == IInv /\ PrintTime => IInv'
<1> SUFFICES ASSUME IInv, PrintTime
             PROVE  IInv'
  OBVIOUS
<1>0. TypeOK /\ PassInv /\ LookInv /\ ShotsInv
  BY DEF IInv
<1>a. /\ rpc' = rpc /\ pos' = pos /\ rep' = rep /\ task' = task /\ on' = on
      /\ edit' = edit /\ touched' = touched /\ shots' = shots /\ upd' = upd
      /\ ntpok' = ntpok /\ task_flag' = task_flag /\ written' = written /\ edits' = edits
      /\ fresh' = fresh /\ passed' = passed /\ rtctimes' = rtctimes
      /\ due' = {} /\ calm' = FALSE
  BY DEF PrintTime, thread, editing
<1>b. was' = (rpc \in Comparing)
  BY DEF PrintTime, Noticed
<1>c. t_t' \in 0..(Week - 1)
  <2>1. rtctimes + Zone \in Nat
    BY <1>0, SizeFacts, ClockAssumption DEF TypeOK
  <2> QED
    BY <2>1, InWeek DEF PrintTime
<1>1. TypeOK'
  <2>1. was' \in BOOLEAN
    BY <1>b
  <2> QED
    BY <1>0, <1>a, <1>c, <2>1, ZenonT(60) DEF TypeOK
<1>2. PassInv' /\ LookInv' /\ ShotsInv'
  BY <1>0, <1>a DEF PassInv, LookInv, ShotsInv
<1>3. WasInv'
  BY <1>a, <1>b DEF WasInv
<1>4. CalmInv'
  BY <1>a DEF CalmInv
<1> QED
  BY <1>1, <1>2, <1>3, <1>4 DEF IInv

\* Loop: a pass begins with the first task.
LEMMA LoopInv == IInv /\ Loop => IInv'
<1> SUFFICES ASSUME IInv, Loop
             PROVE  IInv'
  OBVIOUS
<1>0. TypeOK /\ PassInv /\ ShotsInv /\ CalmInv
  BY DEF IInv
<1>a. /\ pos' = pos /\ rep' = rep /\ task' = task /\ on' = on /\ t_t' = t_t
      /\ edit' = edit /\ touched' = touched /\ shots' = shots /\ upd' = upd
      /\ task_flag' = task_flag /\ written' = written /\ edits' = edits
      /\ fresh' = TRUE /\ passed' = passed /\ rtctimes' = rtctimes
      /\ due' = due /\ calm' = calm /\ was' = was
  BY DEF Loop, clock, editing
<1>b. rpc = "loop" /\ rpc' \in {"look", "ntp"} /\ ntpok' \in BOOLEAN
  <2>1. CASE Min(t_t) % Sync = 0
    BY <1>0, <2>1 DEF Loop, TypeOK
  <2>2. CASE Min(t_t) % Sync # 0
    BY <2>2 DEF Loop
  <2> QED
    BY <2>1, <2>2
<1>c. pos = 0
  BY <1>0, <1>b DEF PassInv
<1>d. rpc' \notin Looking /\ rpc' \notin Comparing
  BY <1>b, Places
<1>1. TypeOK'
  BY <1>0, <1>a, <1>b DEF TypeOK
<1>2. PassInv'
  BY <1>a, <1>b, <1>c DEF PassInv
<1>3. LookInv' /\ WasInv'
  BY <1>d DEF LookInv, WasInv
<1>4. ShotsInv'
  BY <1>0, <1>a, <1>b, <1>d DEF ShotsInv
<1>5. CalmInv'
  BY <1>0, <1>a, <1>b, <1>c, BetweenTasks
<1> QED
  BY <1>1, <1>2, <1>3, <1>4, <1>5 DEF IInv

\* Steps that leave the place after NTP was asked, with or without an answer.
LEMMA NtpInv ==
  ASSUME IInv, rpc = "ntp", rpc' = "look", ntpok' \in BOOLEAN,
         rtctimes' \in 0..(Week - 1),
         UNCHANGED <<t_t, task, on, pos, rep, upd, task_flag, editing, aux>>
  PROVE  IInv'
<1>0. TypeOK /\ PassInv /\ ShotsInv /\ CalmInv
  BY DEF IInv
<1>a. /\ pos' = pos /\ rep' = rep /\ task' = task /\ on' = on /\ t_t' = t_t
      /\ edit' = edit /\ touched' = touched /\ shots' = shots /\ upd' = upd
      /\ task_flag' = task_flag /\ written' = written /\ edits' = edits
      /\ fresh' = fresh /\ passed' = passed
      /\ due' = due /\ calm' = calm /\ was' = was
  BY DEF aux, editing
<1>b. rpc' \notin Looking /\ rpc' \notin Comparing
  BY Places
<1>1. TypeOK'
  BY <1>0, <1>a DEF TypeOK
<1>2. PassInv'
  BY <1>0, <1>a DEF PassInv
<1>3. LookInv' /\ WasInv'
  BY <1>b DEF LookInv, WasInv
<1>4. ShotsInv'
  BY <1>0, <1>a, <1>b DEF ShotsInv
<1>5. CalmInv'
  BY <1>0, <1>a, BetweenTasks
<1> QED
  BY <1>1, <1>2, <1>3, <1>4, <1>5 DEF IInv

\* NtpAnswers: the seconds counter is set, nothing else.
LEMMA NtpAnswersInv == ASSUME NEW d \in Drift PROVE IInv /\ NtpAnswers(d) => IInv'
<1> SUFFICES ASSUME IInv, NtpAnswers(d)
             PROVE  IInv'
  OBVIOUS
<1>1. rtctimes + d \in Nat
  BY SizeFacts, ClockAssumption DEF IInv, TypeOK
<1>2. rtctimes' \in 0..(Week - 1)
  BY <1>1, InWeek DEF NtpAnswers
<1> QED
  BY <1>2, NtpInv DEF NtpAnswers

\* NtpFails: nothing is set.
LEMMA NtpFailsInv == IInv /\ NtpFails => IInv'
<1> SUFFICES ASSUME IInv, NtpFails
             PROVE  IInv'
  OBVIOUS
<1>1. ntpok' \in BOOLEAN /\ rtctimes' \in 0..(Week - 1)
  BY DEF IInv, TypeOK, NtpFails, clock
<1>2. t_t' = t_t
  BY DEF NtpFails, clock
<1> QED
  BY <1>1, <1>2, NtpInv DEF NtpFails

\* Report: the flags are cleared and the thread loops.
LEMMA ReportInv == IInv /\ Report => IInv'
<1> SUFFICES ASSUME IInv, Report
             PROVE  IInv'
  OBVIOUS
<1>0. TypeOK /\ PassInv /\ ShotsInv /\ CalmInv
  BY DEF IInv
<1>a. /\ pos' = pos /\ rep' = rep /\ task' = task /\ on' = on /\ t_t' = t_t
      /\ edit' = edit /\ touched' = touched /\ shots' = shots /\ upd' = FALSE
      /\ ntpok' = ntpok /\ written' = written /\ edits' = edits
      /\ fresh' = fresh /\ passed' = passed /\ rtctimes' = rtctimes
      /\ due' = due /\ calm' = calm /\ was' = was
      /\ rpc = "report" /\ rpc' = "loop"
  BY DEF Report, clock, editing
<1>b. rpc' \notin Looking /\ rpc' \notin Comparing
  BY <1>a, Places
<1>1. TypeOK'
  <2>1. task_flag' \in [Plugs -> 0..255]
    BY <1>0 DEF TypeOK, Report
  <2> QED
    BY <1>0, <1>a, <2>1 DEF TypeOK
<1>2. PassInv'
  BY <1>0, <1>a DEF PassInv
<1>3. LookInv' /\ WasInv'
  BY <1>b DEF LookInv, WasInv
<1>4. ShotsInv'
  BY <1>0, <1>a, <1>b DEF ShotsInv
<1>5. CalmInv'
  BY <1>0, <1>a, BetweenTasks
<1> QED
  BY <1>1, <1>2, <1>3, <1>4, <1>5 DEF IInv

\* A step to the next task that sets nothing keeps everything, if the task it
\* leaves was served or not due.
LEMMA AdvanceOnly ==
  ASSUME IInv, Advance(upd), rpc # "loop", rpc \notin {"switch", "disarm"},
         UNCHANGED <<t_t, rtctimes, ntpok, task, on, rep, upd, task_flag, editing,
                     fresh, due, calm, shots>>,
         touched' \in BOOLEAN, was' \in BOOLEAN,
         calm /\ fresh /\ pos \in due => Served(pos)
  PROVE  IInv'
<1>0. TypeOK /\ PassInv /\ ShotsInv /\ CalmInv
  BY DEF IInv
<1>a. edit' = edit /\ written' = written /\ edits' = edits
  BY DEF editing
<1>b. /\ pos' \in Tasks /\ passed' \in BOOLEAN
      /\ rpc' \in {"loop", "look", "report"}
  BY <1>0, AdvanceFacts
<1>1. TypeOK'
  BY <1>0, <1>a, <1>b DEF TypeOK
<1>2. PassInv' /\ LookInv' /\ WasInv' /\ rpc' \notin Looking /\ rpc' \notin Comparing
  BY <1>0, AdvanceKeeps
<1>3. ShotsInv'
  BY <1>0, <1>2 DEF ShotsInv
<1>4. CalmInv'
  <2>1. \A p \in due : Served(p) => Served(p)'
    BY DEF Served, Settled, Contested
  <2>2. ASSUME calm
        PROVE  /\ \A p \in due : /\ Matches(task[p], task[p].repeat, t_t)'
                                 /\ (task[p].on # 0 \/ (task[p].repeat = {} /\ Settled(p)))'
               /\ \A p \in Tasks : IsDue(p, t_t)' => p \in due
    BY <1>0, <2>2 DEF CalmInv, IsDue, Matches, DayMatches, Settled, Contested
  <2>3. ASSUME calm, fresh
        PROVE  \A p \in due : p <= pos => Served(p)'
    <3> SUFFICES ASSUME NEW p \in due, p <= pos
                 PROVE  Served(p)
      BY <2>1
    <3>1. p \in Nat /\ pos \in Nat
      BY <1>0, SizeFacts DEF TypeOK
    <3>2. CASE p < pos
      BY <1>0, <2>3, <3>2 DEF CalmInv
    <3>3. CASE p = pos
      BY <2>3, <3>3
    <3> QED
      BY <3>1, <3>2, <3>3
  <2>4. ASSUME calm, passed
        PROVE  \A p \in due : Served(p)'
    BY <1>0, <2>1, <2>4 DEF CalmInv
  <2> QED
    BY <1>0, <1>a, <1>2, <2>2, <2>3, <2>4, AdvanceCalm
<1> QED
  BY <1>1, <1>2, <1>3, <1>4 DEF IInv

\* A step within one task, which nobody else sees, keeps what a calm second
\* has served.
LEMMA WithinTask ==
  ASSUME TypeOK, CalmInv, pos' = pos,
         UNCHANGED <<t_t, task, on, edit, fresh, passed, due, calm>>,
         rpc' # "disarm", calm /\ rpc' \in Looking => ~touched',
         calm /\ rpc' \in Comparing => Stale' \/ Clean',
         calm /\ rpc' = "switch" => pos \in due \/ Stale'
  PROVE  CalmInv'
<1> SUFFICES ASSUME calm
             PROVE  CalmInv'
  BY DEF CalmInv
<1>1. \A p \in due : Served(p) => Served(p)'
  BY DEF Served, Settled, Contested
<1>2. \A p \in due : Matches(task[p], task[p].repeat, t_t)'
                     /\ (task[p].on # 0 \/ (task[p].repeat = {} /\ Settled(p)))'
  BY DEF CalmInv, Matches, Settled, Contested, DayMatches
<1>3. \A p \in Tasks : IsDue(p, t_t)' => p \in due
  BY DEF CalmInv, IsDue, Matches, DayMatches
<1>4. fresh => \A p \in due : p < pos => Served(p)'
  BY <1>1 DEF CalmInv
<1>5. passed => \A p \in due : Served(p)'
  BY <1>1 DEF CalmInv
<1>6. edit' = None
  BY DEF CalmInv
<1>7. rpc' \in {"switch", "disarm"} => pos' \in due' \/ Stale'
  OBVIOUS
<1> QED
  BY <1>2, <1>3, <1>4, <1>5, <1>6, <1>7 DEF CalmInv

\* Look: a task that is on is looked at; one that is off is passed over.
LEMMA LookStepInv == IInv /\ Look => IInv'
<1> SUFFICES ASSUME IInv, Look
             PROVE  IInv'
  OBVIOUS
<1>0. TypeOK /\ PassInv /\ ShotsInv /\ CalmInv
  BY DEF IInv
<1>a. /\ task' = task /\ on' = on /\ t_t' = t_t /\ rtctimes' = rtctimes
      /\ edit' = edit /\ shots' = shots /\ upd' = upd
      /\ ntpok' = ntpok /\ written' = written /\ edits' = edits
      /\ fresh' = fresh /\ due' = due /\ calm' = calm /\ task_flag' = task_flag
      /\ rpc = "look" /\ touched' = (edit # None /\ edit.of = pos)
  BY DEF Look, clock, editing
<1>b. pos \in Tasks
  BY <1>0 DEF TypeOK
<1>1. CASE task[pos].on # 0
  <2>a. /\ rpc' = "second" /\ rep' = task[pos].repeat
        /\ was' = Matches(task[pos], rep', t_t)
        /\ pos' = pos /\ passed' = passed
    BY <1>1 DEF Look
  <2>1. TypeOK'
    <3>1. rep' \in SUBSET (0..7)
      BY <1>0, <1>b, <2>a, TaskType
    <3>2. was' \in BOOLEAN
      BY <2>a DEF Matches
    <3>3. touched' \in BOOLEAN /\ rpc' \in Comparing
      BY <1>a, <2>a DEF Comparing
    <3> QED
      BY <1>0, <1>a, <2>a, <3>1, <3>2, <3>3 DEF TypeOK
  <2>2. PassInv'
    BY <1>0, <1>a, <2>a DEF PassInv
  <2>3. LookInv'
    BY <1>1, <1>a, <2>a DEF LookInv
  <2>4. ShotsInv'
    <3>1. shots[pos] = 0
      BY <1>0, <1>1, <1>a, <1>b DEF ShotsInv
    <3>2. \A p \in Tasks : shots[p] = 0 \/ (shots[p] = 1 /\ task[p].on = 0)
      BY <1>0, <1>a DEF ShotsInv
    <3> QED
      BY <1>a, <2>a, <3>1, <3>2 DEF ShotsInv
  <2>5. WasInv'
    BY <1>a, <2>a DEF WasInv, Matches, DayMatches
  <2>6. CalmInv'
    <3>1. calm => ~touched'
      BY <1>0, <1>a DEF CalmInv
    <3>2. Clean'
      BY <2>a DEF Clean
    <3> QED
      BY <1>0, <1>a, <2>a, <3>1, <3>2, WithinTask
  <2> QED
    BY <2>1, <2>2, <2>3, <2>4, <2>5, <2>6 DEF IInv
<1>2. CASE task[pos].on = 0
  <2>1. Advance(upd) /\ rep' = rep /\ was' = was
    BY <1>2 DEF Look
  <2>2. touched' \in BOOLEAN /\ was' \in BOOLEAN
    BY <1>0, <1>a, <2>1 DEF TypeOK
  <2>3. calm /\ fresh /\ pos \in due => Served(pos)
    BY <1>0, <1>2 DEF CalmInv, Served
  <2>4. UNCHANGED editing
    BY <1>a DEF editing
  <2> QED
    BY <1>a, <2>1, <2>2, <2>3, <2>4, AdvanceOnly
<1> QED
  BY <1>1, <1>2

\* Compare with a field that differs: the task is not due and is left.
LEMMA Differs ==
  ASSUME IInv, NEW from \in {"second", "minute", "hour"}, NEW to,
         Compare(from, FALSE, to),
         pos \in due /\ calm /\ Clean => FALSE
  PROVE  IInv'
<1>0. TypeOK /\ CalmInv
  BY DEF IInv
<1>a. /\ task' = task /\ on' = on /\ t_t' = t_t /\ rtctimes' = rtctimes
      /\ shots' = shots /\ upd' = upd /\ ntpok' = ntpok /\ rep' = rep
      /\ UNCHANGED editing /\ touched' = touched /\ was' = FALSE
      /\ fresh' = fresh /\ due' = due /\ calm' = calm /\ task_flag' = task_flag
      /\ rpc = from /\ Advance(upd)
  BY DEF Compare, clock
<1>1. calm /\ fresh /\ pos \in due => Served(pos)
  <2>1. rpc \in Comparing
    BY <1>a DEF Comparing
  <2>2. calm /\ fresh => Clean
    BY <1>0, <2>1 DEF CalmInv, Stale
  <2> QED
    BY <2>2
<1>2. touched' \in BOOLEAN /\ was' \in BOOLEAN
  BY <1>0, <1>a DEF TypeOK
<1> QED
  BY <1>a, <1>1, <1>2, AdvanceOnly

\* Compare with a field that is equal: the next field is compared.
LEMMA Agrees ==
  ASSUME IInv, NEW from \in {"second", "minute", "hour"},
         NEW to \in {"minute", "hour", "day"}, Compare(from, TRUE, to),
         WasInv', Clean /\ calm => Clean'
  PROVE  IInv'
<1>0. TypeOK /\ PassInv /\ LookInv /\ ShotsInv /\ CalmInv
  BY DEF IInv
<1>a. /\ task' = task /\ on' = on /\ t_t' = t_t /\ rtctimes' = rtctimes
      /\ shots' = shots /\ upd' = upd /\ ntpok' = ntpok /\ rep' = rep
      /\ edit' = edit /\ written' = written /\ edits' = edits
      /\ touched' = touched /\ was' = was /\ pos' = pos /\ passed' = passed
      /\ fresh' = fresh /\ due' = due /\ calm' = calm /\ task_flag' = task_flag
      /\ rpc = from /\ rpc' = to
  BY DEF Compare, clock, editing
<1>b. rpc \in Comparing /\ rpc' \in Comparing
  BY <1>a DEF Comparing
<1>1. TypeOK'
  BY <1>0, <1>a, <1>b DEF TypeOK
<1>2. PassInv'
  BY <1>0, <1>a DEF PassInv
<1>3. LookInv'
  BY <1>0, <1>a, <1>b, Places DEF LookInv
<1>4. ShotsInv'
  BY <1>0, <1>a, <1>b, Places DEF ShotsInv
<1>5. CalmInv'
  <2>1. calm => ~touched'
    BY <1>0, <1>a, <1>b, Places DEF CalmInv
  <2>2. Stale => Stale'
    BY <1>a DEF Stale
  <2>3. calm => Stale' \/ Clean'
    BY <1>0, <1>b, <2>2 DEF CalmInv
  <2> QED
    BY <1>0, <1>a, <2>1, <2>3, WithinTask
<1> QED
  BY <1>1, <1>2, <1>3, <1>4, <1>5 DEF IInv

\* Match: whatever the comparison finds, the invariant is kept.
LEMMA MatchInv == IInv /\ Match => IInv'
<1> SUFFICES ASSUME IInv, Match
             PROVE  IInv'
  OBVIOUS
<1>0. TypeOK /\ PassInv /\ WasInv /\ CalmInv
  BY DEF IInv
<1>a. pos \in due /\ calm =>
         Sec(t_t) = 0 /\ Min(t_t) = task[pos].minute /\ Hour(t_t) = task[pos].hour
  BY <1>0 DEF CalmInv, Matches
<1>1. ASSUME NEW from, NEW to, Compare(from, TRUE, to)
      PROVE  /\ task' = task /\ t_t' = t_t /\ rep' = rep /\ pos' = pos /\ was' = was
             /\ touched' = touched /\ fresh' = fresh /\ rpc = from /\ rpc' = to
  BY <1>1 DEF Compare, clock
<1>2. CASE Compare("second", Sec(t_t) = 0, "minute")
  <2>1. CASE Sec(t_t) = 0
    <3>1. Compare("second", TRUE, "minute")
      BY <1>2, <2>1 DEF Compare
    <3>2. /\ task' = task /\ t_t' = t_t /\ rep' = rep /\ pos' = pos /\ was' = was
          /\ touched' = touched /\ fresh' = fresh /\ rpc = "second" /\ rpc' = "minute"
      BY <1>1, <3>1
    <3>3. WasInv'
      BY <1>0, <2>1, <3>2 DEF WasInv, Matches, MinuteMatches, DayMatches, Comparing
    <3>4. Clean'
      BY <2>1, <3>2 DEF Clean
    <3> QED
      BY <3>1, <3>3, <3>4, Agrees
  <2>2. CASE Sec(t_t) # 0
    <3>1. Compare("second", FALSE, "minute")
      BY <1>2, <2>2 DEF Compare
    <3> QED
      BY <1>a, <2>2, <3>1, Differs
  <2> QED
    BY <2>1, <2>2
<1>3. CASE Compare("minute", Min(t_t) = task[pos].minute, "hour")
  <2>1. CASE Min(t_t) = task[pos].minute
    <3>1. Compare("minute", TRUE, "hour")
      BY <1>3, <2>1 DEF Compare
    <3>2. /\ task' = task /\ t_t' = t_t /\ rep' = rep /\ pos' = pos /\ was' = was
          /\ touched' = touched /\ fresh' = fresh /\ rpc = "minute" /\ rpc' = "hour"
      BY <1>1, <3>1
    <3>3. WasInv'
      BY <1>0, <2>1, <3>2 DEF WasInv, Matches, MinuteMatches, DayMatches, Comparing
    <3>4. Clean => Clean'
      BY <2>1, <3>2 DEF Clean
    <3> QED
      BY <3>1, <3>3, <3>4, Agrees
  <2>2. CASE Min(t_t) # task[pos].minute
    <3>1. Compare("minute", FALSE, "hour")
      BY <1>3, <2>2 DEF Compare
    <3> QED
      BY <1>a, <2>2, <3>1, Differs
  <2> QED
    BY <2>1, <2>2
<1>4. CASE Compare("hour", Hour(t_t) = task[pos].hour, "day")
  <2>1. CASE Hour(t_t) = task[pos].hour
    <3>1. Compare("hour", TRUE, "day")
      BY <1>4, <2>1 DEF Compare
    <3>2. /\ task' = task /\ t_t' = t_t /\ rep' = rep /\ pos' = pos /\ was' = was
          /\ touched' = touched /\ fresh' = fresh /\ rpc = "hour" /\ rpc' = "day"
      BY <1>1, <3>1
    <3>3. WasInv'
      BY <1>0, <2>1, <3>2 DEF WasInv, Matches, MinuteMatches, DayMatches, Comparing
    <3>4. Clean => Clean'
      BY <2>1, <3>2 DEF Clean
    <3> QED
      BY <3>1, <3>3, <3>4, Agrees
  <2>2. CASE Hour(t_t) # task[pos].hour
    <3>1. Compare("hour", FALSE, "day")
      BY <1>4, <2>2 DEF Compare
    <3> QED
      BY <1>a, <2>2, <3>1, Differs
  <2> QED
    BY <2>1, <2>2
<1> QED
  BY <1>2, <1>3, <1>4 DEF Match

\* Fire: the day is the last field, and what agrees with all of them is due.
LEMMA FireInv == IInv /\ Fire => IInv'
<1> SUFFICES ASSUME IInv, Fire
             PROVE  IInv'
  OBVIOUS
<1>0. TypeOK /\ PassInv /\ LookInv /\ ShotsInv /\ CalmInv
  BY DEF IInv
<1>a. /\ task' = task /\ on' = on /\ t_t' = t_t /\ rtctimes' = rtctimes
      /\ upd' = upd /\ ntpok' = ntpok /\ rep' = rep
      /\ edit' = edit /\ written' = written /\ edits' = edits
      /\ touched' = touched /\ was' = FALSE
      /\ fresh' = fresh /\ due' = due /\ calm' = calm /\ task_flag' = task_flag
      /\ rpc = "day"
  BY DEF Fire, clock, editing
<1>b. pos \in Tasks /\ rpc \in Comparing /\ rpc \in Looking
  BY <1>0, <1>a DEF TypeOK, Comparing, Looking
<1>1. CASE DayMatches(rep, t_t)
  <2>a. /\ rpc' = "switch" /\ pos' = pos /\ passed' = passed
        /\ shots' = [shots EXCEPT ![pos] = IF rep = {} /\ @ < 2 THEN @ + 1 ELSE @]
    BY <1>1 DEF Fire
  <2>b. rpc' \in Looking /\ rpc' \notin Comparing
    BY <2>a, Places
  <2>c. shots[pos] = 0
    BY <1>0, <1>b DEF ShotsInv
  <2>d. shots' = [shots EXCEPT ![pos] = IF rep = {} THEN 1 ELSE 0]
    BY <2>a, <2>c
  <2>1. TypeOK'
    <3>1. shots' \in [Tasks -> 0..2]
      BY <1>0, <2>d DEF TypeOK
    <3> QED
      BY <1>0, <1>a, <2>a, <3>1 DEF TypeOK
  <2>2. PassInv'
    BY <1>0, <1>a, <2>a DEF PassInv
  <2>3. LookInv'
    BY <1>0, <1>a, <1>b, <2>a DEF LookInv
  <2>4. ShotsInv'
    <3>1. \A p \in Tasks : p # pos => shots[p] = 0 \/ (shots[p] = 1 /\ task[p].on = 0)
      BY <1>0 DEF ShotsInv
    <3>2. shots \in [Tasks -> 0..2]
      BY <1>0 DEF TypeOK
    <3>3. \A p \in Tasks : shots'[p] = IF p = pos THEN IF rep = {} THEN 1 ELSE 0
                                                  ELSE shots[p]
      BY <2>d, <3>2
    <3> QED
      BY <1>a, <2>a, <2>b, <3>1, <3>3 DEF ShotsInv
  <2>5. WasInv'
    BY <2>b DEF WasInv
  <2>6. CalmInv'
    <3>1. calm => ~touched'
      BY <1>0, <1>a, <1>b DEF CalmInv
    <3>2. ASSUME calm, Clean
          PROVE  pos \in due
      <4>1. Sec(t_t) = 0 /\ Min(t_t) = task[pos].minute /\ Hour(t_t) = task[pos].hour
        BY <1>a, <3>2 DEF Clean
      <4>2. task[pos].on # 0 /\ task[pos].repeat = rep
        BY <1>0, <1>a, <1>b, <3>1, <3>2 DEF LookInv
      <4>3. IsDue(pos, t_t)
        BY <1>1, <4>1, <4>2 DEF IsDue, Matches
      <4> QED
        BY <1>0, <1>b, <3>2, <4>3 DEF CalmInv
    <3>3. Stale => Stale'
      BY <1>a DEF Stale
    <3>4. calm => pos \in due \/ Stale'
      BY <1>0, <1>b, <3>2, <3>3 DEF CalmInv
    <3> QED
      BY <1>0, <1>a, <2>a, <2>b, <3>1, <3>4, WithinTask
  <2> QED
    BY <2>1, <2>2, <2>3, <2>4, <2>5, <2>6 DEF IInv
<1>2. CASE ~DayMatches(rep, t_t)
  <2>a. Advance(upd) /\ shots' = shots
    BY <1>2 DEF Fire
  <2>1. calm /\ fresh /\ pos \in due => Served(pos)
    <3> SUFFICES ASSUME calm, pos \in due
                 PROVE  FALSE
      OBVIOUS
    <3>1. task[pos].repeat = rep
      BY <1>0, <1>b DEF CalmInv, LookInv
    <3>2. DayMatches(task[pos].repeat, t_t)
      BY <1>0 DEF CalmInv, Matches
    <3> QED
      BY <1>2, <3>1, <3>2
  <2>2. touched' \in BOOLEAN /\ was' \in BOOLEAN
    BY <1>0, <1>a DEF TypeOK
  <2>3. UNCHANGED editing
    BY <1>a DEF editing
  <2> QED
    BY <1>a, <2>a, <2>1, <2>2, <2>3, AdvanceOnly
<1> QED
  BY <1>1, <1>2

\* Switch: the plug is set as the task wants it, which settles every task of
\* the plug that was due and agrees.
LEMMA SwitchInv == IInv /\ Switch => IInv'
<1> SUFFICES ASSUME IInv, Switch
             PROVE  IInv'
  OBVIOUS
<1>0. TypeOK /\ PassInv /\ LookInv /\ ShotsInv /\ CalmInv
  BY DEF IInv
<1>a. /\ task' = task /\ t_t' = t_t /\ rtctimes' = rtctimes
      /\ ntpok' = ntpok /\ rep' = rep /\ shots' = shots
      /\ edit' = edit /\ written' = written /\ edits' = edits
      /\ touched' = touched /\ was' = was
      /\ fresh' = fresh /\ due' = due /\ calm' = calm /\ task_flag' = task_flag
      /\ rpc = "switch" /\ on' = [on EXCEPT ![PlugOf(pos)] = task[pos].action]
  BY DEF Switch, clock, editing
<1> DEFINE changes == upd \/ on[PlugOf(pos)] # task[pos].action
<1>b. upd' = changes /\ changes \in BOOLEAN
  BY <1>0 DEF Switch, TypeOK
<1>c. \/ rep = {} /\ rpc' = "disarm" /\ pos' = pos /\ passed' = passed
      \/ rep # {} /\ Advance(changes)
  BY DEF Switch
<1>d. pos \in Tasks /\ rpc \in Looking /\ rpc \notin Comparing /\ PlugOf(pos) \in Plugs
  BY <1>0, <1>a, Places, TaskFacts DEF TypeOK
<1> HIDE DEF changes
<1>e. task[pos].action \in 0..255
  BY <1>0, <1>d, TaskType
<1>f. on'[PlugOf(pos)] = task[pos].action
      /\ \A i \in Plugs : i # PlugOf(pos) => on'[i] = on[i]
  BY <1>0, <1>a, <1>d, <1>e DEF TypeOK
<1>1. TypeOK'
  <2>1. on' \in [Plugs -> 0..255]
    BY <1>0, <1>a, <1>d, <1>e DEF TypeOK
  <2>2. rpc' \in {"disarm", "look", "loop", "report"} /\ pos' \in Tasks /\ passed' \in BOOLEAN
    BY <1>0, <1>c, AdvanceFacts DEF TypeOK
  <2> QED
    BY <1>0, <1>a, <1>b, <2>1, <2>2 DEF TypeOK
<1>2. ASSUME calm
      PROVE  /\ \A p \in due : /\ Matches(task[p], task[p].repeat, t_t)'
                               /\ (task[p].on # 0 \/ (task[p].repeat = {} /\ Settled(p)))'
             /\ \A p \in Tasks : IsDue(p, t_t)' => p \in due
             /\ fresh => \A p \in due : p < pos => Served(p)'
             /\ \A p \in due : p = pos => Settled(p)'
             /\ passed => \A p \in due : Served(p)'
  <2>1. \A p \in due : p \in Tasks /\ PlugOf(p) \in Plugs
    BY <1>0, TaskFacts DEF TypeOK
  <2>2. ASSUME pos \in due, NEW p \in due, Settled(p)
        PROVE  Settled(p)'
    <3> SUFFICES ASSUME ~Contested(PlugOf(p))
                 PROVE  on'[PlugOf(p)] = task[p].action
      BY <1>a DEF Settled, Contested
    <3>1. CASE PlugOf(p) = PlugOf(pos)
      <4>1. task[p].action = task[pos].action
        BY <2>2, <3>1 DEF Contested
      <4> QED
        BY <1>f, <3>1, <4>1
    <3>2. CASE PlugOf(p) # PlugOf(pos)
      <4>1. on[PlugOf(p)] = task[p].action
        BY <2>2 DEF Settled
      <4> QED
        BY <1>f, <2>1, <3>2, <4>1
    <3> QED
      BY <3>1, <3>2
  <2>3. \A p \in due : p = pos => Settled(p)'
    BY <1>a, <1>f DEF Settled
  <2>4. pos \in due \/ Stale
    BY <1>0, <1>2, <1>a DEF CalmInv
  <2>5. CASE pos \in due
    <3>1. \A p \in due : Served(p) => Served(p)'
      BY <1>a, <2>2, <2>5 DEF Served
    <3>2. \A p \in due : Matches(task[p], task[p].repeat, t_t)'
      BY <1>0, <1>2, <1>a DEF CalmInv, Matches, DayMatches
    <3>3. \A p \in due : (task[p].on # 0 \/ (task[p].repeat = {} /\ Settled(p)))'
      BY <1>0, <1>2, <1>a, <2>2, <2>5 DEF CalmInv
    <3>4. \A p \in Tasks : IsDue(p, t_t)' => p \in due
      BY <1>0, <1>2, <1>a DEF CalmInv, IsDue, Matches, DayMatches
    <3> QED
      BY <1>0, <1>2, <2>3, <3>1, <3>2, <3>3, <3>4 DEF CalmInv
  <2>6. CASE Stale
    <3>1. ~fresh /\ ~passed
      BY <1>0, <1>a, <2>6 DEF Stale, PassInv
    <3>2. \A p \in due : Matches(task[p], task[p].repeat, t_t)' /\ task'[p].on # 0
      BY <1>0, <1>2, <1>a, <2>6 DEF CalmInv, Matches, DayMatches, Stale
    <3>3. \A p \in Tasks : IsDue(p, t_t)' => p \in due
      BY <1>0, <1>2, <1>a DEF CalmInv, IsDue, Matches, DayMatches
    <3> QED
      BY <2>3, <3>1, <3>2, <3>3
  <2> QED
    BY <2>4, <2>5, <2>6
<1>3. CASE rep = {}
  <2>a. rpc' = "disarm" /\ pos' = pos /\ passed' = passed
    BY <1>3, <1>c
  <2>b. rpc' \in Looking /\ rpc' \notin Comparing
    BY <2>a, Places
  <2>1. PassInv'
    BY <1>0, <1>3, <1>a, <2>a DEF PassInv
  <2>2. LookInv'
    BY <1>0, <1>a, <1>d, <2>a DEF LookInv
  <2>3. ShotsInv'
    BY <1>0, <1>a, <2>a, <2>b DEF ShotsInv
  <2>4. WasInv'
    BY <2>b DEF WasInv
  <2>5. CalmInv'
    <3> SUFFICES ASSUME calm
                 PROVE  CalmInv'
      BY <1>a DEF CalmInv
    <3>1. edit' = None /\ ~touched'
      BY <1>0, <1>a, <1>d DEF CalmInv
    <3>2. pos' \in due' \/ Stale'
      BY <1>0, <1>a, <2>a DEF CalmInv, Stale
    <3>3. on'[PlugOf(pos')] = task'[pos'].action
      BY <1>a, <1>f, <2>a
    <3> QED
      BY <1>2, <1>a, <2>a, <2>b, <3>1, <3>2, <3>3 DEF CalmInv
  <2> QED
    BY <1>1, <2>1, <2>2, <2>3, <2>4, <2>5 DEF IInv
<1>4. CASE rep # {}
  <2>a. Advance(changes)
    BY <1>4, <1>c
  <2>1. PassInv' /\ LookInv' /\ WasInv' /\ rpc' \notin Looking /\ rpc' \notin Comparing
    BY <1>0, <1>a, <2>a, AdvanceKeeps
  <2>2. ShotsInv'
    BY <1>0, <1>4, <1>a, <2>1 DEF ShotsInv
  <2>3. CalmInv'
    <3>1. ASSUME calm, fresh
          PROVE  \A p \in due : p <= pos => Served(p)'
      <4> SUFFICES ASSUME NEW p \in due, p <= pos
                   PROVE  Served(p)'
        OBVIOUS
      <4>1. p \in Nat /\ pos \in Nat
        BY <1>0, SizeFacts DEF TypeOK
      <4>2. CASE p < pos
        BY <1>2, <3>1, <4>2
      <4>3. CASE p = pos
        <5>1. Settled(p)'
          BY <1>2, <3>1, <4>3
        <5>2. task[p].repeat = rep
          BY <1>0, <1>d, <3>1, <4>3 DEF CalmInv, LookInv
        <5> QED
          BY <1>4, <1>a, <5>1, <5>2 DEF Served
      <4> QED
        BY <4>1, <4>2, <4>3
    <3> QED
      BY <1>0, <1>2, <1>a, <2>1, <2>a, <3>1, AdvanceCalm
  <2> QED
    BY <1>1, <2>1, <2>2, <2>3 DEF IInv
<1> QED
  BY <1>3, <1>4

\* Disarm: the plug is as the task wants it, and now the task is off.
LEMMA DisarmInv == IInv /\ Disarm => IInv'
<1> SUFFICES ASSUME IInv, Disarm
             PROVE  IInv'
  OBVIOUS
<1>0. TypeOK /\ PassInv /\ LookInv /\ ShotsInv /\ CalmInv
  BY DEF IInv
<1>a. /\ on' = on /\ t_t' = t_t /\ rtctimes' = rtctimes
      /\ ntpok' = ntpok /\ rep' = rep /\ shots' = shots /\ upd' = TRUE
      /\ edit' = edit /\ written' = written /\ edits' = edits
      /\ touched' = touched /\ was' = was
      /\ fresh' = fresh /\ due' = due /\ calm' = calm
      /\ rpc = "disarm" /\ Advance(TRUE) /\ task' = [task EXCEPT ![pos].on = 0]
  BY DEF Disarm, clock, editing
<1>b. pos \in Tasks /\ rpc \in Looking /\ rep = {}
  BY <1>0, <1>a, Places DEF TypeOK, PassInv
<1>c. \A p \in Tasks : /\ task'[p].repeat = task[p].repeat
                       /\ task'[p].action = task[p].action
                       /\ task'[p].hour = task[p].hour
                       /\ task'[p].minute = task[p].minute
                       /\ task'[p].on = IF p = pos THEN 0 ELSE task[p].on
  <2>1. task \in [Tasks -> Task]
    BY <1>0 DEF TypeOK
  <2>2. task' = [task EXCEPT ![pos] = [task[pos] EXCEPT !.on = 0]]
    BY <1>a
  <2>3. \A p \in Tasks : p # pos => task'[p] = task[p]
    BY <2>1, <2>2
  <2>4. task'[pos] = [task[pos] EXCEPT !.on = 0] /\ task[pos] \in Task
    BY <1>b, <2>1, <2>2
  <2> QED
    BY <1>b, <2>3, <2>4 DEF Task
<1>1. TypeOK'
  <2>1. task' \in [Tasks -> Task]
    <3>1. task \in [Tasks -> Task]
      BY <1>0 DEF TypeOK
    <3>2. \A t \in Task : [t EXCEPT !.on = 0] \in Task
      BY DEF Task
    <3> QED
      BY <1>a, <1>b, <3>1, <3>2
  <2>2. task_flag' \in [Plugs -> 0..255]
    <3>1. SlotOf(pos) \in 0..255
      BY <1>b, TaskFacts
    <3> QED
      BY <1>0, <3>1 DEF Disarm, TypeOK
  <2>3. rpc' \in {"look", "loop", "report"} /\ pos' \in Tasks /\ passed' \in BOOLEAN
    BY <1>0, <1>a, AdvanceFacts
  <2> QED
    BY <1>0, <1>a, <2>1, <2>2, <2>3 DEF TypeOK
<1>2. PassInv' /\ LookInv' /\ WasInv' /\ rpc' \notin Looking /\ rpc' \notin Comparing
  BY <1>0, <1>a, AdvanceKeeps
<1>3. ShotsInv'
  BY <1>0, <1>a, <1>b, <1>c, <1>2 DEF ShotsInv
<1>4. CalmInv'
  <2>1. due \subseteq Tasks
    BY <1>0 DEF TypeOK
  <2>2. \A p \in due : Settled(p) => Settled(p)'
    BY <1>a, <1>c, <2>1 DEF Settled, Contested
  <2>3. \A p \in due : Served(p) => Served(p)'
    BY <1>c, <2>1, <2>2 DEF Served
  <2>4. ASSUME calm
        PROVE  \A p \in due : p = pos => task[p].repeat = {} /\ Settled(p)
    <3>1. task[pos].repeat = {} /\ on[PlugOf(pos)] = task[pos].action
      BY <1>0, <1>a, <1>b, <2>4 DEF CalmInv, LookInv
    <3> QED
      BY <3>1 DEF Settled
  <2>5. ASSUME calm
        PROVE  \A p \in due :
                  /\ Matches(task[p], task[p].repeat, t_t)'
                  /\ (task[p].on # 0 \/ (task[p].repeat = {} /\ Settled(p)))'
    <3> SUFFICES ASSUME NEW p \in due
                 PROVE  /\ Matches(task[p], task[p].repeat, t_t)'
                        /\ (task[p].on # 0 \/ (task[p].repeat = {} /\ Settled(p)))'
      OBVIOUS
    <3>1. p \in Tasks
      BY <2>1
    <3>2. Matches(task[p], task[p].repeat, t_t)'
      BY <1>0, <1>a, <1>c, <2>5, <3>1 DEF CalmInv, Matches, DayMatches
    <3>3. CASE p = pos
      BY <1>c, <2>2, <2>4, <2>5, <3>1, <3>2, <3>3
    <3>4. CASE p # pos
      <4>1. task[p].on # 0 \/ (task[p].repeat = {} /\ Settled(p))
        BY <1>0, <2>5 DEF CalmInv
      <4> QED
        BY <1>c, <2>2, <3>1, <3>2, <3>4, <4>1
    <3> QED
      BY <3>3, <3>4
  <2>6. ASSUME calm, NEW p \in Tasks, IsDue(p, t_t)'
        PROVE  p \in due
    <3>1. p # pos
      BY <1>c, <2>6 DEF IsDue
    <3>2. IsDue(p, t_t)
      BY <1>a, <1>c, <2>6, <3>1 DEF IsDue, Matches, DayMatches
    <3> QED
      BY <1>0, <2>6, <3>2 DEF CalmInv
  <2>7. ASSUME calm, fresh
        PROVE  \A p \in due : p <= pos => Served(p)'
    <3> SUFFICES ASSUME NEW p \in due, p <= pos
                 PROVE  Served(p)'
      OBVIOUS
    <3>1. p \in Tasks /\ p \in Nat /\ pos \in Nat
      BY <1>b, <2>1, SizeFacts
    <3>2. CASE p < pos
      BY <1>0, <2>3, <2>7, <3>2 DEF CalmInv
    <3>3. CASE p = pos
      <4>1. Settled(p)'
        BY <2>2, <2>4, <2>7, <3>3
      <4> QED
        BY <1>c, <3>1, <3>3, <4>1 DEF Served
    <3> QED
      BY <3>1, <3>2, <3>3
  <2>8. ASSUME calm, passed
        PROVE  \A p \in due : Served(p)'
    BY <1>0, <2>3, <2>8 DEF CalmInv
  <2> QED
    BY <1>0, <1>a, <1>2, <2>5, <2>6, <2>7, <2>8, AdvanceCalm
<1> QED
  BY <1>1, <1>2, <1>3, <1>4 DEF IInv

\* BeginEdit: nothing is written yet, and the second is no longer calm.
LEMMA BeginEditInv ==
  ASSUME NEW p \in Tasks, NEW new \in NewTasks
  PROVE  IInv /\ BeginEdit(p, new) => IInv'
<1> SUFFICES ASSUME IInv, BeginEdit(p, new)
             PROVE  IInv'
  OBVIOUS
<1>0. TypeOK /\ PassInv /\ LookInv /\ ShotsInv /\ WasInv
  BY DEF IInv
<1>a. /\ on' = on /\ t_t' = t_t /\ rtctimes' = rtctimes /\ rpc' = rpc /\ pos' = pos
      /\ ntpok' = ntpok /\ rep' = rep /\ shots' = shots /\ upd' = upd /\ was' = was
      /\ fresh' = fresh /\ due' = due /\ passed' = passed /\ task' = task
      /\ task_flag' = task_flag /\ calm' = FALSE /\ touched' = (touched \/ p = pos)
      /\ edit' = [of |-> p, new |-> new] /\ written' = 0
      /\ edits' = edits + 1 /\ edits < MaxEdits
  BY DEF BeginEdit, clock, thread
<1>1. TypeOK'
  <2>1. edits' \in 0..MaxEdits
    BY <1>0, <1>a, ClockAssumption DEF TypeOK
  <2>2. edit'.of \in Tasks /\ edit'.new \in NewTasks /\ touched' \in BOOLEAN /\ written' \in 0..4
    BY <1>0, <1>a DEF TypeOK
  <2> QED
    BY <1>0, <1>a, <2>1, <2>2 DEF TypeOK
<1>2. PassInv' /\ ShotsInv'
  BY <1>0, <1>a DEF PassInv, ShotsInv
<1>3. LookInv'
  BY <1>0, <1>a DEF LookInv
<1>4. WasInv'
  BY <1>0, <1>a DEF WasInv, Matches, MinuteMatches, DayMatches
<1>5. CalmInv'
  BY <1>a DEF CalmInv
<1> QED
  BY <1>1, <1>2, <1>3, <1>4, <1>5 DEF IInv

\* A task in which one field is replaced by a byte is a task, and so is one
\* in which repeat is replaced by bits of a byte.
LEMMA ReplacedByte ==
  ASSUME NEW k \in Task, NEW b \in 0..255, NEW f \in {"hour", "minute", "action", "on"}
  PROVE  [k EXCEPT ![f] = b] \in Task /\ (f # "on" => [k EXCEPT ![f] = b].on = k.on)
<1>1. CASE f = "hour"
  BY <1>1, SMTT(30) DEF Task
<1>2. CASE f = "minute"
  BY <1>2, SMTT(30) DEF Task
<1>3. CASE f = "action"
  BY <1>3, SMTT(30) DEF Task
<1>4. CASE f = "on"
  BY <1>4, SMTT(30) DEF Task
<1> QED
  BY <1>1, <1>2, <1>3, <1>4

LEMMA ReplacedBits ==
  ASSUME NEW k \in Task, NEW bits \in SUBSET (0..7)
  PROVE  [k EXCEPT !.repeat = bits] \in Task /\ [k EXCEPT !.repeat = bits].on = k.on
BY SMTT(30) DEF Task

\* A written field is one of the five of a task.
LEMMA FieldFacts ==
  ASSUME TypeOK, WriteField
  PROVE  /\ Fields[written + 1] \in {"hour", "minute", "repeat", "action", "on"}
         /\ edit.of \in Tasks
         /\ task' \in [Tasks -> Task]
         /\ \A p \in Tasks : p # edit.of => task'[p] = task[p]
         /\ Fields[written + 1] # "on" => task'[edit.of].on = task[edit.of].on
         /\ Fields[written + 1] # "on" => written + 1 \in 0..4
<1> DEFINE f == Fields[written + 1]
<1>1. \/ written = 0 /\ f = "hour"
      \/ written = 1 /\ f = "minute"
      \/ written = 2 /\ f = "repeat"
      \/ written = 3 /\ f = "action"
      \/ written = 4 /\ f = "on"
  BY DEF TypeOK, Fields
<1>2. edit.of \in Tasks /\ edit.new \in Order
  BY InputsAssumption DEF TypeOK, WriteField
<1>3. task \in [Tasks -> Task] /\ task[edit.of] \in Task
  BY <1>2 DEF TypeOK
<1> DEFINE t == [task[edit.of] EXCEPT ![f] = Byte(f, edit.new[f])]
<1>4. task' = [task EXCEPT ![edit.of] = t]
  BY DEF WriteField
<1> HIDE DEF f
<1>5. t \in Task /\ (f # "on" => t.on = task[edit.of].on)
  <2>1. CASE f = "repeat"
    <3>1. t = [task[edit.of] EXCEPT !.repeat = edit.new.repeat \cap (0..7)]
      BY <2>1 DEF Byte
    <3>2. edit.new.repeat \cap (0..7) \in SUBSET (0..7)
      OBVIOUS
    <3> HIDE DEF t
    <3> QED
      BY <1>3, <3>1, <3>2, ReplacedBits, ZenonT(30)
  <2>2. CASE f # "repeat"
    <3> DEFINE b == edit.new[f] % 256
    <3>1. edit.new[f] \in Int
      BY <1>1, <1>2, <2>2 DEF Order
    <3>2. b \in 0..255
      BY <3>1
    <3>3. t = [task[edit.of] EXCEPT ![f] = b]
      BY <2>2 DEF Byte
    <3>4. f \in {"hour", "minute", "action", "on"}
      BY <1>1, <2>2
    <3> HIDE DEF t, b
    <3> QED
      BY <1>3, <3>2, <3>3, <3>4, ReplacedByte, ZenonT(30)
  <2> QED
    BY <2>1, <2>2
<1> HIDE DEF t
<1>6. task'[edit.of] = t /\ \A p \in Tasks : p # edit.of => task'[p] = task[p]
  BY <1>2, <1>3, <1>4
<1>7. task' \in [Tasks -> Task]
  BY <1>3, <1>4, <1>5
<1> QED
  BY <1>1, <1>2, <1>5, <1>6, <1>7 DEF f

\* WriteField: a field of one task changes, which the thread is told if it
\* looks at it.
LEMMA WriteFieldInv == IInv /\ WriteField => IInv'
<1> SUFFICES ASSUME IInv, WriteField
             PROVE  IInv'
  OBVIOUS
<1>0. TypeOK /\ PassInv /\ LookInv /\ ShotsInv /\ WasInv
  BY DEF IInv
<1> DEFINE f == Fields[written + 1]
<1>a. /\ on' = on /\ t_t' = t_t /\ rtctimes' = rtctimes /\ rpc' = rpc /\ pos' = pos
      /\ ntpok' = ntpok /\ rep' = rep /\ upd' = upd /\ was' = was
      /\ fresh' = fresh /\ due' = due /\ passed' = passed
      /\ task_flag' = task_flag /\ calm' = FALSE /\ touched' = (touched \/ edit.of = pos)
      /\ edits' = edits /\ edit # None
      /\ shots' = IF f = "on" THEN [shots EXCEPT ![edit.of] = 0] ELSE shots
  BY DEF WriteField, clock, thread
<1>b. \/ f = "on" /\ edit' = None /\ written' = 0
      \/ f # "on" /\ edit' = edit /\ written' = written + 1
  BY DEF WriteField
<1>c. /\ edit.of \in Tasks /\ task' \in [Tasks -> Task]
      /\ \A p \in Tasks : p # edit.of => task'[p] = task[p]
      /\ f # "on" => task'[edit.of].on = task[edit.of].on /\ written + 1 \in 0..4
  BY <1>0, FieldFacts
<1>d. pos \in Tasks /\ shots \in [Tasks -> 0..2]
  BY <1>0 DEF TypeOK
<1> HIDE DEF f
<1>1. TypeOK'
  <2>1. shots' \in [Tasks -> 0..2]
    BY <1>a, <1>c, <1>d
  <2>2. edit' = None \/ (edit'.of \in Tasks /\ edit'.new \in NewTasks)
    BY <1>0, <1>b DEF TypeOK
  <2>3. written' \in 0..4
    BY <1>b, <1>c
  <2>4. touched' \in BOOLEAN /\ calm' \in BOOLEAN
    BY <1>0, <1>a DEF TypeOK
  <2> QED
    BY <1>0, <1>a, <1>c, <2>1, <2>2, <2>3, <2>4 DEF TypeOK
<1>2. PassInv'
  BY <1>0, <1>a DEF PassInv
<1>3. LookInv'
  BY <1>0, <1>a, <1>b, <1>c, <1>d DEF LookInv
<1>4. ShotsInv'
  <2>1. CASE f = "on"
    <3>1. shots'[edit.of] = 0 /\ \A p \in Tasks : p # edit.of => shots'[p] = shots[p]
      BY <1>a, <1>c, <1>d, <2>1
    <3> QED
      BY <1>0, <1>a, <1>c, <1>d, <3>1 DEF ShotsInv
  <2>2. CASE f # "on"
    <3>1. shots' = shots /\ \A p \in Tasks : task'[p].on = task[p].on
      BY <1>a, <1>c, <2>2
    <3> QED
      BY <1>0, <1>a, <3>1 DEF ShotsInv
  <2> QED
    BY <2>1, <2>2
<1>5. WasInv'
  <2> SUFFICES ASSUME ~touched'
               PROVE  WasInv'
    BY DEF WasInv
  <2>1. ~touched /\ task'[pos] = task[pos]
    BY <1>a, <1>c, <1>d
  <2> QED
    BY <1>0, <1>a, <2>1 DEF WasInv, Matches, MinuteMatches, DayMatches
<1>6. CalmInv'
  BY <1>a DEF CalmInv
<1> QED
  BY <1>1, <1>2, <1>3, <1>4, <1>5, <1>6 DEF IInv

\* SetRelay: a relay is set by others, and the second is no longer calm.
LEMMA SetRelayInv ==
  ASSUME NEW i \in Plugs, NEW y \in Levels
  PROVE  IInv /\ SetRelay(i, y) => IInv'
<1> SUFFICES ASSUME IInv, SetRelay(i, y)
             PROVE  IInv'
  OBVIOUS
<1>0. TypeOK /\ PassInv /\ LookInv /\ ShotsInv /\ WasInv
  BY DEF IInv
<1>a. /\ t_t' = t_t /\ rtctimes' = rtctimes /\ rpc' = rpc /\ pos' = pos
      /\ ntpok' = ntpok /\ rep' = rep /\ shots' = shots /\ upd' = upd /\ was' = was
      /\ fresh' = fresh /\ due' = due /\ passed' = passed /\ task' = task
      /\ task_flag' = task_flag /\ calm' = FALSE /\ touched' = touched
      /\ edit' = edit /\ written' = written /\ edits' = edits
  BY DEF SetRelay, clock, thread, editing
<1>1. TypeOK'
  <2>1. on' \in [Plugs -> 0..255]
    <3>1. y \in 0..255
      BY InputsAssumption
    <3> QED
      BY <1>0, <3>1 DEF SetRelay, TypeOK
  <2> QED
    BY <1>0, <1>a, <2>1, ZenonT(60) DEF TypeOK
<1>2. PassInv' /\ ShotsInv' /\ LookInv'
  BY <1>0, <1>a DEF PassInv, ShotsInv, LookInv
<1>3. WasInv'
  BY <1>0, <1>a DEF WasInv, Matches, MinuteMatches, DayMatches
<1>4. CalmInv'
  BY <1>a DEF CalmInv
<1> QED
  BY <1>1, <1>2, <1>3, <1>4 DEF IInv

\* A step that changes nothing.
LEMMA StutterInv == IInv /\ UNCHANGED vars => IInv'
<1> SUFFICES ASSUME IInv, UNCHANGED vars
             PROVE  IInv'
  OBVIOUS
<1>0. TypeOK /\ PassInv /\ LookInv /\ ShotsInv /\ WasInv /\ CalmInv
  BY DEF IInv
<1>a. /\ t_t' = t_t /\ rtctimes' = rtctimes /\ rpc' = rpc /\ pos' = pos
      /\ ntpok' = ntpok /\ rep' = rep /\ shots' = shots /\ upd' = upd /\ was' = was
      /\ fresh' = fresh /\ due' = due /\ passed' = passed /\ task' = task
      /\ task_flag' = task_flag /\ calm' = calm /\ touched' = touched /\ on' = on
      /\ edit' = edit /\ written' = written /\ edits' = edits
  BY DEF vars, clock, thread, editing, aux
<1>1. TypeOK'
  BY <1>0, <1>a DEF TypeOK
<1>2. PassInv' /\ ShotsInv' /\ LookInv'
  BY <1>0, <1>a DEF PassInv, ShotsInv, LookInv
<1>3. WasInv'
  BY <1>0, <1>a DEF WasInv, Matches, MinuteMatches, DayMatches
<1>4. CalmInv'
  BY <1>0, <1>a DEF CalmInv, IsDue, Matches, DayMatches, Stale, Clean, Served, Settled,
        Contested
<1> QED
  BY <1>1, <1>2, <1>3, <1>4 DEF IInv

-----------------------------------------------------------------------------
(***************************************************************************)
(* Theorems.                                                               *)
(***************************************************************************)

\* The strengthened invariant holds in every reachable state.
THEOREM Inductive == Spec => []IInv
<1>1. IInv /\ [Next]_vars => IInv'
  <2> SUFFICES ASSUME IInv, [Next]_vars
               PROVE  IInv'
    OBVIOUS
  <2>1. CASE Tick
    BY <2>1, TickInv
  <2>2. CASE PrintTime
    BY <2>2, PrintTimeInv
  <2>3. CASE Rtc
    <3>1. CASE Loop
      BY <3>1, LoopInv
    <3>2. CASE \E d \in Drift : NtpAnswers(d)
      BY <3>2, NtpAnswersInv
    <3>3. CASE NtpFails
      BY <3>3, NtpFailsInv
    <3>4. CASE Look
      BY <3>4, LookStepInv
    <3>5. CASE Match
      BY <3>5, MatchInv
    <3>6. CASE Fire
      BY <3>6, FireInv
    <3>7. CASE Switch
      BY <3>7, SwitchInv
    <3>8. CASE Disarm
      BY <3>8, DisarmInv
    <3>9. CASE Report
      BY <3>9, ReportInv
    <3> QED
      BY <2>3, <3>1, <3>2, <3>3, <3>4, <3>5, <3>6, <3>7, <3>8, <3>9 DEF Rtc
  <2>4. CASE \E p \in Tasks, new \in NewTasks : BeginEdit(p, new)
    BY <2>4, BeginEditInv
  <2>5. CASE WriteField
    BY <2>5, WriteFieldInv
  <2>6. CASE \E i \in Plugs, y \in Levels : SetRelay(i, y)
    BY <2>6, SetRelayInv
  <2>7. CASE UNCHANGED vars
    BY <2>7, StutterInv
  <2> QED
    BY <2>1, <2>2, <2>3, <2>4, <2>5, <2>6, <2>7 DEF Next
<1> QED
  BY <1>1, InitInv, PTL DEF Spec

\* Every variable keeps its type: the number of a task stays within the table
\* and the thread's place is one of its places.
THEOREM TypeCorrect == Spec => []TypeOK
<1>1. IInv => TypeOK
  BY DEF IInv
<1> QED
  BY <1>1, Inductive, PTL

\* A once-only task fires at most once between two edits of it
\* (user_rtc.c:73-78).
THEOREM FiresOnce == Spec => []OneShotFiresOnce
<1>1. IInv => OneShotFiresOnce
  BY DEF IInv, ShotsInv, OneShotFiresOnce
<1> QED
  BY <1>1, Inductive, PTL

\* What was due in a calm second has been served when it ends
\* (user_rtc.c:35-83).
THEOREM Serves == Spec => DueIsServed
<1>1. IInv /\ [Next]_vars
        => [Tick /\ calm /\ edit = None
              => \A p \in due :
                   /\ ~Contested(PlugOf(p)) => on[PlugOf(p)] = task[p].action
                   /\ task[p].repeat = {} => task[p].on = 0]_vars
  <2> SUFFICES ASSUME IInv, Tick, calm, NEW p \in due
               PROVE  /\ ~Contested(PlugOf(p)) => on[PlugOf(p)] = task[p].action
                      /\ task[p].repeat = {} => task[p].on = 0
    OBVIOUS
  <2>1. Served(p)
    BY DEF IInv, CalmInv, Tick
  <2> QED
    BY <2>1 DEF Served, Settled
<1> QED
  BY <1>1, Inductive, PTL DEF Spec, DueIsServed

\* The thread disarms only a task it found to be on and once-only
\* (user_rtc.c:59-76).
THEOREM DisarmsRight == Spec => DisarmsWhatFired
<1>1. IInv /\ [Next]_vars
        => [Disarm /\ ~touched => task[pos].on # 0 /\ task[pos].repeat = {}]_vars
  <2> SUFFICES ASSUME IInv, Disarm, ~touched
               PROVE  task[pos].on # 0 /\ task[pos].repeat = {}
    OBVIOUS
  <2>1. rpc = "disarm" /\ rpc \in Looking /\ rep = {}
    BY Places DEF IInv, Disarm, PassInv
  <2> QED
    BY <2>1 DEF IInv, LookInv
<1> QED
  BY <1>1, Inductive, PTL DEF Spec, DisarmsWhatFired

\* A task fires only if it was due at some moment since the thread began to
\* look at it (user_rtc.c:60-62).
THEOREM FiresRight == Spec => FiresWhenDue
<1>1. IInv /\ [Next]_vars => [rpc = "day" /\ rpc' = "switch" /\ ~touched => was]_vars
  <2> SUFFICES ASSUME IInv, Next, rpc = "day", rpc' = "switch", ~touched, ~was
               PROVE  FALSE
    BY DEF IInv, TypeOK
  <2>1. Fire
    BY DEF Next, Tick, PrintTime, Rtc, Loop, NtpAnswers, NtpFails, Look, Match, Compare,
           Switch, Disarm, Report, BeginEdit, WriteField, SetRelay, thread
  <2>2. DayMatches(rep, t_t)
    <3> SUFFICES ASSUME ~DayMatches(rep, t_t)
                 PROVE  FALSE
      OBVIOUS
    <3>1. Advance(upd)
      BY <2>1 DEF Fire
    <3>2. rpc' \in {"look", "loop", "report"}
      BY <3>1, AdvanceFacts DEF IInv
    <3> QED
      BY <3>2
  <2>3. ~MinuteMatches(task[pos], rep, t_t)
        /\ Min(t_t) = task[pos].minute /\ Hour(t_t) = task[pos].hour
    BY DEF IInv, WasInv, Comparing
  <2> QED
    BY <2>2, <2>3 DEF MinuteMatches
<1> QED
  BY <1>1, Inductive, PTL DEF Spec, FiresWhenDue
=============================================================================
