---------------------------- MODULE MCScheduler -----------------------------
(***************************************************************************)
(* Scheduler with a week of two days (Sunday and Monday) of two hours of   *)
(* two minutes of two seconds; NTP is asked in minute 0 of every hour.     *)
(***************************************************************************)
EXTENDS Scheduler

T(h, m, r, a) == [hour |-> h, minute |-> m, repeat |-> r, action |-> a, on |-> 1]

\* once-only tasks in a minute with NTP and in one without, a daily one that
\* is given in integers beyond a byte, one switched off and one whose hour no
\* clock shows
MCMixed  == {T(0, 1, {}, 1), T(1, 0, {}, 0),
             [T(-256, 257, {0, 8}, 256) EXCEPT !.on = 513],
             [T(0, 1, {}, 1) EXCEPT !.on = 256], T(2, 0, {}, 2)}
MCOnce   == {T(0, 1, {}, 1), T(1, 256, {8}, 2), T(2, 0, {}, 0)}
MCMarked == {T(0, 1, {0}, 1), T(0, 1, {6}, 1), T(0, 1, {7}, 1)}
MCLevels == {0, 1}
NoDrift  == {0}
AnyDrift == {0, 1, 15}    \* in step, one second ahead, one second back
=============================================================================
