---------------------------- MODULE MCScheduler ----------------------------
(* Instances of Scheduler for TLC. *)
EXTENDS Scheduler, TLC

CONSTANTS s1, s2

TwoSchedulers == {s1, s2}

\* The last minute of a January, a Saturday, and the minutes after it.
MCClock == 0 :> [minute |-> 59, hour |-> 23, day |-> 31, month |-> 1, weekday |-> 5] @@
           1 :> [minute |-> 0, hour |-> 0, day |-> 1, month |-> 2, weekday |-> 6] @@
           2 :> [minute |-> 1, hour |-> 0, day |-> 1, month |-> 2, weekday |-> 6]

Soon == [m \in 0..MaxMinute |-> MCClock[m]]

\* The minutes of the clock in which a cron expression is due and raises.
Means(cron, due, raises) == [cron |-> cron, due |-> due \intersect (0..MaxMinute),
                             raises |-> raises \intersect (0..MaxMinute)]

A == <<Star>>

Always    == Means(<<A, A, A, A, A>>, 0..2, {})
FourOnly  == Means(<<A, A, A, A>>, {}, {})
Saturday  == Means(<<<<Only(59)>>, <<Only(23)>>, <<Only(31)>>, <<Only(1)>>, <<Only(6)>>>>, {0}, {})
Sundays   == Means(<<<<Every(30)>>, <<Every(12)>>, A, A, <<Only(0)>>>>, {1}, {})
Fridays   == Means(<<A, A, A, A, <<Only(5)>>>>, {}, {})
OddDays   == Means(<<A, A, <<Every(2)>>, A, A>>, {}, {})
NoStep    == Means(<<<<Every(0)>>, A, A, A, A>>, {}, {})
Beyond    == Means(<<<<Span(55, 70)>>, A, A, A, <<Only(7), Span(6, 7)>>>>, {0}, {})
Backwards == Means(<<A, A, A, A, <<Span(5, 0)>>>>, {}, {})
Bounds    == Means(<<<<Only(60), Only(0)>>, <<Only(24), Span(0, 9)>>, A, <<Word, Only(2)>>, A>>, {1}, {})
MonthName == Means(<<A, A, A, <<Word>>, A>>, {}, {})
AfterZero == Means(<<<<Only(0), Malformed>>, A, A, A, A>>, {1}, {0, 2})
Hidden    == Means(<<A, <<Only(24)>>, A, A, <<Malformed>>>>, {}, 0..2)

Expressions == {Always, FourOnly, Saturday, Sundays, Fridays, OddDays, NoStep, Beyond, Backwards,
                Bounds, MonthName, AfterZero, Hidden}

\* Any expression before one that is never due, and some before one that is.
MCTriggers == {<<e, FourOnly>> : e \in Expressions} \union
              {<<Always, Saturday>>, <<AfterZero, Always>>, <<Hidden, Always>>,
               <<Always, AfterZero>>}

ASSUME TableAssumption == TableIsRight

\* Another version of the first workflow is published.
FirstRepublished == [w \in 1..Workflows |-> IF w = 1 THEN 2 ELSE 1]

Symmetry == Permutations(Schedulers)
=============================================================================
