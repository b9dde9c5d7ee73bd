SPECIFICATION Spec
CONSTANTS
    s1 = s1
    s2 = s2
    Schedulers <- TwoSchedulers
    Workflows = 2
    Clock <- Soon
    Triggers <- MCTriggers
    Versions <- FirstRepublished
    MaxMinute = 1
    MaxCrashes = 1
    MaxRefused = 1
SYMMETRY Symmetry
INVARIANTS
    FiresOncePerMinute
    OneRowPerScheduler
    NoMinuteIsMissed
CHECK_DEADLOCK FALSE
