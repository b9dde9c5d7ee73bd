-------------------------------- MODULE Cron --------------------------------
(***************************************************************************)
(* Cron expressions, as schedule.py reads them.  An expression is a        *)
(* sequence of fields, a field is a sequence of parts (separated by commas *)
(* in the text), and a part is one of the records below.                   *)
(***************************************************************************)
EXTENDS Naturals, Sequences, FiniteSetsExt

Star         == [kind |-> "any"]                              \* *
Every(n)     == [kind |-> "step", step |-> n]                 \* */n
Span(lo, hi) == [kind |-> "range", lo |-> lo, hi |-> hi]      \* lo-hi
Only(n)      == [kind |-> "value", value |-> n]               \* n
Word         == [kind |-> "word"]                             \* jan, or nothing
Malformed    == [kind |-> "malformed"]                        \* */x, 1-x, x-1

\* The minute, hour, day and month, and the weekday, which counts from Sunday:
\* the one of the clock counts from Monday.
Names == <<"minute", "hour", "day", "month", "weekday">>
From  == <<0, 0, 1, 1, 0>>
To    == <<59, 23, 31, 12, 6>>

Reading(clock, f) == IF f = 5 THEN (clock.weekday + 1) % 7 ELSE clock[Names[f]]

\* The bounds of the field apply to single values only.
PartMatches(part, n, f) ==
    CASE part.kind = "any"   -> TRUE
      [] part.kind = "step"  -> part.step > 0 /\ n % part.step = 0
      [] part.kind = "range" -> part.lo <= n /\ n <= part.hi
      [] part.kind = "value" -> part.value \in From[f]..To[f] /\ n = part.value
      [] OTHER               -> FALSE

\* The parts are tried up to the first that matches or raises an error.
Decisive(field, n, f) ==
    {i \in DOMAIN field : field[i] = Malformed \/ PartMatches(field[i], n, f)}

FieldRaises(field, n, f) ==
    LET decisive == Decisive(field, n, f)
    IN  decisive # {} /\ field[Min(decisive)] = Malformed

FieldMatches(field, n, f) == Decisive(field, n, f) # {} /\ ~FieldRaises(field, n, f)

\* All fields are evaluated, those after one that does not match included.
CronRaises(cron, clock) ==
    Len(cron) = 5 /\ \E f \in 1..5 : FieldRaises(cron[f], Reading(clock, f), f)

CronMatches(cron, clock) ==
    Len(cron) = 5 /\ \A f \in 1..5 : FieldMatches(cron[f], Reading(clock, f), f)
=============================================================================
