----------------------------- MODULE Scheduler ------------------------------
(***************************************************************************)
(* The scheduler threads.  Every WorkflowService starts one, so does every *)
(* worker process.  A pass goes through the workflows and starts a run of  *)
(* each schedule trigger that is due in the minute in which the pass began *)
(* (its bucket), unless the trigger's state says that it was fired in that *)
(* bucket.  Reading the state, starting the run and updating the state are *)
(* transactions of their own, the last one a read and a write.             *)
(*                                                                         *)
(* Every workflow has one schedule trigger here.                           *)
(***************************************************************************)
EXTENDS Cron, FiniteSets

CONSTANTS
    Schedulers,   \* scheduler threads
    Workflows,    \* how many workflows there are, in the order of list()
    Clock,        \* what the clock shows in each minute
    Triggers,     \* the cron expressions that the triggers may have
    Versions,     \* bound: the versions of each that are published in turn
    MaxMinute,    \* bound: minutes
    MaxCrashes,   \* bound: crashes
    MaxRefused    \* bound: triggers and minutes in which a run is refused

ASSUME SchedulersAssumption == IsFiniteSet(Schedulers)
ASSUME BoundsAssumption ==
    /\ Workflows \in Nat \ {0}
    /\ Versions \in [1..Workflows -> Nat \ {0}]
    /\ MaxMinute \in Nat /\ MaxCrashes \in Nat /\ MaxRefused \in Nat
ASSUME ClockAssumption ==
    /\ DOMAIN Clock = 0..MaxMinute
    /\ \A m \in DOMAIN Clock : DOMAIN Clock[m] = {Names[f] : f \in 1..5}

\* Every choice of triggers says what the cron expressions mean: the minutes in
\* which each is due, and those in which it raises an error.
ASSUME TriggersAssumption ==
    \A triggers \in Triggers :
        /\ DOMAIN triggers = 1..Workflows
        /\ \A w \in 1..Workflows : triggers[w].due \union triggers[w].raises \subseteq 0..MaxMinute

Workflow == 1..Workflows
Version  == UNION {1..Versions[w] : w \in Workflow}
Minute   == 0..MaxMinute

VARIABLES
    alive,     \* the schedulers there are
    trigger,   \* the schedule trigger of each workflow
    now,       \* the minute
    version,   \* the version of each workflow that would be executed
    states,    \* last_trigger_bucket of the rows of each trigger's state
    pc,        \* where each scheduler is
    bucket,    \* the minute in which its pass began
    at,        \* the workflow it has come to, and the version it selected
    found,     \* the row that upsert_trigger_state found, or 0
    done,      \* history: the schedulers that began a pass in this minute and ended it
    runs,      \* history: the runs started for each trigger and minute (to Enough)
    refused,   \* history: the triggers and minutes in which a run was refused
    crashes,   \* history: the number of crashes
    late       \* history: a scheduler ended no pass in a minute that is over

threadVars == <<pc, bucket, at, found>>
vars == <<alive, trigger, now, version, states, threadVars, done, runs, refused, crashes, late>>

TypeOK ==
    /\ alive \subseteq Schedulers
    /\ trigger \in Triggers
    /\ late \in BOOLEAN
    /\ now \in Minute
    /\ version \in [Workflow -> Version]
    /\ states \in [Workflow -> [Version -> Seq(Minute)]]
    /\ pc \in [Schedulers -> {"asleep", "visit", "check", "queue", "select", "write"}]
    /\ bucket \in [Schedulers -> Minute]
    /\ at \in [Schedulers -> [workflow : 1..(Workflows + 1), version : Version]]
    /\ found \in [Schedulers -> Nat]
    /\ \A s \in Schedulers : pc[s] = "write" =>
        found[s] \in 0..Len(states[at[s].workflow][at[s].version])
    /\ done \subseteq Schedulers
    /\ runs \in [Workflow -> [Version -> [Minute -> 0..(2 + MaxCrashes)]]]
    /\ refused \subseteq Workflow \X Minute
    /\ crashes \in 0..MaxCrashes

\* A minute in which a single scheduler fires a trigger twice is one too many.
Enough == IF Cardinality(alive) = 1 THEN 2 + MaxCrashes ELSE 1

Start == [workflow |-> 1, version |-> 1]

Init ==
    /\ alive \in (SUBSET Schedulers) \ {{}}
    /\ trigger \in Triggers
    /\ late = FALSE
    /\ now = 0
    /\ version = [w \in Workflow |-> 1]
    /\ states = [w \in Workflow |-> [v \in Version |-> << >>]]
    /\ pc = [s \in Schedulers |-> "asleep"]
    /\ bucket = [s \in Schedulers |-> 0]
    /\ at = [s \in Schedulers |-> Start]
    /\ found = [s \in Schedulers |-> 0]
    /\ done = {}
    /\ runs = [w \in Workflow |-> [v \in Version |-> [m \in Minute |-> 0]]]
    /\ refused = {}
    /\ crashes = 0

-----------------------------------------------------------------------------
(* The world: time passes, another version is published                    *)

Tick ==
    /\ now < MaxMinute
    /\ now' = now + 1
    /\ late' = (late \/ ~alive \subseteq done)
    /\ done' = {}
    /\ UNCHANGED <<alive, trigger, version, states, threadVars, runs, refused, crashes>>

PublishNext(w) ==
    /\ version[w] < Versions[w]
    /\ version' = [version EXCEPT ![w] = @ + 1]
    /\ UNCHANGED <<alive, trigger, now, states, threadVars, done, runs, refused, crashes, late>>

-----------------------------------------------------------------------------
(* A pass                                                                  *)

Goto(s, place) == pc' = [pc EXCEPT ![s] = place]

BeginPass(s) ==
    /\ pc[s] = "asleep"
    /\ bucket' = [bucket EXCEPT ![s] = now]
    /\ at' = [at EXCEPT ![s] = Start]
    /\ Goto(s, "visit")
    /\ UNCHANGED <<alive, trigger, now, version, states, found, done, runs, refused, crashes, late>>

\* The pass is over, at its end or by an error: the scheduler sleeps.
EndPass(s) ==
    /\ Goto(s, "asleep")
    /\ bucket' = [bucket EXCEPT ![s] = 0]
    /\ at' = [at EXCEPT ![s] = Start]
    /\ done' = IF bucket[s] = now THEN done \union {s} ELSE done

GoOn(s) == at' = [at EXCEPT ![s] = [workflow |-> @.workflow + 1, version |-> 1]]

Step(s, place) ==
    /\ Goto(s, place)
    /\ UNCHANGED <<alive, trigger, bucket, done, now, version, crashes, late>>

\* What the clock showed when the pass began, and the expression it has come to.
Shown(s)      == Clock[bucket[s]]
Expression(s) == trigger[at[s].workflow].cron

\* The last workflow was visited, or cron_matches raises an error, outside the
\* handler that goes on with the next trigger.
StopPass(s) ==
    /\ pc[s] = "visit"
    /\ at[s].workflow \in Workflow => CronRaises(Expression(s), Shown(s))
    /\ EndPass(s)
    /\ UNCHANGED <<alive, trigger, now, version, states, found, runs, refused, crashes, late>>

\* The version that would be executed is selected, and its cron is matched.
Visit(s) ==
    /\ pc[s] = "visit"
    /\ at[s].workflow \in Workflow
    /\ ~CronRaises(Expression(s), Shown(s))
    /\ IF CronMatches(Expression(s), Shown(s))
       THEN /\ at' = [at EXCEPT ![s].version = version[at[s].workflow]]
            /\ Step(s, "check")
       ELSE GoOn(s) /\ Step(s, "visit")
    /\ UNCHANGED <<states, found, runs, refused>>

\* The rows of the trigger that the scheduler has come to.
Rows(s) == states[at[s].workflow][at[s].version]

\* get_trigger_state returns any of the rows, if there are several.
CheckState(s) ==
    /\ pc[s] = "check"
    /\ \/ \E i \in DOMAIN Rows(s) :
            IF Rows(s)[i] = bucket[s]
            THEN GoOn(s) /\ Step(s, "visit")
            ELSE Step(s, "queue") /\ UNCHANGED at
       \/ Rows(s) = << >> /\ Step(s, "queue") /\ UNCHANGED at
    /\ UNCHANGED <<states, found, runs, refused>>

\* The run is started ...
QueueRun(s) ==
    LET a == at[s]
    IN  /\ pc[s] = "queue"
        /\ runs' = [runs EXCEPT ![a.workflow][a.version][bucket[s]] =
                       IF @ < Enough THEN @ + 1 ELSE @]
        /\ Step(s, "select")
        /\ UNCHANGED <<states, at, found, refused>>

\* Mutant: a refused run ends the pass.
RefuseAndStop(s) ==
    /\ pc[s] = "queue"
    /\ refused' = refused \union {<<at[s].workflow, bucket[s]>>}
    /\ Cardinality(refused') <= MaxRefused
    /\ EndPass(s)
    /\ UNCHANGED <<alive, trigger, now, version, states, found, runs, crashes, late>>

\* ... or refused, and will be tried again by the next pass.
RefuseRun(s) ==
    /\ pc[s] = "queue"
    /\ refused' = refused \union {<<at[s].workflow, bucket[s]>>}
    /\ Cardinality(refused') <= MaxRefused
    /\ GoOn(s)
    /\ Step(s, "visit")
    /\ UNCHANGED <<states, found, runs>>

\* upsert_trigger_state looks for a row ...
SelectState(s) ==
    /\ pc[s] = "select"
    /\ \E i \in DOMAIN Rows(s) \union {0} :
        /\ i = 0 <=> Rows(s) = << >>
        /\ found' = [found EXCEPT ![s] = i]
    /\ Step(s, "write")
    /\ UNCHANGED <<states, at, runs, refused>>

\* Mutants: the bucket of a row that is there stays; a row for every bucket.
BucketKept(rows, i, b) == IF i = 0 THEN Append(rows, b) ELSE rows
AlwaysInserted(rows, i, b) == Append(rows, b)

\* ... and writes the bucket into it, or inserts one.  The constraint
\* uq_trigger_state_scope never fails: the environment of a row is NULL.
WithBucket(rows, i, b) == IF i = 0 THEN Append(rows, b) ELSE [rows EXCEPT ![i] = b]

WriteState(s) ==
    LET a == at[s]
    IN  /\ pc[s] = "write"
        /\ states' = [states EXCEPT ![a.workflow][a.version] =
                         WithBucket(@, found[s], bucket[s])]
        /\ found' = [found EXCEPT ![s] = 0]
        /\ GoOn(s)
        /\ Step(s, "visit")
        /\ UNCHANGED <<runs, refused>>

\* The process dies, and its successor begins with a new pass.
Crash(s) ==
    /\ pc[s] # "asleep"
    /\ crashes < MaxCrashes
    /\ crashes' = crashes + 1
    /\ Goto(s, "asleep")
    /\ bucket' = [bucket EXCEPT ![s] = 0]
    /\ at' = [at EXCEPT ![s] = Start]
    /\ found' = [found EXCEPT ![s] = 0]
    /\ UNCHANGED <<alive, trigger, now, version, states, done, runs, refused, late>>

-----------------------------------------------------------------------------
Pass(s) ==
    \/ BeginPass(s) \/ StopPass(s) \/ Visit(s) \/ CheckState(s)
    \/ QueueRun(s) \/ RefuseRun(s) \/ SelectState(s) \/ WriteState(s)

Next ==
    \/ Tick
    \/ \E w \in Workflow : PublishNext(w)
    \/ \E s \in alive : Pass(s) \/ Crash(s)

Spec == Init /\ [][Next]_vars

-----------------------------------------------------------------------------
(* Properties                                                              *)

\* The properties take the minutes in which a trigger is due and raises an
\* error from a table; the table says of the cron expressions what cron_matches
\* does with them.
TableIsRight ==
    \A triggers \in Triggers : \A w \in Workflow, m \in Minute :
        /\ m \in triggers[w].raises <=> CronRaises(triggers[w].cron, Clock[m])
        /\ m \in triggers[w].due <=> /\ CronMatches(triggers[w].cron, Clock[m])
                                     /\ ~CronRaises(triggers[w].cron, Clock[m])

\* A trigger is fired in the minutes that its cron expression names, and in
\* no other, nor while the expression of an earlier workflow raises an error;
\* and by a single scheduler once, although that passes by it sixty times: only
\* a crash between the run and the state, or a newly published version, fires
\* it again.
FiresOncePerMinute ==
    \A w \in Workflow, v \in Version, m \in Minute :
        /\ runs[w][v][m] > 0 =>
               m \in trigger[w].due /\ \A u \in 1..w : m \notin trigger[u].raises
        /\ Cardinality(alive) = 1 => runs[w][v][m] <= 1 + crashes

\* Schedulers that race insert a row each at most, and no more afterwards:
\* uq_trigger_state_scope, which NULL environments escape, is replaced by
\* the look-up that precedes the insert.
OneRowPerScheduler ==
    \A w \in Workflow, v \in Version : Len(states[w][v]) <= Cardinality(alive)

\* No due minute is missed: while every scheduler ends a pass in every minute,
\* the trigger was fired, or its run was refused, for every minute that is
\* over, crashes and refusals of other triggers notwithstanding, unless the
\* cron expression of an earlier workflow raised an error in that minute.
NoMinuteIsMissed ==
    ~late =>
        \A w \in Workflow : \A m \in trigger[w].due :
            m < now /\ (\A u \in 1..w : m \notin trigger[u].raises) =>
                <<w, m>> \in refused \/ \E v \in Version : runs[w][v][m] > 0
=============================================================================
