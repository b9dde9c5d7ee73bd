-------------------------- MODULE SchedulerProofs ---------------------------
(***************************************************************************)
(* Theorems about Scheduler for any number of schedulers, workflows,       *)
(* versions, minutes, crashes and refused runs, and any cron expressions.  *)
(*                                                                         *)
(* That rows are few counts them together with the schedulers that have    *)
(* looked for a row in vain and are about to insert one.  That a lone      *)
(* scheduler fires once rests on the order of the buckets: none is later   *)
(* than its own.  That nothing is missed rests on what a pass has come by. *)
(***************************************************************************)
EXTENDS Scheduler, FiniteSetTheorems, TLAPS

LEMMA Firsts ==
    /\ 1 \in Workflow /\ 1 \in Version /\ 0 \in Minute
    /\ Version \subseteq Nat /\ Workflow \subseteq Nat /\ Minute \subseteq Nat
BY BoundsAssumption DEF Workflow, Version, Minute

LEMMA WithBucketType ==
    ASSUME NEW rows \in Seq(Minute), NEW i \in 0..Len(rows), NEW b \in Minute
    PROVE  /\ WithBucket(rows, i, b) \in Seq(Minute)
           /\ Len(WithBucket(rows, i, b)) = IF i = 0 THEN Len(rows) + 1 ELSE Len(rows)
BY DEF WithBucket

\* The bucket is written, and the other rows stay.
LEMMA WithBucketRows ==
    ASSUME NEW rows \in Seq(Minute), NEW i \in 0..Len(rows), NEW b \in Minute
    PROVE  /\ \A j \in DOMAIN WithBucket(rows, i, b) :
                  \/ WithBucket(rows, i, b)[j] = b
                  \/ j \in DOMAIN rows /\ WithBucket(rows, i, b)[j] = rows[j]
           /\ \E j \in DOMAIN WithBucket(rows, i, b) : WithBucket(rows, i, b)[j] = b
<1>1. CASE i = 0
  <2>1. WithBucket(rows, i, b) = Append(rows, b) BY <1>1 DEF WithBucket
  <2>2. /\ DOMAIN Append(rows, b) = 1..(Len(rows) + 1)
        /\ Append(rows, b)[Len(rows) + 1] = b
        /\ \A j \in 1..Len(rows) : j \in DOMAIN rows /\ Append(rows, b)[j] = rows[j]
    OBVIOUS
  <2>3. Len(rows) + 1 \in 1..(Len(rows) + 1) OBVIOUS
  <2>4. \A j \in 1..(Len(rows) + 1) : j \in 1..Len(rows) \/ j = Len(rows) + 1 OBVIOUS
  <2> QED BY <2>1, <2>2, <2>3, <2>4
<1>2. CASE i # 0
  <2>1. WithBucket(rows, i, b) = [rows EXCEPT ![i] = b] /\ i \in DOMAIN rows
    BY <1>2 DEF WithBucket
  <2> QED BY <2>1
<1> QED BY <1>1, <1>2

\* What does not depend on where the schedulers are.
ShapeOK ==
    /\ alive \subseteq Schedulers
    /\ trigger \in Triggers
    /\ late \in BOOLEAN
    /\ now \in Minute
    /\ version \in [Workflow -> Version]
    /\ states \in [Workflow -> [Version -> Seq(Minute)]]
    /\ done \subseteq Schedulers
    /\ runs \in [Workflow -> [Version -> [Minute -> 0..(2 + MaxCrashes)]]]
    /\ refused \subseteq Workflow \X Minute
    /\ crashes \in 0..MaxCrashes

ThreadsOK ==
    /\ pc \in [Schedulers -> {"asleep", "visit", "check", "queue", "select", "write"}]
    /\ bucket \in [Schedulers -> Minute]
    /\ at \in [Schedulers -> [workflow : 1..(Workflows + 1), version : Version]]
    /\ found \in [Schedulers -> Nat]

\* Beyond the beginning of a visit there is a workflow that is visited.
PlacesOK ==
    \A s \in Schedulers : pc[s] \notin {"asleep", "visit"} => at[s].workflow \in Workflow

\* The row that an upsert has found is one of those that are there.
FoundOK ==
    \A s \in Schedulers : pc[s] = "write" =>
        found[s] \in 0..Len(states[at[s].workflow][at[s].version])

Typed == ShapeOK /\ ThreadsOK /\ PlacesOK /\ FoundOK

LEMMA TypedIsType == Typed => TypeOK
BY DEF Typed, ShapeOK, ThreadsOK, FoundOK, TypeOK

LEMMA InitTyped == Init => Typed
<1> SUFFICES ASSUME Init PROVE Typed
  OBVIOUS
<1>1. ShapeOK
  <2>1. states \in [Workflow -> [Version -> Seq(Minute)]]
    BY DEF Init
  <2>2. runs \in [Workflow -> [Version -> [Minute -> 0..(2 + MaxCrashes)]]]
    BY BoundsAssumption DEF Init
  <2>3. version \in [Workflow -> Version] /\ now \in Minute /\ crashes \in 0..MaxCrashes
    BY Firsts, BoundsAssumption DEF Init
  <2> QED BY <2>1, <2>2, <2>3 DEF Init, ShapeOK
<1>2. ThreadsOK
  BY Firsts, BoundsAssumption DEF Init, Start, ThreadsOK
<1>3. PlacesOK /\ FoundOK
  BY DEF Init, PlacesOK, FoundOK
<1> QED BY <1>1, <1>2, <1>3 DEF Typed

LEMMA TickTyped == Typed /\ Tick => Typed'
<1> SUFFICES ASSUME Typed, Tick PROVE Typed'
  OBVIOUS
<1>1. now + 1 \in Minute BY BoundsAssumption DEF Typed, ShapeOK, Tick, Minute
<1>2. ShapeOK' BY <1>1 DEF Typed, ShapeOK, Tick
<1>3. UNCHANGED <<pc, bucket, at, found, states>> BY DEF Tick, threadVars
<1> QED BY <1>2, <1>3 DEF Typed, ThreadsOK, PlacesOK, FoundOK

LEMMA PublishTyped == ASSUME NEW w \in Workflow, Typed, PublishNext(w) PROVE Typed'
<1>1. version[w] + 1 \in Version
  <2>1. version[w] \in Nat /\ Versions[w] \in Nat
    BY Firsts, BoundsAssumption DEF Typed, ShapeOK, Workflow
  <2>2. version[w] + 1 \in 1..Versions[w] BY <2>1 DEF PublishNext
  <2> QED BY <2>2 DEF Version
<1>2. ShapeOK' BY <1>1 DEF Typed, ShapeOK, PublishNext
<1>3. UNCHANGED <<pc, bucket, at, found, states>> BY DEF PublishNext, threadVars
<1> QED BY <1>2, <1>3 DEF Typed, ThreadsOK, PlacesOK, FoundOK

\* A step of a thread that leaves the rows alone.
LEMMA ThreadTyped ==
    ASSUME NEW s \in Schedulers, Typed, ThreadsOK', ShapeOK', UNCHANGED states,
           \A t \in Schedulers \ {s} :
               pc'[t] = pc[t] /\ at'[t] = at[t] /\ found'[t] = found[t],
           pc'[s] \notin {"asleep", "visit"} => at'[s].workflow \in Workflow,
           pc'[s] = "write" => found'[s] \in 0..Len(states[at'[s].workflow][at'[s].version])
    PROVE  Typed'
BY DEF Typed, PlacesOK, FoundOK

LEMMA BeginTyped == ASSUME NEW s \in alive, Typed, BeginPass(s) PROVE Typed'
<1>1. s \in Schedulers BY DEF Typed, ShapeOK
<1>2. ThreadsOK'
  BY <1>1, Firsts, BoundsAssumption DEF Typed, ShapeOK, ThreadsOK, BeginPass, Goto, Start
<1>3. ShapeOK' BY DEF Typed, ShapeOK, BeginPass
<1> QED BY <1>1, <1>2, <1>3, ThreadTyped DEF BeginPass, Goto, Start, Typed, ThreadsOK

LEMMA StopTyped == ASSUME NEW s \in alive, Typed, StopPass(s) PROVE Typed'
<1>1. s \in Schedulers BY DEF Typed, ShapeOK
<1>2. ThreadsOK'
  BY <1>1, Firsts, BoundsAssumption DEF Typed, ThreadsOK, StopPass, EndPass, Goto, Start
<1>3. ShapeOK' BY <1>1 DEF Typed, ShapeOK, StopPass, EndPass
<1> QED BY <1>1, <1>2, <1>3, ThreadTyped DEF StopPass, EndPass, Goto, Start, Typed, ThreadsOK

\* To go on with the next workflow, from one that is there.
LEMMA GoOnTyped ==
    ASSUME NEW s \in Schedulers, Typed, at[s].workflow \in Workflow, GoOn(s), Step(s, "visit"),
           found' \in [Schedulers -> Nat], \A t \in Schedulers \ {s} : found'[t] = found[t]
    PROVE  /\ ThreadsOK'
           /\ pc'[s] = "visit"
           /\ \A t \in Schedulers \ {s} :
                  pc'[t] = pc[t] /\ at'[t] = at[t] /\ found'[t] = found[t]
<1>1. at[s].workflow + 1 \in 1..(Workflows + 1) BY BoundsAssumption DEF Workflow
<1>2. at' \in [Schedulers -> [workflow : 1..(Workflows + 1), version : Version]]
  BY <1>1, Firsts DEF Typed, ThreadsOK, GoOn
<1> QED BY <1>2 DEF Typed, ThreadsOK, GoOn, Step, Goto

LEMMA VisitTyped == ASSUME NEW s \in alive, Typed, Visit(s) PROVE Typed'
<1>1. s \in Schedulers BY DEF Typed, ShapeOK
<1>2. ShapeOK' BY DEF Typed, ShapeOK, Visit, Step
<1>3. CASE GoOn(s) /\ Step(s, "visit")
  <2>1. UNCHANGED <<states, found>> /\ at[s].workflow \in Workflow BY DEF Visit
  <2> QED BY <1>1, <1>2, <1>3, <2>1, GoOnTyped, ThreadTyped DEF Typed, ThreadsOK
<1>4. CASE /\ at' = [at EXCEPT ![s].version = version[at[s].workflow]]
           /\ Step(s, "check")
  <2>1. UNCHANGED <<states, found>> /\ at[s].workflow \in Workflow BY DEF Visit
  <2>2. version[at[s].workflow] \in Version BY <2>1 DEF Typed, ShapeOK
  <2>3. ThreadsOK' BY <1>1, <1>4, <2>1, <2>2 DEF Typed, ThreadsOK, Step, Goto
  <2> QED BY <1>1, <1>2, <1>4, <2>1, <2>3, ThreadTyped DEF Typed, ThreadsOK, Step, Goto
<1> QED BY <1>3, <1>4 DEF Visit

LEMMA CheckTyped == ASSUME NEW s \in alive, Typed, CheckState(s) PROVE Typed'
<1>1. s \in Schedulers /\ at[s].workflow \in Workflow /\ UNCHANGED <<states, found>>
  BY DEF Typed, ShapeOK, PlacesOK, CheckState
<1>2. ShapeOK' BY DEF Typed, ShapeOK, CheckState, Step
<1>3. CASE GoOn(s) /\ Step(s, "visit")
  BY <1>1, <1>2, <1>3, GoOnTyped, ThreadTyped DEF Typed, ThreadsOK
<1>4. CASE Step(s, "queue") /\ UNCHANGED at
  <2>1. ThreadsOK' BY <1>1, <1>4 DEF Typed, ThreadsOK, Step, Goto
  <2> QED BY <1>1, <1>2, <1>4, <2>1, ThreadTyped DEF Typed, ThreadsOK, Step, Goto
<1> QED BY <1>3, <1>4 DEF CheckState

LEMMA QueueTyped == ASSUME NEW s \in alive, Typed, QueueRun(s) PROVE Typed'
<1>1. /\ s \in Schedulers /\ at[s].workflow \in Workflow /\ UNCHANGED <<states, found, at>>
      /\ Step(s, "select")
  BY DEF Typed, ShapeOK, PlacesOK, QueueRun
<1>2. Enough \in 1..(2 + MaxCrashes) BY BoundsAssumption DEF Enough
<1>3. runs' \in [Workflow -> [Version -> [Minute -> 0..(2 + MaxCrashes)]]]
  <2> DEFINE w == at[s].workflow
             v == at[s].version
             b == bucket[s]
             n == IF runs[w][v][b] < Enough THEN runs[w][v][b] + 1 ELSE runs[w][v][b]
  <2>1. w \in Workflow /\ v \in Version /\ b \in Minute BY <1>1 DEF Typed, ThreadsOK
  <2>2. runs' = [runs EXCEPT ![w][v][b] = n] BY DEF QueueRun
  <2>3. runs[w][v][b] \in 0..(2 + MaxCrashes) BY <2>1 DEF Typed, ShapeOK
  <2>4. n \in 0..(2 + MaxCrashes) BY <2>3, <1>2, BoundsAssumption
  <2> HIDE DEF w, v, b, n
  <2> QED BY <2>1, <2>2, <2>4 DEF Typed, ShapeOK
<1>4. ShapeOK' BY <1>1, <1>3 DEF Typed, ShapeOK, QueueRun, Step
<1>5. ThreadsOK' BY <1>1 DEF Typed, ThreadsOK, Step, Goto
<1> QED BY <1>1, <1>4, <1>5, ThreadTyped DEF Typed, ThreadsOK, Step, Goto

LEMMA RefuseTyped == ASSUME NEW s \in alive, Typed, RefuseRun(s) PROVE Typed'
<1>1. s \in Schedulers /\ at[s].workflow \in Workflow /\ UNCHANGED <<states, found>>
  BY DEF Typed, ShapeOK, PlacesOK, RefuseRun
<1>2. bucket[s] \in Minute BY <1>1 DEF Typed, ThreadsOK
<1>3. ShapeOK' BY <1>1, <1>2 DEF Typed, ShapeOK, RefuseRun, Step
<1> QED BY <1>1, <1>3, GoOnTyped, ThreadTyped DEF Typed, ThreadsOK, RefuseRun

LEMMA SelectTyped == ASSUME NEW s \in alive, Typed, SelectState(s) PROVE Typed'
<1>1. s \in Schedulers /\ at[s].workflow \in Workflow /\ UNCHANGED <<states, at>>
  BY DEF Typed, ShapeOK, PlacesOK, SelectState
<1>2. at[s].version \in Version BY <1>1 DEF Typed, ThreadsOK
<1>3. Rows(s) \in Seq(Minute) BY <1>1, <1>2 DEF Typed, ShapeOK, Rows
<1>4. PICK i \in DOMAIN Rows(s) \union {0} : found' = [found EXCEPT ![s] = i]
  BY DEF SelectState
<1>5. i \in 0..Len(Rows(s)) BY <1>3, <1>4
<1>6. ShapeOK' BY DEF Typed, ShapeOK, SelectState, Step
<1>7. ThreadsOK' BY <1>1, <1>4, <1>5, <1>3 DEF Typed, ThreadsOK, SelectState, Step, Goto
<1>8. found'[s] = i /\ \A t \in Schedulers \ {s} : pc'[t] = pc[t] /\ found'[t] = found[t]
  BY <1>1, <1>4 DEF Typed, ThreadsOK, SelectState, Step, Goto
<1> QED BY <1>1, <1>5, <1>6, <1>7, <1>8, ThreadTyped DEF Rows

\* Writing the state: no list of rows becomes shorter, and that of the trigger
\* grows by one if no row was found.
LEMMA Written ==
    ASSUME NEW s \in alive, Typed, WriteState(s)
    PROVE  /\ s \in Schedulers /\ at[s].workflow \in Workflow /\ at[s].version \in Version
           /\ states' \in [Workflow -> [Version -> Seq(Minute)]]
           /\ \A w \in Workflow, v \in Version :
                  states'[w][v] = IF w = at[s].workflow /\ v = at[s].version
                                  THEN WithBucket(states[w][v], found[s], bucket[s])
                                  ELSE states[w][v]
           /\ \A w \in Workflow, v \in Version :
                  Len(states'[w][v]) =
                      IF w = at[s].workflow /\ v = at[s].version /\ found[s] = 0
                      THEN Len(states[w][v]) + 1 ELSE Len(states[w][v])
<1> DEFINE w == at[s].workflow
           v == at[s].version
           new == WithBucket(states[w][v], found[s], bucket[s])
<1>1. s \in Schedulers /\ w \in Workflow /\ v \in Version /\ bucket[s] \in Minute
  BY DEF Typed, ShapeOK, ThreadsOK, PlacesOK, WriteState
<1>2. states[w][v] \in Seq(Minute) /\ found[s] \in 0..Len(states[w][v])
  BY <1>1 DEF Typed, ShapeOK, FoundOK, WriteState
<1>3. /\ new \in Seq(Minute)
      /\ Len(new) = IF found[s] = 0 THEN Len(states[w][v]) + 1 ELSE Len(states[w][v])
  BY <1>1, <1>2, WithBucketType
<1>4. states' = [states EXCEPT ![w][v] = new] BY DEF WriteState
<1> HIDE DEF new
<1>5. states' \in [Workflow -> [Version -> Seq(Minute)]]
  BY <1>1, <1>3, <1>4 DEF Typed, ShapeOK
<1>6. \A x \in Workflow, y \in Version :
          states'[x][y] = IF x = w /\ y = v THEN new ELSE states[x][y]
  BY <1>1, <1>4 DEF Typed, ShapeOK
<1> QED BY <1>1, <1>3, <1>5, <1>6 DEF new

LEMMA WriteTyped == ASSUME NEW s \in alive, Typed, WriteState(s) PROVE Typed'
<1>1. /\ s \in Schedulers /\ at[s].workflow \in Workflow
      /\ states' \in [Workflow -> [Version -> Seq(Minute)]]
  BY Written
<1>2. ShapeOK' BY <1>1 DEF Typed, ShapeOK, WriteState, Step
<1>3. found' = [found EXCEPT ![s] = 0] BY DEF WriteState
<1>0. \A w \in Workflow, v \in Version :
          \/ Len(states'[w][v]) = Len(states[w][v])
          \/ Len(states'[w][v]) = Len(states[w][v]) + 1
  BY Written
<1>9. /\ GoOn(s) /\ Step(s, "visit")
      /\ found' \in [Schedulers -> Nat] /\ \A t \in Schedulers \ {s} : found'[t] = found[t]
  BY <1>1, <1>3 DEF Typed, ThreadsOK, WriteState
<1>4. /\ ThreadsOK'
      /\ pc'[s] = "visit"
      /\ \A t \in Schedulers \ {s} : pc'[t] = pc[t] /\ at'[t] = at[t] /\ found'[t] = found[t]
  BY <1>1, <1>9, GoOnTyped
<1>5. PlacesOK' BY <1>4 DEF Typed, PlacesOK
<1>6. ASSUME NEW t \in Schedulers, pc'[t] = "write"
      PROVE  found'[t] \in 0..Len(states'[at'[t].workflow][at'[t].version])
  <2> DEFINE x == at[t].workflow
             y == at[t].version
  <2>1. t # s /\ pc[t] = "write" /\ found'[t] = found[t] /\ at'[t] = at[t]
    BY <1>4, <1>6
  <2>2. x \in Workflow /\ y \in Version /\ found[t] \in 0..Len(states[x][y])
    BY <2>1 DEF Typed, ThreadsOK, PlacesOK, FoundOK
  <2>3. states[x][y] \in Seq(Minute) BY <2>2 DEF Typed, ShapeOK
  <2>4. Len(states'[x][y]) = Len(states[x][y]) \/ Len(states'[x][y]) = Len(states[x][y]) + 1
    BY <2>2, <1>0
  <2>5. found[t] \in 0..Len(states'[x][y]) BY <2>2, <2>3, <2>4
  <2> QED BY <2>1, <2>5
<1>7. FoundOK' BY <1>6 DEF FoundOK
<1> QED BY <1>2, <1>4, <1>5, <1>7 DEF Typed

LEMMA CrashTyped == ASSUME NEW s \in alive, Typed, Crash(s) PROVE Typed'
<1>1. s \in Schedulers BY DEF Typed, ShapeOK
<1>2. ThreadsOK'
  BY <1>1, Firsts, BoundsAssumption DEF Typed, ThreadsOK, Crash, Goto, Start
<1>3. crashes' \in 0..MaxCrashes BY BoundsAssumption DEF Typed, ShapeOK, Crash
<1>4. ShapeOK' BY <1>3 DEF Typed, ShapeOK, Crash
<1> QED BY <1>1, <1>2, <1>4, ThreadTyped DEF Crash, Goto, Start, Typed, ThreadsOK

LEMMA StutterTyped == Typed /\ UNCHANGED vars => Typed'
BY DEF Typed, ShapeOK, ThreadsOK, PlacesOK, FoundOK, vars, threadVars

LEMMA StepTyped == Typed /\ [Next]_vars => Typed'
BY TickTyped, PublishTyped, BeginTyped, StopTyped, VisitTyped, CheckTyped, QueueTyped,
   RefuseTyped, SelectTyped, WriteTyped, CrashTyped, StutterTyped DEF Next, Pass

\* The rows of the triggers, the places of the schedulers and the history have
\* their types: what an upsert goes on to overwrite is a row that is there.
THEOREM TypeCorrect == Spec => []TypeOK
BY InitTyped, StepTyped, TypedIsType, PTL DEF Spec

-----------------------------------------------------------------------------
(* Rows                                                                    *)

\* A step of one scheduler leaves the others where they are.
LEMMA Others ==
    ASSUME NEW s \in alive, Typed, Pass(s) \/ Crash(s)
    PROVE  /\ s \in Schedulers
           /\ UNCHANGED <<alive, trigger, now>>
           /\ \A t \in Schedulers \ {s} :
                  UNCHANGED <<pc[t], at[t], found[t], bucket[t]>>
<1>1. s \in Schedulers BY DEF Typed, ShapeOK
<1>2. CASE BeginPass(s)
  BY <1>1, <1>2 DEF BeginPass, Goto, Typed, ThreadsOK
<1>3. CASE StopPass(s)
  BY <1>1, <1>3 DEF StopPass, EndPass, Goto, Typed, ThreadsOK
<1>4. CASE Visit(s)
  BY <1>1, <1>4 DEF Visit, GoOn, Step, Goto, Typed, ThreadsOK
<1>5. CASE CheckState(s)
  BY <1>1, <1>5 DEF CheckState, GoOn, Step, Goto, Typed, ThreadsOK
<1>6. CASE QueueRun(s)
  BY <1>1, <1>6 DEF QueueRun, Step, Goto, Typed, ThreadsOK
<1>7. CASE RefuseRun(s)
  BY <1>1, <1>7 DEF RefuseRun, GoOn, Step, Goto, Typed, ThreadsOK
<1>8. CASE SelectState(s)
  BY <1>1, <1>8 DEF SelectState, Step, Goto, Typed, ThreadsOK
<1>9. CASE WriteState(s)
  BY <1>1, <1>9 DEF WriteState, GoOn, Step, Goto, Typed, ThreadsOK
<1>10. CASE Crash(s)
  BY <1>1, <1>10 DEF Crash, Goto, Typed, ThreadsOK
<1> QED BY <1>1, <1>2, <1>3, <1>4, <1>5, <1>6, <1>7, <1>8, <1>9, <1>10 DEF Pass

\* The schedulers that are about to insert a row for a trigger.
Inserting(w, v) == {s \in alive : /\ pc[s] = "write" /\ found[s] = 0
                                  /\ at[s].workflow = w /\ at[s].version = v}

RowsBounded ==
    \A w \in Workflow, v \in Version :
        Len(states[w][v]) + Cardinality(Inserting(w, v)) <= Cardinality(alive)

LEMMA Counted ==
    ASSUME Typed
    PROVE  /\ IsFiniteSet(alive) /\ Cardinality(alive) \in Nat
           /\ \A w \in Workflow, v \in Version :
                  /\ IsFiniteSet(Inserting(w, v)) /\ Cardinality(Inserting(w, v)) \in Nat
                  /\ Cardinality(Inserting(w, v)) <= Cardinality(alive)
                  /\ Len(states[w][v]) \in Nat
<1>1. IsFiniteSet(alive) /\ Cardinality(alive) \in Nat
  BY SchedulersAssumption, FS_Subset, FS_CardinalityType DEF Typed, ShapeOK
<1>2. ASSUME NEW w \in Workflow, NEW v \in Version
      PROVE  /\ IsFiniteSet(Inserting(w, v)) /\ Cardinality(Inserting(w, v)) \in Nat
             /\ Cardinality(Inserting(w, v)) <= Cardinality(alive)
  <2>1. Inserting(w, v) \in SUBSET alive BY DEF Inserting
  <2> QED BY <1>1, <2>1, FS_Subset, FS_CardinalityType
<1>3. ASSUME NEW w \in Workflow, NEW v \in Version PROVE Len(states[w][v]) \in Nat
  <2>1. states[w][v] \in Seq(Minute) BY DEF Typed, ShapeOK
  <2> QED BY <2>1
<1> QED BY <1>1, <1>2, <1>3

LEMMA InitRows == Init => RowsBounded
<1> SUFFICES ASSUME Init, NEW w \in Workflow, NEW v \in Version
             PROVE  Len(states[w][v]) + Cardinality(Inserting(w, v)) <= Cardinality(alive)
  BY DEF RowsBounded
<1>1. Typed BY InitTyped
<1>2. states[w][v] = << >> BY DEF Init
<1>3. Len(states[w][v]) = 0 BY <1>2
<1> QED BY <1>1, <1>3, Counted

\* A step that inserts no row, and after which nobody else is about to.
LEMMA CalmRows ==
    ASSUME Typed, Typed', RowsBounded, UNCHANGED <<alive, states>>,
           \A w \in Workflow, v \in Version : Inserting(w, v)' \subseteq Inserting(w, v)
    PROVE  RowsBounded'
<1> SUFFICES ASSUME NEW w \in Workflow, NEW v \in Version
             PROVE  Len(states'[w][v]) + Cardinality(Inserting(w, v)') <= Cardinality(alive')
  BY DEF RowsBounded
<1>1. Cardinality(Inserting(w, v)') <= Cardinality(Inserting(w, v))
  BY Counted, FS_Subset
<1>2. Cardinality(Inserting(w, v)') \in Nat
  <2>1. IsFiniteSet(Inserting(w, v)') BY Counted, FS_Subset
  <2> QED BY <2>1, FS_CardinalityType
<1>3. Len(states[w][v]) + Cardinality(Inserting(w, v)) <= Cardinality(alive)
  BY DEF RowsBounded
<1> QED BY <1>1, <1>2, <1>3, Counted

LEMMA SelectRows ==
    ASSUME NEW s \in alive, Typed, Typed', RowsBounded, SelectState(s)
    PROVE  RowsBounded'
<1> SUFFICES ASSUME NEW w \in Workflow, NEW v \in Version
             PROVE  Len(states'[w][v]) + Cardinality(Inserting(w, v)') <= Cardinality(alive')
  BY DEF RowsBounded
<1>1. /\ s \in Schedulers /\ UNCHANGED <<alive, states, at>>
      /\ \A t \in Schedulers \ {s} : UNCHANGED <<pc[t], at[t], found[t], bucket[t]>>
  BY Others DEF Pass, SelectState
<1>2. /\ IsFiniteSet(Inserting(w, v)') /\ Cardinality(Inserting(w, v)') \in Nat
      /\ Cardinality(Inserting(w, v)') <= Cardinality(alive)
  <2>1. Inserting(w, v)' \in SUBSET alive BY <1>1 DEF Inserting
  <2> QED BY <2>1, Counted, FS_Subset, FS_CardinalityType
<1>3. CASE Len(states[w][v]) = 0
  BY <1>1, <1>2, <1>3
<1>4. CASE Len(states[w][v]) # 0
  <2>1. Inserting(w, v)' \subseteq Inserting(w, v)
    <3> SUFFICES ASSUME NEW t \in Inserting(w, v)' PROVE t \in Inserting(w, v)
      OBVIOUS
    <3>1. /\ t \in alive /\ pc'[t] = "write" /\ found'[t] = 0
          /\ at'[t].workflow = w /\ at'[t].version = v
      BY <1>1 DEF Inserting
    <3>2. t # s
      <4> SUFFICES ASSUME t = s PROVE FALSE
        OBVIOUS
      <4>1. Rows(s) = states[w][v] BY <1>1, <3>1 DEF Rows
      <4>2. Rows(s) # << >> BY <4>1, <1>4
      <4>3. found'[s] # 0 BY <4>2, <1>1 DEF SelectState, Typed, ThreadsOK
      <4> QED BY <3>1, <4>3
    <3> QED BY <1>1, <3>1, <3>2 DEF Inserting, Typed, ShapeOK
  <2>2. Cardinality(Inserting(w, v)') <= Cardinality(Inserting(w, v))
    BY <2>1, Counted, FS_Subset
  <2>3. Len(states[w][v]) + Cardinality(Inserting(w, v)) <= Cardinality(alive)
    BY DEF RowsBounded
  <2> QED BY <1>1, <1>2, <2>2, <2>3, Counted
<1> QED BY <1>3, <1>4

LEMMA WriteRows ==
    ASSUME NEW s \in alive, Typed, Typed', RowsBounded, WriteState(s)
    PROVE  RowsBounded'
<1> SUFFICES ASSUME NEW w \in Workflow, NEW v \in Version
             PROVE  Len(states'[w][v]) + Cardinality(Inserting(w, v)') <= Cardinality(alive')
  BY DEF RowsBounded
<1>1. /\ s \in Schedulers /\ UNCHANGED alive
      /\ \A t \in Schedulers \ {s} : UNCHANGED <<pc[t], at[t], found[t], bucket[t]>>
  BY Others DEF Pass
<1>2. pc'[s] = "visit" BY <1>1 DEF WriteState, Step, Goto, Typed, ThreadsOK
<1>3. Inserting(w, v)' \subseteq Inserting(w, v) \ {s}
  BY <1>1, <1>2 DEF Inserting, Typed, ShapeOK
<1>4. Inserting(w, v)' \subseteq Inserting(w, v) BY <1>3
<1>5. IsFiniteSet(Inserting(w, v)) /\ Cardinality(Inserting(w, v)) \in Nat
  BY Counted
<1>6. /\ Cardinality(Inserting(w, v)') <= Cardinality(Inserting(w, v))
      /\ IsFiniteSet(Inserting(w, v)')
  BY <1>4, <1>5, FS_Subset
<1>7. Cardinality(Inserting(w, v)') \in Nat BY <1>6, FS_CardinalityType
<1>8. Len(states[w][v]) + Cardinality(Inserting(w, v)) <= Cardinality(alive)
  BY DEF RowsBounded
<1>9. CASE w = at[s].workflow /\ v = at[s].version /\ found[s] = 0
  <2>1. s \in Inserting(w, v) BY <1>9 DEF Inserting, WriteState
  <2>2. /\ IsFiniteSet(Inserting(w, v) \ {s})
        /\ Cardinality(Inserting(w, v) \ {s}) = Cardinality(Inserting(w, v)) - 1
    BY <2>1, <1>5, FS_RemoveElement
  <2>3. Cardinality(Inserting(w, v)') <= Cardinality(Inserting(w, v)) - 1
    BY <1>3, <2>2, FS_Subset
  <2>4. Len(states'[w][v]) = Len(states[w][v]) + 1 BY <1>9, Written
  <2> QED BY <1>1, <1>5, <1>7, <1>8, <2>3, <2>4, Counted
<1>10. CASE ~(w = at[s].workflow /\ v = at[s].version /\ found[s] = 0)
  <2>1. Len(states'[w][v]) = Len(states[w][v]) BY <1>10, Written
  <2> QED BY <1>1, <1>5, <1>6, <1>7, <1>8, <2>1, Counted
<1> QED BY <1>9, <1>10

LEMMA StepRows == Typed /\ RowsBounded /\ [Next]_vars => RowsBounded'
<1> SUFFICES ASSUME Typed, RowsBounded, [Next]_vars PROVE RowsBounded'
  OBVIOUS
<1>1. Typed' BY StepTyped
<1>2. ASSUME UNCHANGED <<alive, states, pc, at, found>> PROVE RowsBounded'
  <2>1. \A w \in Workflow, v \in Version : Inserting(w, v)' \subseteq Inserting(w, v)
    BY <1>2 DEF Inserting
  <2> QED BY <1>1, <1>2, <2>1, CalmRows
<1>3. ASSUME NEW s \in alive, Pass(s) \/ Crash(s), UNCHANGED states, pc'[s] # "write"
      PROVE  RowsBounded'
  <2>1. /\ s \in Schedulers /\ UNCHANGED alive
        /\ \A t \in Schedulers \ {s} : UNCHANGED <<pc[t], at[t], found[t], bucket[t]>>
    BY <1>3, Others
  <2>2. \A w \in Workflow, v \in Version : Inserting(w, v)' \subseteq Inserting(w, v)
    BY <1>3, <2>1 DEF Inserting, Typed, ShapeOK
  <2> QED BY <1>1, <1>3, <2>1, <2>2, CalmRows
<1>4. CASE Tick
  BY <1>2, <1>4 DEF Tick, threadVars
<1>5. ASSUME NEW w \in Workflow, PublishNext(w) PROVE RowsBounded'
  BY <1>2, <1>5 DEF PublishNext, threadVars
<1>6. ASSUME NEW s \in alive, Pass(s) \/ Crash(s) PROVE RowsBounded'
  <2>0. s \in Schedulers BY DEF Typed, ShapeOK
  <2>1. CASE BeginPass(s)
    BY <1>3, <2>0, <2>1 DEF Pass, BeginPass, Goto, Typed, ThreadsOK
  <2>2. CASE StopPass(s)
    BY <1>3, <2>0, <2>2 DEF Pass, StopPass, EndPass, Goto, Typed, ThreadsOK
  <2>3. CASE Visit(s)
    BY <1>3, <2>0, <2>3 DEF Pass, Visit, Step, Goto, Typed, ThreadsOK
  <2>4. CASE CheckState(s)
    BY <1>3, <2>0, <2>4 DEF Pass, CheckState, Step, Goto, Typed, ThreadsOK
  <2>5. CASE QueueRun(s)
    BY <1>3, <2>0, <2>5 DEF Pass, QueueRun, Step, Goto, Typed, ThreadsOK
  <2>6. CASE RefuseRun(s)
    BY <1>3, <2>0, <2>6 DEF Pass, RefuseRun, Step, Goto, Typed, ThreadsOK
  <2>7. CASE SelectState(s) BY <1>1, <2>7, SelectRows
  <2>8. CASE WriteState(s) BY <1>1, <2>8, WriteRows
  <2>9. CASE Crash(s)
    BY <1>3, <2>0, <2>9 DEF Crash, Goto, Typed, ThreadsOK
  <2> QED BY <1>6, <2>1, <2>2, <2>3, <2>4, <2>5, <2>6, <2>7, <2>8, <2>9 DEF Pass
<1>7. CASE UNCHANGED vars
  BY <1>2, <1>7 DEF vars, threadVars
<1> QED BY <1>4, <1>5, <1>6, <1>7 DEF Next

\* However many schedulers race, crash between the look-up and the insert, and
\* see new versions published, a trigger has one row of state for each of them
\* at most, although the unique constraint of the table does not bind.
THEOREM RowsAreFew == Spec => []OneRowPerScheduler
<1>1. Init => Typed /\ RowsBounded BY InitTyped, InitRows
<1>2. Typed /\ RowsBounded /\ [Next]_vars => (Typed /\ RowsBounded)'
  BY StepTyped, StepRows
<1>3. Typed /\ RowsBounded => OneRowPerScheduler
  <2> SUFFICES ASSUME Typed, RowsBounded, NEW w \in Workflow, NEW v \in Version
               PROVE  Len(states[w][v]) <= Cardinality(alive)
    BY DEF OneRowPerScheduler
  <2>1. Len(states[w][v]) + Cardinality(Inserting(w, v)) <= Cardinality(alive)
    BY DEF RowsBounded
  <2> QED BY <2>1, Counted
<1> QED BY <1>1, <1>2, <1>3, PTL DEF Spec

-----------------------------------------------------------------------------
(* Firing                                                                  *)

\* No expression of the workflows before w raises an error in minute m.
Passable(w, m) == \A u \in Workflow : u < w => m \notin trigger[u].raises

\* The runs that were started, and those that are being started, are due.
DueOK ==
    /\ \A s \in Schedulers : pc[s] # "asleep" =>
           /\ Passable(at[s].workflow, bucket[s])
           /\ pc[s] # "visit" =>
                  /\ bucket[s] \in trigger[at[s].workflow].due
                  /\ bucket[s] \notin trigger[at[s].workflow].raises
    /\ \A w \in Workflow, v \in Version, m \in Minute : runs[w][v][m] > 0 =>
           /\ m \in trigger[w].due
           /\ Passable(w, m) /\ m \notin trigger[w].raises

LEMMA InitDue == Init => DueOK
<1> SUFFICES ASSUME Init PROVE DueOK
  OBVIOUS
<1>1. \A w \in Workflow, v \in Version, m \in Minute : runs[w][v][m] = 0
  BY DEF Init
<1>2. \A s \in Schedulers : pc[s] = "asleep" BY DEF Init
<1> QED BY <1>1, <1>2 DEF DueOK

\* The first run of a trigger in a minute that QueueRun starts, and no other.
LEMMA Queued ==
    ASSUME NEW s \in alive, Typed, QueueRun(s)
    PROVE  /\ s \in Schedulers /\ at[s].workflow \in Workflow /\ at[s].version \in Version
           /\ bucket[s] \in Minute
           /\ \A w \in Workflow, v \in Version, m \in Minute :
                  IF w = at[s].workflow /\ v = at[s].version /\ m = bucket[s]
                  THEN /\ runs'[w][v][m] \in {runs[w][v][m], runs[w][v][m] + 1}
                       /\ runs'[w][v][m] > 0
                  ELSE runs'[w][v][m] = runs[w][v][m]
<1> DEFINE x == at[s].workflow
           y == at[s].version
           b == bucket[s]
           n == IF runs[x][y][b] < Enough THEN runs[x][y][b] + 1 ELSE runs[x][y][b]
<1>1. s \in Schedulers /\ x \in Workflow /\ y \in Version /\ b \in Minute
  BY DEF Typed, ShapeOK, ThreadsOK, PlacesOK, QueueRun
<1>2. runs' = [runs EXCEPT ![x][y][b] = n] BY DEF QueueRun
<1>3. n \in {runs[x][y][b], runs[x][y][b] + 1} /\ n > 0
  <2>1. runs[x][y][b] \in 0..(2 + MaxCrashes) BY <1>1 DEF Typed, ShapeOK
  <2>2. Enough \in 1..(2 + MaxCrashes) BY BoundsAssumption DEF Enough
  <2> QED BY <2>1, <2>2, BoundsAssumption
<1> HIDE DEF n
<1>4. \A w \in Workflow, v \in Version, m \in Minute :
          runs'[w][v][m] = IF w = x /\ v = y /\ m = b THEN n ELSE runs[w][v][m]
  <2>1. /\ runs \in [Workflow -> [Version -> [Minute -> 0..(2 + MaxCrashes)]]]
        /\ runs[x] \in [Version -> [Minute -> 0..(2 + MaxCrashes)]]
        /\ runs[x][y] \in [Minute -> 0..(2 + MaxCrashes)]
    BY <1>1 DEF Typed, ShapeOK
  <2> HIDE DEF x, y, b
  <2> QED BY <1>1, <1>2, <2>1
<1> QED BY <1>1, <1>3, <1>4

LEMMA StepDue ==
    ASSUME TableIsRight, Typed, DueOK, [Next]_vars
    PROVE  DueOK'
<1> USE Firsts
<1>1. Typed' BY StepTyped
\* A step after which the scheduler that made it may be where it is.
<1>2. ASSUME NEW s \in Schedulers, UNCHANGED <<trigger, runs>>,
             \A t \in Schedulers \ {s} : UNCHANGED <<pc[t], at[t], bucket[t]>>,
             pc'[s] # "asleep" =>
                 /\ Passable(at'[s].workflow, bucket'[s])
                 /\ pc'[s] # "visit" =>
                        /\ bucket'[s] \in trigger[at'[s].workflow].due
                        /\ bucket'[s] \notin trigger[at'[s].workflow].raises
      PROVE  DueOK'
  BY <1>2 DEF DueOK, Passable
<1>3. ASSUME NEW s \in alive, Pass(s) \/ Crash(s) PROVE DueOK'
  <2>1. /\ s \in Schedulers
        /\ UNCHANGED trigger
        /\ \A t \in Schedulers \ {s} : UNCHANGED <<pc[t], at[t], bucket[t]>>
    BY <1>3, Others
  <2> DEFINE w == at[s].workflow
  <2>2. /\ bucket[s] \in Minute /\ w \in Nat /\ trigger \in Triggers
    BY <2>1, BoundsAssumption DEF Typed, ShapeOK, ThreadsOK
  \* The next workflow is passable, if this one raises no error.
  <2>3. ASSUME pc[s] # "asleep", w \in Workflow, bucket[s] \notin trigger[w].raises,
               GoOn(s), Step(s, "visit"), UNCHANGED runs
        PROVE  DueOK'
    <3>1. Passable(w, bucket[s]) BY <2>1, <2>3 DEF DueOK
    <3>2. \A u \in Workflow : u < w + 1 => u < w \/ u = w BY <2>2
    <3>3. Passable(w + 1, bucket[s]) BY <2>3, <3>1, <3>2 DEF Passable
    <3>4. at'[s].workflow = w + 1 /\ bucket'[s] = bucket[s] /\ pc'[s] = "visit"
      BY <2>1, <2>3 DEF GoOn, Step, Goto, Typed, ThreadsOK
    <3> QED BY <1>2, <2>1, <2>3, <3>3, <3>4
  \* The scheduler stays with its workflow.
  <2>4. ASSUME pc[s] \notin {"asleep", "visit"}, pc'[s] # "asleep",
               UNCHANGED <<bucket, at, runs>>
        PROVE  DueOK'
    BY <1>2, <2>1, <2>4 DEF DueOK
  <2>5. CASE BeginPass(s)
    <3>1. Passable(1, bucket'[s]) BY DEF Passable, Workflow
    <3>2. pc'[s] = "visit" /\ at'[s].workflow = 1
      BY <2>1, <2>5 DEF BeginPass, Goto, Start, Typed, ThreadsOK
    <3> QED BY <1>2, <2>1, <2>5, <3>1, <3>2 DEF BeginPass
  <2>6. CASE StopPass(s)
    <3>1. pc'[s] = "asleep" BY <2>1, <2>6 DEF StopPass, EndPass, Goto, Typed, ThreadsOK
    <3> QED BY <1>2, <2>1, <2>6, <3>1 DEF StopPass
  <2>7. CASE Visit(s)
    <3>1. w \in Workflow /\ pc[s] = "visit" /\ UNCHANGED runs BY <2>7 DEF Visit
    <3>2. bucket[s] \notin trigger[w].raises
      BY <2>2, <2>7, <3>1, TableIsRight DEF Visit, Expression, Shown, TableIsRight
    <3>3. CASE GoOn(s) /\ Step(s, "visit")
      BY <2>3, <3>1, <3>2, <3>3
    <3>4. CASE /\ CronMatches(Expression(s), Shown(s))
               /\ at' = [at EXCEPT ![s].version = version[w]]
               /\ Step(s, "check")
      <4>1. bucket[s] \in trigger[w].due
        BY <2>2, <2>7, <3>1, <3>4, TableIsRight DEF Visit, Expression, Shown, TableIsRight
      <4>2. at'[s].workflow = w /\ bucket'[s] = bucket[s]
        BY <2>1, <3>4 DEF Step, Typed, ThreadsOK
      <4>3. Passable(w, bucket[s]) BY <2>1, <3>1 DEF DueOK
      <4> QED BY <1>2, <2>1, <3>1, <3>2, <4>1, <4>2, <4>3
    <3> QED BY <2>7, <3>3, <3>4 DEF Visit
  <2>8. CASE CheckState(s)
    <3>1. /\ pc[s] = "check" /\ w \in Workflow /\ UNCHANGED runs
          /\ bucket[s] \notin trigger[w].raises
      BY <2>1, <2>8 DEF CheckState, Typed, PlacesOK, DueOK
    <3>2. CASE GoOn(s) /\ Step(s, "visit")
      BY <2>3, <3>1, <3>2
    <3>3. CASE Step(s, "queue") /\ UNCHANGED at
      BY <2>1, <2>4, <3>1, <3>3 DEF Step, Goto, Typed, ThreadsOK
    <3> QED BY <2>8, <3>2, <3>3 DEF CheckState
  <2>9. CASE QueueRun(s)
    <3>1. /\ pc[s] = "queue" /\ pc'[s] = "select" /\ UNCHANGED <<at, bucket>>
      BY <2>1, <2>9 DEF QueueRun, Step, Goto, Typed, ThreadsOK
    <3>2. /\ Passable(w, bucket[s])
          /\ bucket[s] \in trigger[w].due /\ bucket[s] \notin trigger[w].raises
      BY <2>1, <3>1 DEF DueOK
    <3>3. \A x \in Workflow, v \in Version, m \in Minute :
              runs'[x][v][m] = runs[x][v][m] \/ (x = w /\ m = bucket[s])
      BY <2>9, Queued
    <3>4. ASSUME NEW x \in Workflow, NEW v \in Version, NEW m \in Minute, runs'[x][v][m] > 0
          PROVE  m \in trigger[x].due /\ Passable(x, m) /\ m \notin trigger[x].raises
      BY <3>2, <3>3, <3>4 DEF DueOK
    <3> QED BY <2>1, <3>1, <3>2, <3>4 DEF DueOK, Passable
  <2>10. CASE RefuseRun(s)
    <3>1. /\ pc[s] = "queue" /\ w \in Workflow /\ UNCHANGED runs
          /\ bucket[s] \notin trigger[w].raises /\ GoOn(s) /\ Step(s, "visit")
      BY <2>1, <2>10 DEF RefuseRun, Typed, PlacesOK, DueOK
    <3> QED BY <2>3, <3>1
  <2>11. CASE SelectState(s)
    BY <2>1, <2>4, <2>11 DEF SelectState, Step, Goto, Typed, ThreadsOK
  <2>12. CASE WriteState(s)
    <3>1. /\ pc[s] = "write" /\ w \in Workflow /\ UNCHANGED runs
          /\ bucket[s] \notin trigger[w].raises /\ GoOn(s) /\ Step(s, "visit")
      BY <2>1, <2>12 DEF WriteState, Typed, PlacesOK, DueOK
    <3> QED BY <2>3, <3>1
  <2>13. CASE Crash(s)
    <3>1. pc'[s] = "asleep" BY <2>1, <2>13 DEF Crash, Goto, Typed, ThreadsOK
    <3> QED BY <1>2, <2>1, <2>13, <3>1 DEF Crash
  <2> QED BY <1>3, <2>5, <2>6, <2>7, <2>8, <2>9, <2>10, <2>11, <2>12, <2>13 DEF Pass
<1>4. ASSUME UNCHANGED <<trigger, runs, pc, at, bucket>> PROVE DueOK'
  BY <1>4 DEF DueOK, Passable
<1>5. CASE Tick BY <1>4, <1>5 DEF Tick, threadVars
<1>6. ASSUME NEW w \in Workflow, PublishNext(w) PROVE DueOK'
  BY <1>4, <1>6 DEF PublishNext, threadVars
<1>7. CASE UNCHANGED vars BY <1>4, <1>7 DEF vars, threadVars
<1> QED BY <1>3, <1>5, <1>6, <1>7 DEF Next

\* Minute m of a trigger is dealt with: its row says so, or the scheduler is
\* on its way to write that.
Covered(s, w, v, m) ==
    \/ \E i \in DOMAIN states[w][v] : states[w][v][i] >= m
    \/ /\ pc[s] \in {"select", "write"}
       /\ at[s].workflow = w /\ at[s].version = v /\ bucket[s] >= m

\* A scheduler that is alone meets no bucket later than its own, and starts a
\* run for a minute that is dealt with only after a crash.
OnceBy(s) ==
    /\ bucket[s] <= now
    /\ \A w \in Workflow, v \in Version : \A i \in DOMAIN states[w][v] :
           /\ states[w][v][i] <= now
           /\ pc[s] # "asleep" => states[w][v][i] <= bucket[s]
    /\ pc[s] = "queue" => \A i \in DOMAIN Rows(s) : Rows(s)[i] < bucket[s]
    /\ \A w \in Workflow, v \in Version, m \in Minute :
           runs[w][v][m] <= crashes + (IF Covered(s, w, v, m) THEN 1 ELSE 0)

Once == \A s \in alive : alive = {s} => OnceBy(s)

LEMMA InitOnce == Init => Once
<1> SUFFICES ASSUME Init, NEW s \in alive PROVE OnceBy(s)
  BY DEF Once
<1>1. s \in Schedulers BY DEF Init
<1>2. bucket[s] = 0 /\ now = 0 /\ pc[s] = "asleep" BY <1>1 DEF Init
<1>3. \A w \in Workflow, v \in Version : states[w][v] = << >> BY DEF Init
<1>4. \A w \in Workflow, v \in Version, m \in Minute : runs[w][v][m] = 0 /\ crashes = 0
  BY DEF Init
<1> QED BY <1>2, <1>3, <1>4 DEF OnceBy

LEMMA TypedNaturals ==
    ASSUME Typed
    PROVE  /\ now \in Nat /\ crashes \in Nat
           /\ \A s \in Schedulers : bucket[s] \in Nat
           /\ \A w \in Workflow, v \in Version, m \in Minute : runs[w][v][m] \in Nat
           /\ \A w \in Workflow, v \in Version :
                  /\ states[w][v] \in Seq(Minute)
                  /\ \A i \in DOMAIN states[w][v] : states[w][v][i] \in Nat
<1>1. Minute \subseteq Nat /\ Minute # {} BY Firsts
<1>2. ASSUME NEW w \in Workflow, NEW v \in Version
      PROVE  /\ states[w][v] \in Seq(Minute)
             /\ \A i \in DOMAIN states[w][v] : states[w][v][i] \in Nat
  <2>1. states[w][v] \in Seq(Minute) BY DEF Typed, ShapeOK
  <2>2. \A i \in DOMAIN states[w][v] : states[w][v][i] \in Minute BY <2>1
  <2> QED BY <1>1, <2>1, <2>2
<1>3. now \in Nat /\ crashes \in Nat
  BY <1>1, BoundsAssumption DEF Typed, ShapeOK
<1>4. ASSUME NEW s \in Schedulers PROVE bucket[s] \in Nat
  BY <1>1 DEF Typed, ThreadsOK
<1>5. ASSUME NEW w \in Workflow, NEW v \in Version, NEW m \in Minute
      PROVE  runs[w][v][m] \in Nat
  <2>1. runs[w][v][m] \in 0..(2 + MaxCrashes) BY DEF Typed, ShapeOK
  <2> QED BY <2>1, BoundsAssumption
<1> QED BY <1>2, <1>3, <1>4, <1>5

\* A scheduler that is alone finds one row at most, and the one it looks for.
LEMMA Alone ==
    ASSUME NEW s \in alive, alive = {s}, Typed, RowsBounded,
           NEW w \in Workflow, NEW v \in Version
    PROVE  /\ Len(states[w][v]) <= 1
           /\ pc[s] = "write" /\ found[s] = 0 /\ at[s].workflow = w /\ at[s].version = v =>
                  Len(states[w][v]) = 0
<1>1. Cardinality(alive) = 1 BY FS_Singleton
<1>2. Len(states[w][v]) + Cardinality(Inserting(w, v)) <= 1 BY <1>1 DEF RowsBounded
<1>3. /\ IsFiniteSet(Inserting(w, v)) /\ Cardinality(Inserting(w, v)) \in Nat
      /\ Len(states[w][v]) \in Nat
  BY Counted
<1>4. ASSUME pc[s] = "write", found[s] = 0, at[s].workflow = w, at[s].version = v
      PROVE  Cardinality(Inserting(w, v)) # 0
  <2>1. s \in Inserting(w, v) BY <1>4 DEF Inserting
  <2> QED BY <2>1, <1>3, FS_EmptySet
<1> QED BY <1>2, <1>3, <1>4

LEMMA StepOnce ==
    ASSUME NEW s \in alive, alive = {s}, Typed, RowsBounded, OnceBy(s), [Next]_vars
    PROVE  OnceBy(s)'
<1>1. Typed' BY StepTyped
<1>2. s \in Schedulers BY DEF Typed, ShapeOK
\* Nothing that matters is forgotten.
<1>3. ASSUME UNCHANGED <<states, runs, crashes, now>>, bucket'[s] <= now,
             pc'[s] # "asleep" => \/ bucket'[s] = now
                                  \/ bucket'[s] = bucket[s] /\ pc[s] # "asleep",
             pc'[s] = "queue" => \A i \in DOMAIN Rows(s)' : Rows(s)'[i] < bucket'[s],
             \A w \in Workflow, v \in Version, m \in Minute :
                 Covered(s, w, v, m) => Covered(s, w, v, m)'
      PROVE  OnceBy(s)'
  <2>1. ASSUME NEW w \in Workflow, NEW v \in Version, NEW m \in Minute
        PROVE  runs'[w][v][m] <= crashes' + (IF Covered(s, w, v, m)' THEN 1 ELSE 0)
    BY <1>3, TypedNaturals DEF OnceBy
  <2>2. ASSUME NEW w \in Workflow, NEW v \in Version, NEW i \in DOMAIN states'[w][v]
        PROVE  /\ states'[w][v][i] <= now'
               /\ pc'[s] # "asleep" => states'[w][v][i] <= bucket'[s]
    BY <1>3 DEF OnceBy
  <2> QED BY <1>3, <2>1, <2>2 DEF OnceBy
\* A step from a place where nothing is covered by the scheduler itself.
<1>4. ASSUME UNCHANGED <<states, runs, crashes, now>>, pc[s] \notin {"select", "write"},
             bucket'[s] <= now,
             pc'[s] # "asleep" => \/ bucket'[s] = now
                                  \/ bucket'[s] = bucket[s] /\ pc[s] # "asleep",
             pc'[s] = "queue" => \A i \in DOMAIN Rows(s)' : Rows(s)'[i] < bucket'[s]
      PROVE  OnceBy(s)'
  <2>1. \A w \in Workflow, v \in Version, m \in Minute :
            Covered(s, w, v, m) => Covered(s, w, v, m)'
    BY <1>4 DEF Covered
  <2> QED BY <1>3, <1>4, <2>1
<1>5. CASE BeginPass(s)
  <2>1. pc[s] = "asleep" /\ pc'[s] = "visit" /\ bucket'[s] = now
    BY <1>2, <1>5 DEF BeginPass, Goto, Typed, ThreadsOK
  <2> QED BY <1>4, <1>5, <2>1, TypedNaturals DEF BeginPass
<1>6. CASE StopPass(s)
  <2>1. pc[s] = "visit" /\ pc'[s] = "asleep" /\ bucket'[s] = 0
    BY <1>2, <1>6 DEF StopPass, EndPass, Goto, Typed, ThreadsOK
  <2> QED BY <1>4, <1>6, <2>1, TypedNaturals DEF StopPass
<1>7. CASE Visit(s)
  <2>1. /\ pc[s] = "visit" /\ pc'[s] \in {"visit", "check"} /\ bucket'[s] = bucket[s]
        /\ UNCHANGED <<states, runs, crashes, now>>
    BY <1>2, <1>7 DEF Visit, Step, Goto, Typed, ThreadsOK
  <2> QED BY <1>4, <2>1 DEF OnceBy
<1>8. CASE CheckState(s)
  <2>1. /\ pc[s] = "check" /\ pc'[s] \in {"visit", "queue"} /\ bucket'[s] = bucket[s]
        /\ UNCHANGED <<states, runs, crashes, now>>
    BY <1>2, <1>8 DEF CheckState, Step, Goto, Typed, ThreadsOK
  <2>2. at[s].workflow \in Workflow /\ at[s].version \in Version
    BY <1>2, <2>1 DEF Typed, ThreadsOK, PlacesOK
  <2>3. /\ Len(Rows(s)) <= 1 /\ Rows(s) \in Seq(Minute)
        /\ \A i \in DOMAIN Rows(s) : Rows(s)[i] \in Nat /\ Rows(s)[i] <= bucket[s]
    BY <2>1, <2>2, Alone, TypedNaturals DEF Rows, OnceBy
  <2>4. ASSUME pc'[s] = "queue" PROVE \A i \in DOMAIN Rows(s)' : Rows(s)'[i] < bucket'[s]
    <3>1. UNCHANGED at
      BY <1>2, <1>8, <2>4 DEF CheckState, Step, Goto, Typed, ThreadsOK
    <3>2. Rows(s)' = Rows(s) BY <2>1, <3>1 DEF Rows
    <3>3. Rows(s) = << >> \/ \E i \in DOMAIN Rows(s) : Rows(s)[i] # bucket[s]
      BY <1>2, <1>8, <2>4 DEF CheckState, Step, Goto, Typed, ThreadsOK
    <3>4. \A i, j \in DOMAIN Rows(s) : i = j BY <2>3
    <3>5. \A i \in DOMAIN Rows(s) : Rows(s)[i] # bucket[s] BY <3>3, <3>4
    <3>6. \A i \in DOMAIN Rows(s) : Rows(s)[i] < bucket[s]
      BY <1>2, <2>3, <3>5, TypedNaturals
    <3> QED BY <2>1, <3>2, <3>6
  <2> QED BY <1>4, <2>1, <2>4 DEF OnceBy
<1>9. CASE QueueRun(s)
  <2> DEFINE w == at[s].workflow
             v == at[s].version
             b == bucket[s]
  <2>1. /\ pc[s] = "queue" /\ pc'[s] = "select"
        /\ UNCHANGED <<states, crashes, now, bucket, at>>
    BY <1>2, <1>9 DEF QueueRun, Step, Goto, Typed, ThreadsOK
  <2>2. w \in Workflow /\ v \in Version /\ b \in Minute
    BY <1>9, Queued
  <2>3. ~Covered(s, w, v, b)
    <3>1. \A i \in DOMAIN states[w][v] : states[w][v][i] < b
      BY <2>1 DEF OnceBy, Rows
    <3>2. \A i \in DOMAIN states[w][v] : ~(states[w][v][i] >= b)
      BY <1>2, <2>2, <3>1, TypedNaturals
    <3> QED BY <2>1, <3>2 DEF Covered
  <2>4. ASSUME NEW x, NEW y, NEW m, x = w, y = v, m = b PROVE Covered(s, x, y, m)'
    BY <1>2, <2>1, <2>4, TypedNaturals DEF Covered
  <2>5. \A x \in Workflow, y \in Version, m \in Minute :
            Covered(s, x, y, m) => Covered(s, x, y, m)'
    BY <2>1 DEF Covered
  <2>6. ASSUME NEW x \in Workflow, NEW y \in Version, NEW m \in Minute
        PROVE  runs'[x][y][m] <= crashes' + (IF Covered(s, x, y, m)' THEN 1 ELSE 0)
    <3>1. CASE x = w /\ y = v /\ m = b
      <4>1. runs[w][v][b] <= crashes BY <2>2, <2>3, TypedNaturals DEF OnceBy
      <4>2. runs'[w][v][b] \in {runs[w][v][b], runs[w][v][b] + 1}
        BY <1>9, <2>2, Queued
      <4>3. crashes \in Nat /\ runs[w][v][b] \in Nat BY <2>2, TypedNaturals
      <4>4. runs'[x][y][m] <= crashes' + 1 BY <2>1, <3>1, <4>1, <4>2, <4>3
      <4>5. Covered(s, x, y, m)' BY <2>4, <3>1
      <4> QED BY <4>4, <4>5
    <3>2. CASE ~(x = w /\ y = v /\ m = b)
      <4>1. runs'[x][y][m] = runs[x][y][m] BY <1>9, <3>2, Queued
      <4> QED BY <2>1, <2>5, <4>1, TypedNaturals DEF OnceBy
    <3> QED BY <3>1, <3>2
  <2>7. /\ bucket'[s] <= now' /\ pc'[s] # "queue"
        /\ \A x \in Workflow, y \in Version : \A i \in DOMAIN states'[x][y] :
               states'[x][y][i] <= now' /\ states'[x][y][i] <= bucket'[s]
    BY <2>1 DEF OnceBy
  <2> QED BY <2>6, <2>7 DEF OnceBy
<1>10. CASE RefuseRun(s)
  <2>1. /\ pc[s] = "queue" /\ pc'[s] = "visit" /\ bucket'[s] = bucket[s]
        /\ UNCHANGED <<states, runs, crashes, now>>
    BY <1>2, <1>10 DEF RefuseRun, Step, Goto, Typed, ThreadsOK
  <2> QED BY <1>4, <2>1 DEF OnceBy
<1>11. CASE SelectState(s)
  <2>1. /\ pc[s] = "select" /\ pc'[s] = "write"
        /\ UNCHANGED <<states, runs, crashes, now, bucket, at>>
    BY <1>2, <1>11 DEF SelectState, Step, Goto, Typed, ThreadsOK
  <2>2. \A x \in Workflow, y \in Version, m \in Minute :
            Covered(s, x, y, m) => Covered(s, x, y, m)'
    BY <2>1 DEF Covered
  <2> QED BY <1>3, <2>1, <2>2 DEF OnceBy
<1>12. CASE WriteState(s)
  <2> DEFINE w == at[s].workflow
             v == at[s].version
             b == bucket[s]
  <2>1. /\ pc[s] = "write" /\ pc'[s] = "visit" /\ UNCHANGED <<runs, crashes, now, bucket>>
    BY <1>2, <1>12 DEF WriteState, Step, Goto, Typed, ThreadsOK
  <2>2. /\ w \in Workflow /\ v \in Version /\ b \in Nat
        /\ states[w][v] \in Seq(Minute) /\ b \in Minute /\ found[s] \in 0..Len(states[w][v])
    BY <1>2, <2>1, TypedNaturals DEF Typed, ThreadsOK, PlacesOK, FoundOK
  <2>3. \A x \in Workflow, y \in Version :
            states'[x][y] = IF x = w /\ y = v THEN WithBucket(states[x][y], found[s], b)
                            ELSE states[x][y]
    BY <1>12, Written
  \* Every bucket in the rows was there before or is the scheduler's own.
  <2>4. ASSUME NEW x \in Workflow, NEW y \in Version, NEW i \in DOMAIN states'[x][y]
        PROVE  /\ states'[x][y][i] <= now
               /\ states'[x][y][i] <= b
    <3>1. \A j \in DOMAIN states[x][y] : states[x][y][j] <= now /\ states[x][y][j] <= b
      BY <2>1 DEF OnceBy
    <3>2. b <= now /\ b <= b BY <2>2 DEF OnceBy
    <3>3. CASE x = w /\ y = v
      <4>1. \/ states'[x][y][i] = b
            \/ i \in DOMAIN states[x][y] /\ states'[x][y][i] = states[x][y][i]
        BY <2>2, <2>3, <3>3, WithBucketRows
      <4> QED BY <3>1, <3>2, <4>1
    <3>4. CASE ~(x = w /\ y = v)
      <4>1. states'[x][y] = states[x][y] BY <2>3, <3>4
      <4> QED BY <3>1, <4>1
    <3> QED BY <3>3, <3>4
  \* Both what the rows covered and what the scheduler did, they cover now.
  <2>5. ASSUME NEW x \in Workflow, NEW y \in Version, NEW m \in Minute, Covered(s, x, y, m)
        PROVE  \E i \in DOMAIN states'[x][y] : states'[x][y][i] >= m
    <3>1. CASE x = w /\ y = v
      <4>1. \E j \in DOMAIN states'[w][v] : states'[w][v][j] = b
        <5>1. states'[w][v] = WithBucket(states[w][v], found[s], b) BY <2>2, <2>3
        <5> QED BY <2>2, <5>1, WithBucketRows
      <4>2. b >= m
        <5>1. m \in Nat BY Firsts
        <5>2. CASE \E i \in DOMAIN states[w][v] : states[w][v][i] >= m
          <6>1. \A i \in DOMAIN states[w][v] : states[w][v][i] <= b /\ states[w][v][i] \in Nat
            BY <2>1, <2>2, TypedNaturals DEF OnceBy
          <6> QED BY <2>2, <5>1, <5>2, <6>1
        <5> QED BY <2>5, <3>1, <5>2 DEF Covered
      <4> QED BY <3>1, <4>1, <4>2
    <3>2. CASE ~(x = w /\ y = v)
      <4>1. states'[x][y] = states[x][y] BY <2>3, <3>2
      <4> QED BY <2>5, <3>2, <4>1 DEF Covered
    <3> QED BY <3>1, <3>2
  <2>6. ASSUME NEW x \in Workflow, NEW y \in Version, NEW m \in Minute
        PROVE  runs'[x][y][m] <= crashes' + (IF Covered(s, x, y, m)' THEN 1 ELSE 0)
    <3>1. Covered(s, x, y, m) => Covered(s, x, y, m)' BY <2>5 DEF Covered
    <3> QED BY <2>1, <3>1, TypedNaturals DEF OnceBy
  <2> QED BY <2>1, <2>4, <2>6 DEF OnceBy
<1>13. CASE Crash(s)
  <2>1. /\ pc'[s] = "asleep" /\ bucket'[s] = 0 /\ UNCHANGED <<runs, states, now>>
        /\ crashes' = crashes + 1
    BY <1>2, <1>13 DEF Crash, Goto, Typed, ThreadsOK
  <2>2. ASSUME NEW w \in Workflow, NEW v \in Version, NEW m \in Minute
        PROVE  runs'[w][v][m] <= crashes' + (IF Covered(s, w, v, m)' THEN 1 ELSE 0)
    BY <2>1, TypedNaturals DEF OnceBy
  <2> QED BY <2>1, <2>2, TypedNaturals DEF OnceBy
<1>14. CASE Tick
  <2>1. UNCHANGED <<states, runs, crashes, pc, at, bucket>> /\ now' = now + 1
    BY <1>14 DEF Tick, threadVars
  <2>2. \A w \in Workflow, v \in Version, m \in Minute :
            Covered(s, w, v, m)' <=> Covered(s, w, v, m)
    BY <2>1 DEF Covered
  <2>3. bucket'[s] <= now' BY <1>2, <2>1, TypedNaturals DEF OnceBy
  <2>4. ASSUME NEW w \in Workflow, NEW v \in Version, NEW i \in DOMAIN states'[w][v]
        PROVE  /\ states'[w][v][i] <= now'
               /\ pc'[s] # "asleep" => states'[w][v][i] <= bucket'[s]
    BY <2>1, TypedNaturals DEF OnceBy
  <2>5. pc'[s] = "queue" => \A i \in DOMAIN Rows(s)' : Rows(s)'[i] < bucket'[s]
    BY <2>1 DEF OnceBy, Rows
  <2>6. ASSUME NEW w \in Workflow, NEW v \in Version, NEW m \in Minute
        PROVE  runs'[w][v][m] <= crashes' + (IF Covered(s, w, v, m)' THEN 1 ELSE 0)
    BY <2>1, <2>2 DEF OnceBy
  <2> QED BY <2>3, <2>4, <2>5, <2>6 DEF OnceBy
<1>15. ASSUME UNCHANGED <<states, runs, crashes, now, pc, at, bucket>> PROVE OnceBy(s)'
  BY <1>15 DEF OnceBy, Covered, Rows
<1>16. ASSUME NEW w \in Workflow, PublishNext(w) PROVE OnceBy(s)'
  BY <1>15, <1>16 DEF PublishNext, threadVars
<1>17. CASE UNCHANGED vars BY <1>15, <1>17 DEF vars, threadVars
<1>18. ASSUME NEW t \in alive PROVE t = s OBVIOUS
<1> QED
  BY <1>5, <1>6, <1>7, <1>8, <1>9, <1>10, <1>11, <1>12, <1>13, <1>14, <1>16, <1>17, <1>18
  DEF Next, Pass

\* However long it runs, and whatever is published meanwhile, a scheduler that
\* is alone starts one run of a trigger in a minute, and one more for every
\* crash between a run and its record; and any number of schedulers start runs
\* only in minutes that the cron expression names, and in which no expression
\* of the workflows before raises an error: provided that the table which the
\* property consults says of the expressions what cron_matches does.
THEOREM FiresOnce == TableIsRight /\ Spec => []FiresOncePerMinute
<1> DEFINE Inv == TableIsRight /\ Typed /\ RowsBounded /\ DueOK /\ Once
<1>1. TableIsRight /\ Init => Inv
  BY InitTyped, InitRows, InitDue, InitOnce
<1>2. Inv /\ [Next]_vars => Inv'
  <2> SUFFICES ASSUME Inv, [Next]_vars PROVE Inv'
    OBVIOUS
  <2>1. Typed' /\ RowsBounded' /\ DueOK' BY StepTyped, StepRows, StepDue
  <2>2. alive' = alive
    <3>1. \A s \in alive : Pass(s) \/ Crash(s) => alive' = alive BY Others
    <3> QED BY <3>1 DEF Next, Tick, PublishNext, vars
  <2>3. Once' BY <2>2, StepOnce DEF Once
  <2> QED BY <2>1, <2>3 DEF TableIsRight
<1>3. Inv => FiresOncePerMinute
  <2> SUFFICES ASSUME Inv, NEW w \in Workflow, NEW v \in Version, NEW m \in Minute
               PROVE  /\ runs[w][v][m] > 0 =>
                             m \in trigger[w].due /\ \A u \in 1..w : m \notin trigger[u].raises
                      /\ Cardinality(alive) = 1 => runs[w][v][m] <= 1 + crashes
    BY DEF FiresOncePerMinute
  <2>1. ASSUME runs[w][v][m] > 0
        PROVE  m \in trigger[w].due /\ \A u \in 1..w : m \notin trigger[u].raises
    <3>1. m \in trigger[w].due /\ Passable(w, m) /\ m \notin trigger[w].raises
      BY <2>1 DEF DueOK
    <3>2. \A u \in 1..w : u \in Workflow /\ (u < w \/ u = w) BY BoundsAssumption DEF Workflow
    <3> QED BY <3>1, <3>2 DEF Passable
  <2>2. ASSUME Cardinality(alive) = 1 PROVE runs[w][v][m] <= 1 + crashes
    <3>1. PICK s : alive = {s} BY <2>2, Counted, FS_Singleton
    <3>2. OnceBy(s) BY <3>1 DEF Once
    <3> QED BY <3>2, TypedNaturals DEF OnceBy
  <2> QED BY <2>1, <2>2
<1> QED BY <1>1, <1>2, <1>3, PTL DEF Spec

-----------------------------------------------------------------------------
(* Missing                                                                 *)

Fired(w, m) == <<w, m>> \in refused \/ \E v \in Version : runs[w][v][m] > 0

FiredNext(w, m) == <<w, m>> \in refused' \/ \E v \in Version : runs'[w][v][m] > 0

Owed(w, m) == m \in trigger[w].due /\ m \notin trigger[w].raises /\ Passable(w, m)

\* What a pass leaves behind is fired: the workflows it has come by, the one
\* whose state it is about to write, and all of them if it has ended; and what
\* a row of state says was fired was.
KeptUp ==
    /\ \A s \in Schedulers : pc[s] # "asleep" =>
           \A w \in Workflow : w < at[s].workflow /\ Owed(w, bucket[s]) => Fired(w, bucket[s])
    /\ \A s \in Schedulers : pc[s] \in {"select", "write"} =>
           runs[at[s].workflow][at[s].version][bucket[s]] > 0
    /\ \A w \in Workflow, v \in Version : \A i \in DOMAIN states[w][v] :
           runs[w][v][states[w][v][i]] > 0
    /\ done # {} => \A w \in Workflow : Owed(w, now) => Fired(w, now)
    /\ ~late => \A w \in Workflow, m \in Minute : m < now /\ Owed(w, m) => Fired(w, m)
    /\ alive # {}

LEMMA InitKept == Init => KeptUp
<1> SUFFICES ASSUME Init PROVE KeptUp
  OBVIOUS
<1>1. \A s \in Schedulers : pc[s] = "asleep" BY DEF Init
<1>2. \A w \in Workflow, v \in Version : states[w][v] = << >> BY DEF Init
<1>3. now = 0 /\ done = {} /\ alive # {} BY DEF Init
<1>4. \A m \in Minute : ~(m < 0) BY Firsts
<1> QED BY <1>1, <1>2, <1>3, <1>4 DEF KeptUp

\* What is fired stays so.
LEMMA StaysFired ==
    ASSUME NEW s \in alive, Typed, Pass(s) \/ Crash(s)
    PROVE  /\ refused \subseteq refused'
           /\ \A w \in Workflow, v \in Version, m \in Minute :
                  runs[w][v][m] > 0 => runs'[w][v][m] > 0
           /\ \A w \in Workflow, m \in Minute : Fired(w, m) => FiredNext(w, m)
<1>1. refused \subseteq refused'
  BY DEF Pass, BeginPass, StopPass, Visit, CheckState, QueueRun, RefuseRun, SelectState,
         WriteState, Crash
<1>2. ASSUME NEW w \in Workflow, NEW v \in Version, NEW m \in Minute, runs[w][v][m] > 0
      PROVE  runs'[w][v][m] > 0
  <2>1. CASE QueueRun(s)
    BY <1>2, <2>1, Queued
  <2>2. CASE ~QueueRun(s)
    <3>1. UNCHANGED runs
      BY <2>2 DEF Pass, BeginPass, StopPass, Visit, CheckState, RefuseRun, SelectState,
                  WriteState, Crash
    <3> QED BY <1>2, <3>1
  <2> QED BY <2>1, <2>2
<1>3. ASSUME NEW w \in Workflow, NEW m \in Minute, Fired(w, m) PROVE FiredNext(w, m)
  BY <1>1, <1>2, <1>3 DEF Fired, FiredNext
<1> QED BY <1>1, <1>2, <1>3

\* A step that writes no row and ends no pass, or ends it with all that is owed.
LEMMA StepsOn ==
    ASSUME NEW s \in alive, Typed, Typed', KeptUp, Pass(s) \/ Crash(s),
           UNCHANGED <<states, late>>,
           pc'[s] # "asleep" => \A w \in Workflow :
               w < at'[s].workflow /\ Owed(w, bucket'[s]) => FiredNext(w, bucket'[s]),
           pc'[s] \in {"select", "write"} =>
               runs'[at'[s].workflow][at'[s].version][bucket'[s]] > 0,
           done' # done => \A w \in Workflow : Owed(w, now) => FiredNext(w, now)
    PROVE  KeptUp'
<1>1. /\ s \in Schedulers
      /\ UNCHANGED <<alive, trigger, now>>
      /\ \A t \in Schedulers \ {s} : UNCHANGED <<pc[t], at[t], found[t], bucket[t]>>
  BY Others
<1>2. \A w \in Workflow, m \in Minute : Owed(w, m)' <=> Owed(w, m)
  BY <1>1 DEF Owed, Passable
<1>3. /\ now \in Minute
      /\ \A t \in Schedulers : bucket[t] \in Minute /\ bucket'[t] \in Minute
  BY DEF Typed, ShapeOK, ThreadsOK
<1>4. ASSUME NEW t \in Schedulers, pc'[t] # "asleep", NEW w \in Workflow,
             w < at'[t].workflow, Owed(w, bucket[t])', t # s
      PROVE  Fired(w, bucket[t])'
  <2>1. pc[t] # "asleep" /\ w < at[t].workflow /\ bucket'[t] = bucket[t]
    BY <1>1, <1>4
  <2>2. Owed(w, bucket[t]) BY <1>1, <1>4, <2>1 DEF Owed, Passable
  <2>3. Fired(w, bucket[t]) BY <2>1, <2>2 DEF KeptUp
  <2>4. FiredNext(w, bucket[t]) BY <1>3, <2>3, StaysFired DEF FiredNext
  <2> QED BY <2>1, <2>4 DEF Fired, FiredNext
<1>5. ASSUME NEW t \in Schedulers, pc'[t] \in {"select", "write"}, t # s
      PROVE  runs'[at'[t].workflow][at'[t].version][bucket'[t]] > 0
  <2>1. /\ pc[t] \in {"select", "write"} /\ at'[t] = at[t] /\ bucket'[t] = bucket[t]
    BY <1>1, <1>5
  <2>2. /\ at[t].workflow \in Workflow /\ at[t].version \in Version
        /\ runs[at[t].workflow][at[t].version][bucket[t]] > 0
    BY <2>1 DEF KeptUp, Typed, ThreadsOK, PlacesOK
  <2> QED BY <1>3, <2>1, <2>2, StaysFired
<1>6. ASSUME NEW w \in Workflow, NEW v \in Version, NEW i \in DOMAIN states'[w][v]
      PROVE  runs'[w][v][states'[w][v][i]] > 0
  <2>1. states[w][v] \in Seq(Minute) BY DEF Typed, ShapeOK
  <2>2. i \in DOMAIN states[w][v] /\ states'[w][v] = states[w][v] BY <1>6
  <2>3. states[w][v][i] \in Minute BY <2>1, <2>2
  <2>4. runs[w][v][states[w][v][i]] > 0 BY <2>2 DEF KeptUp
  <2> QED BY <2>2, <2>3, <2>4, StaysFired
<1>7. ASSUME done' # {}, NEW w \in Workflow, Owed(w, now)' PROVE Fired(w, now)'
  <2>1. Owed(w, now) BY <1>1, <1>7 DEF Owed, Passable
  <2>2. CASE done' = done
    <3>1. Fired(w, now) BY <1>7, <2>1, <2>2 DEF KeptUp
    <3>2. now' = now BY <1>1
    <3>3. FiredNext(w, now) BY <1>3, <3>1, StaysFired
    <3> QED BY <3>2, <3>3 DEF Fired, FiredNext
  <2> QED BY <1>1, <2>1, <2>2 DEF Fired, FiredNext
<1>8. ASSUME ~late', NEW w \in Workflow, NEW m \in Minute, m < now', Owed(w, m)'
      PROVE  Fired(w, m)'
  <2>1. Owed(w, m) /\ ~late /\ m < now BY <1>1, <1>2, <1>8
  <2>2. FiredNext(w, m) BY <2>1, StaysFired DEF KeptUp
  <2> QED BY <2>2 DEF Fired, FiredNext
<1>9. ASSUME pc'[s] # "asleep", NEW w \in Workflow, w < at'[s].workflow, Owed(w, bucket[s])'
      PROVE  Fired(w, bucket[s])'
  <2>1. Owed(w, bucket'[s]) BY <1>1, <1>9 DEF Owed, Passable
  <2> QED BY <1>9, <2>1 DEF Fired, FiredNext
<1> QED BY <1>1, <1>4, <1>5, <1>6, <1>7, <1>8, <1>9 DEF KeptUp

LEMMA WriteKept ==
    ASSUME NEW s \in alive, Typed, Typed', KeptUp, WriteState(s)
    PROVE  KeptUp'
<1> DEFINE w == at[s].workflow
           v == at[s].version
           b == bucket[s]
<1>1. /\ s \in Schedulers /\ w \in Workflow /\ v \in Version /\ b \in Minute
      /\ pc[s] = "write" /\ pc'[s] = "visit"
      /\ at'[s].workflow = w + 1 /\ bucket'[s] = b
      /\ UNCHANGED <<alive, trigger, bucket, done, now, late, runs, refused>>
      /\ \A t \in Schedulers \ {s} : UNCHANGED <<pc[t], at[t], found[t], bucket[t]>>
  BY Others DEF Pass, WriteState, GoOn, Step, Goto, Typed, ShapeOK, ThreadsOK, PlacesOK
<1>2. runs[w][v][b] > 0 BY <1>1 DEF KeptUp
<1>3. \A x \in Workflow : \A m : Owed(x, m)' <=> Owed(x, m)
  BY <1>1 DEF Owed, Passable
<1>4. \A x \in Workflow : \A m : Fired(x, m)' <=> Fired(x, m)
  BY <1>1 DEF Fired
<1>5. ASSUME NEW t \in Schedulers, pc'[t] # "asleep", NEW x \in Workflow,
             x < at'[t].workflow, Owed(x, bucket[t])
      PROVE  Fired(x, bucket[t])
  <2>1. CASE t # s
    BY <1>1, <1>5, <2>1 DEF KeptUp
  <2>2. CASE t = s
    <3>1. x < w \/ x = w BY <1>1, <1>5, <2>2 DEF Workflow
    <3>2. CASE x < w BY <1>1, <1>5, <2>2, <3>2 DEF KeptUp
    <3>3. CASE x = w BY <1>1, <1>2, <2>2, <3>3 DEF Fired
    <3> QED BY <3>1, <3>2, <3>3
  <2> QED BY <2>1, <2>2
<1>6. ASSUME NEW x \in Workflow, NEW y \in Version, NEW i \in DOMAIN states'[x][y]
      PROVE  runs[x][y][states'[x][y][i]] > 0
  <2>1. CASE x = w /\ y = v
    <3>1. states[w][v] \in Seq(Minute) /\ found[s] \in 0..Len(states[w][v])
      BY <1>1 DEF Typed, ShapeOK, FoundOK
    <3>2. states'[x][y] = WithBucket(states[x][y], found[s], b) BY <1>1, <2>1, Written
    <3>3. \/ states'[x][y][i] = b
          \/ i \in DOMAIN states[x][y] /\ states'[x][y][i] = states[x][y][i]
      BY <1>1, <2>1, <3>1, <3>2, WithBucketRows
    <3> QED BY <1>1, <1>2, <2>1, <3>3 DEF KeptUp
  <2>2. CASE ~(x = w /\ y = v)
    <3>1. states'[x][y] = states[x][y] BY <1>1, <2>2, Written
    <3> QED BY <3>1 DEF KeptUp
  <2> QED BY <2>1, <2>2
<1>7. ASSUME NEW t \in Schedulers, pc'[t] \in {"select", "write"}
      PROVE  runs'[at'[t].workflow][at'[t].version][bucket'[t]] > 0
  <2>1. t # s BY <1>1, <1>7
  <2> QED BY <1>1, <1>7, <2>1 DEF KeptUp
<1>8. done' # {} => \A x \in Workflow : Owed(x, now)' => Fired(x, now)'
  BY <1>1 DEF KeptUp, Owed, Passable, Fired
<1>9. ~late' => \A x \in Workflow, m \in Minute : m < now' /\ Owed(x, m)' => Fired(x, m)'
  BY <1>1, <1>3, <1>4 DEF KeptUp
<1>10. \A t \in Schedulers : pc'[t] # "asleep" => \A x \in Workflow :
           x < at'[t].workflow /\ Owed(x, bucket[t])' => Fired(x, bucket[t])'
  BY <1>1, <1>5 DEF Owed, Passable, Fired
<1> QED BY <1>1, <1>6, <1>7, <1>8, <1>9, <1>10 DEF KeptUp

LEMMA TickKept ==
    ASSUME Typed, Typed', KeptUp, Tick
    PROVE  KeptUp'
<1>1. /\ UNCHANGED <<alive, trigger, states, pc, at, found, bucket, runs, refused>>
      /\ now' = now + 1 /\ done' = {} /\ late' = (late \/ ~alive \subseteq done)
  BY DEF Tick, threadVars
<1>2. ASSUME ~late', NEW w \in Workflow, NEW m \in Minute, m < now', Owed(w, m)'
      PROVE  Fired(w, m)'
  <2>1. Owed(w, m) BY <1>1, <1>2 DEF Owed, Passable
  <2>2. ~late /\ done # {} BY <1>1, <1>2 DEF KeptUp
  <2>3. m < now \/ m = now BY <1>1, <1>2, TypedNaturals, Firsts
  <2>4. Fired(w, m) BY <2>1, <2>2, <2>3 DEF KeptUp
  <2> QED BY <1>1, <2>4 DEF Fired
<1>3. \A t \in Schedulers : pc'[t] # "asleep" => \A x \in Workflow :
           x < at'[t].workflow /\ Owed(x, bucket[t])' => Fired(x, bucket[t])'
  BY <1>1 DEF KeptUp, Owed, Passable, Fired
<1> QED BY <1>1, <1>2, <1>3 DEF KeptUp

LEMMA StepKept ==
    ASSUME TableIsRight, Typed, KeptUp, [Next]_vars
    PROVE  KeptUp'
<1>1. Typed' BY StepTyped
<1>2. ASSUME NEW s \in alive, Pass(s) \/ Crash(s) PROVE KeptUp'
  <2> DEFINE w == at[s].workflow
             b == bucket[s]
  <2>1. /\ s \in Schedulers
        /\ UNCHANGED <<alive, trigger, now>>
        /\ w \in 1..(Workflows + 1) /\ b \in Minute /\ trigger \in Triggers
    BY <1>2, Others DEF Typed, ShapeOK, ThreadsOK
  <2>14. w \in Nat BY <2>1, BoundsAssumption
  \* The pass has come by the workflows before, and what they owe stays fired.
  <2>2. ASSUME pc[s] # "asleep", NEW x \in Workflow, x < w, Owed(x, b)
        PROVE  FiredNext(x, b)
    <3>1. Fired(x, b) BY <2>1, <2>2 DEF KeptUp
    <3> QED BY <1>2, <2>1, <3>1, StaysFired
  \* The scheduler goes on, as the workflow owes nothing or is fired.
  <2>3. ASSUME pc[s] # "asleep", w \in Workflow, GoOn(s), Step(s, "visit"), UNCHANGED states,
               Owed(w, b) => FiredNext(w, b)
        PROVE  KeptUp'
    <3>1. /\ pc'[s] = "visit" /\ at'[s].workflow = w + 1 /\ bucket'[s] = b
          /\ UNCHANGED <<done, late>>
      BY <2>1, <2>3 DEF GoOn, Step, Goto, Typed, ThreadsOK
    <3>2. ASSUME NEW x \in Workflow, x < at'[s].workflow, Owed(x, bucket'[s])
          PROVE  FiredNext(x, bucket'[s])
      <4>1. x < w \/ x = w BY <2>14, <3>1, <3>2, Firsts
      <4>2. Owed(x, b) BY <3>1, <3>2
      <4>3. FiredNext(x, b)
        BY <2>2, <2>3, <4>1, <4>2
      <4> QED BY <3>1, <4>3
    <3> QED BY <1>1, <1>2, <2>3, <3>1, <3>2, StepsOn
  \* The scheduler stays with its workflow.
  <2>4. ASSUME pc[s] # "asleep", at'[s].workflow = w,
               UNCHANGED <<bucket, done, states, late>>,
               pc'[s] \in {"select", "write"} => runs'[w][at'[s].version][b] > 0
        PROVE  KeptUp'
    <3>1. ASSUME NEW x \in Workflow, x < at'[s].workflow, Owed(x, bucket'[s])
          PROVE  FiredNext(x, bucket'[s])
      <4>1. x < w /\ Owed(x, b) BY <2>4, <3>1
      <4>2. FiredNext(x, b)
        BY <2>2, <2>4, <4>1
      <4> QED BY <2>4, <4>2
    <3> QED BY <1>1, <1>2, <2>4, <3>1, StepsOn
  <2>5. CASE BeginPass(s)
    <3>1. /\ pc'[s] = "visit" /\ at'[s].workflow = 1 /\ UNCHANGED <<done, states, late>>
      BY <2>1, <2>5 DEF BeginPass, Goto, Start, Typed, ThreadsOK
    <3>2. \A x \in Workflow : ~(x < 1) BY DEF Workflow
    <3> QED BY <1>1, <1>2, <3>1, <3>2, StepsOn
  <2>6. CASE StopPass(s)
    <3>1. /\ pc[s] = "visit" /\ pc'[s] = "asleep" /\ UNCHANGED <<states, late, runs, refused>>
          /\ done' # done => b = now
      BY <2>1, <2>6 DEF StopPass, EndPass, Goto, Typed, ThreadsOK
    <3>2. ASSUME NEW x \in Workflow, Owed(x, b)
          PROVE  FiredNext(x, b)
      <4>1. CASE w \notin Workflow
        <5>1. x < w BY <2>1, <4>1, BoundsAssumption DEF Workflow
        <5> QED BY <2>2, <3>1, <3>2, <5>1
      <4>2. CASE w \in Workflow
        <5>1. b \in trigger[w].raises
          BY <2>1, <2>6, <4>2, TableIsRight DEF StopPass, Expression, Shown, TableIsRight
        <5>2. x # w /\ ~(w < x) BY <3>2, <4>2, <5>1 DEF Owed, Passable
        <5>3. x < w BY <2>14, <5>2, Firsts
        <5> QED BY <2>2, <3>1, <3>2, <5>3
      <4> QED BY <4>1, <4>2
    <3>3. done' # done => \A x \in Workflow : Owed(x, now) => FiredNext(x, now)
      BY <3>1, <3>2
    <3> QED BY <1>1, <1>2, <3>1, <3>3, StepsOn
  <2>7. CASE Visit(s)
    <3>1. pc[s] = "visit" /\ w \in Workflow /\ UNCHANGED <<states, runs>> BY <2>7 DEF Visit
    <3>2. CASE ~CronMatches(Expression(s), Shown(s))
      <4>1. b \notin trigger[w].due
        BY <2>1, <3>1, <3>2, TableIsRight DEF Expression, Shown, TableIsRight
      <4>2. GoOn(s) /\ Step(s, "visit") BY <2>7, <3>2 DEF Visit
      <4>3. ~Owed(w, b) BY <4>1 DEF Owed
      <4> QED BY <2>3, <3>1, <4>2, <4>3
    <3>3. CASE CronMatches(Expression(s), Shown(s))
      <4>1. /\ at'[s].workflow = w /\ pc'[s] = "check" /\ UNCHANGED <<bucket, done, late>>
        BY <2>1, <2>7, <3>3 DEF Visit, Step, Goto, Typed, ThreadsOK
      <4> QED BY <2>4, <3>1, <4>1
    <3> QED BY <3>2, <3>3
  <2>8. CASE CheckState(s)
    <3>1. /\ pc[s] = "check" /\ w \in Workflow /\ at[s].version \in Version
          /\ UNCHANGED <<states, runs>>
      BY <2>1, <2>8 DEF CheckState, Typed, ThreadsOK, PlacesOK
    <3>2. CASE /\ GoOn(s) /\ Step(s, "visit")
               /\ \E i \in DOMAIN Rows(s) : Rows(s)[i] = b
      <4>1. runs'[w][at[s].version][b] > 0 BY <3>1, <3>2 DEF Rows, KeptUp
      <4> QED BY <2>3, <3>1, <3>2, <4>1 DEF FiredNext
    <3>3. CASE Step(s, "queue") /\ UNCHANGED at
      <4>1. pc'[s] = "queue" /\ UNCHANGED <<bucket, done, late>>
        BY <2>1, <3>3 DEF Step, Goto, Typed, ThreadsOK
      <4> QED BY <2>4, <3>1, <3>3, <4>1
    <3> QED BY <2>8, <3>2, <3>3 DEF CheckState
  <2>9. CASE QueueRun(s)
    <3>1. /\ pc[s] = "queue" /\ UNCHANGED <<states, at, bucket, done, late>>
      BY <2>9 DEF QueueRun, Step
    <3>2. runs'[w][at[s].version][b] > 0 BY <2>9, Queued
    <3> QED BY <2>4, <3>1, <3>2
  <2>10. CASE RefuseRun(s)
    <3>1. /\ pc[s] = "queue" /\ w \in Workflow /\ GoOn(s) /\ Step(s, "visit")
          /\ UNCHANGED states /\ <<w, b>> \in refused'
      BY <2>1, <2>10 DEF RefuseRun, Typed, PlacesOK
    <3> QED BY <2>3, <3>1 DEF FiredNext
  <2>11. CASE SelectState(s)
    <3>1. /\ pc[s] = "select" /\ UNCHANGED <<states, at, bucket, done, late, runs>>
      BY <2>11 DEF SelectState, Step
    <3>2. runs'[w][at'[s].version][b] > 0 BY <2>1, <3>1 DEF KeptUp
    <3> QED BY <2>4, <3>1, <3>2
  <2>12. CASE WriteState(s) BY <1>1, <2>12, WriteKept
  <2>13. CASE Crash(s)
    <3>1. pc'[s] = "asleep" /\ UNCHANGED <<done, states, late>>
      BY <2>1, <2>13 DEF Crash, Goto, Typed, ThreadsOK
    <3> QED BY <1>1, <1>2, <3>1, StepsOn
  <2> QED BY <1>2, <2>5, <2>6, <2>7, <2>8, <2>9, <2>10, <2>11, <2>12, <2>13 DEF Pass
<1>3. CASE Tick BY <1>1, <1>3, TickKept
<1>4. ASSUME UNCHANGED <<alive, trigger, now, states, pc, at, bucket, done, runs, refused, late>>
      PROVE  KeptUp'
  BY <1>4 DEF KeptUp, Owed, Passable, Fired
<1>5. ASSUME NEW w \in Workflow, PublishNext(w) PROVE KeptUp'
  BY <1>4, <1>5 DEF PublishNext, threadVars
<1>6. CASE UNCHANGED vars BY <1>4, <1>6 DEF vars, threadVars
<1> QED BY <1>2, <1>3, <1>5, <1>6 DEF Next

\* Whatever crashes, is refused or is published, a trigger is fired in every
\* minute that its cron expression names, as long as every scheduler ends a
\* pass in every minute, and but for the minutes in which the expression of a
\* workflow before it raises an error: with the same proviso.
THEOREM NothingIsMissed == TableIsRight /\ Spec => []NoMinuteIsMissed
<1> DEFINE Inv == TableIsRight /\ Typed /\ KeptUp
<1>1. TableIsRight /\ Init => Inv BY InitTyped, InitKept
<1>2. Inv /\ [Next]_vars => Inv' BY StepTyped, StepKept DEF TableIsRight
<1>3. Inv => NoMinuteIsMissed
  <2> SUFFICES ASSUME Inv, ~late, NEW w \in Workflow, NEW m \in trigger[w].due, m < now,
                      \A u \in 1..w : m \notin trigger[u].raises
               PROVE  <<w, m>> \in refused \/ \E v \in Version : runs[w][v][m] > 0
    BY DEF NoMinuteIsMissed
  <2>1. m \in Minute
    BY TriggersAssumption DEF Typed, ShapeOK, Workflow, Minute
  <2>2. \A u \in Workflow : u <= w => u \in 1..w BY DEF Workflow
  <2>3. w \in 1..w /\ \A u \in Workflow : u < w => u \in 1..w BY <2>2 DEF Workflow
  <2>4. Owed(w, m) BY <2>3 DEF Owed, Passable
  <2> QED BY <2>1, <2>4 DEF KeptUp, Fired
<1> QED BY <1>1, <1>2, <1>3, PTL DEF Spec
=============================================================================
