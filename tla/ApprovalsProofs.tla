-------------------------- MODULE ApprovalsProofs --------------------------
(***************************************************************************)
(* Theorems about Approvals, for any number of workers, operators, gates   *)
(* and tasks.                                                              *)
(*                                                                         *)
(* In any use, the claim and the mark enclose the look-up of a task and    *)
(* its creation, so that one worker at a time is there; and what a state   *)
(* shows as decided was submitted, whoever read, kept or overwrote it.     *)
(*                                                                         *)
(* Unless an operator rushes, those at work on the run follow one another  *)
(* and see the same state, and the tasks are those of the gates passed, in *)
(* their order, with the decisions these were passed with (Calm).          *)
(***************************************************************************)
EXTENDS Approvals, FiniteSetTheorems, SequenceTheorems, TLAPS

(***************************************************************************)
(* Any use: one worker at a time is between its claim and the mark, and no *)
(* decision is made up.                                                    *)
(***************************************************************************)
Active(w) == pc[w] \in {"start", "gate", "create", "mark"}

OneActive ==
    /\ \A w \in Workers : Active(w) => status = "running"
    /\ \A v, w \in Workers : Active(v) /\ Active(w) => v = w

\* A worker that creates a task has found none.
Undecideds ==
    /\ \A w \in Workers : pc[w] \in {"create", "mark", "save"} =>
           local[w].at <= Gates /\ DecisionAt(local[w]) = "pending"
    /\ \A w \in Workers : pc[w] = "create" => PendingFor(local[w].at) = {}

OneEach == \A g \in Gate : \A i, j \in PendingFor(g) : i = j

Human(state) ==
    state # None => \A g \in Gate : state.seen[g] # "pending" => state.seen[g] \in submitted[g]

StatesAreHuman ==
    /\ Human(saved)
    /\ \A w \in Workers : Human(local[w])
    /\ \A o \in Operators : operation[o] # None =>
           /\ Human(operation[o].state)
           /\ operation[o].task \in DOMAIN tasks
           /\ operation[o].stage # "open" =>
                  operation[o].decision \in submitted[tasks[operation[o].task].gate]

(***************************************************************************)
(* As long as no operator rushes: one actor at a time, and everybody sees  *)
(* the same state.                                                         *)
(***************************************************************************)
Current == IF saved = None THEN Fresh ELSE saved

Reached == IF status = "succeeded" THEN Gates + 1 ELSE Current.at

Deciding(o) == operation[o] # None

OneActor ==
    /\ \A v, w \in Workers : pc[v] # "idle" /\ pc[w] # "idle" => v = w
    /\ \A w \in Workers, o \in Operators : Deciding(o) => pc[w] = "idle"
    /\ \A o, p \in Operators : Deciding(o) /\ Deciding(p) => o = p
    /\ \A o \in Operators : Deciding(o) => status \in {"waiting_human", "cancelled"} /\ saved # None
    /\ \A w \in Workers : pc[w] = "save" => status \in {"waiting_human", "cancelled"}
    /\ status = "waiting_human" => saved # None

OneState ==
    /\ \A w \in Workers : pc[w] # "idle" => local[w] = Current
    /\ \A w \in Workers : pc[w] \notin {"idle", "start"} => saved # None
    /\ \A o \in Operators : Deciding(o) /\ operation[o].stage = "write" => operation[o].state = saved

\* The gates before the one that is reached are passed, each with its task.
PassedInOrder ==
    /\ \A g \in Gate : executed[g] = IF g < Reached THEN 1 ELSE 0
    /\ \A i, j \in DOMAIN tasks : tasks[i].gate = tasks[j].gate => i = j
    /\ \A i \in DOMAIN tasks : tasks[i].gate <= Reached
    /\ \A g \in Gate : g < Reached =>
           used[g] # "pending" /\ \E i \in DOMAIN tasks : tasks[i] = [gate |-> g, decision |-> used[g]]

\* An operator decides the task of the gate that is reached; the state shows
\* its decision when it is written there.
Delivered(i) ==
    \A o \in Operators : Deciding(o) /\ operation[o].stage \in {"read", "write"} => operation[o].task # i

DecisionsDelivered ==
    status # "succeeded" =>
    /\ \A g \in Gate : g > Reached => Current.seen[g] = "pending"
    /\ \A i \in DOMAIN tasks : tasks[i].gate = Reached /\ Delivered(i) =>
           tasks[i].decision = Current.seen[Reached]
    /\ Reached <= Gates /\ Current.seen[Reached] # "pending" =>
           \E i \in DOMAIN tasks : tasks[i].gate = Reached /\ Delivered(i)
    /\ \A o \in Operators : Deciding(o) =>
           LET op == operation[o]
           IN  /\ tasks[op.task].gate = Reached
               /\ op.stage # "resume" => Current.seen[Reached] = "pending"
               /\ op.stage # "open" => tasks[op.task].decision = op.decision

Calm == OneActor /\ OneState /\ PassedInOrder /\ DecisionsDelivered

\* The two invariants.
AnyUse == /\ TypeOK
          /\ OneActive /\ Undecideds /\ OneEach
          /\ StatesAreHuman
          /\ DecisionsAreHuman

UnlessRushed == ~rushed => Calm

-----------------------------------------------------------------------------
(* Types                                                                   *)

LEMMA Values ==
    /\ Fresh \in State /\ Fresh # None /\ Undecided \in [Gate -> Decisions \union {"pending"}]
    /\ 1 \in 1..(Gates + 1) /\ Gates + 1 \in 1..(Gates + 1)
    /\ \A st \in State : /\ st # None /\ st.at \in 1..(Gates + 1)
                         /\ st.seen \in [Gate -> Decisions \union {"pending"}]
                         /\ (st.at <= Gates <=> st.at \in Gate)
<1>1. Gates \in Nat \ {0} BY GatesAssumption
<1>2. Undecided \in [Gate -> Decisions \union {"pending"}] BY DEF Undecided
<1>3. Fresh \in State BY <1>1, <1>2 DEF Fresh, State
<1>4. \A st \in State : /\ st.at \in 1..(Gates + 1)
                        /\ st.seen \in [Gate -> Decisions \union {"pending"}]
                        /\ (st.at <= Gates <=> st.at \in Gate)
  BY <1>1 DEF State, Gate
<1> QED BY <1>1, <1>2, <1>3, <1>4, NoneAssumption

\* The worker w goes to a place with a state, the others stay.
Moves(w, place, state) ==
    /\ pc' = [pc EXCEPT ![w] = place]
    /\ local' = [local EXCEPT ![w] = state]

\* The state after the gate it has reached.
Behind(state) == [state EXCEPT !.at = @ + 1]

LEMMA PassGateChanges ==
    ASSUME TypeOK, NEW w \in Workers, PassGate(w)
    PROVE  /\ pc[w] = "gate" /\ local[w] \in State /\ local[w].at \in Gate
           /\ DecisionAt(local[w]) \in Decisions
           /\ Behind(local[w]) \in State
           /\ Behind(local[w]).at = local[w].at + 1 /\ Behind(local[w]).seen = local[w].seen
           /\ Moves(w, "gate", Behind(local[w])) /\ saved' = Behind(local[w])
           /\ used' = [used EXCEPT ![local[w].at] = DecisionAt(local[w])]
           /\ executed' = [executed EXCEPT ![local[w].at] = IF @ < 2 THEN @ + 1 ELSE @]
           /\ UNCHANGED <<status, tasks, operation, submitted, rushed>>
<1>1. pc[w] = "gate" /\ local[w] \in State BY DEF TypeOK, PassGate
<1>2. PICK st \in State : st = local[w] BY <1>1
<1>3. st.at \in Gate BY <1>2, Values DEF PassGate
<1>4. st.seen \in [Gate -> Decisions \union {"pending"}] BY Values
<1>5. DecisionAt(st) \in Decisions BY <1>2, <1>3, <1>4 DEF PassGate, DecisionAt
<1>6. Behind(st) \in State /\ Behind(st).at = st.at + 1 /\ Behind(st).seen = st.seen
  BY <1>3, GatesAssumption DEF Behind, State, Gate
<1>7. local' = [local EXCEPT ![w] = Behind(st)]
  BY <1>2 DEF PassGate, Behind
<1>8. local'[w] = Behind(st) BY <1>7 DEF TypeOK
<1>9. pc' = [pc EXCEPT ![w] = "gate"] BY <1>1 DEF PassGate, TypeOK
<1>10. saved' = Behind(st) BY <1>8 DEF PassGate
<1>11. /\ used' = [used EXCEPT ![st.at] = DecisionAt(st)]
       /\ executed' = [executed EXCEPT ![st.at] = IF @ < 2 THEN @ + 1 ELSE @]
       /\ UNCHANGED <<status, tasks, operation, submitted, rushed>>
  BY <1>2 DEF PassGate
<1> QED BY <1>1, <1>2, <1>3, <1>5, <1>6, <1>7, <1>9, <1>10, <1>11 DEF Moves

\* The operator o decides d and becomes next.
Submits(o, d, next) ==
    /\ next.stage = "read" /\ next.decision = d
    /\ next.task = operation[o].task /\ next.state = operation[o].state
    /\ operation' = [operation EXCEPT ![o] = next]
    /\ tasks' \in Seq(Task) /\ Len(tasks') = Len(tasks) /\ DOMAIN tasks' = DOMAIN tasks
    /\ \A i \in DOMAIN tasks :
          /\ tasks'[i].gate = tasks[i].gate
          /\ tasks'[i].decision = IF i = operation[o].task THEN d ELSE tasks[i].decision
    /\ submitted' = [submitted EXCEPT ![tasks[operation[o].task].gate] = @ \union {d}]

LEMMA SubmitChanges ==
    ASSUME TypeOK, NEW o \in Operators, operation[o] # None => operation[o].task \in DOMAIN tasks,
           SubmitDecision(o)
    PROVE  /\ operation[o] \in Operation /\ operation[o].stage = "open"
           /\ operation[o].task \in DOMAIN tasks
           /\ \E d \in Decisions, next \in Operation : Submits(o, d, next)
           /\ UNCHANGED <<status, saved, pc, local, used, executed, rushed>>
<1>1. operation[o] \in Operation /\ operation[o].stage = "open" BY DEF SubmitDecision, At, TypeOK
<1>2. PICK op \in Operation : op = operation[o] BY <1>1
<1>3. op.task \in DOMAIN tasks BY <1>2, NoneAssumption
<1>4. PICK d \in Decisions :
         /\ tasks' = [tasks EXCEPT ![op.task].decision = d]
         /\ submitted' = [submitted EXCEPT ![tasks[op.task].gate] = @ \union {d}]
         /\ operation' = [operation EXCEPT ![o].stage = "read", ![o].decision = d]
  BY <1>2 DEF SubmitDecision
<1>5. PICK next : next = [op EXCEPT !.stage = "read", !.decision = d] OBVIOUS
<1>6. /\ next \in Operation /\ next.stage = "read" /\ next.decision = d
      /\ next.task = op.task /\ next.state = op.state
  BY <1>5 DEF Operation
<1>7. operation' = [operation EXCEPT ![o] = next] BY <1>2, <1>4, <1>5 DEF TypeOK
<1>8. PICK task : task = tasks[op.task] OBVIOUS
<1>9. task \in Task BY <1>3, <1>8 DEF TypeOK
<1>10. PICK done : done = [task EXCEPT !.decision = d] OBVIOUS
<1>11. done \in Task /\ done.gate = task.gate /\ done.decision = d BY <1>9, <1>10 DEF Task
<1>12. tasks' = [tasks EXCEPT ![op.task] = done] BY <1>4, <1>8, <1>10
<1>13. /\ tasks' \in Seq(Task) /\ Len(tasks') = Len(tasks) /\ DOMAIN tasks' = DOMAIN tasks
  <2>1. tasks \in Seq(Task) BY DEF TypeOK
  <2> QED BY <1>3, <1>11, <1>12, <2>1
<1>14. \A i \in DOMAIN tasks : tasks'[i] = IF i = op.task THEN done ELSE tasks[i] BY <1>12
<1>15. \A i \in DOMAIN tasks :
          /\ tasks'[i].gate = tasks[i].gate
          /\ tasks'[i].decision = IF i = op.task THEN d ELSE tasks[i].decision
  BY <1>8, <1>11, <1>14
<1>16. UNCHANGED <<status, saved, pc, local, used, executed, rushed>> BY DEF SubmitDecision
<1>17. Submits(o, d, next) BY <1>2, <1>4, <1>6, <1>7, <1>13, <1>15 DEF Submits
<1> QED BY <1>1, <1>2, <1>3, <1>6, <1>16, <1>17

\* The gate of w gets a task, the last one.
LEMMA CreateChanges ==
    ASSUME TypeOK, NEW w \in Workers, CreateTask(w), local[w].at <= Gates
    PROVE  /\ pc[w] = "create" /\ local[w] \in State /\ local[w].at \in Gate
           /\ tasks' \in Seq(Task) /\ Len(tasks') = Len(tasks) + 1 /\ Len(tasks) + 1 <= MaxTasks
           /\ Len(tasks) \in Nat /\ DOMAIN tasks = 1..Len(tasks)
           /\ DOMAIN tasks' = DOMAIN tasks \union {Len(tasks) + 1}
           /\ \A i \in DOMAIN tasks : tasks'[i] = tasks[i]
           /\ tasks'[Len(tasks) + 1] = [gate |-> local[w].at, decision |-> "pending"]
           /\ Moves(w, "mark", local[w])
           /\ UNCHANGED <<status, saved, operation, submitted, used, executed, rushed>>
<1>1. pc[w] = "create" /\ local[w] \in State BY DEF TypeOK, CreateTask
<1>2. local[w].at \in Gate BY <1>1, Values
<1>3. PICK task : task = [gate |-> local[w].at, decision |-> "pending"] OBVIOUS
<1>4. task \in Task BY <1>2, <1>3 DEF Task
<1>5. tasks' = Append(tasks, task) /\ Len(tasks) < MaxTasks BY <1>3 DEF CreateTask
<1>6. tasks \in Seq(Task) BY DEF TypeOK
<1>7. /\ tasks' \in Seq(Task) /\ Len(tasks') = Len(tasks) + 1
      /\ Len(tasks) \in Nat /\ DOMAIN tasks = 1..Len(tasks)
      /\ \A i \in DOMAIN tasks : tasks'[i] = tasks[i]
      /\ tasks'[Len(tasks) + 1] = task
  BY ONLY <1>4, <1>5, <1>6
<1>8. DOMAIN tasks' = 1..(Len(tasks) + 1) BY <1>7
<1>9. DOMAIN tasks' = DOMAIN tasks \union {Len(tasks) + 1} BY <1>7, <1>8
<1>10. Len(tasks) + 1 <= MaxTasks BY <1>5, <1>7, GatesAssumption
<1>11. Moves(w, "mark", local[w]) BY DEF CreateTask, Moves, Goto, TypeOK
<1>12. UNCHANGED <<status, saved, operation, submitted, used, executed, rushed>>
  BY DEF CreateTask, history
<1> QED BY <1>1, <1>2, <1>3, <1>7, <1>9, <1>10, <1>11, <1>12

\* The operator o opens the task i and becomes next.
Opens(o, i, next) ==
    /\ tasks[i].decision = "pending"
    /\ next.stage = "open" /\ next.task = i /\ next.state = None
    /\ operation' = [operation EXCEPT ![o] = next]

LEMMA OpenChanges ==
    ASSUME TypeOK, NEW o \in Operators, OpenTask(o)
    PROVE  /\ operation[o] = None /\ NoteTheRush
           /\ \E i \in DOMAIN tasks, next \in Operation : Opens(o, i, next)
           /\ UNCHANGED <<status, saved, tasks, pc, local, submitted, used, executed>>
<1>1. PICK i \in DOMAIN tasks :
         /\ tasks[i].decision = "pending"
         /\ operation' = [operation EXCEPT ![o] =
                [stage |-> "open", task |-> i, decision |-> "pending",
                 state |-> None, waiting |-> FALSE]]
  BY DEF OpenTask
<1>2. PICK next : next = [stage |-> "open", task |-> i, decision |-> "pending",
                          state |-> None, waiting |-> FALSE]
  OBVIOUS
<1>3. i \in 1..MaxTasks
  <2>1. Len(tasks) \in Nat /\ DOMAIN tasks = 1..Len(tasks) /\ Len(tasks) <= MaxTasks BY DEF TypeOK
  <2> QED BY <2>1, GatesAssumption
<1>4. next \in Operation BY <1>2, <1>3 DEF Operation
<1>5. Opens(o, i, next) BY <1>1, <1>2 DEF Opens
<1> QED BY <1>4, <1>5 DEF OpenTask, runVars

\* The operator o has read the run and becomes next.
Reads(o, next) ==
    /\ next.stage = "write" /\ next.state = saved
    /\ next.task = operation[o].task /\ next.decision = operation[o].decision
    /\ (next.waiting <=> status = "waiting_human")
    /\ operation' = [operation EXCEPT ![o] = next]

LEMMA ReadChanges ==
    ASSUME TypeOK, NEW o \in Operators, ReadRun(o)
    PROVE  /\ operation[o] \in Operation /\ operation[o].stage = "read"
           /\ \E next \in Operation : Reads(o, next)
           /\ UNCHANGED <<status, saved, tasks, pc, local, submitted, used, executed, rushed>>
<1>1. operation[o] \in Operation /\ operation[o].stage = "read" BY DEF ReadRun, At, TypeOK
<1>2. PICK op \in Operation : op = operation[o] BY <1>1
<1>3. PICK next : next = [op EXCEPT !.stage = "write", !.state = saved,
                                    !.waiting = (status = "waiting_human")]
  OBVIOUS
<1>4. operation' = [operation EXCEPT ![o] = next] BY <1>2, <1>3 DEF ReadRun, TypeOK
<1>5. (status = "waiting_human") \in BOOLEAN /\ saved \in State \union {None} BY DEF TypeOK
<1>6. next \in Operation BY <1>3, <1>5 DEF Operation
<1>7. /\ next.stage = "write" /\ next.state = saved /\ next.task = op.task
      /\ next.decision = op.decision /\ next.waiting = (status = "waiting_human")
  BY <1>3 DEF Operation
<1>8. Reads(o, next) BY <1>2, <1>4, <1>7 DEF Reads
<1> QED BY <1>1, <1>6, <1>8 DEF ReadRun, runVars, history

\* What the operator o, which becomes next, writes.
Writes(o, g, next) ==
    /\ g = tasks[operation[o].task].gate
    /\ saved' = Merge(operation[o].state, g, operation[o].decision)
    /\ operation' = [operation EXCEPT ![o] = next]
    /\ next # None =>
          /\ next \in Operation /\ next.stage = "resume" /\ next.state = operation[o].state
          /\ next.task = operation[o].task /\ next.decision = operation[o].decision

LEMMA Merged ==
    ASSUME NEW state \in State \union {None}, NEW g \in Gate,
           NEW d \in Decisions \union {"pending"}
    PROVE  /\ Merge(state, g, d) \in State
           /\ state # None => Merge(state, g, d).at = state.at
           /\ Merge(state, g, d).seen[g] = d
           /\ \A h \in Gate \ {g} : Merge(state, g, d).seen[h] =
                 IF state = None THEN "pending" ELSE state.seen[h]
<1>1. CASE state = None
  <2>1. [Undecided EXCEPT ![g] = d] \in [Gate -> Decisions \union {"pending"}] BY DEF Undecided
  <2>2. Merge(state, g, d) = [at |-> Gates + 1, seen |-> [Undecided EXCEPT ![g] = d]]
    BY <1>1 DEF Merge
  <2> QED BY <1>1, <2>1, <2>2, Values DEF State, Undecided
<1>2. CASE state # None
  <2>1. state \in State /\ Merge(state, g, d) = [state EXCEPT !.seen[g] = d] BY <1>2 DEF Merge
  <2>2. PICK seen : seen = [state.seen EXCEPT ![g] = d] OBVIOUS
  <2>3. state.seen \in [Gate -> Decisions \union {"pending"}] BY <2>1, Values
  <2>4. /\ seen \in [Gate -> Decisions \union {"pending"}]
        /\ seen[g] = d /\ \A h \in Gate \ {g} : seen[h] = state.seen[h]
    BY <2>2, <2>3
  <2>5. Merge(state, g, d) = [state EXCEPT !.seen = seen] BY <2>1, <2>2
  <2>6. /\ Merge(state, g, d) \in State /\ Merge(state, g, d).at = state.at
        /\ Merge(state, g, d).seen = seen
    BY <2>1, <2>4, <2>5 DEF State
  <2> QED BY <1>2, <2>4, <2>6
<1> QED BY <1>1, <1>2

LEMMA WriteChanges ==
    ASSUME TypeOK, NEW o \in Operators, operation[o] # None => operation[o].task \in DOMAIN tasks,
           WriteState(o)
    PROVE  /\ operation[o] \in Operation /\ operation[o].stage = "write"
           /\ operation[o].task \in DOMAIN tasks
           /\ \E g \in Gate, next \in Operation \union {None} : Writes(o, g, next)
           /\ saved' \in State
           /\ UNCHANGED <<status, tasks, pc, local, submitted, used, executed, rushed>>
<1>1. operation[o] \in Operation /\ operation[o].stage = "write" BY DEF WriteState, At, TypeOK
<1>2. PICK op \in Operation : op = operation[o] BY <1>1
<1>3. op.task \in DOMAIN tasks BY <1>2, NoneAssumption
<1>4. tasks[op.task] \in Task BY <1>3 DEF TypeOK
<1>5. PICK g \in Gate : g = tasks[op.task].gate BY <1>4 DEF Task
<1>6. op.state \in State \union {None} /\ op.decision \in Decisions \union {"pending"}
  BY DEF Operation
<1>7. saved' = Merge(op.state, g, op.decision) BY <1>2, <1>5 DEF WriteState
<1>8. saved' \in State BY <1>5, <1>6, <1>7, Merged
<1>9. PICK next : next = IF op.waiting THEN [op EXCEPT !.stage = "resume"] ELSE None OBVIOUS
<1>10. operation' = [operation EXCEPT ![o] = next] BY <1>2, <1>9 DEF WriteState
<1>11. /\ next \in Operation \union {None}
       /\ next # None => /\ next \in Operation /\ next.stage = "resume" /\ next.state = op.state
                         /\ next.task = op.task /\ next.decision = op.decision
  BY <1>9 DEF Operation
<1>12. Writes(o, g, next) BY <1>2, <1>5, <1>7, <1>10, <1>11 DEF Writes
<1> QED BY <1>1, <1>2, <1>3, <1>8, <1>11, <1>12 DEF WriteState, history

LEMMA TypeStep ==
    ASSUME TypeOK, Undecideds, StatesAreHuman, [Next]_vars
    PROVE  TypeOK'
<1>1. ASSUME NEW w \in Workers, Claim(w) PROVE TypeOK'
  BY <1>1, Values DEF TypeOK, Claim, Goto, history
<1>2. ASSUME NEW w \in Workers, Start(w) PROVE TypeOK'
  BY <1>2, Values DEF TypeOK, Start, Goto, history
<1>3. ASSUME NEW w \in Workers, PassGate(w) PROVE TypeOK'
  BY <1>3, Values, PassGateChanges DEF TypeOK, Moves
<1>4. ASSUME NEW w \in Workers, Finish(w) PROVE TypeOK'
  BY <1>4, Values DEF TypeOK, Finish, Goto, history
<1>5. ASSUME NEW w \in Workers, LookUpTask(w) PROVE TypeOK'
  BY <1>5, Values DEF TypeOK, LookUpTask, Goto, runVars, history
<1>6. ASSUME NEW w \in Workers, CreateTask(w) PROVE TypeOK'
  <2>1. local[w].at <= Gates BY <1>6 DEF CreateTask, Undecideds
  <2> QED BY <1>6, <2>1, CreateChanges DEF TypeOK, Moves
<1>7. ASSUME NEW w \in Workers, MarkWaiting(w) PROVE TypeOK'
  BY <1>7, Values DEF TypeOK, MarkWaiting, Goto, history
<1>8. ASSUME NEW w \in Workers, SaveWaiting(w) PROVE TypeOK'
  BY <1>8, Values DEF TypeOK, SaveWaiting, Goto, history
<1>9. ASSUME NEW o \in Operators, OpenTask(o) PROVE TypeOK'
  BY <1>9, OpenChanges DEF TypeOK, Opens, NoteTheRush
<1>10. ASSUME NEW o \in Operators, SubmitDecision(o) PROVE TypeOK'
  <2>1. operation[o] # None => operation[o].task \in DOMAIN tasks BY DEF StatesAreHuman
  <2>2. PICK d \in Decisions, next \in Operation : Submits(o, d, next)
    BY <1>10, <2>1, SubmitChanges
  <2>3. UNCHANGED <<status, saved, pc, local, used, executed, rushed>> BY <1>10 DEF SubmitDecision
  <2>4. tasks' \in Seq(Task) /\ Len(tasks') <= MaxTasks BY <2>2 DEF Submits, TypeOK
  <2>5. operation' \in [Operators -> Operation \union {None}] BY <2>2 DEF Submits, TypeOK
  <2>6. submitted' \in [Gate -> SUBSET Decisions]
    <3>1. PICK g : g = tasks[operation[o].task].gate OBVIOUS
    <3>2. submitted' = [submitted EXCEPT ![g] = @ \union {d}] BY <2>2, <3>1 DEF Submits
    <3> QED BY <3>2 DEF TypeOK
  <2> QED BY <2>3, <2>4, <2>5, <2>6 DEF TypeOK
<1>11. ASSUME NEW o \in Operators, ReadRun(o) PROVE TypeOK'
  BY <1>11, ReadChanges DEF TypeOK, Reads
<1>12. ASSUME NEW o \in Operators, WriteState(o) PROVE TypeOK'
  BY <1>12, WriteChanges DEF TypeOK, Writes, StatesAreHuman
<1>13. ASSUME NEW o \in Operators, ResumeDecided(o) PROVE TypeOK'
  BY <1>13 DEF TypeOK, ResumeDecided, Requeue, At, history
<1>14. CASE ResumeRun BY <1>14 DEF TypeOK, ResumeRun, NoteTheRush
<1>15. CASE CancelRun BY <1>15 DEF TypeOK, CancelRun, history
<1>16. CASE UNCHANGED vars BY <1>16 DEF TypeOK, vars, runVars, history
<1> QED BY <1>1, <1>2, <1>3, <1>4, <1>5, <1>6, <1>7, <1>8, <1>9, <1>10, <1>11, <1>12, <1>13,
           <1>14, <1>15, <1>16 DEF Next, WorkerStep, Decide

-----------------------------------------------------------------------------
(* One worker at a time                                                    *)

LEMMA OneActiveStep ==
    ASSUME TypeOK, OneActive, [Next]_vars
    PROVE  OneActive'
<1>1. ASSUME NEW w \in Workers, Claim(w) PROVE OneActive'
  BY <1>1 DEF TypeOK, OneActive, Active, Claim, Goto
<1>2. ASSUME NEW w \in Workers, Start(w) PROVE OneActive'
  BY <1>2 DEF TypeOK, OneActive, Active, Start, Goto
<1>3. ASSUME NEW w \in Workers, PassGate(w) PROVE OneActive'
  BY <1>3 DEF TypeOK, OneActive, Active, PassGate
<1>4. ASSUME NEW w \in Workers, Finish(w) PROVE OneActive'
  BY <1>4 DEF TypeOK, OneActive, Active, Finish, Goto
<1>5. ASSUME NEW w \in Workers, LookUpTask(w) PROVE OneActive'
  BY <1>5 DEF TypeOK, OneActive, Active, LookUpTask, Goto, runVars
<1>6. ASSUME NEW w \in Workers, CreateTask(w) PROVE OneActive'
  BY <1>6 DEF TypeOK, OneActive, Active, CreateTask, Goto
<1>7. ASSUME NEW w \in Workers, MarkWaiting(w) PROVE OneActive'
  BY <1>7 DEF TypeOK, OneActive, Active, MarkWaiting, Goto
<1>8. ASSUME NEW w \in Workers, SaveWaiting(w) PROVE OneActive'
  BY <1>8 DEF TypeOK, OneActive, Active, SaveWaiting, Goto
<1>9. CASE pc' = pc /\ status' = status BY <1>9 DEF OneActive, Active
<1>10. ASSUME NEW o \in Operators, ResumeDecided(o) PROVE OneActive'
  BY <1>10 DEF OneActive, Active, ResumeDecided, Requeue
<1>11. CASE ResumeRun \/ CancelRun BY <1>11 DEF OneActive, Active, ResumeRun, CancelRun
<1>12. ASSUME NEW o \in Operators,
              OpenTask(o) \/ SubmitDecision(o) \/ ReadRun(o) \/ WriteState(o)
       PROVE  pc' = pc /\ status' = status
  BY <1>12 DEF OpenTask, SubmitDecision, ReadRun, WriteState, runVars
<1>13. CASE UNCHANGED vars BY <1>9, <1>13 DEF vars, runVars
<1> QED BY <1>1, <1>2, <1>3, <1>4, <1>5, <1>6, <1>7, <1>8, <1>9, <1>10, <1>11, <1>12, <1>13
        DEF Next, WorkerStep, Decide

\* What the steps of others leave to a worker that creates a task.
LEMMA UndecidedStays ==
    ASSUME Undecideds, pc' = pc, local' = local,
           \A g \in Gate : PendingFor(g)' \subseteq PendingFor(g),
           \A w \in Workers : pc[w] = "create" => local[w].at \in Gate
    PROVE  Undecideds'
<1>1. \A w \in Workers : pc'[w] \in {"create", "mark", "save"} =>
          local'[w].at <= Gates /\ DecisionAt(local'[w]) = "pending"
  BY DEF Undecideds
<1>2. \A w \in Workers : pc'[w] = "create" => PendingFor(local[w].at)' = {}
  <2> SUFFICES ASSUME NEW w \in Workers, pc'[w] = "create" PROVE PendingFor(local[w].at)' = {}
    OBVIOUS
  <2>1. PICK g \in Gate : g = local[w].at OBVIOUS
  <2>2. PendingFor(g) = {} BY <2>1 DEF Undecideds
  <2>3. PendingFor(g)' = {} BY <2>2
  <2>4. local'[w].at = g BY <2>1
  <2> QED BY <2>3, <2>4 DEF PendingFor
<1> QED BY <1>1, <1>2 DEF Undecideds, PendingFor, DecisionAt

\* The workers' steps that leave the tasks alone, as moves.
LEMMA WorkersMove ==
    ASSUME TypeOK, NEW w \in Workers
    PROVE  /\ Claim(w) => Moves(w, "start", Current)
           /\ Start(w) => Moves(w, "gate", local[w])
           /\ PassGate(w) => Moves(w, "gate", Behind(local[w]))
           /\ Finish(w) => Moves(w, "idle", None)
           /\ LookUpTask(w) => \/ Moves(w, "create", local[w]) /\ PendingFor(local[w].at) = {}
                               \/ Moves(w, "mark", local[w]) /\ PendingFor(local[w].at) # {}
           /\ MarkWaiting(w) => Moves(w, "save", local[w])
           /\ SaveWaiting(w) => Moves(w, "idle", None)
<1>1. Claim(w) => Moves(w, "start", Current) BY DEF Claim, Moves, Current, Goto
<1>2. Start(w) => Moves(w, "gate", local[w]) BY DEF Start, Moves, Goto, TypeOK
<1>3. PassGate(w) => Moves(w, "gate", Behind(local[w])) BY PassGateChanges
<1>4. Finish(w) => Moves(w, "idle", None) BY DEF Finish, Moves, Goto
<1>5. LookUpTask(w) => \/ Moves(w, "create", local[w]) /\ PendingFor(local[w].at) = {}
                       \/ Moves(w, "mark", local[w]) /\ PendingFor(local[w].at) # {}
  BY DEF LookUpTask, Moves, Goto, TypeOK, runVars
<1>6. MarkWaiting(w) => Moves(w, "save", local[w]) BY DEF MarkWaiting, Moves, Goto, TypeOK
<1>7. SaveWaiting(w) => Moves(w, "idle", None) BY DEF SaveWaiting, Moves, Goto
<1> QED BY <1>1, <1>2, <1>3, <1>4, <1>5, <1>6, <1>7

LEMMA MoveKeepsUndecided ==
    ASSUME TypeOK, Undecideds, tasks' = tasks,
           NEW w \in Workers, NEW place, NEW state, Moves(w, place, state),
           place \in {"create", "mark", "save"} =>
               state.at <= Gates /\ DecisionAt(state) = "pending",
           place = "create" => PendingFor(state.at) = {}
    PROVE  Undecideds'
<1>1. \A v \in Workers \ {w} : pc'[v] = pc[v] /\ local'[v] = local[v] BY DEF Moves, TypeOK
<1>2. pc'[w] = place /\ local'[w] = state BY DEF Moves, TypeOK
<1>3. \A v \in Workers : pc'[v] \in {"create", "mark", "save"} =>
          local'[v].at <= Gates /\ DecisionAt(local'[v]) = "pending"
  BY <1>1, <1>2 DEF Undecideds
<1>4. \A v \in Workers : pc'[v] = "create" => PendingFor(local'[v].at) = {}
  BY <1>1, <1>2 DEF Undecideds
<1> QED BY <1>3, <1>4 DEF Undecideds, PendingFor, DecisionAt

\* A decision leaves no more tasks pending than there were.
LEMMA SubmitsPending ==
    ASSUME TypeOK, NEW o \in Operators, NEW d \in Decisions, NEW next, Submits(o, d, next)
    PROVE  \A g \in Gate : PendingFor(g)' \subseteq PendingFor(g)
<1> SUFFICES ASSUME NEW g \in Gate, NEW i \in DOMAIN tasks',
                    tasks'[i] = [gate |-> g, decision |-> "pending"]
             PROVE  tasks[i] = [gate |-> g, decision |-> "pending"] /\ i \in DOMAIN tasks
  BY DEF PendingFor
<1>1. i \in DOMAIN tasks BY DEF Submits
<1>2. tasks'[i].gate = g /\ tasks'[i].decision = "pending" OBVIOUS
<1>3. /\ tasks'[i].gate = tasks[i].gate
      /\ tasks'[i].decision = IF i = operation[o].task THEN d ELSE tasks[i].decision
  BY <1>1 DEF Submits
<1>4. tasks[i].gate = g /\ tasks[i].decision = "pending"
  <2>1. d # "pending" BY DEF Decisions
  <2> QED BY <1>2, <1>3, <2>1
<1>5. tasks[i] \in Task BY <1>1 DEF TypeOK
<1> QED BY <1>1, <1>4, <1>5 DEF Task

LEMMA UndecidedsStep ==
    ASSUME TypeOK, OneActive, Undecideds, StatesAreHuman, [Next]_vars
    PROVE  Undecideds'
<1>1. \A w \in Workers : pc[w] = "create" => local[w].at \in Gate
  BY Values DEF TypeOK, Undecideds
<1>2. CASE tasks' = tasks /\ pc' = pc /\ local' = local
  <2>1. \A g \in Gate : PendingFor(g)' = PendingFor(g) BY <1>2 DEF PendingFor
  <2> QED BY <1>1, <1>2, <2>1, UndecidedStays
<1>3. ASSUME NEW w \in Workers, Claim(w) \/ Start(w) \/ PassGate(w) \/ Finish(w) \/ SaveWaiting(w)
      PROVE  Undecideds'
  <2>1. tasks' = tasks BY <1>3 DEF Claim, Start, PassGate, Finish, SaveWaiting
  <2>2. PICK place, state : Moves(w, place, state) /\ place \in {"start", "gate", "idle"}
    BY <1>3, WorkersMove
  <2> QED BY <2>1, <2>2, MoveKeepsUndecided
<1>4. ASSUME NEW w \in Workers, LookUpTask(w) PROVE Undecideds'
  BY <1>4, WorkersMove, MoveKeepsUndecided DEF LookUpTask, runVars
<1>5. ASSUME NEW w \in Workers, MarkWaiting(w) PROVE Undecideds'
  <2>1. tasks' = tasks /\ pc[w] = "mark" BY <1>5 DEF MarkWaiting
  <2>2. local[w].at <= Gates /\ DecisionAt(local[w]) = "pending" BY <2>1 DEF Undecideds
  <2> QED BY <1>5, <2>1, <2>2, WorkersMove, MoveKeepsUndecided
<1>6. ASSUME NEW w \in Workers, CreateTask(w) PROVE Undecideds'
  <2>1. local[w].at <= Gates /\ DecisionAt(local[w]) = "pending" /\ pc[w] = "create"
    BY <1>6 DEF CreateTask, Undecideds
  <2>2. Moves(w, "mark", local[w]) BY <1>6, <2>1, CreateChanges
  <2>3. \A v \in Workers : pc'[v] # "create"
    BY <2>1, <2>2 DEF Moves, TypeOK, OneActive, Active
  <2>4. \A v \in Workers : pc'[v] \in {"mark", "save"} =>
            local'[v].at <= Gates /\ DecisionAt(local'[v]) = "pending"
    BY <2>1, <2>2 DEF Moves, TypeOK, Undecideds
  <2> QED BY <2>3, <2>4 DEF Undecideds, DecisionAt
<1>7. ASSUME NEW o \in Operators, SubmitDecision(o) PROVE Undecideds'
  <2>1. operation[o] # None => operation[o].task \in DOMAIN tasks BY DEF StatesAreHuman
  <2>2. PICK d \in Decisions, next \in Operation : Submits(o, d, next)
    BY <1>7, <2>1, SubmitChanges
  <2>3. \A g \in Gate : PendingFor(g)' \subseteq PendingFor(g)
    BY <2>2, SubmitsPending
  <2>4. pc' = pc /\ local' = local BY <1>7 DEF SubmitDecision
  <2> QED BY <1>1, <2>3, <2>4, UndecidedStays
<1>8. ASSUME NEW o \in Operators, OpenTask(o) \/ ReadRun(o) \/ WriteState(o) \/ ResumeDecided(o)
      PROVE  tasks' = tasks /\ pc' = pc /\ local' = local
  BY <1>8 DEF OpenTask, ReadRun, WriteState, ResumeDecided, runVars
<1>9. CASE ResumeRun \/ CancelRun \/ UNCHANGED vars
  BY <1>2, <1>9 DEF ResumeRun, CancelRun, vars, runVars
<1> QED BY <1>2, <1>3, <1>4, <1>5, <1>6, <1>7, <1>8, <1>9 DEF Next, WorkerStep, Decide

-----------------------------------------------------------------------------
(* One pending task                                                        *)

LEMMA OneEachStep ==
    ASSUME TypeOK, Undecideds, OneEach, StatesAreHuman, [Next]_vars
    PROVE  OneEach'
<1>1. CASE \A g \in Gate : PendingFor(g)' \subseteq PendingFor(g) BY <1>1 DEF OneEach
<1>2. CASE tasks' = tasks
  <2>1. \A g \in Gate : PendingFor(g)' = PendingFor(g) BY <1>2 DEF PendingFor
  <2> QED BY <1>1, <2>1
<1>3. ASSUME NEW w \in Workers, CreateTask(w) PROVE OneEach'
  <2>1. local[w].at <= Gates /\ pc[w] = "create" BY <1>3 DEF CreateTask, Undecideds
  <2>2. PICK g \in Gate : g = local[w].at BY <1>3, <2>1, CreateChanges
  <2>3. PendingFor(g) = {} BY <2>1, <2>2 DEF Undecideds
  <2>4. PICK new : new = Len(tasks) + 1 OBVIOUS
  <2>5. /\ DOMAIN tasks' = DOMAIN tasks \union {new}
        /\ \A i \in DOMAIN tasks : tasks'[i] = tasks[i]
        /\ tasks'[new] = [gate |-> g, decision |-> "pending"]
    BY <1>3, <2>1, <2>2, <2>4, CreateChanges
  <2>6. PendingFor(g)' = {new} \/ PendingFor(g)' = {}
    <3>1. \A i \in DOMAIN tasks : tasks[i] # [gate |-> g, decision |-> "pending"]
      BY <2>3 DEF PendingFor
    <3> QED BY <2>5, <3>1 DEF PendingFor
  <2>7. \A h \in Gate \ {g} : PendingFor(h)' \subseteq PendingFor(h)
    <3>1. \A h \in Gate \ {g} : tasks'[new] # [gate |-> h, decision |-> "pending"] BY <2>5
    <3> QED BY <2>5, <3>1 DEF PendingFor
  <2>8. \A h \in Gate : \A i, j \in PendingFor(h)' : i = j BY <2>6, <2>7 DEF OneEach
  <2> QED BY <2>8 DEF OneEach
<1>4. ASSUME NEW o \in Operators, SubmitDecision(o) PROVE OneEach'
  <2>1. operation[o] # None => operation[o].task \in DOMAIN tasks BY DEF StatesAreHuman
  <2> QED BY <1>1, <1>4, <2>1, SubmitChanges, SubmitsPending
<1>5. ASSUME NEW w \in Workers, Claim(w) \/ Start(w) \/ PassGate(w) \/ Finish(w) \/ LookUpTask(w)
                                \/ MarkWaiting(w) \/ SaveWaiting(w)
      PROVE  tasks' = tasks
  BY <1>5 DEF Claim, Start, PassGate, Finish, LookUpTask, MarkWaiting, SaveWaiting, runVars
<1>6. ASSUME NEW o \in Operators, OpenTask(o) \/ ReadRun(o) \/ WriteState(o) \/ ResumeDecided(o)
      PROVE  tasks' = tasks
  BY <1>6 DEF OpenTask, ReadRun, WriteState, ResumeDecided, runVars
<1>7. CASE ResumeRun \/ CancelRun \/ UNCHANGED vars
  BY <1>2, <1>7 DEF ResumeRun, CancelRun, vars, runVars
<1> QED BY <1>2, <1>3, <1>4, <1>5, <1>6, <1>7 DEF Next, WorkerStep, Decide

-----------------------------------------------------------------------------
(* Nothing is decided but by humans                                        *)

Grows == \A g \in Gate : submitted[g] \subseteq submitted'[g]

\* What is said of a state that stays the same.
LEMMA HumanStays == ASSUME Grows, NEW CONSTANT st, Human(st) PROVE Human(st)'
BY DEF Grows, Human

LEMMA AllHumanStay ==
    ASSUME TypeOK, StatesAreHuman, Grows
    PROVE  /\ \A st : st = saved => Human(st)'
           /\ \A w \in Workers : \A st : st = local[w] => Human(st)'
           /\ \A o \in Operators : \A st :
                 operation[o] # None /\ st = operation[o].state => Human(st)'
<1>1. ASSUME NEW st, st = saved PROVE Human(st)'
  <2>1. Human(st) BY <1>1 DEF StatesAreHuman
  <2> QED BY <2>1, HumanStays
<1>2. ASSUME NEW w \in Workers, NEW st, st = local[w] PROVE Human(st)'
  <2>1. Human(st) BY <1>2 DEF StatesAreHuman
  <2> QED BY <2>1, HumanStays
<1>3. ASSUME NEW o \in Operators, NEW st, operation[o] # None, st = operation[o].state
      PROVE  Human(st)'
  <2>1. Human(st) BY <1>3 DEF StatesAreHuman
  <2> QED BY <2>1, HumanStays
<1> QED BY <1>1, <1>2, <1>3

\* The three parts of StatesAreHuman.
OperationIsHuman(op) ==
    /\ Human(op.state)
    /\ op.task \in DOMAIN tasks
    /\ op.stage # "open" => op.decision \in submitted[tasks[op.task].gate]

LEMMA OperationsStay ==
    ASSUME TypeOK, StatesAreHuman, Grows, DOMAIN tasks \subseteq DOMAIN tasks',
           \A i \in DOMAIN tasks : tasks'[i].gate = tasks[i].gate,
           NEW o \in Operators, NEW CONSTANT op, op = operation[o], op # None
    PROVE  OperationIsHuman(op)'
<1>1. OperationIsHuman(op) BY DEF StatesAreHuman, OperationIsHuman
<1>2. Human(op.state)' BY AllHumanStay
<1>3. op.task \in DOMAIN tasks' BY <1>1 DEF OperationIsHuman
<1>4. op.stage # "open" => op.decision \in submitted'[tasks'[op.task].gate]
  <2>1. tasks[op.task] \in Task BY <1>1 DEF OperationIsHuman, TypeOK
  <2>2. tasks[op.task].gate \in Gate /\ tasks'[op.task].gate = tasks[op.task].gate
    BY <1>1, <2>1 DEF OperationIsHuman, Task
  <2> QED BY <1>1, <2>2 DEF OperationIsHuman, Grows
<1> QED BY <1>2, <1>3, <1>4 DEF OperationIsHuman

LEMMA HumanParts ==
    ASSUME \A st : st = saved' => Human(st)',
           \A w \in Workers : \A st : st = local'[w] => Human(st)',
           \A o \in Operators : \A op : op = operation'[o] /\ op # None => OperationIsHuman(op)'
    PROVE  StatesAreHuman'
<1>1. Human(saved)'
  <2>1. PICK st : st = saved' OBVIOUS
  <2>2. Human(st)' BY <2>1
  <2> QED BY <2>1, <2>2 DEF Human
<1>2. ASSUME NEW w \in Workers PROVE Human(local[w])'
  <2>1. PICK st : st = local'[w] OBVIOUS
  <2>2. Human(st)' BY <2>1
  <2> QED BY <2>1, <2>2 DEF Human
<1>3. ASSUME NEW o \in Operators, operation'[o] # None PROVE OperationIsHuman(operation[o])'
  <2>1. PICK op : op = operation'[o] OBVIOUS
  <2>2. OperationIsHuman(op)' BY <1>3, <2>1
  <2> QED BY <2>1, <2>2 DEF OperationIsHuman, Human
<1> QED BY <1>1, <1>2, <1>3 DEF StatesAreHuman, OperationIsHuman

LEMMA MoveKeepsHuman ==
    ASSUME TypeOK, StatesAreHuman, UNCHANGED <<operation, submitted>>,
           DOMAIN tasks \subseteq DOMAIN tasks',
           \A i \in DOMAIN tasks : tasks'[i].gate = tasks[i].gate,
           NEW w \in Workers, NEW CONSTANT place, NEW CONSTANT state, NEW CONSTANT kept,
           Moves(w, place, state), Human(state), saved' = kept, Human(kept)
    PROVE  StatesAreHuman'
<1>1. Grows BY DEF Grows
<1>2. \A st : st = saved' => Human(st)' BY <1>1, HumanStays
<1>3. ASSUME NEW v \in Workers, NEW st, st = local'[v] PROVE Human(st)'
  <2>1. CASE v = w
    <3>1. st = state BY <1>3, <2>1 DEF Moves, TypeOK
    <3> QED BY <1>1, <3>1, HumanStays
  <2>2. CASE v # w
    <3>1. st = local[v] BY <1>3, <2>2 DEF Moves, TypeOK
    <3> QED BY <1>1, <3>1, AllHumanStay
  <2> QED BY <2>1, <2>2
<1>4. ASSUME NEW o \in Operators, NEW op, op = operation'[o], op # None
      PROVE  OperationIsHuman(op)'
  <2>1. op = operation[o] BY <1>4
  <2> QED BY <1>1, <1>4, <2>1, OperationsStay
<1> QED BY <1>2, <1>3, <1>4, HumanParts

LEMMA WorkersAreHuman ==
    ASSUME TypeOK, StatesAreHuman, NEW w \in Workers
    PROVE  /\ Human(Current) /\ Human(saved) /\ Human(None) /\ Human(local[w])
           /\ local[w] \in State => Human(Behind(local[w]))
<1>1. Human(None) /\ Human(Fresh) BY DEF Human, Fresh, Undecided
<1>2. Human(saved) /\ Human(local[w]) BY DEF StatesAreHuman
<1>3. Human(Current) BY <1>1, <1>2 DEF Current
<1>4. local[w] \in State => Human(Behind(local[w]))
  <2> SUFFICES ASSUME NEW st \in State, st = local[w] PROVE Human(Behind(st)) OBVIOUS
  <2>1. st # None /\ Behind(st).seen = st.seen BY Values DEF Behind, State
  <2>2. Human(st) BY <1>2
  <2> QED BY <2>1, <2>2 DEF Human
<1> QED BY <1>1, <1>2, <1>3, <1>4

LEMMA HumanStepOfWorker ==
    ASSUME TypeOK, Undecideds, StatesAreHuman, NEW w \in Workers, WorkerStep(w)
    PROVE  StatesAreHuman'
<1>1. CASE Claim(w)
  <2>1. PICK state, kept : state = Current /\ kept = saved OBVIOUS
  <2>2. Moves(w, "start", state) /\ Human(state) /\ Human(kept)
    BY <1>1, <2>1, WorkersMove, WorkersAreHuman
  <2> QED BY <1>1, <2>1, <2>2, MoveKeepsHuman DEF Claim, history
<1>2. CASE Start(w)
  <2>1. PICK state : state = local[w] OBVIOUS
  <2>2. Moves(w, "gate", state) /\ Human(state) BY <1>2, <2>1, WorkersMove, WorkersAreHuman
  <2> QED BY <1>2, <2>1, <2>2, MoveKeepsHuman DEF Start, history
<1>3. CASE PassGate(w)
  <2>1. PICK state : state = Behind(local[w]) OBVIOUS
  <2>2. /\ Moves(w, "gate", state) /\ Human(state) /\ saved' = state
        /\ UNCHANGED <<tasks, operation, submitted>>
    BY <1>3, <2>1, PassGateChanges, WorkersAreHuman
  <2> QED BY <2>2, MoveKeepsHuman
<1>4. CASE Finish(w)
  <2>1. Moves(w, "idle", None) /\ Human(None) BY <1>4, WorkersMove, WorkersAreHuman
  <2> QED BY <1>4, <2>1, MoveKeepsHuman DEF Finish, history
<1>5. CASE LookUpTask(w)
  <2>1. PICK state, kept : state = local[w] /\ kept = saved OBVIOUS
  <2>2. Human(state) /\ Human(kept) BY <2>1, WorkersAreHuman
  <2>3. Moves(w, "create", state) \/ Moves(w, "mark", state) BY <1>5, <2>1, WorkersMove
  <2>4. UNCHANGED <<saved, tasks, operation, submitted>> BY <1>5 DEF LookUpTask, runVars, history
  <2> QED BY <2>1, <2>2, <2>3, <2>4, MoveKeepsHuman
<1>6. CASE CreateTask(w)
  <2>1. PICK state, kept : state = local[w] /\ kept = saved OBVIOUS
  <2>2. Human(state) /\ Human(kept) BY <2>1, WorkersAreHuman
  <2>3. local[w].at <= Gates BY <1>6 DEF CreateTask, Undecideds
  <2>4. /\ Moves(w, "mark", state) /\ UNCHANGED <<saved, operation, submitted>>
        /\ DOMAIN tasks \subseteq DOMAIN tasks'
        /\ \A i \in DOMAIN tasks : tasks'[i].gate = tasks[i].gate
    BY <1>6, <2>1, <2>3, CreateChanges
  <2> QED BY <2>1, <2>2, <2>4, MoveKeepsHuman
<1>7. CASE MarkWaiting(w)
  <2>1. PICK state, kept : state = local[w] /\ kept = saved OBVIOUS
  <2>2. Moves(w, "save", state) /\ Human(state) /\ Human(kept)
    BY <1>7, <2>1, WorkersMove, WorkersAreHuman
  <2> QED BY <1>7, <2>1, <2>2, MoveKeepsHuman DEF MarkWaiting, history
<1>8. CASE SaveWaiting(w)
  <2>1. PICK kept : kept = local[w] OBVIOUS
  <2>2. Moves(w, "idle", None) /\ Human(None) /\ Human(kept)
    BY <1>8, <2>1, WorkersMove, WorkersAreHuman
  <2> QED BY <1>8, <2>1, <2>2, MoveKeepsHuman DEF SaveWaiting, history
<1> QED BY <1>1, <1>2, <1>3, <1>4, <1>5, <1>6, <1>7, <1>8 DEF WorkerStep

\* An operator becomes next, and the state of the run is what is kept.
LEMMA OperatorKeepsHuman ==
    ASSUME TypeOK, StatesAreHuman, Grows, local' = local, DOMAIN tasks' = DOMAIN tasks,
           \A i \in DOMAIN tasks : tasks'[i].gate = tasks[i].gate,
           NEW o \in Operators, NEW CONSTANT next, operation' = [operation EXCEPT ![o] = next],
           next # None => OperationIsHuman(next)',
           NEW CONSTANT kept, saved' = kept, Human(kept)
    PROVE  StatesAreHuman'
<1>1. \A st : st = saved' => Human(st)' BY HumanStays
<1>2. \A w \in Workers : \A st : st = local'[w] => Human(st)' BY AllHumanStay
<1>3. ASSUME NEW p \in Operators, NEW op, op = operation'[p], op # None
      PROVE  OperationIsHuman(op)'
  <2>1. CASE p = o
    <3>1. op = next BY <1>3, <2>1 DEF TypeOK
    <3> QED BY <1>3, <3>1
  <2>2. CASE p # o
    <3>1. op = operation[p] BY <1>3, <2>2 DEF TypeOK
    <3> QED BY <1>3, <3>1, OperationsStay
  <2> QED BY <2>1, <2>2
<1> QED BY <1>1, <1>2, <1>3, HumanParts

LEMMA HumanStepOfOperator ==
    ASSUME TypeOK, StatesAreHuman, NEW o \in Operators, OpenTask(o) \/ Decide(o)
    PROVE  StatesAreHuman'
<1>0. operation[o] # None =>
          /\ operation[o].task \in DOMAIN tasks /\ Human(operation[o].state)
          /\ operation[o].stage # "open" =>
                 operation[o].decision \in submitted[tasks[operation[o].task].gate]
  BY DEF StatesAreHuman
<1>1. Human(saved) /\ Human(None) BY DEF StatesAreHuman, Human
<1>2. PICK kept : kept = saved OBVIOUS
<1>3. CASE OpenTask(o)
  <2>1. PICK i \in DOMAIN tasks, next \in Operation : Opens(o, i, next) BY <1>3, OpenChanges
  <2>2. UNCHANGED <<saved, tasks, local, submitted>> BY <1>3, OpenChanges
  <2>3. Grows BY <2>2 DEF Grows
  <2>4. OperationIsHuman(next)' BY <2>1, <2>2 DEF OperationIsHuman, Opens, Human
  <2> QED BY <1>1, <1>2, <2>1, <2>2, <2>3, <2>4, OperatorKeepsHuman DEF Opens
<1>4. CASE SubmitDecision(o)
  <2>1. /\ operation[o] \in Operation /\ operation[o].task \in DOMAIN tasks
        /\ UNCHANGED <<saved, local>>
    BY <1>0, <1>4, SubmitChanges
  <2>2. PICK d \in Decisions, next \in Operation : Submits(o, d, next)
    BY <1>0, <1>4, SubmitChanges
  <2>3. PICK g : g = tasks[operation[o].task].gate OBVIOUS
  <2>4. g \in Gate
    <3>1. tasks[operation[o].task] \in Task BY <2>1 DEF TypeOK
    <3> QED BY <2>3, <3>1 DEF Task
  <2>5. submitted' = [submitted EXCEPT ![g] = @ \union {d}] BY <2>2, <2>3 DEF Submits
  <2>6. Grows /\ d \in submitted'[g] BY <2>4, <2>5 DEF TypeOK, Grows
  <2>7. DOMAIN tasks' = DOMAIN tasks /\ \A i \in DOMAIN tasks : tasks'[i].gate = tasks[i].gate
    BY <2>2 DEF Submits
  <2>8. OperationIsHuman(next)'
    <3>1. PICK st : st = operation[o].state OBVIOUS
    <3>2. Human(st)'
      <4>1. Human(st) BY <1>0, <2>1, <3>1, NoneAssumption
      <4> QED BY <2>6, <4>1, HumanStays
    <3>3. next.state = st /\ next.decision = d /\ next.task = operation[o].task
      BY <2>2, <3>1 DEF Submits
    <3>4. tasks'[next.task].gate = g BY <2>1, <2>3, <2>7, <3>3
    <3>5. Human(next.state)' BY <3>2, <3>3 DEF Human
    <3> QED BY <2>1, <2>6, <2>7, <3>3, <3>4, <3>5 DEF OperationIsHuman
  <2> QED BY <1>1, <1>2, <2>1, <2>2, <2>6, <2>7, <2>8, OperatorKeepsHuman DEF Submits
<1>5. CASE ReadRun(o)
  <2>1. /\ operation[o] \in Operation /\ operation[o].stage = "read"
        /\ UNCHANGED <<saved, tasks, local, submitted>>
    BY <1>5, ReadChanges
  <2>2. PICK next \in Operation : Reads(o, next) BY <1>5, ReadChanges
  <2>3. Grows BY <2>1 DEF Grows
  <2>4. OperationIsHuman(next)'
    <3>1. Human(next.state)' BY <1>1, <2>1, <2>2 DEF Human, Reads
    <3>2. next.task \in DOMAIN tasks /\ next.decision \in submitted[tasks[next.task].gate]
      BY <1>0, <2>1, <2>2, NoneAssumption DEF Reads
    <3> QED BY <2>1, <3>1, <3>2 DEF OperationIsHuman
  <2> QED BY <1>1, <1>2, <2>1, <2>2, <2>3, <2>4, OperatorKeepsHuman DEF Reads
<1>6. CASE WriteState(o)
  <2>1. /\ operation[o] \in Operation /\ operation[o].stage = "write"
        /\ operation[o].task \in DOMAIN tasks
        /\ UNCHANGED <<tasks, local, submitted>>
    BY <1>0, <1>6, WriteChanges
  <2>2. PICK g \in Gate, next \in Operation \union {None} : Writes(o, g, next)
    BY <1>0, <1>6, WriteChanges
  <2>3. Grows BY <2>1 DEF Grows
  <2>4. PICK st, d : st = operation[o].state /\ d = operation[o].decision OBVIOUS
  <2>5. st \in State \union {None} /\ d \in Decisions \union {"pending"}
    BY <2>1, <2>4 DEF Operation
  <2>6. Human(st) /\ d \in submitted[g] BY <1>0, <2>1, <2>2, <2>4, NoneAssumption DEF Writes
  <2>7. PICK merged : merged = Merge(st, g, d) OBVIOUS
  <2>8. Human(merged)
    <3> SUFFICES ASSUME NEW h \in Gate, merged.seen[h] # "pending"
                 PROVE  merged.seen[h] \in submitted[h]
      BY DEF Human
    <3>1. CASE h = g BY <2>5, <2>6, <2>7, <3>1, Merged
    <3>2. CASE h # g
      <4>1. merged.seen[h] = IF st = None THEN "pending" ELSE st.seen[h]
        BY <2>5, <2>7, <3>2, Merged
      <4> QED BY <2>6, <4>1 DEF Human
    <3> QED BY <3>1, <3>2
  <2>9. next # None => OperationIsHuman(next)'
    <3> SUFFICES ASSUME next # None PROVE OperationIsHuman(next)' OBVIOUS
    <3>1. next.state = st /\ next.decision = d /\ next.task = operation[o].task
      BY <2>2, <2>4 DEF Writes
    <3>2. Human(st)' BY <2>3, <2>6, HumanStays
    <3>3. Human(next.state)' BY <3>1, <3>2 DEF Human
    <3> QED BY <2>1, <2>2, <2>6, <3>1, <3>3 DEF OperationIsHuman, Writes
  <2>10. saved' = merged /\ operation' = [operation EXCEPT ![o] = next]
    BY <2>2, <2>4, <2>7 DEF Writes
  <2> QED BY <2>1, <2>3, <2>8, <2>9, <2>10, OperatorKeepsHuman
<1>7. CASE ResumeDecided(o)
  <2>1. /\ operation' = [operation EXCEPT ![o] = None]
        /\ UNCHANGED <<saved, tasks, local, submitted>>
    BY <1>7 DEF ResumeDecided, history
  <2>2. Grows BY <2>1 DEF Grows
  <2> QED BY <1>1, <1>2, <2>1, <2>2, OperatorKeepsHuman
<1> QED BY <1>3, <1>4, <1>5, <1>6, <1>7 DEF Decide

LEMMA StatesAreHumanStep ==
    ASSUME TypeOK, Undecideds, StatesAreHuman, [Next]_vars
    PROVE  StatesAreHuman'
<1>1. CASE UNCHANGED <<saved, tasks, local, operation, submitted>>
  BY <1>1 DEF StatesAreHuman, Human
<1>2. CASE ResumeRun \/ CancelRun \/ UNCHANGED vars
  BY <1>1, <1>2 DEF ResumeRun, CancelRun, vars, runVars, history
<1> QED BY <1>2, HumanStepOfWorker, HumanStepOfOperator DEF Next

LEMMA DecisionsAreHumanStep ==
    ASSUME TypeOK, StatesAreHuman, DecisionsAreHuman, [Next]_vars
    PROVE  DecisionsAreHuman'
<1>1. CASE Grows /\ used' = used /\ executed' = executed BY <1>1 DEF DecisionsAreHuman, Grows
<1>2. ASSUME NEW w \in Workers, PassGate(w) PROVE DecisionsAreHuman'
  <2>1. PICK st : st = local[w] OBVIOUS
  <2>2. st \in State /\ st.at \in Gate /\ DecisionAt(st) \in Decisions
    BY <1>2, <2>1, PassGateChanges
  <2>3. Human(st) BY <2>1 DEF StatesAreHuman
  <2>4. DecisionAt(st) \in submitted[st.at]
    BY <2>2, <2>3, Values DEF Human, DecisionAt, Decisions
  <2>5. /\ used' = [used EXCEPT ![st.at] = DecisionAt(st)] /\ submitted' = submitted
        /\ \A g \in Gate \ {st.at} : executed'[g] = executed[g]
    BY <1>2, <2>1, PassGateChanges DEF TypeOK
  <2>6. \A g \in Gate \ {st.at} : executed'[g] > 0 => used'[g] \in submitted'[g]
    BY <2>5 DEF DecisionsAreHuman, TypeOK
  <2>7. used'[st.at] \in submitted'[st.at] BY <2>2, <2>4, <2>5 DEF TypeOK
  <2> QED BY <2>6, <2>7 DEF DecisionsAreHuman
<1>3. ASSUME NEW o \in Operators, SubmitDecision(o) PROVE DecisionsAreHuman'
  <2>1. operation[o] # None => operation[o].task \in DOMAIN tasks BY DEF StatesAreHuman
  <2>2. PICK d \in Decisions, next \in Operation : Submits(o, d, next)
    BY <1>3, <2>1, SubmitChanges
  <2>3. PICK g : g = tasks[operation[o].task].gate OBVIOUS
  <2>4. submitted' = [submitted EXCEPT ![g] = @ \union {d}] BY <2>2, <2>3 DEF Submits
  <2>5. Grows BY <2>4 DEF Grows, TypeOK
  <2> QED BY <1>1, <1>3, <2>5 DEF SubmitDecision
<1>4. CASE UNCHANGED <<used, executed, submitted>> BY <1>1, <1>4 DEF Grows
<1>5. ASSUME NEW w \in Workers, Claim(w) \/ Start(w) \/ Finish(w) \/ LookUpTask(w)
                                \/ CreateTask(w) \/ MarkWaiting(w) \/ SaveWaiting(w)
      PROVE  UNCHANGED <<used, executed, submitted>>
  BY <1>5 DEF Claim, Start, Finish, LookUpTask, CreateTask, MarkWaiting, SaveWaiting, history
<1>6. ASSUME NEW o \in Operators, OpenTask(o) \/ ReadRun(o) \/ WriteState(o) \/ ResumeDecided(o)
      PROVE  UNCHANGED <<used, executed, submitted>>
  BY <1>6 DEF OpenTask, ReadRun, WriteState, ResumeDecided, history
<1>7. CASE ResumeRun \/ CancelRun \/ UNCHANGED vars
  BY <1>4, <1>7 DEF ResumeRun, CancelRun, vars, history
<1> QED BY <1>2, <1>3, <1>4, <1>5, <1>6, <1>7 DEF Next, WorkerStep, Decide

-----------------------------------------------------------------------------
(* The first theorems                                                      *)

LEMMA AnyUseHolds == Spec => []AnyUse
<1>1. Init => AnyUse
  <2> SUFFICES ASSUME Init PROVE AnyUse OBVIOUS
  <2>1. DOMAIN tasks = {} /\ tasks \in Seq(Task) /\ Len(tasks) = 0 BY EmptySeq DEF Init
  <2>2. TypeOK
    <3>1. Len(tasks) <= MaxTasks BY <2>1, GatesAssumption
    <3>2. /\ used \in [Gate -> Decisions \union {"pending"}]
          /\ executed \in [Gate -> 0..2] /\ submitted \in [Gate -> SUBSET Decisions]
      BY Values DEF Init
    <3> QED BY <2>1, <3>1, <3>2 DEF Init, TypeOK
  <2>3. OneActive /\ Undecideds /\ StatesAreHuman /\ DecisionsAreHuman
    BY DEF Init, OneActive, Active, Undecideds, StatesAreHuman, Human, DecisionsAreHuman
  <2>4. OneEach BY <2>1 DEF OneEach, PendingFor
  <2> QED BY <2>2, <2>3, <2>4 DEF AnyUse
<1>2. AnyUse /\ [Next]_vars => AnyUse'
  BY TypeStep, OneActiveStep, UndecidedsStep, OneEachStep, StatesAreHumanStep,
     DecisionsAreHumanStep DEF AnyUse
<1> QED BY <1>1, <1>2, PTL DEF Spec

\* Every variable keeps its type.
THEOREM TypeCorrect == Spec => []TypeOK
<1>1. AnyUse => TypeOK BY DEF AnyUse
<1> QED BY <1>1, AnyUseHolds, PTL

\* A gate has at most one pending task, although looking for one and creating
\* one are two transactions: no other worker gets the run in between.
THEOREM TasksAreSingle == Spec => []OnePendingTask
<1>1. AnyUse => OnePendingTask
  <2> SUFFICES ASSUME AnyUse, NEW g \in Gate PROVE Cardinality(PendingFor(g)) <= 1
    BY DEF OnePendingTask
  <2>1. \A i, j \in PendingFor(g) : i = j BY DEF AnyUse, OneEach
  <2>2. CASE PendingFor(g) = {} BY <2>2, FS_EmptySet
  <2>3. CASE PendingFor(g) # {}
    <3>1. PICK i \in PendingFor(g) : PendingFor(g) = {i} BY <2>1, <2>3
    <3>2. Cardinality({i}) = 1 BY FS_Singleton
    <3> QED BY <3>1, <3>2
  <2> QED BY <2>2, <2>3
<1> QED BY <1>1, AnyUseHolds, PTL

\* A gate is passed only with a decision that a human submitted for it, also
\* when states are restored that others have overwritten.
THEOREM DecisionsComeFromHumans == Spec => []DecisionsAreHuman
<1>1. AnyUse => DecisionsAreHuman BY DEF AnyUse
<1> QED BY <1>1, AnyUseHolds, PTL

-----------------------------------------------------------------------------
(* Without a rush: the workers                                             *)

LEMMA OrderStays ==
    ASSUME PassedInOrder, Reached' = Reached, UNCHANGED <<executed, used, tasks>>
    PROVE  PassedInOrder'
BY DEF PassedInOrder

LEMMA DeliveryStays ==
    ASSUME DecisionsDelivered, Reached' = Reached, Current' = Current,
           status = "succeeded" => status' = "succeeded", UNCHANGED <<tasks, operation>>
    PROVE  DecisionsDelivered'
<1>1. \A i : Delivered(i)' = Delivered(i) BY DEF Delivered, Deciding
<1>2. \A o : Deciding(o)' = Deciding(o) BY DEF Deciding
<1> QED BY <1>1, <1>2 DEF DecisionsDelivered

LEMMA SameRun ==
    ASSUME saved' = saved, status' = "succeeded" <=> status = "succeeded"
    PROVE  Current' = Current /\ Reached' = Reached
BY DEF Current, Reached

\* Nobody but w is at work on the run.
Alone(w) ==
    /\ \A v \in Workers \ {w} : pc[v] = "idle"
    /\ \A o \in Operators : operation[o] = None

LEMMA WorkersAreAlone ==
    ASSUME AnyUse, Calm, NEW w \in Workers, WorkerStep(w)
    PROVE  Alone(w)
<1>1. CASE pc[w] # "idle" BY <1>1 DEF Calm, OneActor, Alone, Deciding
<1>2. CASE pc[w] = "idle"
  <2>1. status = "queued"
    BY <1>2 DEF WorkerStep, Claim, Start, PassGate, Finish, LookUpTask, CreateTask,
                MarkWaiting, SaveWaiting
  <2>2. \A v \in Workers : ~Active(v) /\ pc[v] # "save"
    BY <2>1 DEF AnyUse, OneActive, Calm, OneActor
  <2>3. \A v \in Workers : pc[v] = "idle" BY <2>2 DEF Active, AnyUse, TypeOK
  <2>4. \A o \in Operators : operation[o] = None BY <2>1 DEF Calm, OneActor, Deciding
  <2> QED BY <2>3, <2>4 DEF Alone
<1> QED BY <1>1, <1>2

\* The only one at work goes to a place with the state of the run.
LEMMA AloneMoves ==
    ASSUME TypeOK, NEW w \in Workers, Alone(w), operation' = operation,
           NEW CONSTANT place, NEW CONSTANT state, Moves(w, place, state),
           place # "idle" => state = Current',
           place \notin {"idle", "start"} => saved' # None,
           place = "save" => status' \in {"waiting_human", "cancelled"},
           status' = "waiting_human" => saved' # None
    PROVE  OneActor' /\ OneState'
<1>1. /\ \A v \in Workers \ {w} : pc'[v] = "idle"
      /\ pc'[w] = place /\ local'[w] = state
  BY DEF Alone, Moves, TypeOK
<1>2. \A o \in Operators : ~Deciding(o)' BY DEF Alone, Deciding
<1>3. OneActor' BY <1>1, <1>2 DEF OneActor
<1>4. OneState' BY <1>1, <1>2 DEF OneState
<1> QED BY <1>3, <1>4

\* What is known when w is at work and nobody else is.
LEMMA AtWork ==
    ASSUME AnyUse, Calm, NEW w \in Workers, Active(w)
    PROVE  /\ status = "running" /\ local[w] = Current /\ Current \in State
           /\ Reached = Current.at
           /\ pc[w] # "start" => saved # None /\ saved = local[w]
           /\ Alone(w) => \A i : Delivered(i)
<1>1. status = "running" BY DEF AnyUse, OneActive
<1>2. local[w] = Current BY DEF Calm, OneState, Active
<1>3. Current \in State BY Values DEF AnyUse, TypeOK, Current
<1>4. pc[w] # "start" => saved # None BY DEF Calm, OneState, Active
<1>5. Alone(w) => \A i : Delivered(i) BY DEF Alone, Delivered, Deciding
<1> QED BY <1>1, <1>2, <1>3, <1>4, <1>5 DEF Reached, Current

LEMMA CalmClaim ==
    ASSUME AnyUse, Calm, NEW w \in Workers, Claim(w)
    PROVE  Calm'
<1>1. Alone(w) BY WorkersAreAlone DEF WorkerStep
<1>2. /\ status = "queued" /\ status' = "running"
      /\ UNCHANGED <<saved, tasks, operation, used, executed>>
  BY DEF Claim, history
<1>3. Current' = Current /\ Reached' = Reached BY <1>2, SameRun
<1>4. PICK state : state = Current OBVIOUS
<1>5. Moves(w, "start", state) BY <1>4, WorkersMove DEF AnyUse
<1>6. OneActor' /\ OneState' BY <1>1, <1>2, <1>3, <1>4, <1>5, AloneMoves DEF AnyUse
<1>7. PassedInOrder' BY <1>2, <1>3, OrderStays DEF Calm
<1>8. DecisionsDelivered' BY <1>2, <1>3, DeliveryStays DEF Calm
<1> QED BY <1>6, <1>7, <1>8 DEF Calm

LEMMA CalmStart ==
    ASSUME AnyUse, Calm, NEW w \in Workers, Start(w)
    PROVE  Calm'
<1>1. Alone(w) BY WorkersAreAlone DEF WorkerStep
<1>2. /\ saved' = local[w] /\ Active(w)
      /\ UNCHANGED <<status, tasks, operation, used, executed>>
  BY DEF Start, history, Active
<1>3. PICK state : state = local[w] OBVIOUS
<1>4. state = Current /\ state \in State /\ status = "running" BY <1>2, <1>3, AtWork
<1>5. saved' # None /\ Current' = Current
  BY <1>2, <1>3, <1>4, Values DEF Current
<1>6. Reached' = Reached BY <1>2, <1>5 DEF Reached
<1>7. Moves(w, "gate", state) BY <1>3, WorkersMove DEF AnyUse
<1>8. OneActor' /\ OneState' BY <1>1, <1>2, <1>4, <1>5, <1>7, AloneMoves DEF AnyUse
<1>9. PassedInOrder' BY <1>2, <1>6, OrderStays DEF Calm
<1>10. DecisionsDelivered' BY <1>2, <1>5, <1>6, DeliveryStays DEF Calm
<1> QED BY <1>8, <1>9, <1>10 DEF Calm

LEMMA CalmPassGate ==
    ASSUME AnyUse, Calm, NEW w \in Workers, PassGate(w)
    PROVE  Calm'
<1>1. Alone(w) BY WorkersAreAlone DEF WorkerStep
<1>2. PICK st, next : st = local[w] /\ next = Behind(local[w]) OBVIOUS
<1>3. /\ pc[w] = "gate" /\ st \in State /\ st.at \in Gate /\ DecisionAt(st) \in Decisions
      /\ next \in State /\ next.at = st.at + 1 /\ next.seen = st.seen
      /\ Moves(w, "gate", next) /\ saved' = next
      /\ used' = [used EXCEPT ![st.at] = DecisionAt(st)]
      /\ executed' = [executed EXCEPT ![st.at] = IF @ < 2 THEN @ + 1 ELSE @]
      /\ UNCHANGED <<status, tasks, operation>>
  BY <1>2, PassGateChanges DEF AnyUse
<1>4. Active(w) BY <1>3 DEF Active
<1>5. /\ status = "running" /\ Current = st /\ Reached = st.at
      /\ \A i : Delivered(i)
  BY <1>1, <1>2, <1>4, AtWork
<1>6. next # None /\ Current' = next /\ Reached' = st.at + 1
  BY <1>3, <1>5, Values DEF Current, Reached
<1>7. OneActor' /\ OneState' BY <1>1, <1>3, <1>5, <1>6, AloneMoves DEF AnyUse
<1>8. PICK g \in Gate : g = st.at BY <1>3
<1>9. g \in Nat /\ Gate \subseteq Nat BY GatesAssumption DEF Gate
<1>10. PICK i \in DOMAIN tasks : tasks[i] = [gate |-> g, decision |-> DecisionAt(st)]
  <2>1. DecisionAt(st) # "pending" BY <1>3 DEF Decisions
  <2>2. Reached <= Gates /\ Current.seen[Reached] # "pending"
    BY <1>5, <1>8, <2>1, GatesAssumption DEF DecisionAt, Gate
  <2>3. PICK i \in DOMAIN tasks : tasks[i].gate = Reached
    BY <1>5, <2>2 DEF Calm, DecisionsDelivered
  <2>4. tasks[i].decision = Current.seen[Reached]
    BY <1>5, <2>3 DEF Calm, DecisionsDelivered
  <2>5. tasks[i] \in Task BY DEF AnyUse, TypeOK
  <2> QED BY <1>5, <1>8, <2>3, <2>4, <2>5 DEF Task, DecisionAt
<1>11. PassedInOrder'
  <2>1. executed \in [Gate -> 0..2] /\ used \in [Gate -> Decisions \union {"pending"}]
    BY DEF AnyUse, TypeOK
  <2>2. \A h \in Gate : executed'[h] = IF h < g + 1 THEN 1 ELSE 0
    <3>1. \A h \in Gate : executed[h] = IF h < g THEN 1 ELSE 0
      BY <1>5, <1>8 DEF Calm, PassedInOrder
    <3>2. executed'[g] = 1 BY <1>3, <1>8, <1>9, <2>1, <3>1
    <3>3. \A h \in Gate \ {g} : executed'[h] = executed[h] BY <1>3, <1>8, <2>1
    <3> QED BY <1>9, <3>1, <3>2, <3>3
  <2>3. \A h \in Gate : h < g + 1 =>
            used'[h] # "pending" /\ \E j \in DOMAIN tasks : tasks[j] = [gate |-> h, decision |-> used'[h]]
    <3> SUFFICES ASSUME NEW h \in Gate, h < g + 1
                 PROVE  /\ used'[h] # "pending"
                        /\ \E j \in DOMAIN tasks : tasks[j] = [gate |-> h, decision |-> used'[h]]
      OBVIOUS
    <3>1. CASE h = g
      <4>1. used'[h] = DecisionAt(st) BY <1>3, <1>8, <2>1, <3>1
      <4> QED BY <1>3, <1>10, <3>1, <4>1 DEF Decisions
    <3>2. CASE h # g
      <4>1. h < g BY <1>9, <3>2
      <4>2. used'[h] = used[h] BY <1>3, <1>8, <2>1, <3>2
      <4> QED BY <1>5, <1>8, <4>1, <4>2 DEF Calm, PassedInOrder
    <3> QED BY <3>1, <3>2
  <2>4. \A j \in DOMAIN tasks : tasks[j].gate <= g + 1
    <3>1. \A j \in DOMAIN tasks : tasks[j] \in Task BY DEF AnyUse, TypeOK
    <3>2. \A j \in DOMAIN tasks : tasks[j].gate \in Nat /\ tasks[j].gate <= g
      BY <1>5, <1>8, <1>9, <3>1 DEF Calm, PassedInOrder, Task
    <3> QED BY <1>9, <3>2
  <2>5. \A j, k \in DOMAIN tasks : tasks[j].gate = tasks[k].gate => j = k
    BY DEF Calm, PassedInOrder
  <2> QED BY <1>3, <1>6, <1>8, <2>2, <2>3, <2>4, <2>5 DEF PassedInOrder
<1>12. DecisionsDelivered'
  <2>1. \A h \in Gate : h > g => next.seen[h] = "pending"
    BY <1>3, <1>5, <1>8 DEF Calm, DecisionsDelivered
  <2>2. \A h \in Gate : h > g + 1 => next.seen[h] = "pending"
    <3>1. \A h \in Gate : h > g + 1 => h > g BY <1>9
    <3> QED BY <2>1, <3>1
  <2>3. \A j \in DOMAIN tasks : tasks[j].gate # g + 1
    <3>1. \A j \in DOMAIN tasks : tasks[j].gate <= g
      BY <1>5, <1>8 DEF Calm, PassedInOrder
    <3> QED BY <1>9, <3>1
  <2>4. g + 1 <= Gates => next.seen[g + 1] = "pending"
    <3>1. g + 1 <= Gates => g + 1 \in Gate /\ g + 1 > g BY <1>9, GatesAssumption DEF Gate
    <3> QED BY <2>1, <3>1
  <2>5. \A o \in Operators : ~Deciding(o)' BY <1>1, <1>3 DEF Alone, Deciding
  <2> QED BY <1>3, <1>6, <1>8, <2>2, <2>3, <2>4, <2>5 DEF DecisionsDelivered
<1> QED BY <1>7, <1>11, <1>12 DEF Calm

LEMMA CalmFinish ==
    ASSUME AnyUse, Calm, NEW w \in Workers, Finish(w)
    PROVE  Calm'
<1>1. Alone(w) BY WorkersAreAlone DEF WorkerStep
<1>2. /\ status' = "succeeded" /\ saved' = None /\ local[w].at > Gates /\ Active(w)
      /\ UNCHANGED <<tasks, operation, used, executed>>
  BY DEF Finish, history, Active
<1>3. Reached = local[w].at /\ local[w] \in State BY <1>2, AtWork
<1>4. Reached = Gates + 1
  <2>1. local[w].at \in 1..(Gates + 1) BY <1>3, Values
  <2> QED BY <1>2, <1>3, <2>1, GatesAssumption
<1>5. Reached' = Reached BY <1>2, <1>4 DEF Reached
<1>6. Moves(w, "idle", None) BY WorkersMove DEF AnyUse
<1>7. OneActor' /\ OneState' BY <1>1, <1>2, <1>6, AloneMoves DEF AnyUse
<1>8. PassedInOrder' BY <1>2, <1>5, OrderStays DEF Calm
<1>9. DecisionsDelivered' BY <1>2 DEF DecisionsDelivered
<1> QED BY <1>7, <1>8, <1>9 DEF Calm

LEMMA CalmLookUp ==
    ASSUME AnyUse, Calm, NEW w \in Workers, LookUpTask(w)
    PROVE  Calm'
<1>1. Alone(w) BY WorkersAreAlone DEF WorkerStep
<1>2. /\ Active(w) /\ pc[w] = "gate"
      /\ UNCHANGED <<saved, status, tasks, operation, used, executed>>
  BY DEF LookUpTask, runVars, history, Active
<1>3. PICK state : state = local[w] OBVIOUS
<1>4. state = Current /\ saved # None /\ status = "running" BY <1>2, <1>3, AtWork
<1>5. Current' = Current /\ Reached' = Reached BY <1>2, SameRun
<1>6. PICK place : Moves(w, place, state) /\ place \in {"create", "mark"}
  BY <1>3, WorkersMove DEF AnyUse
<1>7. OneActor' /\ OneState' BY <1>1, <1>2, <1>4, <1>5, <1>6, AloneMoves DEF AnyUse
<1>8. PassedInOrder' BY <1>2, <1>5, OrderStays DEF Calm
<1>9. DecisionsDelivered' BY <1>2, <1>5, DeliveryStays DEF Calm
<1> QED BY <1>7, <1>8, <1>9 DEF Calm

LEMMA CalmCreate ==
    ASSUME AnyUse, Calm, NEW w \in Workers, CreateTask(w)
    PROVE  Calm'
<1>1. Alone(w) BY WorkersAreAlone DEF WorkerStep
<1>2. Active(w) /\ pc[w] = "create" BY DEF CreateTask, Active
<1>3. PICK state : state = local[w] OBVIOUS
<1>4. /\ state = Current /\ saved # None /\ status = "running" /\ Reached = state.at
      /\ \A i : Delivered(i)
  BY <1>1, <1>2, <1>3, AtWork
<1>5. local[w].at <= Gates /\ state.seen[state.at] = "pending" /\ PendingFor(state.at) = {}
  BY <1>2, <1>3 DEF AnyUse, Undecideds, DecisionAt
<1>6. PICK new : new = Len(tasks) + 1 OBVIOUS
<1>7. /\ state.at \in Gate /\ new \notin DOMAIN tasks
      /\ DOMAIN tasks' = DOMAIN tasks \union {new}
      /\ \A i \in DOMAIN tasks : tasks'[i] = tasks[i]
      /\ tasks'[new] = [gate |-> state.at, decision |-> "pending"]
      /\ Moves(w, "mark", state)
      /\ UNCHANGED <<status, saved, operation, used, executed>>
  <2>1. Len(tasks) \in Nat /\ DOMAIN tasks = 1..Len(tasks) BY <1>5, CreateChanges DEF AnyUse
  <2>2. new \notin DOMAIN tasks BY <1>6, <2>1
  <2>3. Moves(w, "mark", state) BY <1>3, <1>5, CreateChanges DEF AnyUse
  <2>4. UNCHANGED <<status, saved, operation, used, executed>> BY <1>5, CreateChanges DEF AnyUse
  <2>5. /\ state.at \in Gate /\ DOMAIN tasks' = DOMAIN tasks \union {new}
        /\ \A i \in DOMAIN tasks : tasks'[i] = tasks[i]
        /\ tasks'[new] = [gate |-> state.at, decision |-> "pending"]
    BY <1>3, <1>5, <1>6, CreateChanges DEF AnyUse
  <2> QED BY <2>2, <2>3, <2>4, <2>5
<1>8. Current' = Current /\ Reached' = Reached BY <1>7, SameRun
<1>9. OneActor' /\ OneState' BY <1>1, <1>4, <1>7, <1>8, AloneMoves DEF AnyUse
<1>10. \A i \in DOMAIN tasks : tasks[i].gate # state.at
  <2> SUFFICES ASSUME NEW i \in DOMAIN tasks, tasks[i].gate = state.at PROVE FALSE OBVIOUS
  <2>1. tasks[i].decision = Current.seen[Reached] BY <1>4 DEF Calm, DecisionsDelivered
  <2>2. tasks[i].decision = "pending" BY <1>4, <1>5, <2>1
  <2>3. tasks[i] \in Task BY DEF AnyUse, TypeOK
  <2>4. tasks[i] = [gate |-> state.at, decision |-> "pending"] BY <2>2, <2>3 DEF Task
  <2> QED BY <1>5, <2>4 DEF PendingFor
<1>11. PassedInOrder'
  <2>1. \A i, j \in DOMAIN tasks' : tasks'[i].gate = tasks'[j].gate => i = j
    <3>1. \A i, j \in DOMAIN tasks : tasks[i].gate = tasks[j].gate => i = j
      BY DEF Calm, PassedInOrder
    <3> QED BY <1>7, <1>10, <3>1
  <2>2. \A i \in DOMAIN tasks' : tasks'[i].gate <= Reached
    <3>1. state.at <= state.at BY <1>7, GatesAssumption DEF Gate
    <3> QED BY <1>4, <1>7, <3>1 DEF Calm, PassedInOrder
  <2>3. \A g \in Gate : g < Reached =>
            used[g] # "pending" /\ \E i \in DOMAIN tasks' : tasks'[i] = [gate |-> g, decision |-> used[g]]
    BY <1>7 DEF Calm, PassedInOrder
  <2> QED BY <1>7, <1>8, <2>1, <2>2, <2>3 DEF Calm, PassedInOrder
<1>12. DecisionsDelivered'
  <2>1. \A o \in Operators : ~Deciding(o)' BY <1>1, <1>7 DEF Alone, Deciding
  <2>2. \A i \in DOMAIN tasks' : tasks'[i].gate = Reached => tasks'[i].decision = Current.seen[Reached]
    BY <1>4, <1>5, <1>7, <1>10
  <2>3. \A g \in Gate : g > Reached => Current.seen[g] = "pending"
    BY <1>4 DEF Calm, DecisionsDelivered
  <2>4. Current.seen[Reached] = "pending" BY <1>4, <1>5
  <2> QED BY <1>8, <2>1, <2>2, <2>3, <2>4 DEF DecisionsDelivered
<1> QED BY <1>9, <1>11, <1>12 DEF Calm

LEMMA CalmMark ==
    ASSUME AnyUse, Calm, NEW w \in Workers, MarkWaiting(w)
    PROVE  Calm'
<1>1. Alone(w) BY WorkersAreAlone DEF WorkerStep
<1>2. /\ Active(w) /\ pc[w] = "mark" /\ status' = "waiting_human"
      /\ UNCHANGED <<saved, tasks, operation, used, executed>>
  BY DEF MarkWaiting, history, Active
<1>3. PICK state : state = local[w] OBVIOUS
<1>4. state = Current /\ saved # None /\ status = "running" BY <1>2, <1>3, AtWork
<1>5. Current' = Current /\ Reached' = Reached BY <1>2, <1>4, SameRun
<1>6. Moves(w, "save", state) BY <1>3, WorkersMove DEF AnyUse
<1>7. OneActor' /\ OneState' BY <1>1, <1>2, <1>4, <1>5, <1>6, AloneMoves DEF AnyUse
<1>8. PassedInOrder' BY <1>2, <1>5, OrderStays DEF Calm
<1>9. DecisionsDelivered' BY <1>2, <1>4, <1>5, DeliveryStays DEF Calm
<1> QED BY <1>7, <1>8, <1>9 DEF Calm

LEMMA CalmSave ==
    ASSUME AnyUse, Calm, NEW w \in Workers, SaveWaiting(w)
    PROVE  Calm'
<1>1. Alone(w) BY WorkersAreAlone DEF WorkerStep
<1>2. /\ pc[w] = "save" /\ saved' = local[w]
      /\ UNCHANGED <<status, tasks, operation, used, executed>>
  BY DEF SaveWaiting, history
<1>3. saved # None /\ local[w] = saved BY <1>2 DEF Calm, OneState, Current
<1>4. saved' = saved BY <1>2, <1>3
<1>5. Current' = Current /\ Reached' = Reached BY <1>2, <1>4, SameRun
<1>6. Moves(w, "idle", None) BY WorkersMove DEF AnyUse
<1>7. OneActor' /\ OneState' BY <1>1, <1>2, <1>3, <1>4, <1>6, AloneMoves DEF AnyUse
<1>8. PassedInOrder' BY <1>2, <1>5, OrderStays DEF Calm
<1>9. DecisionsDelivered' BY <1>2, <1>5, DeliveryStays DEF Calm
<1> QED BY <1>7, <1>8, <1>9 DEF Calm

-----------------------------------------------------------------------------
(* Without a rush: the operators                                           *)

\* Nobody but o is at work on the run, and it has been left.
OnlyDecides(o) ==
    /\ \A w \in Workers : pc[w] = "idle"
    /\ \A p \in Operators \ {o} : operation[p] = None
    /\ operation[o] # None
    /\ status \in {"waiting_human", "cancelled"} /\ saved # None

LEMMA OperatorsAreAlone ==
    ASSUME Calm, NEW o \in Operators, operation[o] # None
    PROVE  OnlyDecides(o)
BY DEF Calm, OneActor, Deciding, OnlyDecides

\* An operator that is alone becomes next, and nobody else comes.
LEMMA AloneDecides ==
    ASSUME TypeOK, NEW o \in Operators, NEW CONSTANT next,
           \A w \in Workers : pc[w] = "idle", pc' = pc,
           \A p \in Operators \ {o} : operation[p] = None,
           operation' = [operation EXCEPT ![o] = next],
           status' = "waiting_human" \/ next # None => saved' # None,
           next # None => status' \in {"waiting_human", "cancelled"},
           next # None /\ next.stage = "write" => next.state = saved'
    PROVE  OneActor' /\ OneState'
<1>1. \A p \in Operators : Deciding(p)' => p = o /\ next # None /\ operation'[o] = next
  BY DEF Deciding, TypeOK
<1>2. OneActor' BY <1>1 DEF OneActor
<1>3. OneState' BY <1>1 DEF OneState
<1> QED BY <1>2, <1>3

LEMMA CalmOpen ==
    ASSUME AnyUse, Calm, NEW o \in Operators, OpenTask(o), ~rushed'
    PROVE  Calm'
<1>1. PICK i \in DOMAIN tasks, next \in Operation : Opens(o, i, next)
  BY OpenChanges DEF AnyUse
<1>2. UNCHANGED <<status, saved, tasks, pc, used, executed>> BY OpenChanges DEF AnyUse
<1>3. Quiet /\ status = "waiting_human" BY DEF OpenTask, NoteTheRush
<1>4. saved # None /\ next # None BY <1>3, NoneAssumption DEF Calm, OneActor
<1>5. Current' = Current /\ Reached' = Reached BY <1>2, SameRun
<1>6. /\ next.stage = "open" /\ next.task = i /\ tasks[i].decision = "pending"
      /\ operation' = [operation EXCEPT ![o] = next]
  BY <1>1 DEF Opens
<1>7. OneActor' /\ OneState'
  BY <1>2, <1>3, <1>4, <1>6, AloneDecides DEF AnyUse, Quiet
<1>8. PassedInOrder' BY <1>2, <1>5, OrderStays DEF Calm
<1>9. Reached \in Nat /\ tasks[i].gate \in Gate /\ Gate \subseteq Nat
  <2>1. saved \in State BY <1>4 DEF AnyUse, TypeOK
  <2>2. tasks[i] \in Task BY DEF AnyUse, TypeOK
  <2>3. Reached = saved.at BY <1>3, <1>4 DEF Reached, Current
  <2> QED BY <2>1, <2>2, <2>3, Values, GatesAssumption DEF Task, Gate
<1>10. tasks[i].gate = Reached
  <2>1. tasks[i].gate <= Reached BY DEF Calm, PassedInOrder
  <2>2. ~(tasks[i].gate < Reached)
    <3> SUFFICES ASSUME tasks[i].gate < Reached PROVE FALSE OBVIOUS
    <3>1. PICK g \in Gate : g = tasks[i].gate BY <1>9
    <3>2. used[g] # "pending" /\ \E j \in DOMAIN tasks : tasks[j] = [gate |-> g, decision |-> used[g]]
      BY <3>1 DEF Calm, PassedInOrder
    <3>3. PICK j \in DOMAIN tasks : tasks[j] = [gate |-> g, decision |-> used[g]] BY <3>2
    <3>4. tasks[j].gate = tasks[i].gate BY <3>1, <3>3
    <3>5. i = j BY <3>4 DEF Calm, PassedInOrder
    <3> QED BY <1>6, <3>2, <3>3, <3>5
  <2> QED BY <1>9, <2>1, <2>2
<1>11. Current.seen[Reached] = "pending"
  <2>1. Delivered(i) BY <1>3 DEF Delivered, Deciding, Quiet
  <2>2. tasks[i].decision = Current.seen[Reached]
    BY <1>3, <1>10, <2>1 DEF Calm, DecisionsDelivered
  <2> QED BY <1>6, <2>2
<1>12. DecisionsDelivered'
  <2>1. \A p \in Operators : Deciding(p)' => p = o /\ operation'[o] = next
    BY <1>3, <1>6 DEF Quiet, Deciding, AnyUse, TypeOK
  <2>2. \A j : Delivered(j) BY <1>3 DEF Delivered, Deciding, Quiet
  <2>3. \A g \in Gate : g > Reached => Current.seen[g] = "pending"
    BY <1>3 DEF Calm, DecisionsDelivered
  <2>4. \A j \in DOMAIN tasks : tasks[j].gate = Reached =>
            tasks[j].decision = Current.seen[Reached]
    BY <1>3, <2>2 DEF Calm, DecisionsDelivered
  <2>5. \A p \in Operators : Deciding(p)' => tasks[operation'[p].task].gate = Reached /\
            operation'[p].stage = "open"
    BY <1>6, <1>10, <2>1
  <2> QED BY <1>2, <1>5, <1>11, <2>3, <2>4, <2>5 DEF DecisionsDelivered
<1> QED BY <1>7, <1>8, <1>12 DEF Calm

\* What is known of an operator that is deciding.
LEMMA AtTheGate ==
    ASSUME AnyUse, Calm, NEW o \in Operators, operation[o] # None
    PROVE  /\ operation[o] \in Operation /\ operation[o].task \in DOMAIN tasks
           /\ tasks[operation[o].task].gate = Reached
           /\ operation[o].stage # "resume" => Current.seen[Reached] = "pending"
           /\ operation[o].stage # "open" =>
                  tasks[operation[o].task].decision = operation[o].decision
           /\ status # "succeeded" /\ Current = saved /\ saved \in State /\ Reached = saved.at
           /\ Reached \in Gate
           /\ \A p \in Operators : Deciding(p) <=> p = o
           /\ \A j \in DOMAIN tasks : tasks[j].gate = Reached => j = operation[o].task
<1>1. OnlyDecides(o) BY OperatorsAreAlone
<1>2. /\ operation[o] \in Operation /\ operation[o].task \in DOMAIN tasks
  BY DEF AnyUse, TypeOK, StatesAreHuman
<1>3. status # "succeeded" /\ Current = saved /\ saved \in State /\ Reached = saved.at
  BY <1>1 DEF OnlyDecides, Current, Reached, AnyUse, TypeOK
<1>4. /\ tasks[operation[o].task].gate = Reached
      /\ operation[o].stage # "resume" => Current.seen[Reached] = "pending"
      /\ operation[o].stage # "open" =>
             tasks[operation[o].task].decision = operation[o].decision
  BY <1>3 DEF Calm, DecisionsDelivered, Deciding
<1>5. tasks[operation[o].task] \in Task BY <1>2 DEF AnyUse, TypeOK
<1>6. Reached \in Gate BY <1>4, <1>5 DEF Task
<1>7. \A p \in Operators : Deciding(p) <=> p = o BY <1>1 DEF OnlyDecides, Deciding
<1>8. \A j \in DOMAIN tasks : tasks[j].gate = Reached => j = operation[o].task
  BY <1>2, <1>4 DEF Calm, PassedInOrder
<1> QED BY <1>2, <1>3, <1>4, <1>6, <1>7, <1>8

LEMMA CalmSubmit ==
    ASSUME AnyUse, Calm, NEW o \in Operators, SubmitDecision(o)
    PROVE  Calm'
<1>1. operation[o] # None /\ operation[o].stage = "open" BY DEF SubmitDecision, At
<1>2. OnlyDecides(o) BY <1>1, OperatorsAreAlone
<1>3. PICK d \in Decisions, next \in Operation : Submits(o, d, next)
  BY <1>1, AtTheGate, SubmitChanges DEF AnyUse
<1>4. UNCHANGED <<status, saved, pc, local, used, executed>> BY DEF SubmitDecision
<1>5. PICK i : i = operation[o].task OBVIOUS
<1>6. /\ next.stage = "read" /\ next.decision = d /\ next.task = i
      /\ operation' = [operation EXCEPT ![o] = next]
      /\ DOMAIN tasks' = DOMAIN tasks /\ tasks' \in Seq(Task)
      /\ \A j \in DOMAIN tasks : /\ tasks'[j].gate = tasks[j].gate
                                 /\ tasks'[j].decision = IF j = i THEN d ELSE tasks[j].decision
  BY <1>3, <1>5 DEF Submits
<1>7. /\ i \in DOMAIN tasks /\ tasks[i].gate = Reached /\ Reached \in Gate
      /\ Current.seen[Reached] = "pending"
      /\ \A j \in DOMAIN tasks : tasks[j].gate = Reached => j = i
      /\ status # "succeeded"
  BY <1>1, <1>5, AtTheGate
<1>8. Current' = Current /\ Reached' = Reached BY <1>4, SameRun
<1>9. OneActor' /\ OneState'
  BY <1>2, <1>4, <1>6, AloneDecides DEF AnyUse, OnlyDecides
<1>10. PassedInOrder'
  <2>1. \A j, k \in DOMAIN tasks' : tasks'[j].gate = tasks'[k].gate => j = k
    BY <1>6 DEF Calm, PassedInOrder
  <2>2. \A j \in DOMAIN tasks' : tasks'[j].gate <= Reached BY <1>6 DEF Calm, PassedInOrder
  <2>3. ASSUME NEW g \in Gate, g < Reached
        PROVE  /\ used[g] # "pending"
               /\ \E j \in DOMAIN tasks' : tasks'[j] = [gate |-> g, decision |-> used[g]]
    <3>1. used[g] # "pending" /\ \E j \in DOMAIN tasks : tasks[j] = [gate |-> g, decision |-> used[g]]
      BY <2>3 DEF Calm, PassedInOrder
    <3>2. PICK j \in DOMAIN tasks : tasks[j] = [gate |-> g, decision |-> used[g]] BY <3>1
    <3>3. g # Reached BY <1>7, <2>3, GatesAssumption DEF Gate
    <3>4. j # i BY <1>7, <3>2, <3>3
    <3>5. tasks'[j].gate = g /\ tasks'[j].decision = used[g] BY <1>6, <3>2, <3>4
    <3>6. tasks'[j] \in Task BY <1>6
    <3> QED BY <1>6, <3>1, <3>5, <3>6 DEF Task
  <2> QED BY <1>4, <1>8, <2>1, <2>2, <2>3 DEF Calm, PassedInOrder
<1>11. DecisionsDelivered'
  <2>1. \A p \in Operators : Deciding(p)' => p = o /\ operation'[o] = next
    BY <1>2, <1>6 DEF OnlyDecides, Deciding, AnyUse, TypeOK
  <2>2. ~Delivered(i)'
    <3>1. operation'[o] = next /\ next # None BY <1>6, NoneAssumption DEF AnyUse, TypeOK
    <3> QED BY <1>6, <3>1 DEF Delivered, Deciding
  <2>3. \A g \in Gate : g > Reached => Current.seen[g] = "pending"
    BY <1>7 DEF Calm, DecisionsDelivered
  <2>4. \A j \in DOMAIN tasks' : tasks'[j].gate = Reached => ~Delivered(j)'
    BY <1>6, <1>7, <2>2
  <2>5. \A p \in Operators : Deciding(p)' =>
            /\ tasks'[operation'[p].task].gate = Reached
            /\ tasks'[operation'[p].task].decision = operation'[p].decision
    BY <1>6, <1>7, <2>1
  <2> QED BY <1>7, <1>8, <2>3, <2>4, <2>5 DEF DecisionsDelivered
<1> QED BY <1>9, <1>10, <1>11 DEF Calm

LEMMA CalmRead ==
    ASSUME AnyUse, Calm, NEW o \in Operators, ReadRun(o)
    PROVE  Calm'
<1>1. operation[o] # None /\ operation[o].stage = "read" BY DEF ReadRun, At
<1>2. OnlyDecides(o) BY <1>1, OperatorsAreAlone
<1>3. PICK next \in Operation : Reads(o, next) BY ReadChanges DEF AnyUse
<1>4. UNCHANGED <<status, saved, tasks, pc, used, executed>> BY ReadChanges DEF AnyUse
<1>5. PICK i : i = operation[o].task OBVIOUS
<1>6. /\ next.stage = "write" /\ next.state = saved /\ next.task = i
      /\ next.decision = operation[o].decision
      /\ operation' = [operation EXCEPT ![o] = next]
  BY <1>3, <1>5 DEF Reads
<1>7. /\ i \in DOMAIN tasks /\ tasks[i].gate = Reached
      /\ Current.seen[Reached] = "pending" /\ tasks[i].decision = operation[o].decision
      /\ \A j \in DOMAIN tasks : tasks[j].gate = Reached => j = i
      /\ status # "succeeded"
  BY <1>1, <1>5, AtTheGate
<1>8. Current' = Current /\ Reached' = Reached BY <1>4, SameRun
<1>9. OneActor' /\ OneState'
  BY <1>2, <1>4, <1>6, AloneDecides DEF AnyUse, OnlyDecides
<1>10. PassedInOrder' BY <1>4, <1>8, OrderStays DEF Calm
<1>11. DecisionsDelivered'
  <2>1. \A p \in Operators : Deciding(p)' => p = o /\ operation'[o] = next
    BY <1>2, <1>6 DEF OnlyDecides, Deciding, AnyUse, TypeOK
  <2>2. ~Delivered(i)'
    <3>1. operation'[o] = next /\ next # None BY <1>6, NoneAssumption DEF AnyUse, TypeOK
    <3> QED BY <1>6, <3>1 DEF Delivered, Deciding
  <2>3. \A g \in Gate : g > Reached => Current.seen[g] = "pending"
    BY <1>7 DEF Calm, DecisionsDelivered
  <2>4. \A j \in DOMAIN tasks : tasks[j].gate = Reached => ~Delivered(j)'
    BY <1>7, <2>2
  <2>5. \A p \in Operators : Deciding(p)' =>
            /\ tasks[operation'[p].task].gate = Reached
            /\ tasks[operation'[p].task].decision = operation'[p].decision
    BY <1>6, <1>7, <2>1
  <2> QED BY <1>4, <1>7, <1>8, <2>3, <2>4, <2>5 DEF DecisionsDelivered
<1> QED BY <1>9, <1>10, <1>11 DEF Calm

LEMMA CalmWrite ==
    ASSUME AnyUse, Calm, NEW o \in Operators, WriteState(o)
    PROVE  Calm'
<1>1. operation[o] # None /\ operation[o].stage = "write" BY DEF WriteState, At
<1>2. OnlyDecides(o) BY <1>1, OperatorsAreAlone
<1>3. PICK g \in Gate, next \in Operation \union {None} : Writes(o, g, next)
  BY <1>1, AtTheGate, WriteChanges DEF AnyUse
<1>4. /\ saved' \in State /\ UNCHANGED <<status, tasks, pc, used, executed>>
  BY <1>1, AtTheGate, WriteChanges DEF AnyUse
<1>5. PICK i, d, st : i = operation[o].task /\ d = operation[o].decision /\ st = saved OBVIOUS
<1>6. /\ i \in DOMAIN tasks /\ tasks[i].gate = Reached /\ Reached \in Gate
      /\ operation[o] \in Operation
      /\ tasks[i].decision = d
      /\ \A j \in DOMAIN tasks : tasks[j].gate = Reached => j = i
      /\ status # "succeeded" /\ Current = st /\ st \in State /\ Reached = st.at
  BY <1>1, <1>5, AtTheGate
<1>7. g = Reached BY <1>3, <1>5, <1>6 DEF Writes
<1>8. operation[o].state = st /\ d \in Decisions \union {"pending"}
  BY <1>1, <1>5, <1>6 DEF Calm, OneState, Deciding, Operation
<1>9. saved' = Merge(st, g, d) BY <1>3, <1>5, <1>8 DEF Writes
<1>10. PICK merged : merged = saved' OBVIOUS
<1>11. /\ merged \in State /\ merged # None /\ merged.at = st.at /\ merged.seen[g] = d
       /\ \A h \in Gate \ {g} : merged.seen[h] = st.seen[h]
  <2>1. merged = Merge(st, g, d) /\ st # None /\ merged # None
    BY <1>4, <1>6, <1>9, <1>10, NoneAssumption
  <2> QED BY <1>6, <1>8, <2>1, Merged
<1>12. Current' = merged /\ Reached' = Reached
  BY <1>4, <1>6, <1>10, <1>11 DEF Current, Reached
<1>13. /\ operation' = [operation EXCEPT ![o] = next]
       /\ next # None => next.stage = "resume" /\ next.task = i /\ next.decision = d
  BY <1>3, <1>5 DEF Writes
<1>14. OneActor' /\ OneState'
  BY <1>2, <1>4, <1>10, <1>11, <1>13, AloneDecides DEF AnyUse, OnlyDecides
<1>15. PassedInOrder' BY <1>4, <1>12, OrderStays DEF Calm
<1>16. DecisionsDelivered'
  <2>1. \A p \in Operators : Deciding(p)' => p = o /\ operation'[o] = next /\ next # None
    BY <1>2, <1>13 DEF OnlyDecides, Deciding, AnyUse, TypeOK
  <2>2. \A j : Delivered(j)' BY <1>13, <2>1 DEF Delivered
  <2>3. \A h \in Gate : h > Reached => merged.seen[h] = "pending"
    <3>1. \A h \in Gate : h > Reached => Current.seen[h] = "pending"
      BY <1>6 DEF Calm, DecisionsDelivered
    <3>2. \A h \in Gate : h > Reached => h # g BY <1>7, GatesAssumption DEF Gate
    <3> QED BY <1>6, <1>11, <3>1, <3>2
  <2>4. \A j \in DOMAIN tasks : tasks[j].gate = Reached =>
            tasks[j].decision = merged.seen[Reached]
    BY <1>6, <1>7, <1>11
  <2>5. \E j \in DOMAIN tasks : tasks[j].gate = Reached BY <1>6
  <2>6. \A p \in Operators : Deciding(p)' =>
            /\ tasks[operation'[p].task].gate = Reached
            /\ tasks[operation'[p].task].decision = operation'[p].decision
            /\ operation'[p].stage = "resume"
    BY <1>6, <1>13, <2>1
  <2> QED BY <1>4, <1>12, <2>2, <2>3, <2>4, <2>5, <2>6 DEF DecisionsDelivered
<1> QED BY <1>14, <1>15, <1>16 DEF Calm

LEMMA CalmResumeDecided ==
    ASSUME AnyUse, Calm, NEW o \in Operators, ResumeDecided(o)
    PROVE  Calm'
<1>1. operation[o] # None /\ operation[o].stage = "resume" BY DEF ResumeDecided, At
<1>2. OnlyDecides(o) BY <1>1, OperatorsAreAlone
<1>3. /\ operation' = [operation EXCEPT ![o] = None]
      /\ UNCHANGED <<saved, tasks, pc, used, executed>>
      /\ status' \in {"queued", "cancelled"}
  BY <1>2 DEF ResumeDecided, Requeue, history, OnlyDecides
<1>4. status # "succeeded" BY <1>2 DEF OnlyDecides
<1>5. Current' = Current /\ Reached' = Reached BY <1>3, <1>4, SameRun
<1>6. OneActor' /\ OneState'
  BY <1>2, <1>3, AloneDecides DEF AnyUse, OnlyDecides
<1>7. PassedInOrder' BY <1>3, <1>5, OrderStays DEF Calm
<1>8. DecisionsDelivered'
  <2>1. \A p \in Operators : Deciding(p) <=> p = o BY <1>1, AtTheGate
  <2>2. \A j : Delivered(j) BY <1>1, <2>1 DEF Delivered
  <2>3. \A p \in Operators : ~Deciding(p)'
    BY <1>2, <1>3 DEF OnlyDecides, Deciding, AnyUse, TypeOK
  <2>4. \A g \in Gate : g > Reached => Current.seen[g] = "pending"
    BY <1>4 DEF Calm, DecisionsDelivered
  <2>5. /\ \A j \in DOMAIN tasks : tasks[j].gate = Reached =>
               tasks[j].decision = Current.seen[Reached]
        /\ Reached <= Gates /\ Current.seen[Reached] # "pending" =>
               \E j \in DOMAIN tasks : tasks[j].gate = Reached
    BY <1>4, <2>2 DEF Calm, DecisionsDelivered
  <2>6. \A j : Delivered(j)' BY <2>3 DEF Delivered
  <2> QED BY <1>3, <1>5, <2>3, <2>4, <2>5, <2>6 DEF DecisionsDelivered
<1> QED BY <1>6, <1>7, <1>8 DEF Calm

\* The resume and cancel requests.
LEMMA CalmRequests ==
    ASSUME AnyUse, Calm, ResumeRun \/ CancelRun, ~rushed'
    PROVE  Calm'
<1>1. UNCHANGED <<saved, tasks, pc, local, operation, used, executed>>
  BY DEF ResumeRun, CancelRun, history
<1>2. status # "succeeded" /\ status' # "succeeded" /\ status' # "waiting_human"
  BY DEF ResumeRun, CancelRun
<1>3. Current' = Current /\ Reached' = Reached BY <1>1, <1>2, SameRun
<1>4. OneActor'
  <2>1. CASE ResumeRun
    <3>1. Quiet BY <2>1 DEF ResumeRun, NoteTheRush
    <3> QED BY <1>1, <1>2, <3>1 DEF Quiet, OneActor, Deciding
  <2>2. CASE CancelRun
    <3>1. status' = "cancelled" BY <2>2 DEF CancelRun
    <3> QED BY <1>1, <3>1 DEF Calm, OneActor, Deciding
  <2> QED BY <2>1, <2>2
<1>5. OneState' BY <1>1, <1>3 DEF Calm, OneState, Deciding
<1>6. PassedInOrder' BY <1>1, <1>3, OrderStays DEF Calm
<1>7. DecisionsDelivered' BY <1>1, <1>2, <1>3, DeliveryStays DEF Calm
<1> QED BY <1>4, <1>5, <1>6, <1>7 DEF Calm

-----------------------------------------------------------------------------
(* The second invariant                                                    *)

LEMMA UnlessRushedHolds == Spec => []UnlessRushed
<1>1. Init => UnlessRushed
  <2> SUFFICES ASSUME Init PROVE Calm BY DEF UnlessRushed
  <2>1. DOMAIN tasks = {} /\ Current = Fresh /\ Reached = 1 BY EmptySeq DEF Init, Current, Reached, Fresh
  <2>2. OneActor /\ OneState BY DEF Init, OneActor, OneState, Deciding
  <2>3. \A g \in Gate : ~(g < 1) BY GatesAssumption DEF Gate
  <2>4. PassedInOrder BY <2>1, <2>3 DEF Init, PassedInOrder
  <2>5. \A g \in Gate : Current.seen[g] = "pending" BY <2>1 DEF Fresh, Undecided
  <2>6. Reached \in Gate BY <2>1, GatesAssumption DEF Gate
  <2>7. DecisionsDelivered BY <2>1, <2>5, <2>6 DEF Init, DecisionsDelivered, Deciding
  <2> QED BY <2>2, <2>4, <2>7 DEF Calm
<1>2. AnyUse /\ UnlessRushed /\ [Next]_vars => UnlessRushed'
  <2> SUFFICES ASSUME AnyUse, UnlessRushed, [Next]_vars, ~rushed' PROVE Calm'
    BY DEF UnlessRushed
  <2>1. rushed => rushed'
    BY DEF Next, WorkerStep, Decide, Claim, Start, PassGate, Finish, LookUpTask, CreateTask,
           MarkWaiting, SaveWaiting, OpenTask, SubmitDecision, ReadRun, WriteState,
           ResumeDecided, ResumeRun, CancelRun, NoteTheRush, vars, history
  <2>2. Calm BY <2>1 DEF UnlessRushed
  <2>3. ASSUME NEW w \in Workers, WorkerStep(w) PROVE Calm'
    BY <2>2, <2>3, CalmClaim, CalmStart, CalmPassGate, CalmFinish, CalmLookUp, CalmCreate,
       CalmMark, CalmSave DEF WorkerStep
  <2>4. ASSUME NEW o \in Operators, OpenTask(o) \/ Decide(o) PROVE Calm'
    BY <2>2, <2>4, CalmOpen, CalmSubmit, CalmRead, CalmWrite, CalmResumeDecided DEF Decide
  <2>5. CASE UNCHANGED vars
    <3>1. UNCHANGED <<status, saved, tasks, pc, local, operation, used, executed>>
      BY <2>5 DEF vars, runVars, history
    <3>2. Current' = Current /\ Reached' = Reached BY <3>1, SameRun
    <3>3. OneActor' /\ OneState' BY <2>2, <3>1, <3>2 DEF Calm, OneActor, OneState, Deciding
    <3>4. PassedInOrder' BY <2>2, <3>1, <3>2, OrderStays DEF Calm
    <3>5. DecisionsDelivered' BY <2>2, <3>1, <3>2, DeliveryStays DEF Calm
    <3> QED BY <3>3, <3>4, <3>5 DEF Calm
  <2> QED BY <2>2, <2>3, <2>4, <2>5, CalmRequests DEF Next
<1> QED BY <1>1, <1>2, AnyUseHolds, PTL DEF Spec

\* Unless an operator rushes, no gate is passed twice, and each is passed with
\* the decision that its last task shows.
THEOREM GatesArePassedOnce == Spec => []GatesPassedOnce
<1>1. AnyUse /\ UnlessRushed => GatesPassedOnce
  <2> SUFFICES ASSUME AnyUse, UnlessRushed, ~rushed, NEW g \in Gate, executed[g] > 0
               PROVE  /\ executed[g] = 1
                      /\ \E i \in DOMAIN tasks :
                          /\ tasks[i] = [gate |-> g, decision |-> used[g]]
                          /\ \A j \in DOMAIN tasks : tasks[j].gate = g => j <= i
    BY DEF GatesPassedOnce
  <2>1. PassedInOrder BY DEF UnlessRushed, Calm
  <2>2. executed[g] = 1 /\ g < Reached BY <2>1 DEF PassedInOrder
  <2>3. PICK i \in DOMAIN tasks : tasks[i] = [gate |-> g, decision |-> used[g]]
    BY <2>1, <2>2 DEF PassedInOrder
  <2>4. \A j \in DOMAIN tasks : tasks[j].gate = g => j = i BY <2>1, <2>3 DEF PassedInOrder
  <2>5. i \in Nat
    <3>1. tasks \in Seq(Task) BY DEF AnyUse, TypeOK
    <3> QED BY <3>1
  <2> QED BY <2>2, <2>3, <2>4, <2>5
<1> QED BY <1>1, AnyUseHolds, UnlessRushedHolds, PTL
=============================================================================
