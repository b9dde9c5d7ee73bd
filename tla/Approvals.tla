----------------------------- MODULE Approvals -----------------------------
(***************************************************************************)
(* Human approvals: a worker that reaches an approval node without a       *)
(* decision creates a task, makes the run wait, saves its state and leaves *)
(* it; an operator who decides the task writes the decision into the saved *)
(* state of the run and resumes it.  Each of these is four or five         *)
(* transactions, and nothing keeps the two sequences apart.                *)
(*                                                                         *)
(* The run is a sequence of approval nodes, the gates; what lies between   *)
(* two gates belongs to the second one.  RunLifecycle has the other        *)
(* requests, WorkflowEngine the queue.                                     *)
(***************************************************************************)
EXTENDS Naturals, Sequences, FiniteSets

CONSTANTS
    Workers,     \* worker threads
    Operators,   \* request threads that decide on tasks
    Gates,       \* the number of approval nodes
    MaxTasks,    \* bound: approval tasks
    None         \* no saved state, no operation

ASSUME GatesAssumption == Gates \in Nat \ {0} /\ MaxTasks \in Nat

VARIABLES
    status,      \* the status of the run
    saved,       \* its execution_state
    tasks,       \* approval_tasks, in the order of creation
    pc,          \* where each worker is
    local,       \* the local variables of each worker
    operation,   \* the decision each operator is making
    submitted,   \* history: the decisions submitted for each gate
    used,        \* history: the decision each gate was executed with last
    executed,    \* history: how often each gate was executed (to 2)
    rushed       \* history: an operator opened a task or resumed the run
                 \*   before it was left waiting, or while another one did

runVars == <<status, saved, tasks>>
history == <<submitted, used, executed, rushed>>
vars    == <<runVars, pc, local, operation, history>>

Gate      == 1..Gates
Decisions == {"approved", "rejected"}

\* The next gate, or Gates + 1 when the queue is empty, and context.approvals.
State == [at : 1..(Gates + 1), seen : [Gate -> Decisions \union {"pending"}]]
Undecided == [g \in Gate |-> "pending"]
Fresh     == [at |-> 1, seen |-> Undecided]

Task      == [gate : Gate, decision : Decisions \union {"pending"}]
Operation == [stage : {"open", "read", "write", "resume"}, task : 1..MaxTasks,
              decision : Decisions \union {"pending"},
              state : State \union {None}, waiting : BOOLEAN]

ASSUME NoneAssumption == None \notin State /\ None \notin Operation

TypeOK ==
    /\ status \in {"queued", "running", "waiting_human", "cancelled", "succeeded"}
    /\ saved \in State \union {None}
    /\ tasks \in Seq(Task) /\ Len(tasks) <= MaxTasks
    /\ pc \in [Workers -> {"idle", "start", "gate", "create", "mark", "save"}]
    /\ local \in [Workers -> State \union {None}]
    /\ \A w \in Workers : local[w] = None <=> pc[w] = "idle"
    /\ operation \in [Operators -> Operation \union {None}]
    /\ submitted \in [Gate -> SUBSET Decisions]
    /\ used \in [Gate -> Decisions \union {"pending"}]
    /\ executed \in [Gate -> 0..2]
    /\ rushed \in BOOLEAN

Init ==
    /\ status = "queued"
    /\ saved = None
    /\ tasks = << >>
    /\ pc = [w \in Workers |-> "idle"]
    /\ local = [w \in Workers |-> None]
    /\ operation = [o \in Operators |-> None]
    /\ submitted = [g \in Gate |-> {}]
    /\ used = Undecided
    /\ executed = [g \in Gate |-> 0]
    /\ rushed = FALSE

-----------------------------------------------------------------------------
(* Workers                                                                 *)

Goto(w, place) == pc' = [pc EXCEPT ![w] = place]

Claim(w) ==
    /\ pc[w] = "idle"
    /\ status = "queued"
    /\ status' = "running"
    /\ local' = [local EXCEPT ![w] = IF saved = None THEN Fresh ELSE saved]
    /\ Goto(w, "start")
    /\ UNCHANGED <<saved, tasks, operation, history>>

\* The state is written back before the first node.
Start(w) ==
    /\ pc[w] = "start"
    /\ saved' = local[w]
    /\ Goto(w, "gate")
    /\ UNCHANGED <<status, tasks, local, operation, history>>

\* The decision on the gate.
DecisionAt(state) == state.seen[state.at]

\* An approval node with a decision is executed with it.
PassGate(w) ==
    /\ pc[w] = "gate"
    /\ local[w].at <= Gates
    /\ DecisionAt(local[w]) # "pending"
    /\ LET g == local[w].at
       IN  /\ used' = [used EXCEPT ![g] = DecisionAt(local[w])]
           /\ executed' = [executed EXCEPT ![g] = IF @ < 2 THEN @ + 1 ELSE @]
    /\ local' = [local EXCEPT ![w].at = @ + 1]
    /\ saved' = local'[w]
    /\ UNCHANGED <<status, tasks, pc, operation, submitted, rushed>>

Finish(w) ==
    /\ pc[w] = "gate"
    /\ local[w].at > Gates
    /\ status' = "succeeded"
    /\ saved' = None
    /\ local' = [local EXCEPT ![w] = None]
    /\ Goto(w, "idle")
    /\ UNCHANGED <<tasks, operation, history>>

PendingFor(g) == {i \in DOMAIN tasks : tasks[i] = [gate |-> g, decision |-> "pending"]}

\* Mutant: a task is created whether there is one or not.
LookUpNothing(w) ==
    /\ pc[w] = "gate"
    /\ local[w].at <= Gates
    /\ DecisionAt(local[w]) = "pending"
    /\ Goto(w, "create")
    /\ UNCHANGED <<runVars, local, operation, history>>

\* One without a decision looks for a pending task ...
LookUpTask(w) ==
    /\ pc[w] = "gate"
    /\ local[w].at <= Gates
    /\ DecisionAt(local[w]) = "pending"
    /\ Goto(w, IF PendingFor(local[w].at) = {} THEN "create" ELSE "mark")
    /\ UNCHANGED <<runVars, local, operation, history>>

\* ... creates one if there is none ...
CreateTask(w) ==
    /\ pc[w] = "create"
    /\ Len(tasks) < MaxTasks
    /\ tasks' = Append(tasks, [gate |-> local[w].at, decision |-> "pending"])
    /\ Goto(w, "mark")
    /\ UNCHANGED <<status, saved, local, operation, history>>

\* ... makes the run wait ...
MarkWaiting(w) ==
    /\ pc[w] = "mark"
    /\ status' = "waiting_human"
    /\ Goto(w, "save")
    /\ UNCHANGED <<saved, tasks, local, operation, history>>

\* ... and saves its state, the gate at the head of the queue again.
SaveWaiting(w) ==
    /\ pc[w] = "save"
    /\ saved' = local[w]
    /\ local' = [local EXCEPT ![w] = None]
    /\ Goto(w, "idle")
    /\ UNCHANGED <<status, tasks, operation, history>>

-----------------------------------------------------------------------------
(* Operators                                                               *)

\* Nobody is at work on the run.
Quiet ==
    /\ \A w \in Workers : pc[w] = "idle"
    /\ \A o \in Operators : operation[o] = None

NoteTheRush == rushed' = (rushed \/ ~Quiet \/ status # "waiting_human")

\* A task is opened from the list of those that are pending.
OpenTask(o) ==
    /\ operation[o] = None
    /\ NoteTheRush
    /\ \E i \in DOMAIN tasks :
        /\ tasks[i].decision = "pending"
        /\ operation' = [operation EXCEPT ![o] =
               [stage |-> "open", task |-> i, decision |-> "pending",
                state |-> None, waiting |-> FALSE]]
    /\ UNCHANGED <<runVars, pc, local, submitted, used, executed>>

At(o, stage) == operation[o] # None /\ operation[o].stage = stage

\* decide_approval_task writes the decision, whether there is one or not ...
SubmitDecision(o) ==
    /\ At(o, "open")
    /\ \E d \in Decisions :
        LET i == operation[o].task
        IN  /\ tasks' = [tasks EXCEPT ![i].decision = d]
            /\ submitted' = [submitted EXCEPT ![tasks[i].gate] = @ \union {d}]
            /\ operation' = [operation EXCEPT ![o].stage = "read", ![o].decision = d]
    /\ UNCHANGED <<status, saved, pc, local, used, executed, rushed>>

\* ... reads the run ...
ReadRun(o) ==
    /\ At(o, "read")
    /\ operation' = [operation EXCEPT ![o].stage = "write", ![o].state = saved,
                                      ![o].waiting = (status = "waiting_human")]
    /\ UNCHANGED <<runVars, pc, local, history>>

\* Mutants: the decision goes to every gate, or the run starts again.
MergeIntoAll(state, g, d) ==
    IF state = None THEN [at |-> Gates + 1, seen |-> [h \in Gate |-> d]]
                    ELSE [state EXCEPT !.seen = [h \in Gate |-> d]]
MergeRestarting(state, g, d) ==
    IF state = None THEN [at |-> Gates + 1, seen |-> [Undecided EXCEPT ![g] = d]]
                    ELSE [state EXCEPT !.seen[g] = d, !.at = 1]

\* The state an operator writes: what it read, with the decision.  A state
\* that was not there has no queue.
Merge(state, g, d) ==
    IF state = None THEN [at |-> Gates + 1, seen |-> [Undecided EXCEPT ![g] = d]]
                    ELSE [state EXCEPT !.seen[g] = d]

\* ... writes the state it read, with the decision ...
WriteState(o) ==
    /\ At(o, "write")
    /\ LET op == operation[o]
       IN  /\ saved' = Merge(op.state, tasks[op.task].gate, op.decision)
           /\ operation' = [operation EXCEPT ![o] =
                  IF op.waiting THEN [op EXCEPT !.stage = "resume"] ELSE None]
    /\ UNCHANGED <<status, tasks, pc, local, history>>

\* Mutant: the run is not put back in the queue.
LeaveWaiting == status' = status

Requeue == status' = IF status = "waiting_human" THEN "queued" ELSE status

\* ... and resumes the run, if it read that it was waiting.
ResumeDecided(o) ==
    /\ At(o, "resume")
    /\ Requeue
    /\ operation' = [operation EXCEPT ![o] = None]
    /\ UNCHANGED <<saved, tasks, pc, local, history>>

\* The resume and cancel requests.
ResumeRun ==
    /\ NoteTheRush
    /\ status = "waiting_human"
    /\ status' = "queued"
    /\ UNCHANGED <<saved, tasks, pc, local, operation, submitted, used, executed>>

CancelRun ==
    /\ status \in {"queued", "waiting_human"}
    /\ status' = "cancelled"
    /\ UNCHANGED <<saved, tasks, pc, local, operation, history>>

-----------------------------------------------------------------------------
WorkerStep(w) ==
    \/ Claim(w) \/ Start(w) \/ PassGate(w) \/ Finish(w)
    \/ LookUpTask(w) \/ CreateTask(w) \/ MarkWaiting(w) \/ SaveWaiting(w)

Decide(o) == SubmitDecision(o) \/ ReadRun(o) \/ WriteState(o) \/ ResumeDecided(o)

Next ==
    \/ \E w \in Workers : WorkerStep(w)
    \/ \E o \in Operators : OpenTask(o) \/ Decide(o)
    \/ ResumeRun \/ CancelRun

Spec == Init /\ [][Next]_vars

(***************************************************************************)
(* Workers go on, a decision that has been begun is completed, and         *)
(* somebody opens a task that is pending again and again.                  *)
(***************************************************************************)
Fairness ==
    /\ \A w \in Workers : WF_vars(WorkerStep(w))
    /\ \A o \in Operators : WF_vars(Decide(o))
    /\ SF_vars(\E o \in Operators : OpenTask(o))

FairSpec == Spec /\ Fairness
-----------------------------------------------------------------------------
(* Properties                                                              *)

\* The worker that creates a task is the only one that could: a gate has at
\* most one pending task, however the run was resumed in between.
OnePendingTask == \A g \in Gate : Cardinality(PendingFor(g)) <= 1

\* A gate is passed only with a decision that a human submitted for it, also
\* when states are restored that others have overwritten.
DecisionsAreHuman ==
    \A g \in Gate : executed[g] > 0 => used[g] \in submitted[g]

\* Unless an operator rushes, no gate is passed twice, each is passed with the
\* decision that its last task shows ...
GatesPassedOnce ==
    ~rushed => \A g \in Gate : executed[g] > 0 =>
        /\ executed[g] = 1
        /\ \E i \in DOMAIN tasks :
            /\ tasks[i] = [gate |-> g, decision |-> used[g]]
            /\ \A j \in DOMAIN tasks : tasks[j].gate = g => j <= i

\* ... and a run that waits for a human is released, or cancelled.
WaitingEnds ==
    status = "waiting_human" /\ ~rushed ~> status \in {"cancelled", "succeeded"} \/ rushed
=============================================================================
