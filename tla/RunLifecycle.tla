---------------------------- MODULE RunLifecycle ----------------------------
(***************************************************************************)
(* The life of a workflow run: the `status` column of its row, the worker  *)
(* threads that claim and execute runs, and the API requests that pause,   *)
(* resume and cancel them.                                                 *)
(*                                                                         *)
(* Nothing but the database row joins the two sides.  Every repository     *)
(* method is a transaction of its own that reads the row and then writes   *)
(* the columns it changed.  What a worker writes does not depend on what   *)
(* it read, so a write of a worker is one step; a request decides on the   *)
(* status it read, so it is a read step and a commit step, between which   *)
(* anything may happen (READ COMMITTED, and SQLite's legacy transactions,  *)
(* which begin at the first write).                                        *)
(*                                                                         *)
(* What the nodes of the workflow do is abstracted here to the number of   *)
(* nodes left to execute; WorkflowEngine models them.                      *)
(***************************************************************************)
EXTENDS Naturals, Sequences, FiniteSets

CONSTANTS
    Runs,            \* rows of workflow_runs that may be created
    Workers,         \* worker threads, of one process or of several
    Requests,        \* API request threads
    OpKinds,         \* the operator's requests that are sent
    TimedRuns,       \* the runs with a timeout_seconds
    MaxNodes,        \* bound: nodes a run executes
    MaxAttempts,     \* retry_policy.max_attempts of every node
    MaxRequeues,     \* bound: resumes of one run that put it back in the queue
    ProcessEvents,   \* what may befall a worker process
    MayWait,         \* TRUE: nodes may ask for a human approval
    None             \* no run, no saved state, no request

ASSUME RunsAssumption == IsFiniteSet(Runs) /\ IsFiniteSet(Workers)
ASSUME NoneAssumption == None \notin Runs
ASSUME OpKindsAssumption == OpKinds \subseteq {"pause", "resume", "cancel"}
ASSUME ProcessEventsAssumption == ProcessEvents \subseteq {"shutdown", "crash"}
ASSUME TimedRunsAssumption == TimedRuns \subseteq Runs
ASSUME BoundsAssumption ==
    /\ MaxNodes \in Nat \ {0}
    /\ MaxAttempts \in Nat \ {0}
    /\ MaxRequeues \in Nat
ASSUME SwitchAssumption == MayWait \in BOOLEAN

VARIABLES
    status,     \* WorkflowRunRecord.status of every run
    order,      \* the runs created so far, by created_at
    saved,      \* execution_state: what a claim would restore
    pc,         \* where each worker is
    held,       \* the run of each worker
    local,      \* the queue and attempts of each worker's local variables
    stop,       \* the stop event of each worker's process
    request,    \* what each request thread has read and will commit
    requeues,   \* history: resumes of the run that committed `queued`
    orphan,     \* history: runs whose worker died while it held them
    late,       \* history: nodes started while the run was told to stop (to 2)
    stale       \* history: a request wrote the run on a read that was stale

runVars  == <<status, order, saved>>
workVars == <<pc, held, local, stop>>
histVars == <<requeues, orphan, late, stale>>
vars     == <<runVars, workVars, request, histVars>>

Terminal  == {"succeeded", "failed", "cancelled"}
Statuses  == {"absent", "queued", "running", "pause_requested", "paused",
              "waiting_human", "cancelling"} \union Terminal

(***************************************************************************)
(* The worker's program: "step" is the point after a control check that    *)
(* let it go on, "exec" the time a node takes, "parked" the pause loop.    *)
(***************************************************************************)
Unheld == {"idle", "stopped", "dead"}
Places == Unheld \union
          {"claim", "load", "start", "control", "expire", "cancel", "park",
           "wait_again", "parked", "unpark", "step", "exec", "wait",
           "save_wait", "fail", "finish"}

Progress == [left : 0..MaxNodes, tries : 0..MaxAttempts]
Fresh    == [left : 1..MaxNodes, tries : {0}]

TypeOK ==
    /\ status \in [Runs -> Statuses]
    /\ order \in Seq(Runs)
    /\ saved \in [Runs -> Progress \union {None}]
    /\ pc \in [Workers -> Places]
    /\ held \in [Workers -> Runs \union {None}]
    /\ local \in [Workers -> Progress \union {None}]
    /\ stop \in [Workers -> BOOLEAN]
    /\ request \in [Requests -> [op : OpKinds, run : Runs, read : Statuses]
                                   \union {None}]
    /\ requeues \in [Runs -> Nat]
    /\ orphan \in [Runs -> BOOLEAN]
    /\ late \in [Runs -> 0..2]
    /\ stale \in [Runs -> BOOLEAN]

Init ==
    /\ status = [r \in Runs |-> "absent"]
    /\ order = << >>
    /\ saved = [r \in Runs |-> None]
    /\ pc = [w \in Workers |-> "idle"]
    /\ held = [w \in Workers |-> None]
    /\ local = [w \in Workers |-> None]
    /\ stop = [w \in Workers |-> FALSE]
    /\ request = [q \in Requests |-> None]
    /\ requeues = [r \in Runs |-> 0]
    /\ orphan = [r \in Runs |-> FALSE]
    /\ late = [r \in Runs |-> 0]
    /\ stale = [r \in Runs |-> FALSE]

\* Worker w is executing run r, or is parked on it.
Holds(w, r) == held[w] = r /\ pc[w] # "claim"

-----------------------------------------------------------------------------
(* Requests                                                                *)

\* A new run (start, webhook, schedule or retry) enters the queue.
SubmitRun(r) ==
    /\ status[r] = "absent"
    /\ status' = [status EXCEPT ![r] = "queued"]
    /\ order' = Append(order, r)
    /\ UNCHANGED <<saved, workVars, request, histVars>>

\* A request for a pause, a resume or a cancel reads the row.
ReadRow(q, op, r) ==
    /\ request[q] = None
    /\ op \in OpKinds
    /\ status[r] # "absent"
    /\ op = "resume" => requeues[r] < MaxRequeues
    /\ request' = [request EXCEPT ![q] = [op |-> op, run |-> r, read |-> status[r]]]
    /\ UNCHANGED <<runVars, workVars, histVars>>

\* Mutants: a pause that does not look at the status it read, a cancel that
\* ends a running run at once, and one that leaves a queued run to a worker.
PauseOfAny(s) == IF s = "queued" THEN "paused" ELSE "pause_requested"
CancelAtOnce(s) == IF s \in Terminal THEN s ELSE "cancelled"
CancelByWorker(s) == IF s \in Terminal THEN s ELSE "cancelling"

\* The status each request gives to a run whose status it read as s; s itself
\* when the method has no branch for it and the commit writes nothing.
PauseOf(s) ==
    CASE s = "queued"  -> "paused"
      [] s = "running" -> "pause_requested"
      [] OTHER         -> s

ResumeOf(s) == IF s \in {"paused", "waiting_human"} THEN "queued" ELSE s

CancelOf(s) ==
    CASE s \in {"queued", "paused", "waiting_human"} -> "cancelled"
      [] s \in {"running", "pause_requested"}        -> "cancelling"
      [] OTHER                                       -> s

Outcome(op, s) ==
    CASE op = "pause"  -> PauseOf(s)
      [] op = "resume" -> ResumeOf(s)
      [] op = "cancel" -> CancelOf(s)

\* The request commits, whatever the row has become: the status column is in
\* its UPDATE only when the method changed it.
Writes(req) == Outcome(req.op, req.read) # req.read

CommitRow(q) ==
    /\ request[q] # None
    /\ LET req == request[q]
           new == Outcome(req.op, req.read)
       IN  IF Writes(req)
           THEN /\ status' = [status EXCEPT ![req.run] = new]
                /\ stale' = [stale EXCEPT ![req.run] = @ \/ status[req.run] # req.read]
                /\ IF new = "queued"
                   THEN /\ requeues[req.run] < MaxRequeues
                        /\ requeues' = [requeues EXCEPT ![req.run] = @ + 1]
                   ELSE UNCHANGED requeues
           ELSE UNCHANGED <<status, requeues, stale>>
    /\ request' = [request EXCEPT ![q] = None]
    /\ UNCHANGED <<order, saved, workVars, orphan, late>>

-----------------------------------------------------------------------------
(* Workers                                                                 *)

Goto(w, place) == pc' = [pc EXCEPT ![w] = place]

\* The worker leaves the run it holds and goes back to its loop.
Release(w) ==
    /\ Goto(w, "idle")
    /\ held' = [held EXCEPT ![w] = None]
    /\ local' = [local EXCEPT ![w] = None]

\* r is the queued run with the smallest created_at.
OldestQueued(r) ==
    \E i \in DOMAIN order :
        /\ order[i] = r
        /\ status[r] = "queued"
        /\ \A j \in 1..(i - 1) : status[order[j]] # "queued"

\* claim_next_queued_run looks for a candidate ...
SelectCandidate(w) ==
    /\ pc[w] = "idle"
    /\ ~stop[w]
    /\ \E r \in Runs :
        /\ OldestQueued(r)
        /\ held' = [held EXCEPT ![w] = r]
    /\ Goto(w, "claim")
    /\ UNCHANGED <<runVars, local, stop, request, histVars>>

\* Mutant: the UPDATE of the claim without its condition on the status.
ClaimUnchecked(w) ==
    /\ pc[w] = "claim"
    /\ status' = [status EXCEPT ![held[w]] = "running"]
    /\ Goto(w, "load")
    /\ UNCHANGED <<order, saved, held, local, stop, request, histVars>>

\* ... and takes it if it is still queued when the UPDATE is made.
Claim(w) ==
    /\ pc[w] = "claim"
    /\ IF status[held[w]] = "queued"
       THEN /\ status' = [status EXCEPT ![held[w]] = "running"]
            /\ Goto(w, "load")
            /\ UNCHANGED <<held, local>>
       ELSE Release(w) /\ UNCHANGED status
    /\ UNCHANGED <<order, saved, stop, request, histVars>>

\* The worker restores the saved queue and attempts, or sets out afresh.
LoadState(w) ==
    /\ pc[w] = "load"
    /\ IF saved[held[w]] # None
       THEN local' = [local EXCEPT ![w] = saved[held[w]]]
       ELSE \E state \in Fresh : local' = [local EXCEPT ![w] = state]
    /\ Goto(w, "start")
    /\ UNCHANGED <<runVars, held, stop, request, histVars>>

\* An empty queue ends the loop, with no further look at the row.
NextPlace(left) == IF left = 0 THEN "finish" ELSE "control"

StartRun(w) ==
    /\ pc[w] = "start"
    /\ saved' = [saved EXCEPT ![held[w]] = local[w]]
    /\ Goto(w, NextPlace(local[w].left))
    /\ UNCHANGED <<status, order, held, local, stop, request, histVars>>

\* Mutant: the control check looks for pauses only.
ControlPausesOnly(s) ==
    IF s \in {"pause_requested", "paused"} THEN "park" ELSE "step"

\* Where _check_run_control sends a worker that read status s.
ControlPlace(s) ==
    CASE s = "cancelling"                     -> "cancel"
      [] s \in {"pause_requested", "paused"}  -> "park"
      [] s = "waiting_human"                  -> "wait_again"
      [] OTHER                                -> "step"

\* The control check before every node reads the row; a run whose time is up
\* is failed whatever its status.
CheckControl(w) ==
    /\ pc[w] = "control"
    /\ \/ Goto(w, ControlPlace(status[held[w]]))
       \/ held[w] \in TimedRuns /\ Goto(w, "expire")
    /\ UNCHANGED <<runVars, held, local, stop, request, histVars>>

\* The writes that end a run: the status, and no execution_state.
EndRun(w, final) ==
    /\ status' = [status EXCEPT ![held[w]] = final]
    /\ saved' = [saved EXCEPT ![held[w]] = None]
    /\ Release(w)
    /\ UNCHANGED <<order, stop, request, histVars>>

ExpireRun(w)  == pc[w] = "expire" /\ EndRun(w, "failed")
CancelRun(w)  == pc[w] = "cancel" /\ EndRun(w, "cancelled")
FailRun(w)    == pc[w] = "fail"   /\ EndRun(w, "failed")
SucceedRun(w) == pc[w] = "finish" /\ EndRun(w, "succeeded")

\* The worker writes paused, or waiting_human again, and begins to poll.
Park(w) ==
    /\ pc[w] \in {"park", "wait_again"}
    /\ status' = [status EXCEPT ![held[w]] =
                     IF pc[w] = "park" THEN "paused" ELSE "waiting_human"]
    /\ Goto(w, "parked")
    /\ UNCHANGED <<order, saved, held, local, stop, request, histVars>>

\* A poll that found something to do.
Poll(w) ==
    /\ pc[w] = "parked"
    /\ ~stop[w]
    /\ \/ status[held[w]] = "cancelling" /\ Goto(w, "cancel")
       \/ status[held[w]] = "queued" /\ Goto(w, "unpark")
    /\ UNCHANGED <<runVars, held, local, stop, request, histVars>>

\* The worker takes its run out of the queue without a claim.
Unpark(w) ==
    /\ pc[w] = "unpark"
    /\ status' = [status EXCEPT ![held[w]] = "running"]
    /\ Goto(w, "step")
    /\ UNCHANGED <<order, saved, held, local, stop, request, histVars>>

\* The process is stopping: the pause loop ends and leaves the row alone.
LeavePark(w) ==
    /\ pc[w] = "parked"
    /\ stop[w]
    /\ Release(w)
    /\ UNCHANGED <<runVars, stop, request, histVars>>

\* A node starts.
Stopping(s) == s \in {"pause_requested", "paused", "cancelling"}

BeginNode(w) ==
    /\ pc[w] = "step"
    /\ Goto(w, "exec")
    /\ late' = IF Stopping(status[held[w]]) /\ late[held[w]] < 2
               THEN [late EXCEPT ![held[w]] = @ + 1] ELSE late
    /\ UNCHANGED <<runVars, held, local, stop, request, requeues, orphan, stale>>

\* The node succeeds, or its fallback output stands in for it.
NodeSucceeds(w) ==
    /\ pc[w] = "exec"
    /\ LET state == [left |-> local[w].left - 1, tries |-> 0]
       IN  /\ local' = [local EXCEPT ![w] = state]
           /\ saved' = [saved EXCEPT ![held[w]] = state]
           /\ Goto(w, NextPlace(state.left))
    /\ UNCHANGED <<status, order, held, stop, request, histVars>>

\* Mutant: a retry does not count.
NodeFailsUncounted(w) ==
    /\ pc[w] = "exec"
    /\ Goto(w, "control")
    /\ UNCHANGED <<runVars, held, local, stop, request, histVars>>

\* The node fails: it goes back to the head of the queue while attempts are
\* left, and fails the run when they are used up.
NodeFails(w) ==
    /\ pc[w] = "exec"
    /\ IF local[w].tries + 1 < MaxAttempts
       THEN LET state == [local[w] EXCEPT !.tries = @ + 1]
            IN  /\ local' = [local EXCEPT ![w] = state]
                /\ saved' = [saved EXCEPT ![held[w]] = state]
                /\ Goto(w, "control")
       ELSE Goto(w, "fail") /\ UNCHANGED <<local, saved>>
    /\ UNCHANGED <<status, order, held, stop, request, histVars>>

\* An approval node without a decision ...
NodeWaits(w) ==
    /\ pc[w] = "exec"
    /\ MayWait
    /\ Goto(w, "wait")
    /\ UNCHANGED <<runVars, held, local, stop, request, histVars>>

\* Mutant: the run is left as it is, only the step is marked as waiting.
WaitUnmarked(w) ==
    /\ pc[w] = "wait"
    /\ Goto(w, "save_wait")
    /\ UNCHANGED <<runVars, held, local, stop, request, histVars>>

\* ... makes the run wait, and the worker saves its state and leaves it.
WaitForHuman(w) ==
    /\ pc[w] = "wait"
    /\ status' = [status EXCEPT ![held[w]] = "waiting_human"]
    /\ Goto(w, "save_wait")
    /\ UNCHANGED <<order, saved, held, local, stop, request, histVars>>

SaveWaiting(w) ==
    /\ pc[w] = "save_wait"
    /\ saved' = [saved EXCEPT ![held[w]] = local[w]]
    /\ Release(w)
    /\ UNCHANGED <<status, order, stop, request, histVars>>

-----------------------------------------------------------------------------
(* Processes                                                               *)

\* shutdown() sets the stop event; a worker sees it at the top of its loop
\* or in the pause loop.
Shutdown(w) ==
    /\ "shutdown" \in ProcessEvents
    /\ ~stop[w]
    /\ pc[w] \notin {"stopped", "dead"}
    /\ stop' = [stop EXCEPT ![w] = TRUE]
    /\ UNCHANGED <<runVars, pc, held, local, request, histVars>>

StopWorker(w) ==
    /\ pc[w] = "idle"
    /\ stop[w]
    /\ Goto(w, "stopped")
    /\ UNCHANGED <<runVars, held, local, stop, request, histVars>>

\* The process dies, or exits while its daemon threads are at work.
Crash(w) ==
    /\ "crash" \in ProcessEvents
    /\ pc[w] \notin {"stopped", "dead"}
    /\ Goto(w, "dead")
    /\ held' = [held EXCEPT ![w] = None]
    /\ local' = [local EXCEPT ![w] = None]
    /\ orphan' = [r \in Runs |-> orphan[r] \/ Holds(w, r)]
    /\ UNCHANGED <<runVars, stop, request, requeues, late, stale>>

RestartWorker(w) ==
    /\ pc[w] \in {"stopped", "dead"}
    /\ Goto(w, "idle")
    /\ stop' = [stop EXCEPT ![w] = FALSE]
    /\ UNCHANGED <<runVars, held, local, request, histVars>>

-----------------------------------------------------------------------------
RunStep(w) ==
    \/ SelectCandidate(w) \/ Claim(w) \/ LoadState(w) \/ StartRun(w)
    \/ CheckControl(w) \/ ExpireRun(w) \/ CancelRun(w)
    \/ Park(w) \/ Poll(w) \/ Unpark(w) \/ LeavePark(w)
    \/ BeginNode(w) \/ NodeSucceeds(w) \/ NodeFails(w) \/ NodeWaits(w)
    \/ WaitForHuman(w) \/ SaveWaiting(w)
    \/ FailRun(w) \/ SucceedRun(w) \/ StopWorker(w)

ProcessStep(w) == Shutdown(w) \/ Crash(w) \/ RestartWorker(w)

RequestStep(q) ==
    \/ \E op \in OpKinds, r \in Runs : ReadRow(q, op, r)
    \/ CommitRow(q)

Next ==
    \/ \E r \in Runs : SubmitRun(r)
    \/ \E q \in Requests : RequestStep(q)
    \/ \E w \in Workers : RunStep(w) \/ ProcessStep(w)

Spec == Init /\ [][Next]_vars

(***************************************************************************)
(* A worker thread keeps running, and a process that was stopped or died   *)
(* is started again.  Operators owe nothing, but a request that has read   *)
(* the row goes on to its commit.                                          *)
(***************************************************************************)
Fairness ==
    /\ \A w \in Workers : WF_vars(RunStep(w)) /\ WF_vars(RestartWorker(w))
    /\ \A q \in Requests : WF_vars(CommitRow(q))

FairSpec == Spec /\ Fairness
-----------------------------------------------------------------------------
(* The inductive invariant behind the safety properties                    *)

Working == Places \ (Unheld \union {"claim", "load"})

\* A worker has a run exactly when its place needs one, the local variables
\* of a run it has loaded, and a node to execute before a node is executed.
WorkersOK ==
    \A w \in Workers :
        /\ pc[w] \in Unheld <=> held[w] = None
        /\ pc[w] \in Working => local[w] \in Progress
        /\ pc[w] \in Working \ {"start", "finish"} => local[w].left > 0

\* A run that waits for its first claim is held by nobody.
UnclaimedIsUnheld ==
    \A r \in Runs :
        status[r] = "absent" \/ (status[r] = "queued" /\ requeues[r] = 0) =>
            \A w \in Workers : ~Holds(w, r)

-----------------------------------------------------------------------------
(* Properties                                                              *)

\* The claim is exclusive: until a resume has put a run back in the queue, at
\* most one worker executes it or is parked on it.  (A resumed run can have
\* two: the worker still parked on it, and the one that claims it.)
ExclusiveUntilRequeued ==
    \A r \in Runs : requeues[r] = 0 =>
        \A v, w \in Workers : Holds(v, r) /\ Holds(w, r) => v = w

\* A run that is shown as running, or that was asked to pause or to cancel
\* and waits for its worker to do so, has a worker, unless that worker died:
\* no order of claims, parks and requests leaves such a run to nobody.
ActiveRunHasWorker ==
    \A r \in Runs :
        status[r] \in {"running", "pause_requested", "cancelling"} =>
            stale[r] \/ orphan[r] \/ \E w \in Workers : Holds(w, r)

\* No resume has put the run back in the queue, where a second worker takes
\* it, and no request has overwritten a status it had not read.
Orderly(r) == requeues[r] = 0 /\ ~stale[r]

\* The control check is made before every node and every retry: at most one
\* node of a run starts after it was told to pause or to cancel, however the
\* requests fall between the worker's reads.
PromptStop == \A r \in Runs : Orderly(r) => late[r] <= 1

\* A terminal status is final.  It takes a resume (a worker left parked takes
\* the run back out of the queue) or a stale read to undo one.
TerminalIsFinal ==
    [][\A r \in Runs : status[r] \in Terminal /\ Orderly(r)' =>
           status'[r] = status[r]]_vars

\* No node of a run that has ended starts, whoever ended it.
NoNodeAfterEnd ==
    [][\A w \in Workers : BeginNode(w) /\ Orderly(held[w]) =>
           status[held[w]] \notin Terminal]_vars

\* A worker always acts on a pause request or a cancel request: it ends the
\* run, parks it, or, if it had already begun to, leaves it waiting.
RequestsAreAnswered ==
    \A r \in Runs :
        status[r] \in {"pause_requested", "cancelling"} ~>
            status[r] \notin {"pause_requested", "cancelling"} \/ stale[r]

\* Once processes are no longer shut down, every run that enters the queue is
\* executed until it ends, is paused or waits for a human, however many are
\* ahead of it.  Only workers all parked on paused runs keep it in the queue.
AllParked == \A w \in Workers : pc[w] = "parked"

EveryRunSettles ==
    <>[](\A w \in Workers : ~stop[w]) =>
        \A r \in Runs :
            status[r] = "queued" ~>
                \/ status[r] \in Terminal \union {"paused", "waiting_human"}
                \/ AllParked \/ \E t \in Runs : stale[t]
-----------------------------------------------------------------------------
(* What the code says of itself, and does not do                           *)

\* "Workflow run cancelled while paused": a worker parked on a run that is
\* cancelled lets it go.  (A cancel of a paused run writes `cancelled`, which
\* the pause loop does not look for.)
ParkedWorkerIsReleased ==
    \A w \in Workers :
        pc[w] = "parked" /\ status[held[w]] = "cancelled" ~> pc[w] # "parked"
=============================================================================
