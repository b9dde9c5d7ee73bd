--------------------------- MODULE WorkflowEngine ---------------------------
(***************************************************************************)
(* The execution of one workflow run: the worker's queue of nodes, the     *)
(* edges an output activates, joins, retries and fallbacks, approvals,     *)
(* the state saved in the row and restored by the next claim, the table of *)
(* steps, and a new run that is retried from the failed step.              *)
(*                                                                         *)
(* One worker executes the run at a time, which is what RunLifecycle shows *)
(* of a run that nobody resumes while it is parked; a pause that its       *)
(* worker waits out keeps the worker's variables and has no action here.   *)
(***************************************************************************)
EXTENDS WorkflowCharts, Functions

CONSTANTS
    MaxRetryRuns, \* bound: runs made by retry_workflow_run
    None          \* no output, no saved state, no source

VARIABLES
    wf,       \* the workflow version of the run
    status,   \* the status of the run
    phase,    \* the worker: "off", "loop", "exec" a node, follow its "edges"
    current,  \* the node being executed
    fan,      \* the selected edges still to be followed
    local,    \* the local variables that _save_execution_state writes
    results,  \* step_results
    saved,    \* execution_state
    steps,    \* the status of every step
    output,   \* output_payload of every step: its route, or None
    source,   \* the steps a retried run copies, and where it restarts
    retries   \* history: the number of runs retried so far

vars == <<wf, status, phase, current, fan, local, results, saved, steps,
          output, source, retries>>

(***************************************************************************)
(* The promise: the steps that succeeded or were copied are the executed   *)
(* nodes of Activation.  A retried run will copy the steps before the one  *)
(* it restarts from, and owes no more than the nodes it executes: its      *)
(* success is no success of the whole workflow.                            *)
(***************************************************************************)
Ended == {"succeeded", "failed", "cancelled"}

ToCopy == IF source # None /\ \A n \in Nodes : steps[n] = "pending"
          THEN {n \in Nodes : n < source.from /\ source.output[n] # None} ELSE {}

Abstract == INSTANCE Activation WITH
    starts   <- IF source = None THEN Range(wf.roots) ELSE {source.from},
    executed <- ToCopy \union {n \in Nodes : steps[n] \in {"succeeded", "copied"}},
    route    <- [n \in Nodes |-> IF n \in ToCopy THEN source.output[n]
                                 ELSE IF output[n] = None THEN NoRoute ELSE output[n]],
    ended    <- IF status \notin Ended THEN "no"
                ELSE IF status = "succeeded" /\ source = None THEN "succeeded" ELSE "other"

StepStatuses == {"pending", "running", "waiting_human", "succeeded", "failed",
                 "cancelled", "skipped", "copied"}

(***************************************************************************)
(* local.route, local.inputs and local.decision are parts of the context:  *)
(* the outputs of the executed nodes, the sources whose outputs a node     *)
(* received, and the decisions on approval nodes.                          *)
(***************************************************************************)
States == [queue    : Seq(Nodes),
           enqueued : SUBSET Nodes,
           executed : SUBSET Nodes,
           tokens   : [Nodes -> Nat],
           attempts : [Nodes -> 0..2],
           route    : [Nodes -> Routes \union {NoRoute}],
           inputs   : [Nodes -> SUBSET Nodes],
           decision : [Nodes -> Routes \union {NoRoute}]]

NewState == [queue    |-> << >>,
             enqueued |-> {},
             executed |-> {},
             tokens   |-> [n \in Nodes |-> 0],
             attempts |-> [n \in Nodes |-> 0],
             route    |-> [n \in Nodes |-> NoRoute],
             inputs   |-> [n \in Nodes |-> {}],
             decision |-> [n \in Nodes |-> NoRoute]]

Source == [from : Nodes, output : [Nodes -> Routes \union {NoRoute, None}]]

ASSUME EngineAssumption ==
    /\ MaxRetryRuns \in Nat
    /\ {"approved", "rejected"} \subseteq Routes
    /\ None \notin Routes \union {NoRoute}
    /\ None \notin States \union Source

Init ==
    /\ wf \in Workflows
    /\ status = "queued"
    /\ phase = "off"
    /\ current = 0
    /\ fan = {}
    /\ local = NewState
    /\ results = << >>
    /\ saved = None
    /\ steps = [n \in Nodes |-> "pending"]
    /\ output = [n \in Nodes |-> None]
    /\ source = None
    /\ retries = 0

-----------------------------------------------------------------------------
(* A worker claims the run                                                 *)

\* The queue of a run that starts afresh: its roots, in the plan's order.
StartFresh ==
    /\ status = "queued" /\ phase = "off"
    /\ saved = None /\ source = None
    /\ local' = [NewState EXCEPT !.queue = wf.roots, !.enqueued = Range(wf.roots)]
    /\ results' = << >>
    /\ saved' = local'
    /\ status' = "running"
    /\ phase' = "loop"
    /\ UNCHANGED <<wf, current, fan, steps, output, source, retries>>

\* The steps before the failed one are copied, their outputs put in the
\* context, and the failed one is the whole queue.
Copied == {n \in Nodes : n < source.from /\ source.output[n] # None}

StartRetry ==
    /\ status = "queued" /\ phase = "off"
    /\ saved = None /\ source # None
    /\ local' = [NewState EXCEPT
                    !.queue    = <<source.from>>,
                    !.enqueued = {source.from},
                    !.executed = Copied,
                    !.route    = [n \in Nodes |-> IF n \in Copied
                                                  THEN source.output[n] ELSE NoRoute],
                    !.decision = [n \in Nodes |-> IF n \in Copied \cap wf.approvals
                                                  THEN source.output[n] ELSE NoRoute]]
    /\ steps' = [n \in Nodes |-> IF n \in Copied THEN "copied" ELSE steps[n]]
    /\ output' = [n \in Nodes |-> IF n \in Copied THEN source.output[n] ELSE output[n]]
    /\ \E order \in [1..Cardinality(Copied) -> Copied] :
        /\ \A i, j \in DOMAIN order : i < j => order[i] < order[j]
        /\ results' = order
    /\ saved' = local'
    /\ status' = "running"
    /\ phase' = "loop"
    /\ UNCHANGED <<wf, current, fan, source, retries>>

\* Mutants: the copied steps do not count, the join tokens are not restored.
DoneHere == {n \in Nodes : steps[n] = "succeeded" /\ output[n] # None}

\* The saved state is restored, and step_results is made from the steps.
Done == {n \in Nodes : steps[n] \in {"succeeded", "copied"} /\ output[n] # None}

StartRestoredUntokened ==
    /\ status = "queued" /\ phase = "off"
    /\ saved # None
    /\ local' = [saved EXCEPT !.tokens = NewState.tokens]
    /\ results' = << >>
    /\ status' = "running"
    /\ phase' = "loop"
    /\ UNCHANGED <<wf, current, fan, saved, steps, output, source, retries>>

StartRestored ==
    /\ status = "queued" /\ phase = "off"
    /\ saved # None
    /\ local' = saved
    /\ \E order \in [1..Cardinality(Done) -> Done] :
        /\ \A i, j \in DOMAIN order : i < j => order[i] < order[j]
        /\ results' = order
    /\ status' = "running"
    /\ phase' = "loop"
    /\ UNCHANGED <<wf, current, fan, saved, steps, output, source, retries>>

-----------------------------------------------------------------------------
(* The loop                                                                *)

\* The worker leaves the run, and its local variables are gone.
Leave ==
    /\ phase' = "off"
    /\ current' = 0
    /\ fan' = {}
    /\ local' = NewState
    /\ results' = << >>

EndRun(final) ==
    /\ status' = final
    /\ saved' = None
    /\ Leave
    /\ UNCHANGED <<wf, output, source, retries>>

\* _mark_remaining_steps looks at the pending steps only.
MarkRemaining(s) ==
    steps' = [n \in Nodes |-> IF steps[n] = "pending" THEN s ELSE steps[n]]

\* The control check finds the time used up and leaves the steps alone, or
\* finds a cancel request.
ControlExpires ==
    /\ phase = "loop" /\ local.queue # << >>
    /\ wf.timed
    /\ UNCHANGED steps
    /\ EndRun("failed")

ControlCancels ==
    /\ phase = "loop" /\ local.queue # << >>
    /\ status = "cancelling"
    /\ MarkRemaining("cancelled")
    /\ EndRun("cancelled")

\* The process stops while the run is paused: the row keeps the state that
\* was saved last.
StopPaused ==
    /\ phase = "loop" /\ local.queue # << >>
    /\ status = "running"
    /\ status' = "paused"
    /\ Leave
    /\ UNCHANGED <<wf, saved, steps, output, source, retries>>

\* The next node of the queue, unless it has been executed.
NextNode ==
    /\ phase = "loop" /\ local.queue # << >>
    /\ status # "cancelling"
    /\ LET n == Head(local.queue)
       IN  /\ local' = [local EXCEPT !.queue = Tail(@), !.enqueued = @ \ {n}]
           /\ IF n \in local.executed
              THEN UNCHANGED <<phase, current, steps>>
              ELSE /\ phase' = "exec"
                   /\ current' = n
                   /\ steps' = [steps EXCEPT ![n] = "running"]
    /\ UNCHANGED <<wf, status, fan, results, saved, output, source, retries>>

\* Mutant: the set of queued nodes is forgotten.
PutBackUnmarked(state) == [state EXCEPT !.queue = <<current>> \o @]

\* The node goes back to the head of the queue.
PutBack(state) == [state EXCEPT !.queue = <<current>> \o @,
                                !.enqueued = @ \union {current}]

Undecided == current \in wf.approvals /\ local.decision[current] = NoRoute

\* The node asks for an approval: the run waits and the worker leaves.
Wait ==
    /\ steps' = [steps EXCEPT ![current] = "waiting_human"]
    /\ status' = "waiting_human"
    /\ saved' = PutBack(local)
    /\ Leave
    /\ UNCHANGED <<wf, output, source, retries>>

\* An approval node without a decision.
NodeWaits == phase = "exec" /\ Undecided /\ Wait

\* The effect of an output with route r on the context, the steps and the
\* results.  An approval node outputs its decision.
Complete(r, tries) ==
    /\ local' = [local EXCEPT
                    !.attempts[current] = tries,
                    !.route[current] = r,
                    !.executed = @ \union {current},
                    !.decision = IF current \in wf.approvals
                                 THEN [@ EXCEPT ![current] = r] ELSE @]
    /\ steps' = [steps EXCEPT ![current] = "succeeded"]
    /\ output' = [output EXCEPT ![current] = r]
    /\ results' = Append(results, current)
    /\ fan' = Selected(wf, current, r)
    /\ phase' = "edges"
    /\ UNCHANGED <<wf, status, current, saved, source, retries>>

NodeSucceeds ==
    /\ phase = "exec"
    /\ ~Undecided
    /\ \E r \in IF current \in wf.approvals
                THEN {local.decision[current]} ELSE wf.routes[current] : Complete(r, 0)

MaxAttempts(n) == IF n \in wf.retried THEN 2 ELSE 1
Attempt == local.attempts[current] + 1

\* Mutant: an attempt that is not counted.
NodeRetriesUncounted ==
    /\ phase = "exec"
    /\ Attempt < MaxAttempts(current)
    /\ local' = PutBack(local)
    /\ saved' = local'
    /\ phase' = "loop"
    /\ UNCHANGED <<wf, status, current, fan, results, steps, output, source, retries>>

\* The node failed and has an attempt left.
NodeRetries ==
    /\ phase = "exec"
    /\ Attempt < MaxAttempts(current)
    /\ local' = PutBack([local EXCEPT !.attempts[current] = Attempt])
    /\ saved' = local'
    /\ phase' = "loop"
    /\ UNCHANGED <<wf, status, current, fan, results, steps, output, source, retries>>

\* The node failed for the last time and has a fallback output.
NodeFallsBack ==
    /\ phase = "exec"
    /\ Attempt >= MaxAttempts(current)
    /\ current \in wf.fallback
    /\ \E r \in wf.routes[current] : Complete(r, Attempt)

\* The node failed and with it the run: its step is the one that is running.
NodeFails ==
    /\ phase = "exec"
    /\ Attempt >= MaxAttempts(current)
    /\ current \notin wf.fallback
    /\ steps' = [steps EXCEPT ![current] = "failed"]
    /\ EndRun("failed")

\* The credential of the node cannot be decrypted: that happens outside the
\* try that retries, and fails the run at the first attempt.
CredentialFails ==
    /\ phase = "exec"
    /\ current \in wf.secrets
    /\ steps' = [steps EXCEPT ![current] = "failed"]
    /\ EndRun("failed")

\* Mutant: a join waits for one token too many.
ReadyLate(n, tokens) == n \in wf.joins => tokens > wf.need[n]

Ready(n, tokens) == n \in wf.joins => tokens >= wf.need[n]

\* The selected edges are followed in turn.
FollowEdge ==
    /\ phase = "edges"
    /\ \E i \in fan :
        /\ \A j \in fan : Before(wf, i, j)
        /\ fan' = fan \ {i}
        /\ LET n      == wf.edges[i].to
               tokens == local.tokens[n] + (IF n \in wf.joins THEN 1 ELSE 0)
               enter  == /\ Ready(n, tokens)
                         /\ n \notin local.executed
                         /\ n \notin local.enqueued
           IN  local' = [local EXCEPT
                    !.inputs[n] = @ \union {current},
                    !.tokens[n] = tokens,
                    !.queue = IF enter THEN Append(@, n) ELSE @,
                    !.enqueued = IF enter THEN @ \union {n} ELSE @]
    /\ UNCHANGED <<wf, status, phase, current, results, saved, steps, output,
                   source, retries>>

\* The last edge has been followed: the state is saved.
SaveState ==
    /\ phase = "edges"
    /\ fan = {}
    /\ saved' = local
    /\ phase' = "loop"
    /\ UNCHANGED <<wf, status, current, fan, local, results, steps, output,
                   source, retries>>

\* The queue is empty: whatever the status has become, the run succeeded.
RunSucceeds ==
    /\ phase = "loop" /\ local.queue = << >>
    /\ MarkRemaining("skipped")
    /\ EndRun("succeeded")

-----------------------------------------------------------------------------
(* Requests                                                                *)

\* A waiting run is decided: the decision is put in the saved context, and
\* the run is resumed.
Decide ==
    /\ status = "waiting_human" /\ phase = "off"
    /\ \E r \in {"approved", "rejected"} :
        saved' = [saved EXCEPT !.decision[Head(saved.queue)] = r]
    /\ status' = "queued"
    /\ UNCHANGED <<wf, phase, current, fan, local, results, steps, output,
                   source, retries>>

ResumePaused ==
    /\ status = "paused"
    /\ status' = "queued"
    /\ UNCHANGED <<wf, phase, current, fan, local, results, saved, steps, output,
                   source, retries>>

RequestCancel ==
    /\ \/ status = "running" /\ status' = "cancelling"
       \/ status \in {"queued", "paused", "waiting_human"} /\ status' = "cancelled"
    /\ UNCHANGED <<wf, phase, current, fan, local, results, saved, steps, output,
                   source, retries>>

\* A new run takes over from the first failed or cancelled step.
RetryFromFailedStep ==
    /\ status \in Ended /\ phase = "off"
    /\ retries < MaxRetryRuns
    /\ \E n \in Nodes :
        /\ steps[n] \in {"failed", "cancelled"}
        /\ \A m \in Nodes : m < n => steps[m] \notin {"failed", "cancelled"}
        /\ source' = [from |-> n, output |-> output]
    /\ status' = "queued"
    /\ saved' = None
    /\ steps' = [n \in Nodes |-> "pending"]
    /\ output' = [n \in Nodes |-> None]
    /\ retries' = retries + 1
    /\ UNCHANGED <<wf, phase, current, fan, local, results>>

-----------------------------------------------------------------------------
Work == \/ StartFresh \/ StartRetry \/ StartRestored
        \/ ControlExpires \/ ControlCancels \/ StopPaused \/ NextNode
        \/ NodeWaits \/ NodeSucceeds \/ NodeRetries \/ NodeFallsBack \/ NodeFails
        \/ CredentialFails
        \/ FollowEdge \/ SaveState \/ RunSucceeds

Next == Work \/ Decide \/ ResumePaused \/ RequestCancel \/ RetryFromFailedStep

Spec == Init /\ [][Next]_vars

-----------------------------------------------------------------------------
(* Properties                                                              *)

TypeOK ==
    /\ wf \in Chart
    /\ status \in {"queued", "running", "cancelling", "paused", "waiting_human"} \union Ended
    /\ phase \in {"off", "loop", "exec", "edges"}
    /\ current \in Nodes \union {0}
    /\ fan \subseteq DOMAIN wf.edges
    /\ local \in States
    /\ results \in Seq(Nodes)
    /\ saved \in States \union {None}
    /\ steps \in [Nodes -> StepStatuses]
    /\ output \in [Nodes -> Routes \union {NoRoute, None}]
    /\ source \in Source \union {None}
    /\ retries \in 0..MaxRetryRuns

Distinct(s) == \A i, j \in DOMAIN s : s[i] = s[j] => i = j

\* The set `enqueued` mirrors the queue, no node is queued twice, and no
\* executed node is queued: the test of NextNode never skips a node.
Coherent(state) ==
    /\ state.enqueued = Range(state.queue)
    /\ Distinct(state.queue)
    /\ state.enqueued \cap state.executed = {}

QueueCoherent == Coherent(local) /\ (saved # None => Coherent(saved))

\* The results of a run list every step that produced an output exactly once,
\* across approvals, retries and copied steps, and agree with what the worker
\* believes it has executed.
ResultsMatchSteps ==
    phase = "loop" =>
        /\ Distinct(results)
        /\ Range(results) = local.executed
        /\ local.executed = {n \in Nodes : steps[n] \in {"succeeded", "copied"}}

\* A join is executed when its inputs are there: as many tokens as it needs,
\* each of them an edge that an executed node activated.
JoinsHaveTheirInputs ==
    phase = "exec" /\ current \in wf.joins /\ source = None
        /\ current \notin Range(wf.roots) =>
        /\ local.tokens[current] >= wf.need[current]
        /\ local.tokens[current] = Cardinality(Abstract!ActiveInto(current))
        /\ local.inputs[current] =
              {wf.edges[i].from : i \in Abstract!ActiveInto(current)}

\* The queue, the tokens and the saved state execute exactly the nodes that
\* Activation says, and a run that is no retry succeeds only when none of
\* them is left.
ImplementsActivation == Abstract!Spec
=============================================================================
