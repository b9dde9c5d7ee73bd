# A verification development for AWAP

AWAP is a workflow service: a FastAPI application over one SQL database, worker
threads that execute workflow runs, and scheduler threads that start them.  All
coordination goes through rows of the database; there is no other lock or
message between threads or processes.  This directory holds TLA+ specifications
of the parts where that is hard to get right, the TLC configurations that check
them on small instances, and TLAPS proofs for instances of any size.

Paths below are relative to `src/src/awap/` unless they start with `src/`.

## 1. Inventory

| Component | State | Operations | Module |
|---|---|---|---|
| Run queue, workers, run control (`service.py` 842-949, 991-1248; `repository.py` 774-941; `queue.py`, `worker.py`) | `workflow_runs.status`, `execution_state`; each worker's local variables; the stop event of a process | create, claim, start, control check, pause loop, end; pause, resume, cancel; shutdown, crash, restart | `RunLifecycle` |
| Execution of one run (`service.py` 991-1355, `runtime.py` 82-104) | queue, enqueued, executed, join tokens, attempts, context; the step rows; `execution_state` | start, restore, take a node, complete, retry, fall back, fail, follow edges, save; retry from the failed step | `WorkflowCharts`, `Activation`, `WorkflowEngine` |
| Human approvals (`service.py` 204-237, 1095-1125; `repository.py` 1094-1147) | `approval_tasks`, the run's status and saved context | look up and create a task, mark waiting, save; decide, merge, resume | `Approvals` |
| Admission (`service.py` 802-901; `repository.py` 823-830) | rows of runs by idempotency key and workflow | find by key, count, create, retry | `RunAdmission` |
| Versions (`service.py` 668-800; `repository.py` 591-772) | rows of `workflows`: content and state by version | create, overwrite, publish, import | `Versions` |
| Scheduler (`service.py` 951-989, `schedule.py`; `repository.py` 1381-1424) | `trigger_states`; the pass of each scheduler | pass, match, check the bucket, queue, upsert | `Scheduler`, `Cron` |
| Events and their stream (`service.py` 1578-1596, `api/app.py` 624-649; `repository.py` 1200-1218) | `workflow_run_events`; the offset of each stream | emit, list, close | `EventStream` |
| Validation and planning (`domain.py` 616-750) | none (pure) | validate, `_has_cycle`, `create_execution_plan` | `Planner` |
| Inline sub-workflows (`service.py` 1301-1306, 1357-1403) | the call stack of one worker, its frames | invoke, iterate, return, unwind | `SubWorkflows` |
| Environments, releases, readiness, policy (`service.py` 293-462, 1411-1482) | `workflow_environments`, `workflow_environment_releases` | create, ensure, check readiness, promote, select a version | `Releases` |
| Migrations (`migrations.py`) | `schema_migrations`, the tables, columns and indexes | boot, make, add, convert, ensure, record; crash, restart | `Migrations` |
| Payload storage (`service.py` 1484-1535, `artifacts.py`) | artifact files | prepare, materialise | `Payloads`, `NodeRuntime` |
| Node runtime (`runtime.py`) | an agent's memory in the run's context | tools, prompts, the agent's loop, reflection, guardrails; templates | `NodeRuntime`; decisions in `WorkflowEngine`; templates and paths are not modelled |
| Credentials, users (`security.py`, `auth.py`) | rows | create, resolve | not modelled: a library cipher, and look-ups |
| Knowledge, evaluation, templates, catalogue, providers | rows, constants | pure functions and calls to services | not modelled: floating-point ranking, I/O |
| HTTP routes, browser editor | none | one service method per route | not modelled, but for the stream |

**How they interact.**  A route calls one method of `WorkflowService`.  A method is
several repository calls, each a transaction of its own, so the unit of
interleaving is the repository call, and within one the read and the commit
where the second depends on the first (READ COMMITTED on PostgreSQL; SQLite's
legacy mode opens the write transaction at the first write).  Workers meet
requests in the run's row only; the scheduler and the API both enter
`_queue_run`; a decision on an approval writes the saved state of a run that a
worker wrote; publishing changes what the scheduler and the API execute next.

**What is hard, and what makes each component correct.**

* *Run control*: a claim is a select and a conditional update; requests decide on
  a status they read and then write without a condition; a paused run keeps its
  worker in a polling loop; a process can die at any point.  Correct: one worker
  per run, an active run has a worker, a request is obeyed within one node, an
  end is final, queued runs are reached.
* *Execution*: the queue, the tokens of joins and the attempts survive approvals
  and pauses in a saved state, while the list of results is rebuilt from the step
  rows.  Correct: exactly the nodes that the outputs activate are executed, once.
* *Approvals*: four transactions of the worker race with four of the operator.
  Correct: no gate is passed without the decision of a human, one task at a time,
  and a decision releases the run.
* *Admission*, *versions*, *triggers*: check-then-act over separate transactions.
  Correct: the limit, the key, the single published version and the single firing
  hold but for races, and races err by a bounded amount.
* *Sub-workflows*: a second copy of the engine, inside a node of the first, which
  may call itself.  Correct: it executes what the first one would, and returns.
* *Releases*: a version and a policy are checked several transactions before the
  release or the run is written.  Correct: what an environment has released was
  ready for it, and is what its runs execute.
* *Node runtime and payloads*: an attempt of an agent calls tools and models one by
  one, and whatever fails is repeated by this worker or, after a pause, by
  another, which has what was saved; a saved payload is files and a row, and each
  can fail by itself.  Correct: the memory and the number of attempts survive,
  the answer that is kept is one the guardrails accept, what is read back is what
  was stored, and a run ends as its step did.
* *Migrations*: every process migrates as it starts, nothing locks the schema, and
  a process can die between a migration and its record.  Correct: what is recorded
  is applied, and who serves has the whole schema.
* *Stream*: an offset into a list ordered by timestamps that precede the commits.
  Correct: nothing is skipped or repeated, and the stream ends.

PROJECT.json lists every hazard at its line with the properties that cover it.

## 2. Modules, and how they correspond to the code

`RunLifecycle`.  `status`, `order` and `saved` are the row of a run; `pc`, `held`
and `local` are the threads in `_worker_loop` and `_execute_workflow_run`; `stop`
is the event that `shutdown` sets; `request` is what an API thread has read and
not yet committed.  Each repository call is an action.  A write of a worker does
not depend on what it reads in the same call, so it is one action; a request is
`ReadRow` and `CommitRow`.  What a node does is abstracted to success, failure or
a request for approval, and the run to the number of nodes that are left.
`stale`, `orphan`, `late` and `requeues` are history variables that state the
exact boundary of the properties.

`WorkflowCharts`, `Activation`, `WorkflowEngine`.  A chart is a workflow as the
engine sees it; nodes are named by their index in the plan.  `Activation` says
what executing a chart means, with no queue and no saved state: repeatedly, any
node that the outputs so far activate is executed; the run succeeds when none is
left.  `WorkflowEngine` is the code: FIFO queue, `enqueued` set, join tokens,
attempts, the edges followed one by one in the order in which `select_edges`
returns them, the state saved after each node, retries that put the node back at
the head, fallback outputs, approvals, a timeout or a cancel at the control
check, a process that stops while its run is paused, and a new run retried from
the failed step.  It is shown to implement `Activation` (property
`ImplementsActivation`, an INSTANCE with a refinement mapping from the step rows).

`SubWorkflows` extends `WorkflowEngine` with nodes that call: a stack of frames, each
with the variables of `_execute_inline_workflow`.  What an inner node raises
unwinds all of it, and the node of the run then fails, or waits for a human.
Inner retry policies are read by nothing and are not there.  The ids of a called
workflow and of the run around it may coincide, and do here: an approval inside
is decided under its own id in the context of the run, so a decision of the one
passes the other.  `MaxDepth` is the stack of the thread: a call beyond it fails
the node, as a `RecursionError` does.  `InlineAgrees` reads every frame as a state
of `Activation`, the specification that the outer engine implements.

`Approvals`.  One run as a sequence of approval nodes; each transaction of
`_execute_workflow_run` and of `decide_approval_task` is an action.  `rushed`
records that an operator opened a task or resumed the run before its worker had
left it, or while another request was at work.

`RunAdmission`.  `_queue_run` as find by key, count, create; `retry_workflow_run`,
which counts nothing; the end of runs.

`Versions`.  The rows of one workflow, by version.  A request is a list of jobs, so
that an import is the saves and publications it performs; each job is its
transactions.  `raced` records that a request began while another was at work.

`Releases` extends `Versions` with the environments of the service: `ensure` and
`create` (a merge, so a select and a write), a promotion, and a run in an
environment, which selects the released version, or else the latest published
one, or else the latest one.  Readiness reads the version and then the policy;
its verdict is the constant relation `Ready`, of contents and policies, which
stands for the checks of providers, hosts, paths and credentials.  `stale` and
`outdated` say for which request, and for which release or queued run, what was
checked has changed since.

`Migrations`.  Each process executes the migrations it has not found recorded,
statement by statement.  A migration makes all missing tables (in one transaction
on PostgreSQL, one by one on SQLite), looks at the columns of each table and adds
the absent ones, and has its own remainder: the conversion of credentials and the
table of users (2), the indexes (7), the vectors (8).

`Scheduler`.  Each scheduler is a thread in `_scheduler_loop`; a pass keeps the
bucket in which it began.  `Cron` is `schedule.py`: the fields of an expression, what
each part of a field matches, and which expressions raise an error instead.  The
model evaluates them at `Clock`; the properties do not: they use a table that
says for each expression of the instance, by hand, in which minutes it is due and
in which it raises (`TableIsRight` compares the two).  The upsert is a select and a write; the unique constraint does not bind because
the scheduler's rows have a NULL environment.

`EventStream`.  Emitters take a timestamp and then commit; the follower lists from
its offset, sends, and then reads the status.

`Planner`.  The two passes of Kahn's algorithm, with parallel edges, self-loops and
dangling edges, and the verdict of `validate`.  `max_outgoing_edges` is set for no
node type of the catalogue and has no counterpart; warnings are left out.

`Payloads`.  A payload is a tree of leaves with sizes; `Prepared` is
`_prepare_stored_payload`, which replaces large parts by references to files and, if
that is not enough, the whole; `Materialised` is the way back, which takes the
content of a file as it is.  A leaf may be data that JSON cannot express: a file
gets its text (`default=str`), a JSON column refuses it.  Payloads are `Nested` at
most `MaxDepth` deep, and what traverses them is a recursive function on that set.

`NodeRuntime` extends `Payloads` with a run of one node, which is a tool, a prompt
or an agent.  `local` is the context of the worker, `said` what this attempt has
heard, `happened` what all attempts have.  Every payload the run stores is two
steps, `WriteFiles` and `WriteRow` (or `RefuseRow`): the state before and between
attempts, the output of the step, the state again, the result of the run, and the
last event, which repeats a part of it redacted.  An error in one of them goes
where the `try` of `_execute_workflow_run` sends it: most fail the run, those
outside the `try` leave it as it is.  Pauses hand the node from worker to worker,
a process may die anywhere, the disk may be full and the files may be gone.

The theorems are in `RunLifecycleProofs`, `SchedulerProofs`, `MigrationsProofs` and
`ApprovalsProofs`, in `SubWorkflowsProofs` (with those about `WorkflowEngine`), in
`ReleasesProofs` (with those about `Versions`), in `NodeRuntimeProofs` (with those
about `Payloads`) and in `RequestProofs`, which has those about the three small
modules of what a request meets: `RunAdmission`, `EventStream` and `Planner`.  The
`MC*` modules give the constants their values.

## 3. Runs

| Run | Instance | What it shows |
|---|---|---|
| `RunLifecycle_safety` | 1 run, 2 workers, 2 requests, timeouts, crashes, approvals, 2 attempts, 1 requeue | `ExclusiveUntilRequeued`, `PromptStop`, `ActiveRunHasWorker`, `TerminalIsFinal`, `NoNodeAfterEnd` |
| `RunLifecycle_liveness` | 2 runs, 1 worker, 1 request, shutdowns and restarts | `RequestsAreAnswered`, `EveryRunSettles` |
| `SubWorkflows` | all charts of 4 nodes with every choice of joins, with a decision or an approval, and those charts called by another; four with decisions, retries, fallbacks, secrets, two triggers, timeouts; charts that call others, themselves (depth 3), an invalid or an unknown one, once or per item; 1 retried run | `ImplementsActivation`, `QueueCoherent`, `ResultsMatchSteps`, `JoinsHaveTheirInputs`; `InlineAgrees` for the inner engine; `CallingRunEnds` |
| `Approvals` | 2 gates, 2 workers, 1 operator beside resume and cancel, 3 tasks | `OnePendingTask` and `DecisionsAreHuman` in every race; `GatesPassedOnce` and `WaitingEnds` without a rush |
| `RunAdmission_races` | 4 runs, 2 requests, 2 keys, limit 2, retries | the limit and the key err by one per racing request; a repeat is answered |
| `Releases_races` | 2 actors, 3 requests, 3 versions, valid and invalid contents, imports, 1 environment, 2 policies of which one refuses | no gap in the versions; as many published ones as racing requests, one without a race, and that one valid; `ReleasedIsReady`, `EnvironmentRunsItsRelease` |
| `Scheduler` | 1 or 2 schedulers, 2 workflows, the 2 minutes around the end of a month, 13 cron expressions of every form, a crash, a refused run, a republished workflow | `NoMinuteIsMissed`, `FiresOncePerMinute`, `OneRowPerScheduler` |
| `EventStream_follow` | 5 events of the worker, 2 requests | `SentIsAPrefix`, `StreamCloses` |
| `Planner_graphs` | every graph of 3 nodes, those of 4 nodes with 3 or 4 edges, parallel, default and dangling edges | `PlanIsTopological`, `CycleIsFound` |
| `NodeRuntime` | 10 configurations of tools, prompts and agents with up to 2 tools, turns and attempts; small and large inputs, outputs that JSON cannot express; no limit, one below a reference, one above; 1 pause, 1 crash, a full disk, lost files | `MemoryIsKept`, `ResponseIsGuarded`, `CallsAreCounted`, `StoredIsWhole`, `RunEndsWithItsStep` |
| `Migrations` | 2 processes, 2 crashes, both dialects; a new database or one of any earlier release (0 to 8 migrations); 4 tables, 5 columns, 2 indexes | `RecordedIsApplied`, `ServingIsComplete`, `EverybodyServes` |
| `RunLifecycle_parked_cancel` | 1 run, 1 worker, 1 request | a counterexample, see section 6 |

**Bounds.** Two threads of a kind are what a lost update, a double claim or a
stale read needs; a third adds no pattern, as every transaction involves one row
and one other writer.  One requeue is what puts a second worker beside a parked
one.  Four nodes give a diamond, with a join, a decision and an approval on its
branches, and a node after a join.  Two attempts tell a counted attempt from an
uncounted one.  Two minutes contain the end of a minute within a pass, and the
second pass in the same minute.  Depth 3 lets a called workflow call again and
the next call fail.  The four tables of `Migrations` are one for each way to
come to be: the first release, `create_all` of migration 1 or of a later one,
and the statement of migration 2; its columns lie in old and in new tables.
In `NodeRuntime` a reference has size 2: the limit 1 makes every payload a file,
as a reference exceeds it too; the limit 9 is exceeded by some states and outputs,
of which some fit once their large part is a file and others do not; 0 is no
limit.  Agents have more tools than turns, as many and fewer, and no turn at all.
One pause and one crash put three workers after one another.

Type invariants are not among the runs: those of all modules that have variables
are proved.

The passing runs check deadlock off: a run that has ended, a stream that is
closed and a plan that is made may stop.

**Fairness.** A worker thread loops until its stop event is set, so its step is
weakly fair; a supervisor restarts a process, so restart is weakly fair, and a
crash or shutdown is not fair at all.  Operators owe nothing, except that a
request that has read a row goes on to commit; only `CallingRunEnds` and
`WaitingEnds` assume that somebody decides what waits for a decision.  A process
whose migration failed is started again (`EverybodyServes`), and crashes are
bounded.  The follower of a stream is a loop, weakly fair.  `EveryRunSettles`
also assumes that shutdowns stop at some time, and says so in its formula.

## 4. What is proved

All safety properties that the passing runs check are proved (two of `Scheduler` from
`TableIsRight`, which is about the table of an instance).  For each module the
theorems are named, then the inductive invariant, and why the property alone is not
inductive.

`RunLifecycleProofs`, for any number of runs, workers, requests and nodes:

* `TypeCorrect` (`Spec => []TypeOK`) and `ExclusiveExecution`
  (`Spec => []ExclusiveUntilRequeued`).  Exclusion is not inductive: a worker that
  has selected a candidate but not claimed it must be shown to fail when another
  one claimed it first, which needs that a run which is queued and was never
  requeued is held by nobody (`UnclaimedIsUnheld`), and that a worker's place
  determines whether it has a run and a queue (`WorkersOK`).
* `ActiveRunsAreHeld` (`ActiveRunHasWorker`).  `Attended` says more of the worker that
  an active run has: it is `Engaged`, which a parked worker is not; so the worker
  that leaves a run takes its active status along.  Each step is
  shown to take no run's last engaged worker away and to make no run active
  without one (`AttendedStep`).
* `StopsPromptly` (`PromptStop`).  In a run that nobody resumed and no stale request
  wrote, the status agrees with the place of its worker (`Tracked`); so a node
  that starts although the run is to stop is followed by a control check that
  sees it (`Heeded`).
* `NoNodeStartsAfterEnd` (`NoNodeAfterEnd`) and `TheEndIsFinal` (`TerminalIsFinal`), action
  properties, from `Tracked`: where a worker starts a node or writes a status, a
  run that is not excused is not ended.

`RequestProofs` on `RunAdmission`, for any number of requests, runs and keys and any
limit: `AdmissionTypeCorrect`, `LimitExceededByRaces`, `KeySharedByRaces`, `RepeatAnswered`.  The
invariants count what is admitted together with the requests that have passed
the check and not yet created their run (`AdmissionBound`, `KeyBound`): a request
passes the check only below the limit, so the sum is at most the limit and one
for every other request.  A key with a run keeps it (`KnownIsThere`).

`SchedulerProofs`, for any number of schedulers, workflows, versions, minutes and
crashes, and any cron expressions: `TypeCorrect`, `RowsAreFew`, `FiresOnce` and
`NothingIsMissed`.  A row is inserted by a scheduler that looked for one in vain
before, so the rows are counted together with the schedulers that are about to
insert (`RowsBounded`).  A lone scheduler fires once because the buckets in the
rows are never later than its own, and every minute in which it has started a run
is `Covered`, by a row or by the row it is about to write, but for one minute per
crash (`OnceBy`).  Nothing is missed because the workflows that a pass has come by
are fired, the rows lie about no run, and a scheduler that has ended a pass in a
minute has come by all of them (`KeptUp`).  The last two assume `TableIsRight`:
that the table of due minutes which the properties use says what `CronMatches`
and `CronRaises` say; TLC evaluates it for the instance.

`MigrationsProofs`, for any number of processes and crashes, and any tables,
columns and indexes: `TypeCorrect`, `RecordedApplied` and `ServingComplete`.  A
process acts on what it read of the schema before, so `RecordedIsApplied` is not
inductive: the invariant says for every place of a process what it has done so
far of the migration it executes (`ProcessOK`: the migrations before it are
recorded; the tables that are missing are still to be made; the columns of the
tables that are there have been added, are to be added, or their table is still
to be looked at; and what else the migration does).  The schema only grows, and a
table that is new comes with all its columns (`Grows`); so what one process has
done stays true whatever the others do (`OthersStay`), and only the process that
acts needs a proof by its actions.  `ServingComplete` follows at the last
migration.  It rests on `TablesAssumption`: new tables came with a migration that
makes all tables (1 and 3 to 7), but for `workflow_users`, which migration 2
makes and no migration adds columns to.

`SubWorkflowsProofs`, for any number of nodes, any charts and libraries, any depth
and any number of retried runs: `TypeCorrect`, `QueueIsCoherent`,
`ResultsAreTheSteps`, `JoinsAreComplete`, and two refinements: `Implements`, that the
engine of a run implements `Activation`, and `InlineImplements`, that every frame of
the inline engine agrees with it (`InlineAgrees`).  Both engines are shown by one
argument.  An edge is followed once its source has run and selected it; those
followed so far make exactly those nodes `Due` that have run, are executed now or
are queued, and the tokens of a join count its followed edges (`Counted`).  For a
run this is `Faithful`, of the worker's variables and of the saved state, since
either may be the one that continues; `Working` and `Resting` say which of them
is current in each phase, and `Copying` what a retried run took over.  For a
frame it is `FrameOK`, of every frame in the stack, of which all but the last wait
at the node that called.  With it each step maps to the execution of a node that
is activated, to the end of a run in which nothing activated is left, or to a
stutter.  That following an edge makes no node due that was not activated, and
that the tokens do not depend on the order of the edges, are lemmas on finite sets.

`ApprovalsProofs`, for any number of workers, operators, gates and tasks, in two
stages.  In any use (`AnyUse`): `TypeCorrect`, `TasksAreSingle` (`OnePendingTask`)
and `DecisionsComeFromHumans` (`DecisionsAreHuman`).  The look-up of a task and its
creation are two transactions; between them the run is running, so no other
worker can claim it (`OneActive`), and the worker has found no task
(`Undecideds`).  Decisions lie in the row of the run, in the workers' variables
and in what operators have read, and each of these shows only what was submitted
(`StatesAreHuman`); hence it does not matter which overwrites which.  Unless an
operator rushes (`UnlessRushed`): `GatesArePassedOnce` (`GatesPassedOnce`).  Then
those at work on the run follow one another (`OneActor`) and see the same state
(`OneState`), the tasks are those of the gates up to the one that is reached
(`PassedInOrder`), and the state shows the decision of the task once the operator
has written it (`DecisionsDelivered`).

`ReleasesProofs`, for any number of requests, versions and environments, any
contents, any policies and any relation `Ready`: `TypeCorrect`, `NumbersHaveNoGap`
(`VersionsAreContiguous`), `FewPublished` (`PublishedByRacesOnly`), `PublishedValid`,
`ReleasedReady` and `RunsTheRelease` (`EnvironmentRunsItsRelease`, an action
property).  A request saves the number after the largest it has read, and rows
do not vanish, so the number before it is there when it writes (`Numbered`).
That there are as many published versions as requests at most is not inductive,
as a publication resets only what it has read: every published version has a
request as its `owner`, another one for each, which has seen it if it is about to
publish (`Owned`).  Without a race there is one request at a time, and what it
has read is still so (`Alone`).  Likewise a request that is not stale has checked
the content and the policy that are still there (`Fresh`), and what is released,
queued or selected exists (`ReferencesOK`).

`RequestProofs` on `Planner`, for any finite set of nodes and any sequence of edges:
`PlannerTypeCorrect`, `PlansAreTopological` (`PlanIsTopological`) and `CyclesAreFound`
(`CycleIsFound`).  A pass keeps for every node the number of edges into it from
nodes that are not visited (`Counts`), parallel edges included, and a node is
visited or queued just when that is none (`Orderly`).  So the visited nodes follow
all their predecessors (`Topological`), no set of nodes with a predecessor each
inside the set is ever entered (`Avoided`), and what is not visited when the queue
is empty is such a set: the graph has a cycle just when the count falls short.

`RequestProofs` on `EventStream`, for any number of events and emitters:
`StreamTypeCorrect` and `ClientsMissNothing` (`SentIsAPrefix`).  Until a request has
emitted an event, only the worker writes, and each of its timestamps is later than
those in the log; so a list in the order of the timestamps grows at its end, and
what lies before the offset stays what it was.

`NodeRuntimeProofs`, for any configuration, inputs, tools, models, guardrails and
limits, any number of attempts, pauses and crashes, and any disk that fills up or
loses files: `NodeTypeCorrect`, `MemoryKept` (`MemoryIsKept`), `ResponsesGuarded`
(`ResponseIsGuarded`), `CallsCounted` (`CallsAreCounted`), `StoredWhole` (`StoredIsWhole`)
and `RunEnds` (`RunEndsWithItsStep`).

* First, about `Payloads` alone: `PreparedKeeps`.  Whatever the payload and the limit,
  what goes into the row fits or is a reference, all its references lead to the
  files that were written, and row and files together hold the payload as JSON has
  it (`Keeps`).  Each recursive function is shown to exist on the payloads of depth
  `d`, for every `d` (`NestedDef`, `ReplaceDef`, `WithinDef`, `PrepareDef`), and then
  properties go from the atoms to all payloads (`Structure`).
* `StoredIsWhole` follows from `Rows`: what is in a column, or has its files written
  and its row not (`writing`), is `StoredAs` the payload it is for.  Files that are
  added, and files that are lost, leave that true (`StoredStill`).  A payload that
  is being written must therefore stay the same until its row is: `Tree` depends
  on the worker's variables, which no step changes in between (`TreeUnchanged`).
* `MemoryIsKept` and `CallsAreCounted` are not inductive, as a worker that takes the
  run up has its memory and its attempts from the row.  `Saved` says that wherever a
  run can be taken up, the state in its row is that of a worker that knows all that
  was said and has made no call in the attempt to come (`TakenUp`); that reading a
  state yields what was saved, as JSON has it, is `StateIsRestored`.  `Counted` says
  how far this attempt is: the tools it has called are one call ahead of the
  attempts, the next one is behind the tool before it.
* `ResponseIsGuarded` needs `Answered`: from the guardrails to the row, the answer is
  one that they accept, whatever place an error sends the worker to.
* `RunEndsWithItsStep` needs `Ends`, how the run and its step stand to each other at
  each place of the worker, and `Heard`: if all that was heard is JSON, then so is
  all that is stored (`TreeType`), so that a row which is refused shows that a tool
  returned something else.  At the start nothing is ever refused, since the memory
  has just been read from a row.

The assumptions are those named in the modules: finite sets of actors and nodes,
`None` outside the sets it is added to, positive bounds, charts whose edges follow
the order of their plan, contents that include a valid one, `approved` and `rejected`
among the routes.  For `NodeRuntime`, inputs are JSON, since they came as that;
drafts are texts; what comes from outside is taken to hold no reference (the key
`awap_artifact_ref` is the service's own); the fallbacks are not what the guardrails
object to; and `MaxDepth` is at least four more than the depth of what comes from
outside, as the state puts it that deep.  TLC evaluates each on the instance of a run.

Only model-checked:

* liveness: `RequestsAreAnswered`, `EveryRunSettles`, `CallingRunEnds`, `WaitingEnds`,
  `StreamCloses`, `EverybodyServes`.  The prover has no rules for `ENABLED`, which
  fairness is about;
* `TableIsRight` of `Scheduler`: what cron expressions mean is evaluated, not proved.

## 5. Plan

1. *Done*: the modules above, in the order of section 1, and the proofs of section 4.
2. The first start of a service after its migrations (`ensure_bootstrap_user`,
   `ensure_environment`), as further steps of `Migrations`.

## 6. Where the code differs from what it says

Shown by a run that finds a counterexample:

* `RunLifecycle_parked_cancel`: a cancel of a paused run writes `cancelled` at
  once (`repository.py` 905-907), and the pause loop looks for `cancelling` and
  `queued` only, so the worker parked on the run polls for ever.  The loop's
  message at `service.py:1241`, "Workflow run cancelled while paused.", is for a
  case that a cancel of a paused run does not reach.

Visible in the model, without a run of its own: the stream lists, the worker ends
the run, the stream reads the status and closes without the last event
(`service.py` writes the status first; `api/app.py:637`), which
`src/tests/test_runs.py:207` expects to be there.  `SentIsAPrefix` holds, as what
was sent is a prefix.

Visible as the exact condition in a property that holds:

* `requeues` in `ExclusiveUntilRequeued`: after a resume, the worker parked on the
  run and a worker that claims it can both execute it (`service.py` 1244-1246
  writes `running` without a condition), although `src/README.md:554` speaks of
  leases; `lease_expires_at` is written and never read, so the run of a dead
  worker stays `running` (`orphan` in `ActiveRunHasWorker`).
* `stale` in `TerminalIsFinal`: a pause, resume or cancel that read before the run
  ended overwrites its terminal status.
* `RequestsAreAnswered` counts a wait as an answer: `mark_run_waiting_human`
  (`repository.py` 877-886) overwrites a cancel that arrives while an approval node
  is executed.
* The mapping of `ended` in `WorkflowEngine`: a run retried from its failed step
  queues that step alone, so branches that its copied steps had activated are
  never executed and are shown as skipped, and the step may be one that was never
  activated (`service.py` 1023-1052, 882-899).  Likewise a run that ends between
  two attempts leaves the step of its node `running` (`service.py` 1290-1299).
* `rushed` in the properties of `Approvals`: a decision between the creation of the
  task and the save of the worker is overwritten by that save (`service.py`
  1112-1125), and the run then waits without a pending task.
* `retried` in `LimitExceededByRacesOnly`: `retry_workflow_run` looks at no limit.
* `raced` in `PublishedByRacesOnly`: two publications that both read before either
  commits leave two published versions (`repository.py` 759-769), where
  `src/README.md:42` promises that publishing resets the others.
* `outdated` in `ReleasedIsReady`: a version that is released can be overwritten by
  an import, and the policy of its environment replaced, and nothing checks the
  release again; a run is checked before it is queued and not when it executes.
  `src/README.md:77` speaks of enforcing readiness at both places.
* `AsksInside` in `CallingRunEnds`: an approval inside a sub-workflow is decided in
  the context of the outer run (`service.py` 212-232), which the inner node never
  sees (`service.py:1371`): it asks again, for ever.
* `EverybodyServes`, and not at once: processes that start together make each other
  fail on `CREATE TABLE`, `ALTER TABLE` and the record of a migration, and serve
  after a restart, which `src/README.md:334` does not mention.  The indexes that
  SQLAlchemy makes after a table are lost on SQLite if the process dies between
  the two; migration 7 restores those it lists and no others, which are not
  modelled.  Nor is that on PostgreSQL `CREATE ... IF NOT EXISTS` may itself fail
  when two processes race: it would end the start of one, as the errors that are
  modelled do.
* `raced` in `PublishedIsValid`: a version can be overwritten after it was validated
  and before or after it is published; two saves can take the same number, and
  the second overwrites the first (`service.py` 683-701, `repository.py` 607-616).
* `RunEndsWithItsStep`: a run is marked as succeeded before its last event is
  written (`service.py` 1182-1210), so if that event cannot be written the handler
  fails a run that had succeeded and takes its result away.  Data that JSON cannot
  express, such as a binary column of a query, is refused by the row if the
  payload is small and stored as its text if it is large: the limit decides
  whether the run fails, and redaction can make the last event small enough for it
  to be refused after the result was not.
* `excused` in `RunEndsWithItsStep` and `StoredIsWhole`: reading the saved state and
  the first save are outside the `try` of the run (`service.py` 991-992, 1066),
  and so is what its handler does (1191-1208); a file that is gone or a full disk
  there leaves the run `running` with no worker.
* `raises` in `NoMinuteIsMissed`: an expression that `int` cannot read raises outside
  the handler of the pass (`service.py` 951-989), and workflows after it are not
  visited as long as it does.  The bounds of a field bind single values only, a
  range is not checked, and `*/n` counts from zero also where the field does
  from one (`schedule.py`).
* `OneRowPerScheduler` allows one row per scheduler, where
  `uq_trigger_state_scope` (`repository.py:427`) intends one in all.

## 7. What is not modelled, and why

The columns `locked_by` and `lease_expires_at` (written, never read), the audit
log, dead letters and observability queries (append-only, read by nothing that
acts), the browser editor (presentation), providers and the cipher (external),
ranking of knowledge chunks (floating point), evaluation, templates and the
catalogue (constants and a pure score).  Credentials and knowledge bases are rows
that one transaction writes and others look up.  In `WorkflowEngine` the data in
payloads is abstracted to the route an output carries, as nothing else decides
what happens next; in `NodeRuntime` to identity and size.  Template strings and
the paths into payloads are wording.  `RunLifecycle` takes it that events can be
written; `NodeRuntime` shows what happens when the last one cannot.
