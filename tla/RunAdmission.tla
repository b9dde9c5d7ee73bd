---------------------------- MODULE RunAdmission ----------------------------
(***************************************************************************)
(* The admission of runs of one workflow.  A request to start a run looks  *)
(* for a run with its idempotency key, counts the active runs against the  *)
(* workflow's limit, and creates the run: three transactions, with other   *)
(* requests (API calls, webhooks and the scheduler's) between them.  A     *)
(* retry creates its run without a look at either.                         *)
(***************************************************************************)
EXTENDS Naturals, FiniteSets

CONSTANTS
    Runs,       \* rows of workflow_runs that may be created
    Requests,   \* the threads that start runs
    Keys,       \* idempotency keys
    Limit,      \* settings.max_concurrent_runs
    None        \* no idempotency key

ASSUME RequestsAssumption == IsFiniteSet(Requests) /\ IsFiniteSet(Runs)
ASSUME LimitAssumption == Limit \in Nat \ {0}
ASSUME KeysAssumption == None \notin Keys

VARIABLES
    status,     \* "absent", "active" or "ended", of every run
    key,        \* its idempotency key
    retried,    \* TRUE: the run was made by retry_workflow_run
    pc,         \* where each request is
    wanted,     \* the key each request came with
    known       \* history: a run had that key when the request came

runVars == <<status, key, retried>>
vars    == <<runVars, pc, wanted, known>>

TypeOK ==
    /\ status \in [Runs -> {"absent", "active", "ended"}]
    /\ key \in [Runs -> Keys \union {None}]
    /\ retried \in [Runs -> BOOLEAN]
    /\ pc \in [Requests -> {"idle", "find", "count", "create", "refused", "found"}]
    /\ wanted \in [Requests -> Keys \union {None}]
    /\ known \in [Requests -> BOOLEAN]
    /\ \A r \in Runs : status[r] = "absent" => key[r] = None /\ ~retried[r]

Init ==
    /\ status = [r \in Runs |-> "absent"]
    /\ key = [r \in Runs |-> None]
    /\ retried = [r \in Runs |-> FALSE]
    /\ pc = [q \in Requests |-> "idle"]
    /\ wanted = [q \in Requests |-> None]
    /\ known = [q \in Requests |-> FALSE]

Active      == {r \in Runs : status[r] = "active"}
WithKey(k)  == {r \in Runs : status[r] # "absent" /\ key[r] = k}

Goto(q, place) == pc' = [pc EXCEPT ![q] = place]

\* A valid workflow is to be started, with or without a key.
Arrive(q) ==
    /\ pc[q] \in {"idle", "refused", "found"}
    /\ \E k \in Keys \union {None} :
        /\ wanted' = [wanted EXCEPT ![q] = k]
        /\ known' = [known EXCEPT ![q] = k # None /\ WithKey(k) # {}]
    /\ Goto(q, "find")
    /\ UNCHANGED runVars

\* Mutant: only the active runs are looked at.
Taken(k) == WithKey(k) \cap Active # {}

\* find_run_by_idempotency_key finds a run, however it ended.
Found(k) == WithKey(k) # {}

\* Mutant: a request that finds a run goes on all the same.
FindNothing(q) ==
    /\ pc[q] = "find"
    /\ Goto(q, "count")
    /\ UNCHANGED <<runVars, wanted, known>>

FindByKey(q) ==
    /\ pc[q] = "find"
    /\ Goto(q, IF wanted[q] # None /\ Found(wanted[q]) THEN "found" ELSE "count")
    /\ UNCHANGED <<runVars, wanted, known>>

\* Mutant: the comparison lets one more in.
BelowLimitOrAt == Cardinality(Active) <= Limit

BelowLimit == Cardinality(Active) < Limit

CountActive(q) ==
    /\ pc[q] = "count"
    /\ Goto(q, IF BelowLimit THEN "create" ELSE "refused")
    /\ UNCHANGED <<runVars, wanted, known>>

CreateRun(q) ==
    /\ pc[q] = "create"
    /\ \E r \in Runs :
        /\ status[r] = "absent"
        /\ status' = [status EXCEPT ![r] = "active"]
        /\ key' = [key EXCEPT ![r] = wanted[q]]
    /\ Goto(q, "idle")
    /\ UNCHANGED <<retried, wanted, known>>

\* retry_workflow_run looks at no limit, and its run has no key.
RetryRun ==
    /\ \E source, r \in Runs :
        /\ status[source] # "absent"
        /\ status[r] = "absent"
        /\ status' = [status EXCEPT ![r] = "active"]
        /\ retried' = [retried EXCEPT ![r] = TRUE]
    /\ UNCHANGED <<key, pc, wanted, known>>

EndRun(r) ==
    /\ status[r] = "active"
    /\ status' = [status EXCEPT ![r] = "ended"]
    /\ UNCHANGED <<key, retried, pc, wanted, known>>

Next ==
    \/ \E q \in Requests : Arrive(q) \/ FindByKey(q) \/ CountActive(q) \/ CreateRun(q)
    \/ RetryRun
    \/ \E r \in Runs : EndRun(r)

Spec == Init /\ [][Next]_vars
-----------------------------------------------------------------------------
(* Properties.  With one request at a time the first says that the limit   *)
(* is kept, and the second that a key has one run.                         *)

Admitted == {r \in Active : ~retried[r]}

\* "Workflow concurrency limit reached": the limit is exceeded by races and
\* by retries only.  The runs that were not made by a retry are at most the
\* limit and one for every other request in flight.
LimitExceededByRacesOnly == Cardinality(Admitted) <= Limit + Cardinality(Requests) - 1

\* A key has two runs only if the requests raced: at most one for each.
KeySharedByRacesOnly ==
    \A k \in Keys : Cardinality(WithKey(k)) <= Cardinality(Requests)

\* Repeating a request is safe: one whose key had a run when it came gets
\* that run, it is not refused for the limit and starts nothing.
RepeatIsAnswered ==
    \A q \in Requests : known[q] => pc[q] \in {"find", "found"}
-----------------------------------------------------------------------------
(* The inductive invariants: what is admitted, and what is about to be.    *)

Creating      == {q \in Requests : pc[q] = "create"}
Starting(k)   == {q \in Requests : pc[q] \in {"count", "create"} /\ wanted[q] = k}

AdmissionBound ==
    Cardinality(Admitted) + Cardinality(Creating) <= Limit + Cardinality(Requests) - 1

KeyBound ==
    \A k \in Keys :
        Cardinality(WithKey(k)) + Cardinality(Starting(k)) <= Cardinality(Requests)

\* A request whose key had a run when it came has a key with a run.
KnownIsThere ==
    \A q \in Requests : known[q] =>
        /\ pc[q] \in {"find", "found"}
        /\ wanted[q] # None
        /\ \E r \in Runs : status[r] # "absent" /\ key[r] = wanted[q]
=============================================================================
