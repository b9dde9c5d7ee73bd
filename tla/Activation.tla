----------------------------- MODULE Activation -----------------------------
(***************************************************************************)
(* What executing a workflow means, with no queue, no saved state and no   *)
(* table of steps: starting from its roots, every node that the outputs    *)
(* so far activate is executed once, in some order, and the run succeeds   *)
(* when no activated node is left.  A new run may take over from an ended  *)
(* one.  WorkflowEngine implements it.                                     *)
(***************************************************************************)
EXTENDS WorkflowCharts

VARIABLES
    wf,         \* the workflow of the run
    starts,     \* the nodes it starts from
    executed,   \* the nodes that have been executed
    route,      \* the route in the output of every executed node
    ended       \* "no", "succeeded", or "other" for a failure or a cancel

vars == <<wf, starts, executed, route, ended>>

\* The active edges into node n.
ActiveInto(n) ==
    {i \in UNION {Selected(wf, m, route[m]) : m \in executed} : wf.edges[i].to = n}

Roots(w) == {w.roots[i] : i \in DOMAIN w.roots}

Activated(n) ==
    \/ n \in starts
    \/ n \notin wf.joins /\ ActiveInto(n) # {}
    \/ n \in wf.joins /\ ActiveInto(n) # {} /\ Cardinality(ActiveInto(n)) >= wf.need[n]

Init ==
    /\ wf \in Workflows
    /\ starts = Roots(wf)
    /\ executed = {}
    /\ route = [n \in Nodes |-> NoRoute]
    /\ ended = "no"

Execute(n) ==
    /\ ended = "no"
    /\ n \notin executed
    /\ Activated(n)
    /\ \E r \in Routes \union {NoRoute} : route' = [route EXCEPT ![n] = r]
    /\ executed' = executed \union {n}
    /\ UNCHANGED <<wf, starts, ended>>

Succeed ==
    /\ ended = "no"
    /\ \A n \in Nodes : Activated(n) => n \in executed
    /\ ended' = "succeeded"
    /\ UNCHANGED <<wf, starts, executed, route>>

Abort ==
    /\ ended = "no"
    /\ ended' = "other"
    /\ UNCHANGED <<wf, starts, executed, route>>

\* A new run takes over at node n, which need not have been activated, and
\* keeps what was executed before it.
Restart(n) ==
    /\ ended # "no"
    /\ ended' = "no"
    /\ starts' = {n}
    /\ executed' = {m \in executed : m < n}
    /\ route' = [m \in Nodes |-> IF m < n THEN route[m] ELSE NoRoute]
    /\ UNCHANGED wf

Next == (\E n \in Nodes : Execute(n) \/ Restart(n)) \/ Succeed \/ Abort

Spec == Init /\ [][Next]_vars
=============================================================================
