------------------------------ MODULE Planner ------------------------------
(***************************************************************************)
(* Validation of a workflow and the execution plan: the two passes of      *)
(* Kahn's algorithm in domain.py, the one of _has_cycle, which visits the  *)
(* nodes in the order of the definition, and the one of                    *)
(* create_execution_plan, which sorts them.                                *)
(***************************************************************************)
EXTENDS Naturals, Sequences, FiniteSets, Functions

CONSTANTS Ids,        \* the ids that nodes have and edges name, in their order
          Workflows   \* the workflow definitions considered

Edge == [source : Ids, target : Ids, default : BOOLEAN]

ASSUME IdsAssumption == Ids \subseteq Nat

\* The ids of the nodes are unique (ensure_nodes_are_unique); "faulty" are
\* the nodes of an unknown type or without a required field.
Workflow == [nodes : SUBSET Ids, edges : Seq(Edge),
             triggers : SUBSET Ids, faulty : SUBSET Ids]

ASSUME WorkflowsAssumption ==
    \A w \in Workflows : /\ w \in Workflow
                         /\ IsFiniteSet(w.nodes)
                         /\ w.triggers \subseteq w.nodes

VARIABLES
    workflow,   \* the definition
    phase,      \* "check" of _has_cycle, "plan", and then "planned" or "refused"
    indegree,   \* the edges into a node from nodes that are not visited yet
    queue,      \* the nodes to visit
    ordered     \* the visited nodes; the plan, in the second pass

plannerVars == <<workflow, phase, indegree, queue, ordered>>

Nodes == workflow.nodes
Edges == workflow.edges

\* Edges without a missing end; the others are an error and are not counted.
Sound == {i \in DOMAIN Edges : Edges[i].source \in Nodes /\ Edges[i].target \in Nodes}

Into(n) == {i \in Sound : Edges[i].target = n}

Between(m, n) == {i \in Into(n) : Edges[i].source = m}

\* The sequences without repetition of all members of S, and the sorted one.
Orders(S) == {s \in [1..Cardinality(S) -> S] : IsInjective(s)}

Ascending(S) == {s \in Orders(S) : \A i, j \in DOMAIN s : i < j => s[i] < s[j]}

(***************************************************************************)
(* A pass starts with the nodes that have no incoming edge, visits the     *)
(* head of the queue and appends the neighbours it has freed.              *)
(***************************************************************************)
Start == {n \in Nodes : Into(n) = {}}

Indegrees == [n \in Nodes |-> Cardinality(Into(n))]

\* Mutants: parallel edges count once, a node is enqueued when it is reached.
LoweredOnce(m) ==
    [n \in Nodes |-> IF Between(m, n) # {} /\ indegree[n] > 0
                     THEN indegree[n] - 1 ELSE indegree[n]]

Lowered(m) == [n \in Nodes |-> indegree[n] - Cardinality(Between(m, n))]

FreedOnce(m) ==
    {n \in Nodes : Between(m, n) # {} /\ n \notin Range(queue) \union Range(ordered)}

Freed(m) == {n \in Nodes : Between(m, n) # {} /\ Lowered(m)[n] = 0}

PlannerInit ==
    /\ workflow \in Workflows
    /\ phase = "check"
    /\ indegree = Indegrees
    /\ queue \in Orders(Start)
    /\ ordered = << >>

\* The head of the queue is visited; what that frees is appended.
Visit(freed) ==
    /\ ordered' = Append(ordered, Head(queue))
    /\ indegree' = Lowered(Head(queue))
    /\ queue' = Tail(queue) \o freed
    /\ UNCHANGED <<workflow, phase>>

VisitNode ==
    /\ phase = "check" /\ queue # << >>
    /\ \E freed \in Orders(Freed(Head(queue))) : Visit(freed)

PlanNode ==
    /\ phase = "plan" /\ queue # << >>
    /\ \E freed \in Ascending(Freed(Head(queue))) : Visit(freed)

-----------------------------------------------------------------------------
(* The verdict of validate, once the first pass is over                    *)

EndsExist == Sound = DOMAIN Edges

OneDefault ==
    \A i, j \in Sound :
        Edges[i].default /\ Edges[j].default /\ Edges[i].source = Edges[j].source => i = j

TriggersFirst ==
    /\ workflow.triggers # {}
    /\ \A n \in workflow.triggers : Into(n) = {}

HasCycle == Len(ordered) # Cardinality(Nodes)

Valid ==
    /\ Nodes # {}
    /\ workflow.faulty \intersect Nodes = {}
    /\ EndsExist
    /\ OneDefault
    /\ TriggersFirst
    /\ ~HasCycle

Accept ==
    /\ phase = "check" /\ queue = << >>
    /\ Valid
    /\ phase' = "plan"
    /\ indegree' = Indegrees
    /\ queue' \in Ascending(Start)
    /\ ordered' = << >>
    /\ UNCHANGED workflow

Refuse ==
    /\ phase = "check" /\ queue = << >>
    /\ ~Valid
    /\ phase' = "refused"
    /\ UNCHANGED <<workflow, indegree, queue, ordered>>

ReturnPlan ==
    /\ phase = "plan" /\ queue = << >>
    /\ phase' = "planned"
    /\ UNCHANGED <<workflow, indegree, queue, ordered>>

PlannerNext == VisitNode \/ PlanNode \/ Accept \/ Refuse \/ ReturnPlan

PlannerSpec == PlannerInit /\ [][PlannerNext]_plannerVars

-----------------------------------------------------------------------------
(* Properties                                                              *)

\* The values of the variables.
PlannerTypeOK ==
    /\ workflow \in Workflow
    /\ phase \in {"check", "plan", "planned", "refused"}
    /\ indegree \in [Nodes -> Nat]
    /\ queue \in Seq(Nodes)
    /\ ordered \in Seq(Nodes)

\* Every node is a step of the plan exactly once, and after the sources of
\* all its edges: the retry of a run copies the steps before the failed one
\* and counts on them being the only ones it can need.
PlanIsTopological ==
    phase = "planned" =>
        /\ IsInjective(ordered)
        /\ Range(ordered) = Nodes
        /\ \A e \in DOMAIN Edges : \E p, q \in DOMAIN ordered :
              ordered[p] = Edges[e].source /\ ordered[q] = Edges[e].target /\ p < q

\* A set of nodes each of which has a predecessor in the set.
Cyclic(S) == \A n \in S : \E i \in Into(n) : Edges[i].source \in S

\* _has_cycle compares a count of visited nodes, which decides whether the
\* sound edges have a cycle: no acyclic graph is refused for one, and no
\* cyclic one gets a plan, whatever its parallel edges and self-loops.
CycleIsFound ==
    phase = "check" /\ queue = << >> =>
        (HasCycle <=> \E S \in SUBSET Nodes : S # {} /\ Cyclic(S))
=============================================================================
