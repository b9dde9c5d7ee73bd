--------------------------- MODULE WorkflowCharts ---------------------------
(***************************************************************************)
(* The workflows of Activation and WorkflowEngine, and the edges that the  *)
(* output of a node activates.                                             *)
(***************************************************************************)
EXTENDS Naturals, Sequences, FiniteSets

CONSTANTS
    Nodes,      \* nodes, named by their index in the execution plan, from 1
    Workflows,  \* the workflows considered
    Routes,     \* the routes an output may carry
    NoRoute,    \* an output without a route
    Names,      \* the workflows that sub_workflow and for_each nodes name
    Nobody      \* the name that other nodes have

(***************************************************************************)
(* A workflow: its edges in their order, the nodes a run starts from, the  *)
(* joins with the inputs they require, the routes the output of each node  *)
(* can carry, the approval nodes, those with a second attempt, those with  *)
(* a fallback output, those that need a credential, the workflow that each *)
(* node calls and how many times it may, and whether its runs have a       *)
(* timeout_seconds.                                                        *)
(***************************************************************************)
Edge == [from : Nodes, to : Nodes, when : Routes \union {NoRoute}, default : BOOLEAN]

Chart == [edges     : Seq(Edge),
          roots     : Seq(Nodes),
          joins     : SUBSET Nodes,
          need      : [Nodes -> Nat],
          routes    : [Nodes -> SUBSET (Routes \union {NoRoute})],
          approvals : SUBSET Nodes,
          retried   : SUBSET Nodes,
          fallback  : SUBSET Nodes,
          secrets   : SUBSET Nodes,
          calls     : [Nodes -> Names \union {Nobody}],
          times     : [Nodes -> SUBSET Nat],
          timed     : BOOLEAN]

ASSUME NodesAssumption == Nodes \subseteq Nat \ {0} /\ IsFiniteSet(Nodes)
ASSUME NoRouteAssumption == NoRoute \notin Routes
ASSUME NobodyAssumption == Nobody \notin Names

\* Edges follow the order of the plan, and so do the roots.
ASSUME WorkflowsAssumption ==
    \A wf \in Workflows :
        /\ wf \in Chart
        /\ \A i \in DOMAIN wf.edges : wf.edges[i].from < wf.edges[i].to
        /\ \A i, j \in DOMAIN wf.roots : i < j => wf.roots[i] < wf.roots[j]

\* The positions in w.edges of the edges out of node n.
Out(w, n) == {i \in DOMAIN w.edges : w.edges[i].from = n}

Unconditional(e) == e.when = NoRoute /\ ~e.default

\* The edges that an output of node n with route r activates: the
\* unconditional ones, and those whose condition is r or else the defaults.
Selected(w, n, r) ==
    LET matched == {i \in Out(w, n) : w.edges[i].when # NoRoute /\ w.edges[i].when = r}
    IN  {i \in Out(w, n) : Unconditional(w.edges[i])} \union
        IF matched # {} THEN matched ELSE {i \in Out(w, n) : w.edges[i].default}

\* The order in which the edges that an output activates are followed: the
\* unconditional ones come first.
Before(w, i, j) ==
    LET ui == Unconditional(w.edges[i])
        uj == Unconditional(w.edges[j])
    IN  (ui /\ ~uj) \/ (ui = uj /\ i <= j)
=============================================================================
