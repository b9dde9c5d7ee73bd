-------------------------- MODULE MCSubWorkflows --------------------------
(***************************************************************************)
(* Instances of SubWorkflows, and so of WorkflowEngine: every workflow     *)
(* with four nodes, of which the first is the trigger, and each of these   *)
(* called from another one; and some with more in them.                    *)
(***************************************************************************)
EXTENDS SubWorkflows

CONSTANTS a, b, sub, each, deep, invalid

MCNodes  == 1..4
MCRoutes == {a, b, "approved", "rejected"}

Plain(i, j)   == [from |-> i, to |-> j, when |-> NoRoute, default |-> FALSE]
On(i, j, r)   == [from |-> i, to |-> j, when |-> r, default |-> FALSE]
Default(i, j) == [from |-> i, to |-> j, when |-> NoRoute, default |-> TRUE]

\* A workflow without decisions, joins or approvals.
Plan(edges) ==
    [edges |-> edges, roots |-> <<1>>, joins |-> {},
     need |-> [n \in MCNodes |-> 1], routes |-> [n \in MCNodes |-> {NoRoute}],
     approvals |-> {}, retried |-> {}, fallback |-> {}, secrets |-> {},
     calls |-> [n \in MCNodes |-> Nobody], times |-> [n \in MCNodes |-> {}],
     timed |-> FALSE]

\* All graphs on four nodes, in topological order, the trigger first.
Pairs  == {p \in MCNodes \X MCNodes : p[1] < p[2]}
Graphs == {SetToSeq({Plain(p[1], p[2]) : p \in ps}) : ps \in SUBSET Pairs}

Into(edges, n) == {i \in DOMAIN edges : edges[i].to = n}

\* Every choice of joins among the nodes with several inputs, waiting for
\* all of them or for one.
WithJoins(edges) ==
    {[Plan(edges) EXCEPT
        !.joins = js,
        !.need = [n \in MCNodes |-> IF all THEN Cardinality(Into(edges, n)) ELSE 1]] :
     js \in SUBSET {n \in MCNodes : Cardinality(Into(edges, n)) > 1}, all \in BOOLEAN}

\* Node 2 decides between the routes a and b: its first edge is taken on a,
\* its last one on b, or by default.
FirstOut(edges, n) == {i \in DOMAIN edges : edges[i].from = n
                         /\ \A j \in DOMAIN edges : edges[j].from = n => i <= j}
LastOut(edges, n)  == {i \in DOMAIN edges : edges[i].from = n
                         /\ \A j \in DOMAIN edges : edges[j].from = n => j <= i}

Deciding(w, last) ==
    [w EXCEPT
        !.routes = [@ EXCEPT ![2] = {a, b}],
        !.edges = [i \in DOMAIN w.edges |->
                     IF i \in LastOut(w.edges, 2)
                     THEN IF last = "b" THEN On(2, w.edges[i].to, b)
                                        ELSE Default(2, w.edges[i].to)
                     ELSE IF i \in FirstOut(w.edges, 2) THEN On(2, w.edges[i].to, a)
                     ELSE w.edges[i]]]

AllJoined   == UNION {WithJoins(g) : g \in Graphs}
AllDeciding == {Deciding(w, last) : w \in AllJoined, last \in {"b", "default"}}
AllCharts   == AllJoined \union AllDeciding

\* With an approval at node 2 or 3.
AllApproving == {[w EXCEPT !.approvals = {n}] : w \in AllJoined, n \in {2, 3}}

\* A diamond whose second branch asks for approval and whose first branch has
\* a second attempt; node 4 joins both, or the first.
Diamond(need) ==
    [Plan(<<Plain(1, 2), Plain(1, 3), Plain(2, 4), Plain(3, 4)>>) EXCEPT
        !.joins = {4}, !.need = [n \in MCNodes |-> need],
        !.approvals = {3}, !.retried = {2}, !.timed = TRUE]

\* Two triggers, a decision with a fallback, and an approval on one branch
\* whose decision routes the run.
Routed ==
    [Plan(<<Plain(1, 2), On(2, 3, a), Default(2, 4), On(3, 4, "approved")>>) EXCEPT
        !.routes = [n \in MCNodes |-> IF n = 2 THEN {a, NoRoute} ELSE {NoRoute}],
        !.approvals = {3}, !.retried = {2, 4}, !.fallback = {2}, !.timed = TRUE]

TwoTriggers ==
    [Plan(<<Plain(1, 3), Plain(2, 3), Plain(3, 4)>>) EXCEPT
        !.roots = <<1, 2>>, !.secrets = {4}, !.joins = {3}, !.need = [n \in MCNodes |-> 2],
        !.retried = {3}, !.fallback = {3}]

\* A node that calls sub once, and one that calls each for no or two items.
MCNames == {sub, each, deep, invalid}
Valids  == {sub, each, deep}

Calling(w, n, name, times) ==
    [w EXCEPT !.calls = [@ EXCEPT ![n] = name], !.times = [@ EXCEPT ![n] = times]]

Line == Plan(<<Plain(1, 2), Plain(2, 3)>>)

Callers == {Calling(Line, 2, sub, {1}),
            [Calling(Line, 2, invalid, {1}) EXCEPT !.secrets = {2}],
            [Calling(Line, 2, each, {0, 2}) EXCEPT
                !.retried = {2}, !.fallback = {2}, !.approvals = {3}]}

\* What each may be: a line, one that asks at node 3 or 4, one that calls deep,
\* which is missing or asks or does not, and one that calls itself.
Asking(n) == [Plan(<<Plain(1, n)>>) EXCEPT !.approvals = {n}]
Deeper    == Calling(Line, 2, deep, {1, 2})

Only(name, w) == [x \in {name} |-> w]
MCLibraries ==
    {Only(sub, w) : w \in AllCharts}
    \union {Only(each, w) : w \in {Line, Asking(3), Asking(4), Deeper,
                                   Calling(Line, 2, each, {1})}}
    \union {[x \in {each, deep} |-> IF x = each THEN Deeper ELSE w] :
              w \in {Line, Asking(4)}}
    \union {Only(invalid, Line), << >>}

MCWorkflows == AllCharts \union AllApproving \union Callers
                 \union {Diamond(1), Diamond(2), Routed, TwoTriggers}
=============================================================================
