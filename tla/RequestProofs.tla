----------------------------- MODULE RequestProofs --------------------------
(***************************************************************************)
(* Theorems about what the service does for a request around the run that  *)
(* it starts: Planner validates and plans the workflow, for any finite set *)
(* of nodes and any sequence of edges; RunAdmission admits the run, for    *)
(* any number of requests in flight, any limit and any set of keys; and    *)
(* EventStream sends its events to a client, for any number of emitters.   *)
(***************************************************************************)
EXTENDS Planner, RunAdmission, EventStream,
        FiniteSetTheorems, SequenceTheorems, TLAPS

-----------------------------------------------------------------------------
(***************************************************************************)
(* Planner                                                                 *)
(*                                                                         *)
(* A pass keeps, for every node, the number of edges into it from nodes    *)
(* that it has not visited; the nodes for which that is none are those it  *)
(* has visited or queued.  What is visited has all its predecessors before *)
(* it, so a set of nodes with a predecessor each inside the set is never   *)
(* entered, and what is left when the queue is empty is such a set.        *)
(***************************************************************************)

Visited == Range(ordered)

\* The edges into n from nodes that are not visited.
Open(n) == {i \in Into(n) : Edges[i].source \notin Visited}

Counts ==
    /\ indegree \in [Nodes -> Nat]
    /\ \A n \in Nodes : indegree[n] = Cardinality(Open(n))

Orderly ==
    /\ queue \in Seq(Nodes) /\ ordered \in Seq(Nodes)
    /\ IsInjective(queue) /\ IsInjective(ordered)
    /\ Range(queue) \cap Visited = {}
    /\ \A n \in Nodes : indegree[n] = 0 <=> n \in Visited \union Range(queue)

\* The visited nodes follow all their predecessors.
Topological ==
    \A p \in DOMAIN ordered : \A i \in Into(ordered[p]) :
        \E q \in DOMAIN ordered : q < p /\ ordered[q] = Edges[i].source

\* No set of nodes with a predecessor each inside the set is entered.
Avoided == \A S \in SUBSET Nodes : Cyclic(S) => S \cap Visited = {}

Accepted == EndsExist /\ \A S \in SUBSET Nodes : Cyclic(S) => S = {}

PlannerInv ==
    /\ workflow \in Workflows
    /\ phase \in {"check", "plan", "planned", "refused"}
    /\ Counts
    /\ Orderly
    /\ Topological
    /\ Avoided
    /\ phase \in {"plan", "planned"} => Accepted
    /\ phase = "planned" => queue = << >>

-----------------------------------------------------------------------------
(* Orders and queues                                                       *)

LEMMA OrdersAreComplete ==
    ASSUME NEW S, IsFiniteSet(S), NEW order \in Orders(S)
    PROVE  order \in Seq(S) /\ IsInjective(order) /\ Range(order) = S
<1>1. Cardinality(S) \in Nat BY FS_CardinalityType
<1>2. /\ order \in [1..Cardinality(S) -> S] /\ IsInjective(order)
      /\ DOMAIN order = 1..Cardinality(S)
  BY DEF Orders
<1>3. order \in Seq(S) BY <1>1, <1>2
<1>4. order \in Injection(1..Cardinality(S), S) BY <1>2 DEF Injection, IsInjective
<1>5. Cardinality(1..Cardinality(S)) = Cardinality(S)
  <2>1. Cardinality(1..Cardinality(S)) = Cardinality(S) - 1 + 1 BY <1>1, FS_Interval
  <2> QED BY <1>1, <2>1
<1>6. order \in Surjection(1..Cardinality(S), S) BY <1>4, <1>5, FS_Injection
<1>7. Range(order) = S BY <1>6 DEF Surjection, Range
<1> QED BY <1>2, <1>3, <1>7

\* The head of the queue is appended to what is visited.
LEMMA HeadMoves ==
    ASSUME NEW S, NEW q \in Seq(S), IsInjective(q), q # << >>,
           NEW s \in Seq(S), IsInjective(s), Range(q) \cap Range(s) = {}
    PROVE  /\ Head(q) \in S /\ Head(q) \in Range(q)
           /\ Tail(q) \in Seq(S) /\ IsInjective(Tail(q)) /\ Range(Tail(q)) = Range(q) \ {Head(q)}
           /\ Append(s, Head(q)) \in Seq(S) /\ IsInjective(Append(s, Head(q)))
           /\ Range(Append(s, Head(q))) = Range(s) \union {Head(q)}
<1>1. Len(q) \in Nat \ {0} /\ DOMAIN q = 1..Len(q) /\ Len(s) \in Nat /\ DOMAIN s = 1..Len(s)
  BY EmptySeq
<1>2. /\ Tail(q) \in Seq(S) /\ Len(Tail(q)) = Len(q) - 1
      /\ \A i \in 1..Len(Tail(q)) : Tail(q)[i] = q[i + 1]
  BY HeadTailProperties
<1>3. DOMAIN Tail(q) = 1..(Len(q) - 1) BY <1>1, <1>2
<1>4. Head(q) = q[1] /\ 1 \in 1..Len(q) BY <1>1
<1>5. Head(q) \in Range(q) /\ Head(q) \in S BY <1>1, <1>4 DEF Range
<1>6. IsInjective(Tail(q))
  <2> SUFFICES ASSUME NEW i \in 1..(Len(q) - 1), NEW j \in 1..(Len(q) - 1), Tail(q)[i] = Tail(q)[j]
               PROVE  i = j
    BY <1>3 DEF IsInjective
  <2>1. i + 1 \in DOMAIN q /\ j + 1 \in DOMAIN q /\ q[i + 1] = q[j + 1] BY <1>1, <1>2
  <2>2. i + 1 = j + 1 BY <2>1 DEF IsInjective
  <2> QED BY <1>1, <2>2
<1>7. Range(Tail(q)) \subseteq Range(q) \ {Head(q)}
  <2> SUFFICES ASSUME NEW i \in 1..(Len(q) - 1) PROVE Tail(q)[i] \in Range(q) \ {q[1]}
    BY <1>3, <1>4 DEF Range
  <2>1. i + 1 \in DOMAIN q /\ Tail(q)[i] = q[i + 1] BY <1>1, <1>2
  <2>2. q[i + 1] # q[1] BY <1>1, <1>4, <2>1 DEF IsInjective
  <2> QED BY <2>1, <2>2 DEF Range
<1>8. Range(q) \ {Head(q)} \subseteq Range(Tail(q))
  <2> SUFFICES ASSUME NEW i \in 1..Len(q), q[i] # q[1] PROVE q[i] \in Range(Tail(q))
    BY <1>1, <1>4 DEF Range
  <2>1. i - 1 \in 1..(Len(q) - 1) /\ (i - 1) + 1 = i BY <1>1
  <2>2. Tail(q)[i - 1] = q[i] BY <1>2, <2>1
  <2> QED BY <1>3, <2>1, <2>2 DEF Range
<1>9. PICK x : x = Head(q) OBVIOUS
<1>10. x \in S /\ x \notin Range(s) BY <1>5, <1>9
<1>11. /\ Append(s, x) \in Seq(S) /\ DOMAIN Append(s, x) = 1..(Len(s) + 1)
       /\ Append(s, x)[Len(s) + 1] = x
       /\ \A i \in 1..Len(s) : Append(s, x)[i] = s[i] /\ s[i] # x
  BY <1>10 DEF Range
<1>12. \A i \in 1..(Len(s) + 1) : i \in 1..Len(s) \/ i = Len(s) + 1 BY <1>1
<1>13. IsInjective(Append(s, x)) BY <1>1, <1>11, <1>12 DEF IsInjective
<1>14. Range(Append(s, x)) = Range(s) \union {x}
  <2>1. \A y \in Range(Append(s, x)) : y \in Range(s) \union {x} BY <1>1, <1>11, <1>12 DEF Range
  <2>2. \A i \in 1..Len(s) : s[i] \in Range(Append(s, x))
    <3> SUFFICES ASSUME NEW i \in 1..Len(s) PROVE s[i] \in Range(Append(s, x)) OBVIOUS
    <3>1. i \in DOMAIN Append(s, x) /\ Append(s, x)[i] = s[i] BY <1>1, <1>11
    <3> QED BY <3>1 DEF Range
  <2>3. x \in Range(Append(s, x))
    <3>1. Len(s) + 1 \in DOMAIN Append(s, x) BY <1>1, <1>11
    <3> QED BY <1>11, <3>1 DEF Range
  <2>4. \A y \in Range(s) : \E i \in 1..Len(s) : s[i] = y BY <1>1 DEF Range
  <2> QED BY <2>1, <2>2, <2>3, <2>4
<1> QED BY <1>2, <1>5, <1>6, <1>7, <1>8, <1>9, <1>11, <1>13, <1>14

\* Two queues with no common element are joined.
LEMMA QueuesJoin ==
    ASSUME NEW S, NEW q \in Seq(S), IsInjective(q), NEW r \in Seq(S), IsInjective(r),
           Range(q) \cap Range(r) = {}
    PROVE  /\ q \o r \in Seq(S) /\ IsInjective(q \o r)
           /\ Range(q \o r) = Range(q) \union Range(r)
<1> DEFINE p == q \o r
<1>1. /\ p \in Seq(S) /\ Len(p) = Len(q) + Len(r) /\ Len(q) \in Nat /\ Len(r) \in Nat
      /\ \A i \in 1..(Len(q) + Len(r)) : p[i] = IF i <= Len(q) THEN q[i] ELSE r[i - Len(q)]
  BY ConcatProperties
<1> HIDE DEF p
<1>2. DOMAIN p = 1..(Len(q) + Len(r)) /\ DOMAIN q = 1..Len(q) /\ DOMAIN r = 1..Len(r) BY <1>1
<1>3. \A i \in DOMAIN p : \/ i \in DOMAIN q /\ p[i] = q[i]
                          \/ i - Len(q) \in DOMAIN r /\ p[i] = r[i - Len(q)]
  BY <1>1, <1>2
<1>4. /\ \A i \in DOMAIN q : i \in DOMAIN p /\ p[i] = q[i]
      /\ \A j \in DOMAIN r : j + Len(q) \in DOMAIN p /\ p[j + Len(q)] = r[j]
  BY <1>1, <1>2
<1>5. \A i \in DOMAIN q, j \in DOMAIN r : q[i] # r[j] BY DEF Range
<1>6. IsInjective(p)
  <2> SUFFICES ASSUME NEW i \in DOMAIN p, NEW j \in DOMAIN p, p[i] = p[j] PROVE i = j
    BY DEF IsInjective
  <2>1. CASE i \in DOMAIN q /\ j \in DOMAIN q BY <1>4, <2>1 DEF IsInjective
  <2>2. CASE i \notin DOMAIN q /\ j \notin DOMAIN q
    <3>1. i - Len(q) = j - Len(q) BY <1>3, <2>2 DEF IsInjective
    <3> QED BY <1>1, <1>2, <3>1
  <2>3. CASE (i \in DOMAIN q) # (j \in DOMAIN q) BY <1>3, <1>4, <1>5, <2>3
  <2> QED BY <2>1, <2>2, <2>3
<1>7. Range(p) = Range(q) \union Range(r)
  <2>1. \A i \in DOMAIN p : p[i] \in Range(q) \union Range(r) BY <1>3 DEF Range
  <2>2. \A i \in DOMAIN q : q[i] \in Range(p) BY <1>4 DEF Range
  <2>3. \A j \in DOMAIN r : r[j] \in Range(p) BY <1>4 DEF Range
  <2> QED BY <2>1, <2>2, <2>3 DEF Range
<1> QED BY <1>1, <1>6, <1>7 DEF p

-----------------------------------------------------------------------------
(* A pass                                                                  *)

Pass == Counts /\ Orderly /\ Topological /\ Avoided

Begins == /\ workflow \in Workflows /\ indegree = Indegrees
          /\ queue \in Orders(Start) /\ ordered = << >>

LEMMA FiniteGraph ==
    ASSUME workflow \in Workflows
    PROVE  /\ IsFiniteSet(Nodes)
           /\ \A F \in SUBSET (DOMAIN Edges) : IsFiniteSet(F) /\ Cardinality(F) \in Nat
           /\ \A n : Into(n) \in SUBSET (DOMAIN Edges)
           /\ \A n : \A i \in Into(n) : Edges[i].source \in Nodes /\ Edges[i].target = n
<1>1. workflow \in Workflow /\ IsFiniteSet(Nodes) BY WorkflowsAssumption DEF Nodes
<1>2. DOMAIN Edges = 1..Len(Edges) /\ Len(Edges) \in Nat BY <1>1 DEF Workflow, Edges
<1>3. IsFiniteSet(1..Len(Edges)) BY <1>2, FS_Interval
<1>4. \A F \in SUBSET (DOMAIN Edges) : IsFiniteSet(F) /\ Cardinality(F) \in Nat
  BY <1>2, <1>3, FS_Subset, FS_CardinalityType
<1> QED BY <1>1, <1>4 DEF Into, Sound

LEMMA PassBegins == Begins => Pass
<1> SUFFICES ASSUME Begins PROVE Pass OBVIOUS
<1>1. /\ workflow \in Workflows /\ indegree = [n \in Nodes |-> Cardinality(Into(n))]
      /\ queue \in Orders(Start) /\ ordered = << >>
  BY DEF Begins, Indegrees
<1>2. Visited = {} /\ ordered \in Seq(Nodes) /\ DOMAIN ordered = {} BY <1>1, EmptySeq DEF Visited, Range
<1>3. \A n \in Nodes : Open(n) = Into(n) BY <1>2 DEF Open
<1>4. \A n \in Nodes : IsFiniteSet(Into(n)) /\ Cardinality(Into(n)) \in Nat BY <1>1, FiniteGraph
<1>5. Counts BY <1>1, <1>3, <1>4 DEF Counts
<1>6. Start \subseteq Nodes /\ IsFiniteSet(Start)
  <2>1. Start \subseteq Nodes BY DEF Start
  <2> QED BY <1>1, <2>1, FiniteGraph, FS_Subset
<1>7. queue \in Seq(Start) /\ IsInjective(queue) /\ Range(queue) = Start
  BY <1>1, <1>6, OrdersAreComplete
<1>8. queue \in Seq(Nodes) BY <1>6, <1>7
<1>9. \A n \in Nodes : indegree[n] = 0 <=> n \in Start BY <1>1, <1>4, FS_EmptySet DEF Start
<1>10. Orderly BY <1>2, <1>7, <1>8, <1>9 DEF Orderly, IsInjective
<1>11. Topological /\ Avoided BY <1>2 DEF Topological, Avoided
<1> QED BY <1>5, <1>10, <1>11 DEF Pass

LEMMA VisitKeepsPass ==
    ASSUME workflow \in Workflows, Pass, queue # << >>,
           NEW freed \in Orders(Freed(Head(queue))), Visit(freed)
    PROVE  Pass'
<1>1. PICK m : m = Head(queue) OBVIOUS
<1>2. /\ ordered' = Append(ordered, m) /\ indegree' = Lowered(m)
      /\ queue' = Tail(queue) \o freed /\ workflow' = workflow
  BY <1>1 DEF Visit
<1>3. /\ queue \in Seq(Nodes) /\ ordered \in Seq(Nodes) /\ IsInjective(queue)
      /\ IsInjective(ordered) /\ Range(queue) \cap Range(ordered) = {}
  BY DEF Pass, Orderly, Visited
<1>4. /\ m \in Nodes /\ m \in Range(queue) /\ m \notin Visited
      /\ Tail(queue) \in Seq(Nodes) /\ IsInjective(Tail(queue))
      /\ Range(Tail(queue)) = Range(queue) \ {m}
      /\ ordered' \in Seq(Nodes) /\ IsInjective(ordered')
      /\ Visited' = Visited \union {m}
  <2>1. m \notin Visited <=> m \notin Range(ordered) BY DEF Visited
  <2> QED BY <1>1, <1>2, <1>3, <2>1, HeadMoves DEF Visited
<1>5. Nodes' = Nodes /\ Edges' = Edges /\ \A n : Into(n)' = Into(n)
  BY <1>2 DEF Nodes, Edges, Into, Sound
<1>6. ASSUME NEW n \in Nodes
      PROVE  /\ Open(n)' = Open(n) \ Between(m, n)
             /\ Between(m, n) \subseteq Open(n)
             /\ indegree[n] = Cardinality(Open(n)) /\ indegree[n] \in Nat
             /\ Lowered(m)[n] = indegree[n] - Cardinality(Between(m, n))
             /\ Cardinality(Between(m, n)) \in Nat
             /\ Between(m, n) = {} <=> Cardinality(Between(m, n)) = 0
             /\ Lowered(m)[n] = Cardinality(Open(n)') /\ Lowered(m)[n] \in Nat
  <2>1. Open(n)' = Open(n) \ Between(m, n) BY <1>4, <1>5 DEF Open, Between
  <2>2. Between(m, n) \subseteq Open(n) BY <1>4 DEF Open, Between
  <2>3. Open(n) \in SUBSET (DOMAIN Edges) /\ Between(m, n) \in SUBSET (DOMAIN Edges)
    BY FiniteGraph DEF Open, Between
  <2>4. /\ IsFiniteSet(Open(n)) /\ Cardinality(Open(n)) \in Nat
        /\ IsFiniteSet(Between(m, n)) /\ Cardinality(Between(m, n)) \in Nat
    BY <2>3, FiniteGraph
  <2>5. indegree[n] = Cardinality(Open(n)) BY DEF Pass, Counts
  <2>6. Lowered(m)[n] = indegree[n] - Cardinality(Between(m, n)) BY DEF Lowered
  <2>7. Between(m, n) = {} <=> Cardinality(Between(m, n)) = 0 BY <2>4, FS_EmptySet
  <2>8. /\ Cardinality(Open(n) \ Between(m, n)) = Cardinality(Open(n)) - Cardinality(Between(m, n))
        /\ Cardinality(Open(n) \ Between(m, n)) \in Nat
    <3>1. Open(n) \cap Between(m, n) = Between(m, n) BY <2>2
    <3>2. IsFiniteSet(Open(n) \ Between(m, n)) BY <2>4, FS_Subset
    <3> QED BY <2>4, <3>1, <3>2, FS_Difference, FS_CardinalityType
  <2> QED BY <2>1, <2>2, <2>4, <2>5, <2>6, <2>7, <2>8
<1>7. Counts'
  <2>1. indegree' \in [Nodes -> Nat] BY <1>2, <1>6 DEF Lowered
  <2>2. \A n \in Nodes : indegree'[n] = Cardinality(Open(n)') BY <1>2, <1>6
  <2>3. \A n \in Nodes' : indegree'[n] = Cardinality(Open(n)') BY <1>5, <2>2
  <2> QED BY <1>5, <2>1, <2>3 DEF Counts
<1>8. Freed(m) \subseteq Nodes /\ IsFiniteSet(Freed(m))
  <2>1. Freed(m) \subseteq Nodes BY DEF Freed
  <2> QED BY <2>1, FiniteGraph, FS_Subset
<1>9. freed \in Seq(Freed(m)) /\ IsInjective(freed) /\ Range(freed) = Freed(m)
  BY <1>1, <1>8, OrdersAreComplete
<1>10. \A n \in Nodes : indegree[n] = 0 <=> n \in Visited \union Range(queue)
  BY DEF Pass, Orderly
<1>11. \A n \in Freed(m) : n \notin Visited \union Range(queue)
  BY <1>6, <1>8, <1>10 DEF Freed
<1>12. Orderly'
  <2>1. freed \in Seq(Nodes) BY <1>8, <1>9
  <2>2. Range(Tail(queue)) \cap Range(freed) = {} BY <1>4, <1>9, <1>11
  <2>3. /\ queue' \in Seq(Nodes) /\ IsInjective(queue')
        /\ Range(queue') = (Range(queue) \ {m}) \union Freed(m)
    <3>1. PICK rest : rest = Tail(queue) OBVIOUS
    <3>2. rest \in Seq(Nodes) /\ IsInjective(rest) BY <1>4, <3>1
    <3>3. Range(rest) \cap Range(freed) = {} BY <2>2, <3>1
    <3>4. IsInjective(freed) BY <1>9
    <3>5. /\ rest \o freed \in Seq(Nodes) /\ IsInjective(rest \o freed)
          /\ Range(rest \o freed) = Range(rest) \union Range(freed)
      BY ONLY <2>1, <3>2, <3>3, <3>4, QueuesJoin
    <3>6. queue' = rest \o freed BY <1>2, <3>1
    <3>7. Range(rest) = Range(queue) \ {m} BY <1>4, <3>1
    <3> QED BY <1>9, <3>5, <3>6, <3>7
  <2>4. Range(queue') \cap Visited' = {}
    <3>1. Range(queue) \cap Visited = {} BY DEF Pass, Orderly
    <3> QED BY <1>4, <1>11, <2>3, <3>1
  <2>5. ASSUME NEW n \in Nodes
        PROVE  Lowered(m)[n] = 0 <=> n \in Visited' \union Range(queue')
    <3>1. Visited' \union Range(queue') = Visited \union Range(queue) \union Freed(m)
      BY <1>4, <2>3
    <3>2. n \in Freed(m) <=> Between(m, n) # {} /\ Lowered(m)[n] = 0 BY DEF Freed
    <3>3. indegree[n] = 0 => Lowered(m)[n] = 0 BY <1>6
    <3>4. Between(m, n) = {} => Lowered(m)[n] = indegree[n] BY <1>6
    <3> QED BY <1>10, <3>1, <3>2, <3>3, <3>4
  <2>6. \A n \in Nodes' : indegree'[n] = 0 <=> n \in Visited' \union Range(queue')
    BY <1>2, <1>5, <2>5
  <2> QED BY <1>4, <1>5, <2>3, <2>4, <2>6 DEF Orderly
<1>13. \A i \in Into(m) : Edges[i].source \in Visited
  <2>1. indegree[m] = 0 BY <1>4, <1>10
  <2>2. Open(m) \in SUBSET (DOMAIN Edges) BY FiniteGraph DEF Open
  <2>3. Open(m) = {} BY <1>4, <1>6, <2>1, <2>2, FiniteGraph, FS_EmptySet
  <2> QED BY <2>3 DEF Open
<1>14. Topological'
  <2>1. /\ DOMAIN ordered = 1..Len(ordered) /\ Len(ordered) \in Nat
        /\ DOMAIN ordered' = 1..(Len(ordered) + 1)
        /\ ordered'[Len(ordered) + 1] = m
        /\ \A p \in 1..Len(ordered) : ordered'[p] = ordered[p]
    BY <1>2, <1>3, <1>4
  <2> SUFFICES ASSUME NEW p \in 1..(Len(ordered) + 1), NEW i \in Into(ordered'[p])
               PROVE  \E q \in DOMAIN ordered' : q < p /\ ordered'[q] = Edges[i].source
    BY <1>5, <2>1 DEF Topological
  <2>2. CASE p \in 1..Len(ordered)
    <3>1. PICK q \in DOMAIN ordered : q < p /\ ordered[q] = Edges[i].source
      BY <2>1, <2>2 DEF Pass, Topological
    <3> QED BY <2>1, <3>1
  <2>3. CASE p \notin 1..Len(ordered)
    <3>1. p = Len(ordered) + 1 /\ i \in Into(m) BY <2>1, <2>3
    <3>2. PICK q \in DOMAIN ordered : ordered[q] = Edges[i].source
      BY <1>13, <3>1 DEF Visited, Range
    <3> QED BY <2>1, <3>1, <3>2
  <2> QED BY <2>2, <2>3
<1>15. Avoided'
  <2> SUFFICES ASSUME NEW S \in SUBSET Nodes, Cyclic(S) PROVE S \cap (Visited \union {m}) = {}
    BY <1>4, <1>5 DEF Avoided, Cyclic
  <2>1. S \cap Visited = {} BY DEF Pass, Avoided
  <2>2. m \in S => \E i \in Into(m) : Edges[i].source \in S BY DEF Cyclic
  <2> QED BY <1>13, <2>1, <2>2
<1> QED BY <1>7, <1>12, <1>14, <1>15 DEF Pass

LEMMA PassStays ==
    ASSUME Pass, UNCHANGED <<workflow, indegree, queue, ordered>>
    PROVE  Pass'
<1>1. Nodes' = Nodes /\ Edges' = Edges /\ Visited' = Visited BY DEF Nodes, Edges, Visited
<1>2. \A n : Into(n)' = Into(n) BY <1>1 DEF Into, Sound
<1>3. \A n : Open(n)' = Open(n) BY <1>1, <1>2 DEF Open
<1>4. \A S : Cyclic(S)' = Cyclic(S) BY <1>1, <1>2 DEF Cyclic
<1>5. Counts' BY <1>1, <1>3 DEF Pass, Counts
<1>6. Orderly' BY <1>1 DEF Pass, Orderly
<1>7. Topological' BY <1>1, <1>2 DEF Pass, Topological
<1>8. Avoided' BY <1>1, <1>4 DEF Pass, Avoided
<1> QED BY <1>5, <1>6, <1>7, <1>8 DEF Pass

\* What a pass has not visited when its queue is empty.
LEMMA PassEnds ==
    ASSUME workflow \in Workflows, Pass, queue = << >>
    PROVE  /\ Cyclic(Nodes \ Visited)
           /\ Visited \subseteq Nodes
           /\ HasCycle <=> Visited # Nodes
<1>1. ordered \in Seq(Nodes) /\ IsInjective(ordered) BY DEF Pass, Orderly
<1>2. Visited \subseteq Nodes BY <1>1 DEF Visited, Range
<1>3. \A n \in Nodes \ Visited : \E i \in Into(n) : Edges[i].source \in Nodes \ Visited
  <2> SUFFICES ASSUME NEW n \in Nodes \ Visited
               PROVE  \E i \in Into(n) : Edges[i].source \in Nodes \ Visited
    OBVIOUS
  <2>1. Range(queue) = {} BY DEF Range
  <2>2. indegree[n] # 0 BY <2>1 DEF Pass, Orderly
  <2>3. Open(n) # {} BY <2>2, FS_EmptySet DEF Pass, Counts
  <2> QED BY <2>3, FiniteGraph DEF Open
<1>4. Cyclic(Nodes \ Visited) BY <1>3 DEF Cyclic
<1>5. HasCycle <=> Visited # Nodes
  <2>1. Cardinality(Visited) = Len(ordered)
    <3>1. /\ Len(ordered) \in Nat /\ DOMAIN ordered = 1..Len(ordered)
          /\ IsFiniteSet(1..Len(ordered)) /\ Cardinality(1..Len(ordered)) = Len(ordered)
      <4>1. Len(ordered) \in Nat /\ DOMAIN ordered = 1..Len(ordered) BY <1>1
      <4> QED BY <4>1, FS_Interval
    <3>2. ordered \in [1..Len(ordered) -> Visited]
      <4>1. ordered \in [1..Len(ordered) -> Nodes] BY <1>1, <3>1
      <4>2. \A p \in 1..Len(ordered) : ordered[p] \in Visited BY <3>1 DEF Visited, Range
      <4> QED BY <4>1, <4>2
    <3>3. \A n \in Visited : \E p \in 1..Len(ordered) : ordered[p] = n
      BY <3>1 DEF Visited, Range
    <3>4. ordered \in Surjection(1..Len(ordered), Visited) BY <3>2, <3>3 DEF Surjection
    <3>5. ordered \in Injection(1..Len(ordered), Visited) BY <1>1, <3>2 DEF Injection
    <3> QED BY <3>1, <3>4, <3>5, FS_Surjection
  <2>2. IsFiniteSet(Nodes) BY FiniteGraph
  <2>3. Cardinality(Visited) = Cardinality(Nodes) <=> Visited = Nodes
    BY <1>2, <2>2, FS_Subset
  <2> QED BY <2>1, <2>3 DEF HasCycle
<1> QED BY <1>2, <1>4, <1>5

-----------------------------------------------------------------------------
(* The invariant                                                           *)

THEOREM PlannerInvariant == PlannerSpec => []PlannerInv
<1>1. PlannerInit => PlannerInv
  <2> SUFFICES ASSUME PlannerInit PROVE PlannerInv OBVIOUS
  <2>1. Begins BY DEF PlannerInit, Begins
  <2>2. Pass BY <2>1, PassBegins
  <2> QED BY <2>2 DEF PlannerInit, PlannerInv, Pass
<1>2. PlannerInv /\ [PlannerNext]_plannerVars => PlannerInv'
  <2> SUFFICES ASSUME PlannerInv, [PlannerNext]_plannerVars PROVE PlannerInv' OBVIOUS
  <2>1. workflow \in Workflows /\ Pass BY DEF PlannerInv, Pass
  <2>2. workflow' = workflow
    BY DEF PlannerNext, VisitNode, PlanNode, Visit, Accept, Refuse, ReturnPlan, plannerVars
  <2>3. /\ EndsExist' = EndsExist
        /\ (\A S \in SUBSET Nodes : Cyclic(S) => S = {})' = (\A S \in SUBSET Nodes : Cyclic(S) => S = {})
    BY <2>2 DEF EndsExist, Nodes, Edges, Sound, Into, Cyclic
  <2>4. Accepted => Accepted' BY <2>3 DEF Accepted
  <2>5. CASE VisitNode
    <3>1. PICK freed \in Orders(Freed(Head(queue))) : Visit(freed) BY <2>5 DEF VisitNode
    <3>2. Pass' BY <2>1, <2>5, <3>1, VisitKeepsPass DEF VisitNode
    <3>3. phase' = "check" BY <2>5, <3>1 DEF VisitNode, Visit
    <3> QED BY <2>1, <2>2, <3>2, <3>3 DEF PlannerInv, Pass
  <2>6. CASE PlanNode
    <3>1. PICK freed \in Ascending(Freed(Head(queue))) : Visit(freed) BY <2>6 DEF PlanNode
    <3>2. freed \in Orders(Freed(Head(queue))) BY <3>1 DEF Ascending
    <3>3. Pass' BY <2>1, <2>6, <3>1, <3>2, VisitKeepsPass DEF PlanNode
    <3>4. phase' = "plan" /\ Accepted' BY <2>4, <2>6, <3>1 DEF PlanNode, Visit, PlannerInv
    <3> QED BY <2>1, <2>2, <3>3, <3>4 DEF PlannerInv, Pass
  <2>7. CASE Accept
    <3>1. Begins'
      <4>1. Indegrees' = Indegrees /\ Start' = Start
        BY <2>2 DEF Indegrees, Start, Nodes, Edges, Sound, Into
      <4>2. Orders(Start)' = Orders(Start) BY <4>1 DEF Orders
      <4>3. queue' \in Orders(Start) BY <2>7 DEF Accept, Ascending
      <4> QED BY <2>1, <2>2, <2>7, <4>1, <4>2, <4>3 DEF Begins, Accept
    <3>2. Pass' BY <3>1, PassBegins, PTL
    <3>3. Visited = Nodes /\ EndsExist
      BY <2>1, <2>7, PassEnds DEF Accept, Valid
    <3>4. \A S \in SUBSET Nodes : Cyclic(S) => S = {}
      BY <3>3 DEF PlannerInv, Avoided
    <3>5. Accepted' BY <2>4, <3>3, <3>4 DEF Accepted
    <3>6. phase' = "plan" BY <2>7 DEF Accept
    <3> QED BY <2>1, <2>2, <3>2, <3>5, <3>6 DEF PlannerInv, Pass
  <2>8. UNCHANGED <<indegree, queue, ordered>> => Pass' BY <2>1, <2>2, PassStays
  <2>9. CASE Refuse BY <2>1, <2>2, <2>8, <2>9 DEF Refuse, PlannerInv, Pass
  <2>10. CASE ReturnPlan BY <2>1, <2>2, <2>4, <2>8, <2>10 DEF ReturnPlan, PlannerInv, Pass
  <2>11. CASE UNCHANGED plannerVars BY <2>1, <2>2, <2>4, <2>8, <2>11 DEF plannerVars, PlannerInv, Pass
  <2> QED BY <2>5, <2>6, <2>7, <2>9, <2>10, <2>11 DEF PlannerNext
<1> QED BY <1>1, <1>2, PTL DEF PlannerSpec

\* Every variable keeps its type.
THEOREM PlannerTypeCorrect == PlannerSpec => []PlannerTypeOK
<1>1. PlannerInv => PlannerTypeOK
  BY WorkflowsAssumption DEF PlannerInv, Counts, Orderly, PlannerTypeOK
<1> QED BY <1>1, PlannerInvariant, PTL

\* create_execution_plan returns every node once, after the sources of all
\* its edges, whichever queue orders the nodes are visited in.
THEOREM PlansAreTopological == PlannerSpec => []PlanIsTopological
<1>1. PlannerInv => PlanIsTopological
  <2> SUFFICES ASSUME PlannerInv, phase = "planned"
               PROVE  /\ IsInjective(ordered)
                      /\ Range(ordered) = Nodes
                      /\ \A e \in DOMAIN Edges : \E p, q \in DOMAIN ordered :
                            ordered[p] = Edges[e].source /\ ordered[q] = Edges[e].target /\ p < q
    BY DEF PlanIsTopological
  <2>1. workflow \in Workflows /\ Pass /\ queue = << >> /\ Accepted
    BY DEF PlannerInv, Pass
  <2>2. Nodes \ Visited = {}
    <3>1. Cyclic(Nodes \ Visited) BY <2>1, PassEnds
    <3> QED BY <2>1, <3>1 DEF Accepted
  <2>3. Range(ordered) = Nodes BY <2>1, <2>2, PassEnds DEF Visited
  <2>4. IsInjective(ordered) BY <2>1 DEF Pass, Orderly
  <2>5. ASSUME NEW e \in DOMAIN Edges
        PROVE  \E p, q \in DOMAIN ordered :
                  ordered[p] = Edges[e].source /\ ordered[q] = Edges[e].target /\ p < q
    <3>1. e \in Sound BY <2>1 DEF Accepted, EndsExist
    <3>2. PICK q \in DOMAIN ordered : ordered[q] = Edges[e].target
      BY <2>3, <3>1 DEF Sound, Range
    <3>3. e \in Into(ordered[q]) BY <3>1, <3>2 DEF Into
    <3>4. PICK p \in DOMAIN ordered : p < q /\ ordered[p] = Edges[e].source
      BY <2>1, <3>3 DEF Pass, Topological
    <3> QED BY <3>2, <3>4
  <2> QED BY <2>3, <2>4, <2>5
<1> QED BY <1>1, PlannerInvariant, PTL

\* The count of visited nodes that _has_cycle compares decides whether the
\* sound edges have a cycle.
THEOREM CyclesAreFound == PlannerSpec => []CycleIsFound
<1>1. PlannerInv => CycleIsFound
  <2> SUFFICES ASSUME PlannerInv, queue = << >>
               PROVE  HasCycle <=> \E S \in SUBSET Nodes : S # {} /\ Cyclic(S)
    BY DEF CycleIsFound
  <2>1. workflow \in Workflows /\ Pass BY DEF PlannerInv, Pass
  <2>2. /\ Cyclic(Nodes \ Visited) /\ Visited \subseteq Nodes
        /\ HasCycle <=> Visited # Nodes
    BY <2>1, PassEnds
  <2>3. CASE Visited # Nodes
    <3>1. Nodes \ Visited # {} /\ Nodes \ Visited \in SUBSET Nodes BY <2>2, <2>3
    <3> QED BY <2>2, <2>3, <3>1
  <2>4. CASE Visited = Nodes BY <2>2, <2>4 DEF PlannerInv, Avoided
  <2> QED BY <2>3, <2>4
<1> QED BY <1>1, PlannerInvariant, PTL

-----------------------------------------------------------------------------
(***************************************************************************)
(* EventStream                                                             *)
(*                                                                         *)
(* Until a request emits, only the worker writes, and each of its stamps   *)
(* follows those in the log: the list grows at its end, and what was sent  *)
(* is its beginning up to the offset.                                      *)
(***************************************************************************)

(* The position of an event in the list                                    *)

Rank(S, t) == Cardinality({u \in S : u <= t})

\* Every member of a finite set of numbers has a rank of its own, and the ranks
\* are all the numbers up to its size.
LEMMA Ranks ==
    ASSUME NEW S \in SUBSET Nat, IsFiniteSet(S)
    PROVE  /\ Cardinality(S) \in Nat
           /\ \A t \in S : Rank(S, t) \in 1..Cardinality(S)
           /\ \A t, u \in S : Rank(S, t) = Rank(S, u) => t = u
           /\ \A i \in 1..Cardinality(S) : \E t \in S : Rank(S, t) = i
<1> DEFINE Upto(t) == {u \in S : u <= t}
           rank == [t \in S |-> Rank(S, t)]
           n == Cardinality(S)
<1>1. n \in Nat BY FS_CardinalityType
<1>2. ASSUME NEW t \in S PROVE Rank(S, t) \in 1..n /\ IsFiniteSet(Upto(t))
  <2>1. /\ IsFiniteSet(Upto(t)) /\ Rank(S, t) <= n BY FS_Subset DEF Rank
  <2>2. Rank(S, t) \in Nat BY <2>1, FS_CardinalityType DEF Rank
  <2>3. Rank(S, t) # 0
    <3>1. t \in Upto(t) OBVIOUS
    <3> QED BY <2>1, <3>1, FS_EmptySet DEF Rank
  <2> QED BY <1>1, <2>1, <2>2, <2>3
<1>3. ASSUME NEW t \in S, NEW u \in S, t < u PROVE Rank(S, t) # Rank(S, u)
  <2>1. Upto(t) \in SUBSET Upto(u)
    <3>1. \A v \in S : v <= t => v <= u
      <4>1. t \in Nat /\ u \in Nat /\ \A v \in S : v \in Nat OBVIOUS
      <4> QED BY <1>3, <4>1
    <3> QED BY <3>1
  <2>2. Upto(t) # Upto(u)
    <3>1. u \in Upto(u) /\ u \notin Upto(t) BY <1>3
    <3> QED BY <3>1
  <2>3. IsFiniteSet(Upto(u)) BY <1>2
  <2>4. Cardinality(Upto(u)) # Cardinality(Upto(t)) BY <2>1, <2>2, <2>3, FS_Subset
  <2> QED BY <2>4 DEF Rank
<1>4. \A t, u \in S : Rank(S, t) = Rank(S, u) => t = u BY <1>3
<1>5. rank \in Injection(S, 1..n)
  <2>1. rank \in [S -> 1..n] BY <1>2
  <2> QED BY <1>4, <2>1 DEF Injection, IsInjective
<1>6. rank \in Surjection(S, 1..n)
  <2>1. IsFiniteSet(1..n) /\ Cardinality(1..n) = n BY <1>1, FS_Interval
  <2> HIDE DEF rank
  <2> QED BY <1>5, <2>1, FS_Injection
<1> QED BY <1>1, <1>2, <1>4, <1>6 DEF Surjection

LEMMA ListedOrder ==
    ASSUME log \in SUBSET Nat, IsFiniteSet(log)
    PROVE  /\ Cardinality(log) \in Nat
           /\ Listed \in Seq(log) /\ Len(Listed) = Cardinality(log)
           /\ DOMAIN Listed = 1..Cardinality(log)
           /\ \A i \in 1..Cardinality(log) :
                 /\ Listed[i] \in log /\ Rank(log, Listed[i]) = i
                 /\ \A t \in log : Rank(log, t) = i => t = Listed[i]
<1>1. /\ Cardinality(log) \in Nat
      /\ \A t, u \in log : Rank(log, t) = Rank(log, u) => t = u
      /\ \A i \in 1..Cardinality(log) : \E t \in log : Rank(log, t) = i
  BY Ranks
<1>2. Listed = [i \in 1..Cardinality(log) |-> CHOOSE t \in log : Rank(log, t) = i]
  BY DEF Listed, Rank
<1>3. \A i \in 1..Cardinality(log) : Listed[i] \in log /\ Rank(log, Listed[i]) = i
  BY <1>1, <1>2
<1>4. Listed \in [1..Cardinality(log) -> log] BY <1>2, <1>3
<1> DEFINE n == Cardinality(log)
<1>5. Listed \in Seq(log) /\ Len(Listed) = n /\ DOMAIN Listed = 1..n
  <2>1. n \in Nat /\ Listed \in [1..n -> log] BY <1>1, <1>4
  <2> HIDE DEF n
  <2> QED BY <2>1
<1>6. \A i \in 1..Cardinality(log) : \A t \in log : Rank(log, t) = i => t = Listed[i]
  BY <1>1, <1>3
<1> QED BY <1>1, <1>3, <1>5, <1>6

-----------------------------------------------------------------------------
(* The invariant                                                           *)

\* No request has come to emit an event.
Quiet == \A q \in Requesters : writing[q] = NoEvent /\ emitted[q] = 0

Emitting(e) ==
    /\ writing[e] \in 1..clock
    /\ IF e = Worker THEN emitted[e] <= WorkEvents ELSE emitted[e] = 0

StreamInv ==
    /\ StreamTypeOK
    /\ \A e \in Emitters : writing[e] # NoEvent => Emitting(e)
    /\ Quiet =>
        /\ writing[Worker] # NoEvent => \A t \in log : t < writing[Worker]
        /\ offset = Len(sent)
        /\ \A i \in 1..Len(sent) : sent[i] = Listed[i]

LEMMA LogIsFinite ==
    ASSUME StreamTypeOK
    PROVE  /\ log \in SUBSET Nat /\ IsFiniteSet(log) /\ Cardinality(log) \in Nat
<1>1. clock \in Nat /\ log \in SUBSET (1..clock) BY DEF StreamTypeOK
<1>2. IsFiniteSet(1..clock) BY <1>1, FS_Interval
<1>3. IsFiniteSet(log) BY <1>1, <1>2, FS_Subset
<1>4. Cardinality(log) \in Nat BY <1>3, FS_CardinalityType
<1> QED BY <1>1, <1>3, <1>4

LEMMA StreamStarts == StreamInit => StreamInv
<1> SUFFICES ASSUME StreamInit PROVE StreamInv OBVIOUS
<1>1. Cardinality(log) = 0 BY FS_EmptySet DEF StreamInit
<1>2. Len(sent) = 0 /\ sent \in Seq(log) BY EmptySeq DEF StreamInit
<1>3. /\ writing \in [Emitters -> Nat \union {NoEvent}]
      /\ emitted \in [Emitters -> 0..(WorkEvents + 1)]
  BY EventsAssumption DEF StreamInit
<1>4. clock \in Nat /\ log \in SUBSET (1..clock) /\ offset \in 0..Cardinality(log)
  BY <1>1 DEF StreamInit
<1>5. StreamTypeOK BY <1>2, <1>3, <1>4 DEF StreamInit, StreamTypeOK
<1> QED BY <1>2, <1>5 DEF StreamInit, StreamInv, Emitters

\* An event that is stamped and not committed.
LEMMA StampKeeps ==
    ASSUME StreamInv, NEW e \in Emitters, StampEvent(e)
    PROVE  StreamInv'
<1>0. /\ writing \in [Emitters -> Nat \union {NoEvent}] /\ clock \in Nat
      /\ emitted \in [Emitters -> 0..(WorkEvents + 1)] /\ Worker \in Emitters
      /\ Requesters \subseteq Emitters /\ Worker \notin Requesters
  BY WorkerAssumption DEF StreamInv, StreamTypeOK, Emitters
<1>1. /\ clock' = clock + 1 /\ writing' = [writing EXCEPT ![e] = clock + 1]
      /\ UNCHANGED <<emitted, log, ended, stream, offset, sent>>
      /\ HasEvent(e)
  BY DEF StampEvent
<1>2. StreamTypeOK'
  BY <1>0, <1>1 DEF StreamInv, StreamTypeOK
<1>3. \A f \in Emitters : writing'[f] # NoEvent => Emitting(f)'
  <2> SUFFICES ASSUME NEW f \in Emitters, writing'[f] # NoEvent PROVE Emitting(f)' OBVIOUS
  <2>1. CASE f = e BY <1>0, <1>1, <2>1, EventsAssumption DEF Emitting, HasEvent
  <2>2. CASE f # e BY <1>0, <1>1, <2>2 DEF StreamInv, Emitting
  <2> QED BY <2>1, <2>2
<1>4. Listed' = Listed BY <1>1 DEF Listed
<1>5. ASSUME Quiet' PROVE Quiet /\ e = Worker
  <2>1. e = Worker
    <3>1. writing'[e] # NoEvent BY <1>0, <1>1, EventsAssumption
    <3> QED BY <1>5, <3>1 DEF Quiet, Emitters
  <2> QED BY <1>0, <1>1, <1>5, <2>1 DEF Quiet
<1>6. ASSUME Quiet', NEW t \in log PROVE t < clock + 1
  BY <1>0 DEF StreamInv, StreamTypeOK
<1> QED BY <1>0, <1>1, <1>2, <1>3, <1>4, <1>5, <1>6 DEF StreamInv

\* A commit of the worker extends the list at its end, unless a request emits.
LEMMA ListGrows ==
    ASSUME StreamTypeOK, NEW w \in Nat, \A t \in log : t < w, log' = log \union {w}
    PROVE  \A i \in 1..Cardinality(log) : Listed'[i] = Listed[i]
<1>1. log \in SUBSET Nat /\ IsFiniteSet(log) /\ Cardinality(log) \in Nat BY LogIsFinite
<1>2. log' \in SUBSET Nat /\ IsFiniteSet(log') BY <1>1, FS_AddElement
<1>3. w \notin log OBVIOUS
<1>4. Cardinality(log') = Cardinality(log) + 1 BY <1>1, <1>3, FS_AddElement
<1>5. \A t \in log : Rank(log', t) = Rank(log, t)
  <2> SUFFICES ASSUME NEW t \in log PROVE Rank(log', t) = Rank(log, t) OBVIOUS
  <2>1. {u \in log' : u <= t} = {u \in log : u <= t} BY <1>1
  <2> QED BY <2>1 DEF Rank
<1>6. \A i \in 1..Cardinality(log) : Listed[i] \in log /\ Rank(log, Listed[i]) = i
  BY <1>1, ListedOrder
<1>7. \A i \in 1..Cardinality(log)' : \A t \in log' : Rank(log', t) = i => t = Listed'[i]
  <2> DEFINE L == log'
             order == [i \in 1..Cardinality(L) |-> CHOOSE t \in L : Rank(L, t) = i]
  <2>1. Listed' = order BY DEF Listed, Rank
  <2>2. /\ \A t, u \in L : Rank(L, t) = Rank(L, u) => t = u
        /\ \A i \in 1..Cardinality(L) : \E t \in L : Rank(L, t) = i
    BY <1>2, Ranks
  <2> HIDE DEF L
  <2>3. \A i \in 1..Cardinality(L) : \A t \in L : Rank(L, t) = i => t = order[i]
    BY <2>2
  <2> QED BY <2>1, <2>3 DEF L
<1>8. ASSUME NEW i \in 1..Cardinality(log) PROVE Listed'[i] = Listed[i]
  <2>1. Listed[i] \in log' /\ Rank(log', Listed[i]) = i BY <1>5, <1>6
  <2>2. i \in 1..Cardinality(log') BY <1>1, <1>4
  <2> QED BY <1>7, <2>1, <2>2
<1> QED BY <1>8

LEMMA CommitKeeps ==
    ASSUME StreamInv, NEW e \in Emitters, CommitEvent(e)
    PROVE  StreamInv'
<1>0. /\ writing \in [Emitters -> Nat \union {NoEvent}] /\ clock \in Nat
      /\ emitted \in [Emitters -> 0..(WorkEvents + 1)] /\ Worker \in Emitters
      /\ Requesters \subseteq Emitters /\ Worker \notin Requesters /\ WorkEvents \in Nat
      /\ log \in SUBSET (1..clock) /\ offset \in 0..Cardinality(log) /\ sent \in Seq(log)
  BY WorkerAssumption, EventsAssumption DEF StreamInv, StreamTypeOK, Emitters
<1>1. /\ writing[e] # NoEvent /\ Emitting(e)
      /\ log' = log \union {writing[e]}
      /\ emitted' = [emitted EXCEPT ![e] = @ + 1]
      /\ writing' = [writing EXCEPT ![e] = NoEvent]
      /\ UNCHANGED <<clock, ended, stream, offset, sent>>
  BY DEF CommitEvent, StreamInv
<1>2. /\ log \in SUBSET Nat /\ IsFiniteSet(log) /\ Cardinality(log) \in Nat
  BY LogIsFinite DEF StreamInv
<1>3. Cardinality(log)' \in Nat /\ Cardinality(log) <= Cardinality(log)'
  <2> DEFINE L == log \union {writing[e]}
  <2>1. IsFiniteSet(L) BY <1>2, FS_AddElement
  <2>2. Cardinality(L) \in Nat BY <2>1, FS_CardinalityType
  <2>3. Cardinality(L) = Cardinality(log) \/ Cardinality(L) = Cardinality(log) + 1
    BY <1>2, FS_AddElement
  <2>4. Cardinality(log)' = Cardinality(L) BY <1>1
  <2> HIDE DEF L
  <2> QED BY <1>2, <2>2, <2>3, <2>4
<1>4. StreamTypeOK'
  <2>1. log' \in SUBSET (1..clock) BY <1>0, <1>1 DEF Emitting
  <2>2. emitted' \in [Emitters -> 0..(WorkEvents + 1)] BY <1>0, <1>1 DEF Emitting
  <2>3. sent' \in Seq(log')
    <3>1. log \subseteq log' BY <1>1
    <3> QED BY <1>0, <1>1, <3>1
  <2>4. offset' \in 0..Cardinality(log)' BY <1>0, <1>1, <1>2, <1>3
  <2> QED BY <1>0, <1>1, <2>1, <2>2, <2>3, <2>4 DEF StreamInv, StreamTypeOK
<1>5. \A f \in Emitters : writing'[f] # NoEvent => Emitting(f)'
  <2> SUFFICES ASSUME NEW f \in Emitters, writing'[f] # NoEvent PROVE Emitting(f)' OBVIOUS
  <2>1. f # e BY <1>0, <1>1
  <2> QED BY <1>0, <1>1, <2>1 DEF StreamInv, Emitting
<1>6. ASSUME Quiet' PROVE Quiet /\ e = Worker
  <2>1. e = Worker
    <3>1. emitted'[e] # 0 BY <1>0, <1>1
    <3> QED BY <1>6, <3>1 DEF Quiet, Emitters
  <2> QED BY <1>0, <1>1, <1>6, <2>1 DEF Quiet
<1>7. ASSUME Quiet'
      PROVE  /\ writing'[Worker] = NoEvent /\ offset' = Len(sent')
             /\ \A i \in 1..Len(sent') : sent'[i] = Listed'[i]
  <2>1. /\ e = Worker /\ \A t \in log : t < writing[e]
        /\ offset = Len(sent) /\ \A i \in 1..Len(sent) : sent[i] = Listed[i]
    BY <1>1, <1>6, <1>7 DEF StreamInv
  <2>2. writing[e] \in Nat BY <1>0, <1>1
  <2>3. \A i \in 1..Cardinality(log) : Listed'[i] = Listed[i]
    BY <1>1, <2>1, <2>2, ListGrows DEF StreamInv
  <2> QED BY <1>0, <1>1, <1>2, <2>1, <2>3
<1> QED BY <1>4, <1>5, <1>7 DEF StreamInv

LEMMA ListKeeps ==
    ASSUME StreamInv, ListEvents
    PROVE  StreamInv'
<1> DEFINE n == Cardinality(log)
           new == SubSeq(Listed, offset + 1, n)
<1>1. /\ sent' = sent \o new /\ offset' = offset + Len(new) /\ stream' = "status"
      /\ UNCHANGED <<clock, writing, emitted, log, ended>>
  BY DEF ListEvents, NewOffset
<1>2. log \in SUBSET Nat /\ IsFiniteSet(log) /\ n \in Nat BY LogIsFinite DEF StreamInv
<1>3. /\ Listed \in Seq(log) /\ Len(Listed) = n /\ DOMAIN Listed = 1..n BY <1>2, ListedOrder
<1>4. offset \in 0..n /\ sent \in Seq(log) BY DEF StreamInv, StreamTypeOK
<1> HIDE DEF n
<1>5. /\ new \in Seq(log) /\ Len(new) = n - offset
      /\ \A i \in 1..(n - offset) : new[i] = Listed[offset + i]
  BY <1>2, <1>3, <1>4, SubSeqProperties
<1> HIDE DEF new
<1>6. offset' = n BY <1>1, <1>2, <1>4, <1>5
<1>7. /\ sent' \in Seq(log) /\ Len(sent') = Len(sent) + Len(new)
      /\ \A i \in 1..Len(sent') :
            sent'[i] = IF i <= Len(sent) THEN sent[i] ELSE new[i - Len(sent)]
  <2>1. sent \o new \in Seq(log) BY <1>4, <1>5, ConcatProperties
  <2>2. /\ Len(sent \o new) = Len(sent) + Len(new)
        /\ \A i \in 1..(Len(sent) + Len(new)) :
              (sent \o new)[i] = IF i <= Len(sent) THEN sent[i] ELSE new[i - Len(sent)]
    BY <1>4, <1>5, ConcatProperties
  <2> QED BY <1>1, <2>1, <2>2
<1>8. StreamTypeOK' BY <1>1, <1>2, <1>6, <1>7 DEF StreamInv, StreamTypeOK, n
<1>9. Listed' = Listed BY <1>1 DEF Listed
<1>10. Quiet' => Quiet BY <1>1 DEF Quiet
<1>11. ASSUME Quiet
       PROVE  offset' = Len(sent') /\ \A i \in 1..Len(sent') : sent'[i] = Listed[i]
  <2>1. /\ offset = Len(sent) /\ \A i \in 1..Len(sent) : sent[i] = Listed[i]
    BY <1>11 DEF StreamInv
  <2>2. Len(sent') = n BY <1>2, <1>4, <1>5, <1>7, <2>1
  <2>3. ASSUME NEW i \in 1..Len(sent') PROVE sent'[i] = Listed[i]
    <3>1. CASE i <= Len(sent) BY <1>4, <1>7, <2>1, <3>1
    <3>2. CASE ~(i <= Len(sent))
      <4>1. i - Len(sent) \in 1..(n - offset) /\ offset + (i - Len(sent)) = i
        BY <1>2, <1>4, <2>1, <2>2, <3>2
      <4> QED BY <1>5, <1>7, <3>2, <4>1
    <3> QED BY <3>1, <3>2
  <2> QED BY <1>6, <2>2, <2>3
<1> QED BY <1>1, <1>8, <1>9, <1>10, <1>11 DEF StreamInv, Emitting

LEMMA StreamInvHolds == StreamSpec => []StreamInv
<1>1. StreamInv /\ [StreamNext]_streamVars => StreamInv'
  <2> SUFFICES ASSUME StreamInv, [StreamNext]_streamVars PROVE StreamInv' OBVIOUS
  <2>1. ASSUME NEW e \in Emitters, Emit(e) PROVE StreamInv'
    BY <2>1, StampKeeps, CommitKeeps DEF Emit
  <2>2. CASE WriteTerminalStatus \/ ReadStatus \/ UNCHANGED streamVars
    <3>1. /\ UNCHANGED <<clock, writing, emitted, log, offset, sent>>
          /\ ended' \in BOOLEAN /\ stream' \in {"list", "status", "closed"}
      BY <2>2 DEF WriteTerminalStatus, ReadStatus, AfterStatus, streamVars, StreamInv, StreamTypeOK
    <3>2. StreamTypeOK' BY <3>1 DEF StreamInv, StreamTypeOK
    <3>3. Listed' = Listed BY <3>1 DEF Listed
    <3>4. Quiet' = Quiet /\ \A e \in Emitters : Emitting(e)' = Emitting(e)
      BY <3>1 DEF Quiet, Emitting
    <3> QED BY <3>1, <3>2, <3>3, <3>4 DEF StreamInv
  <2>3. CASE ListEvents BY <2>3, ListKeeps
  <2> QED BY <2>1, <2>2, <2>3 DEF StreamNext, Follow
<1> QED BY <1>1, StreamStarts, PTL DEF StreamSpec

\* Timestamps, offset and what was sent keep their types: the offset is never
\* beyond the events that are there.
THEOREM StreamTypeCorrect == StreamSpec => []StreamTypeOK
<1>1. StreamInv => StreamTypeOK BY DEF StreamInv
<1> QED BY <1>1, StreamInvHolds, PTL

\* A client has the first events of the list, each once and in their order,
\* until a request emits an event of its own.
THEOREM ClientsMissNothing == StreamSpec => []SentIsAPrefix
<1>1. StreamInv => SentIsAPrefix
  <2> SUFFICES ASSUME StreamInv, Quiet, NEW i \in DOMAIN sent
               PROVE  i \in DOMAIN Listed /\ sent[i] = Listed[i]
    BY DEF SentIsAPrefix, Quiet
  <2>1. /\ sent \in Seq(log) /\ offset \in 0..Cardinality(log) /\ offset = Len(sent)
        /\ \A j \in 1..Len(sent) : sent[j] = Listed[j]
    BY DEF StreamInv, StreamTypeOK
  <2>2. Cardinality(log) \in Nat /\ DOMAIN Listed = 1..Cardinality(log)
    BY LogIsFinite, ListedOrder DEF StreamInv
  <2> QED BY <2>1, <2>2
<1> QED BY <1>1, StreamInvHolds, PTL

-----------------------------------------------------------------------------
(***************************************************************************)
(* RunAdmission                                                            *)
(*                                                                         *)
(* Both bounds count what exists and what is about to exist: a request     *)
(* that has seen the limit (or the lack of its key) and not yet created    *)
(* its run is counted with the runs.                                       *)
(***************************************************************************)

USE RequestsAssumption, LimitAssumption, KeysAssumption

\* A set that gains at most one element gains at most one in cardinality.
LEMMA GrowsByOne ==
    ASSUME NEW S, NEW T, NEW x, IsFiniteSet(S), T \subseteq S \union {x}
    PROVE  /\ IsFiniteSet(T)
           /\ Cardinality(T) <= Cardinality(S) + 1
           /\ Cardinality(T) \in Nat /\ Cardinality(S) \in Nat
<1>1. /\ IsFiniteSet(S \union {x})
      /\ Cardinality(S \union {x}) \in Nat
      /\ Cardinality(S) \in Nat
      /\ Cardinality(S \union {x}) <= Cardinality(S) + 1
  <2>1. IsFiniteSet(S \union {x}) BY FS_AddElement
  <2>2. Cardinality(S \union {x}) \in Nat /\ Cardinality(S) \in Nat
    BY <2>1, FS_CardinalityType
  <2>3. Cardinality(S \union {x}) =
          IF x \in S THEN Cardinality(S) ELSE Cardinality(S) + 1
    BY FS_AddElement
  <2> QED BY <2>1, <2>2, <2>3
<1>2. IsFiniteSet(T) /\ Cardinality(T) <= Cardinality(S \union {x})
  BY <1>1, FS_Subset
<1> QED BY <1>1, <1>2, FS_CardinalityType

\* A set that loses an element and gains none has one less.
LEMMA LosesOne ==
    ASSUME NEW S, NEW T, NEW x \in S, IsFiniteSet(S), T \subseteq S \ {x}
    PROVE  /\ IsFiniteSet(T)
           /\ Cardinality(T) + 1 <= Cardinality(S)
           /\ Cardinality(T) \in Nat /\ Cardinality(S) \in Nat
<1>1. /\ IsFiniteSet(S \ {x})
      /\ Cardinality(S \ {x}) \in Nat
      /\ Cardinality(S) \in Nat
      /\ Cardinality(S \ {x}) = Cardinality(S) - 1
  BY FS_RemoveElement, FS_CardinalityType
<1>2. IsFiniteSet(T) /\ Cardinality(T) <= Cardinality(S \ {x})
  BY <1>1, FS_Subset
<1> QED BY <1>1, <1>2, FS_CardinalityType

LEMMA NoMore ==
    ASSUME NEW S, NEW T, IsFiniteSet(S), T \subseteq S
    PROVE  /\ IsFiniteSet(T)
           /\ Cardinality(T) <= Cardinality(S)
           /\ Cardinality(T) \in Nat /\ Cardinality(S) \in Nat
BY FS_Subset, FS_CardinalityType

\* The sets that are counted are finite.
LEMMA Counted ==
    /\ IsFiniteSet(Admitted) /\ IsFiniteSet(Active) /\ IsFiniteSet(Creating)
    /\ Admitted \subseteq Active /\ Creating \subseteq Requests
    /\ \A k \in Keys : /\ IsFiniteSet(WithKey(k)) /\ WithKey(k) \subseteq Runs
                       /\ IsFiniteSet(Starting(k)) /\ Starting(k) \subseteq Requests
BY FS_Subset DEF Admitted, Active, Creating, WithKey, Starting

LEMMA CardinalitiesAreNat ==
    /\ Cardinality(Admitted) \in Nat /\ Cardinality(Active) \in Nat
    /\ Cardinality(Creating) \in Nat /\ Cardinality(Requests) \in Nat
    /\ \A k \in Keys : /\ Cardinality(WithKey(k)) \in Nat
                       /\ Cardinality(Starting(k)) \in Nat
BY Counted, FS_CardinalityType

(***************************************************************************)
(* Types                                                                   *)
(***************************************************************************)
LEMMA TypedStep == TypeOK /\ [Next]_vars => TypeOK'
<1> SUFFICES ASSUME TypeOK, [Next]_vars PROVE TypeOK'
  OBVIOUS
<1>1. CASE UNCHANGED vars
  BY <1>1 DEF vars, runVars, TypeOK
<1>2. ASSUME NEW q \in Requests, Arrive(q) PROVE TypeOK'
  BY <1>2 DEF Arrive, Goto, runVars, TypeOK
<1>3. ASSUME NEW q \in Requests, FindByKey(q) PROVE TypeOK'
  BY <1>3 DEF FindByKey, Goto, runVars, TypeOK
<1>4. ASSUME NEW q \in Requests, CountActive(q) PROVE TypeOK'
  BY <1>4 DEF CountActive, Goto, runVars, TypeOK
<1>5. ASSUME NEW q \in Requests, CreateRun(q) PROVE TypeOK'
  BY <1>5 DEF CreateRun, Goto, TypeOK
<1>6. CASE RetryRun
  BY <1>6 DEF RetryRun, TypeOK
<1>7. ASSUME NEW r \in Runs, EndRun(r) PROVE TypeOK'
  BY <1>7 DEF EndRun, TypeOK
<1> QED BY <1>1, <1>2, <1>3, <1>4, <1>5, <1>6, <1>7 DEF Next

\* Every state of the admission is well typed, and a row that is not there
\* has no key and is no retry.
THEOREM AdmissionTypeCorrect == Spec => []TypeOK
<1>1. Init => TypeOK BY DEF Init, TypeOK
<1> QED BY <1>1, TypedStep, PTL DEF Spec

(***************************************************************************)
(* The limit                                                               *)
(***************************************************************************)
LEMMA BoundInit == Init => AdmissionBound
<1> SUFFICES ASSUME Init PROVE AdmissionBound
  OBVIOUS
<1>1. Admitted = {} /\ Creating = {}
  BY DEF Init, Admitted, Active, Creating
<1> QED BY <1>1, FS_EmptySet, CardinalitiesAreNat DEF AdmissionBound

\* A step that neither admits a run nor takes a request to its creation.
LEMMA BoundKept ==
    ASSUME AdmissionBound, Admitted' \subseteq Admitted, Creating' \subseteq Creating
    PROVE  AdmissionBound'
<1>1. /\ Cardinality(Admitted') <= Cardinality(Admitted)
      /\ Cardinality(Creating') <= Cardinality(Creating)
      /\ Cardinality(Admitted') \in Nat /\ Cardinality(Creating') \in Nat
  BY Counted, NoMore
<1> QED BY <1>1, CardinalitiesAreNat DEF AdmissionBound

LEMMA BoundStep == TypeOK /\ AdmissionBound /\ [Next]_vars => AdmissionBound'
<1> SUFFICES ASSUME TypeOK, AdmissionBound, [Next]_vars PROVE AdmissionBound'
  OBVIOUS
<1>1. CASE UNCHANGED vars
  BY <1>1, BoundKept DEF vars, runVars, Admitted, Active, Creating
<1>2. ASSUME NEW q \in Requests, Arrive(q) PROVE AdmissionBound'
  BY <1>2, BoundKept DEF Arrive, Goto, runVars, Admitted, Active, Creating, TypeOK
<1>3. ASSUME NEW q \in Requests, FindByKey(q) PROVE AdmissionBound'
  BY <1>3, BoundKept DEF FindByKey, Goto, runVars, Admitted, Active, Creating, TypeOK
<1>4. ASSUME NEW q \in Requests, CountActive(q) PROVE AdmissionBound'
  <2>1. CASE ~BelowLimit
    BY <1>4, <2>1, BoundKept
    DEF CountActive, Goto, runVars, Admitted, Active, Creating, TypeOK
  <2>2. CASE BelowLimit
    <3>1. Admitted' = Admitted
      BY <1>4 DEF CountActive, runVars, Admitted, Active
    <3>2. Cardinality(Admitted) < Limit
      BY <2>2, Counted, CardinalitiesAreNat, NoMore DEF BelowLimit
    <3>3. Cardinality(Creating') <= Cardinality(Requests) /\ Cardinality(Creating') \in Nat
      BY Counted, FS_Subset, FS_CardinalityType DEF Creating
    <3> QED BY <3>1, <3>2, <3>3, CardinalitiesAreNat DEF AdmissionBound
  <2> QED BY <2>1, <2>2
<1>5. ASSUME NEW q \in Requests, CreateRun(q) PROVE AdmissionBound'
  <2>1. PICK r \in Runs : /\ status[r] = "absent"
                          /\ status' = [status EXCEPT ![r] = "active"]
    BY <1>5 DEF CreateRun
  <2>2. Admitted' \subseteq Admitted \union {r}
    BY <1>5, <2>1 DEF CreateRun, Admitted, Active, TypeOK
  <2>3. q \in Creating /\ Creating' \subseteq Creating \ {q}
    BY <1>5 DEF CreateRun, Goto, Creating, TypeOK
  <2>4. /\ Cardinality(Admitted') <= Cardinality(Admitted) + 1
        /\ Cardinality(Admitted') \in Nat
    BY <2>2, Counted, GrowsByOne
  <2>5. /\ Cardinality(Creating') + 1 <= Cardinality(Creating)
        /\ Cardinality(Creating') \in Nat
    BY <2>3, Counted, LosesOne
  <2> QED BY <2>4, <2>5, CardinalitiesAreNat DEF AdmissionBound
<1>6. CASE RetryRun
  BY <1>6, BoundKept DEF RetryRun, Admitted, Active, Creating, TypeOK
<1>7. ASSUME NEW r \in Runs, EndRun(r) PROVE AdmissionBound'
  BY <1>7, BoundKept DEF EndRun, Admitted, Active, Creating, TypeOK
<1> QED BY <1>1, <1>2, <1>3, <1>4, <1>5, <1>6, <1>7 DEF Next

(***************************************************************************)
(* Whatever the requests and however they interleave, the runs that are    *)
(* not retries exceed the limit by the number of the other requests in     *)
(* flight at most; one request at a time keeps it.  A request that has     *)
(* passed the check counts as a run: that is AdmissionBound, which is      *)
(* inductive.                                                              *)
(***************************************************************************)
THEOREM LimitExceededByRaces == Spec => []LimitExceededByRacesOnly
<1>1. Init => TypeOK BY DEF Init, TypeOK
<1>2. AdmissionBound => LimitExceededByRacesOnly
  BY CardinalitiesAreNat DEF AdmissionBound, LimitExceededByRacesOnly
<1> QED BY <1>1, <1>2, TypedStep, BoundInit, BoundStep, PTL DEF Spec

(***************************************************************************)
(* The keys                                                                *)
(***************************************************************************)
LEMMA KeysInit == Init => KeyBound
<1> SUFFICES ASSUME Init, NEW k \in Keys
             PROVE  Cardinality(WithKey(k)) + Cardinality(Starting(k)) <= Cardinality(Requests)
  BY DEF KeyBound
<1>1. WithKey(k) = {} /\ Starting(k) = {}
  BY DEF Init, WithKey, Starting
<1> QED BY <1>1, FS_EmptySet, CardinalitiesAreNat

LEMMA KeysKept ==
    ASSUME KeyBound,
           NEW k \in Keys, WithKey(k)' \subseteq WithKey(k), Starting(k)' \subseteq Starting(k)
    PROVE  Cardinality(WithKey(k)') + Cardinality(Starting(k)') <= Cardinality(Requests)
<1>1. /\ Cardinality(WithKey(k)') <= Cardinality(WithKey(k))
      /\ Cardinality(Starting(k)') <= Cardinality(Starting(k))
      /\ Cardinality(WithKey(k)') \in Nat /\ Cardinality(Starting(k)') \in Nat
  BY Counted, NoMore
<1> QED BY <1>1, CardinalitiesAreNat DEF KeyBound

LEMMA KeysStep == TypeOK /\ KeyBound /\ [Next]_vars => KeyBound'
<1> SUFFICES ASSUME TypeOK, KeyBound, [Next]_vars, NEW k \in Keys
             PROVE  Cardinality(WithKey(k)') + Cardinality(Starting(k)') <= Cardinality(Requests)
  BY DEF KeyBound
<1> DEFINE Kept == WithKey(k)' \subseteq WithKey(k) /\ Starting(k)' \subseteq Starting(k)
<1>1. CASE UNCHANGED vars
  BY <1>1, KeysKept DEF vars, runVars, WithKey, Starting
<1>2. ASSUME NEW q \in Requests, Arrive(q) PROVE Kept
  BY <1>2 DEF Arrive, Goto, runVars, WithKey, Starting, TypeOK
<1>3. ASSUME NEW q \in Requests, FindByKey(q)
      PROVE  Cardinality(WithKey(k)') + Cardinality(Starting(k)') <= Cardinality(Requests)
  <2>1. WithKey(k)' = WithKey(k)
    BY <1>3 DEF FindByKey, runVars, WithKey
  <2>2. CASE wanted[q] = k /\ ~Found(k)
    <3>1. Cardinality(WithKey(k)') = 0
      BY <2>1, <2>2, FS_EmptySet DEF Found
    <3>2. Cardinality(Starting(k)') <= Cardinality(Requests) /\ Cardinality(Starting(k)') \in Nat
      BY FS_Subset, FS_CardinalityType DEF Starting
    <3> QED BY <3>1, <3>2, CardinalitiesAreNat
  <2>3. CASE ~(wanted[q] = k /\ ~Found(k))
    <3>1. wanted[q] = k => pc' = [pc EXCEPT ![q] = "found"]
      BY <1>3, <2>3 DEF FindByKey, Goto
    <3>2. Starting(k)' \subseteq Starting(k)
      BY <1>3, <3>1 DEF FindByKey, Goto, Starting, TypeOK
    <3> QED BY <2>1, <3>2, KeysKept
  <2> QED BY <2>2, <2>3
<1>4. ASSUME NEW q \in Requests, CountActive(q) PROVE Kept
  BY <1>4 DEF CountActive, Goto, runVars, WithKey, Starting, TypeOK
<1>5. ASSUME NEW q \in Requests, CreateRun(q)
      PROVE  Cardinality(WithKey(k)') + Cardinality(Starting(k)') <= Cardinality(Requests)
  <2>1. PICK r \in Runs : /\ status[r] = "absent"
                          /\ status' = [status EXCEPT ![r] = "active"]
                          /\ key' = [key EXCEPT ![r] = wanted[q]]
    BY <1>5 DEF CreateRun
  <2>2. CASE wanted[q] # k
    BY <1>5, <2>1, <2>2, KeysKept DEF CreateRun, Goto, WithKey, Starting, TypeOK
  <2>3. CASE wanted[q] = k
    <3>1. WithKey(k)' \subseteq WithKey(k) \union {r}
      BY <2>1 DEF WithKey, TypeOK
    <3>2. q \in Starting(k) /\ Starting(k)' \subseteq Starting(k) \ {q}
      BY <1>5, <2>3 DEF CreateRun, Goto, Starting, TypeOK
    <3>3. /\ Cardinality(WithKey(k)') <= Cardinality(WithKey(k)) + 1
          /\ Cardinality(WithKey(k)') \in Nat
      BY <3>1, Counted, GrowsByOne
    <3>4. /\ Cardinality(Starting(k)') + 1 <= Cardinality(Starting(k))
          /\ Cardinality(Starting(k)') \in Nat
      BY <3>2, Counted, LosesOne
    <3> QED BY <3>3, <3>4, CardinalitiesAreNat DEF KeyBound
  <2> QED BY <2>2, <2>3
<1>6. CASE RetryRun
  <2>1. PICK r \in Runs : status[r] = "absent" /\ status' = [status EXCEPT ![r] = "active"]
    BY <1>6 DEF RetryRun
  <2>2. Kept
    BY <1>6, <2>1 DEF RetryRun, WithKey, Starting, TypeOK
  <2> QED BY <2>2, KeysKept
<1>7. ASSUME NEW r \in Runs, EndRun(r) PROVE Kept
  BY <1>7 DEF EndRun, WithKey, Starting, TypeOK
<1> QED BY <1>1, <1>2, <1>3, <1>4, <1>5, <1>6, <1>7, KeysKept DEF Next

(***************************************************************************)
(* A key has at most as many runs as there are requests in flight at once: *)
(* a single one if the requests do not race.  The requests that have found *)
(* no run are counted with the runs (KeyBound).                            *)
(***************************************************************************)
THEOREM KeySharedByRaces == Spec => []KeySharedByRacesOnly
<1>1. Init => TypeOK BY DEF Init, TypeOK
<1>2. KeyBound => KeySharedByRacesOnly
  BY CardinalitiesAreNat DEF KeyBound, KeySharedByRacesOnly
<1> QED BY <1>1, <1>2, TypedStep, KeysInit, KeysStep, PTL DEF Spec

(***************************************************************************)
(* Repeating a request                                                     *)
(***************************************************************************)
\* No run loses its key, and none disappears.
LEMMA KeyStays ==
    ASSUME TypeOK, [Next]_vars, NEW r \in Runs, status[r] # "absent"
    PROVE  status'[r] # "absent" /\ key'[r] = key[r]
<1>1. CASE UNCHANGED vars
  BY <1>1 DEF vars, runVars
<1>2. ASSUME NEW q \in Requests, Arrive(q) \/ FindByKey(q) \/ CountActive(q)
      PROVE  UNCHANGED <<status, key>>
  BY <1>2 DEF Arrive, FindByKey, CountActive, runVars
<1>3. ASSUME NEW q \in Requests, CreateRun(q)
      PROVE  status'[r] # "absent" /\ key'[r] = key[r]
  BY <1>3 DEF CreateRun, TypeOK
<1>4. CASE RetryRun
  BY <1>4 DEF RetryRun, TypeOK
<1>5. ASSUME NEW s \in Runs, EndRun(s)
      PROVE  status'[r] # "absent" /\ key'[r] = key[r]
  BY <1>5 DEF EndRun, TypeOK
<1> QED BY <1>1, <1>2, <1>3, <1>4, <1>5 DEF Next

\* A request that is not looked at stays known, and so does its run.
LEMMA KnownStep == TypeOK /\ KnownIsThere /\ [Next]_vars => KnownIsThere'
<1> SUFFICES ASSUME TypeOK, KnownIsThere, [Next]_vars,
                    NEW p \in Requests, known'[p]
             PROVE  /\ pc'[p] \in {"find", "found"}
                    /\ wanted'[p] # None
                    /\ \E r \in Runs : status'[r] # "absent" /\ key'[r] = wanted'[p]
  BY DEF KnownIsThere
<1>1. ASSUME pc'[p] \in {"find", "found"}, wanted'[p] = wanted[p], known[p]
      PROVE  /\ wanted'[p] # None
             /\ \E r \in Runs : status'[r] # "absent" /\ key'[r] = wanted'[p]
  BY <1>1, KeyStays DEF KnownIsThere
<1>2. ASSUME NEW q \in Requests, Arrive(q), p = q
      PROVE  /\ pc'[p] \in {"find", "found"}
             /\ wanted'[p] # None
             /\ \E r \in Runs : status'[r] # "absent" /\ key'[r] = wanted'[p]
  <2>1. PICK k \in Keys \union {None} :
            /\ wanted' = [wanted EXCEPT ![q] = k]
            /\ known' = [known EXCEPT ![q] = k # None /\ WithKey(k) # {}]
    BY <1>2 DEF Arrive
  <2>2. known'[p] = (k # None /\ WithKey(k) # {})
    BY <2>1, <1>2 DEF TypeOK
  <2>3. k # None /\ WithKey(k) # {}
    BY <2>2
  <2>4. PICK r \in Runs : status[r] # "absent" /\ key[r] = k
    BY <2>3 DEF WithKey
  <2>5. status'[r] # "absent" /\ key'[r] = k
    BY <2>4, KeyStays
  <2>6. wanted'[p] = k /\ pc'[p] = "find"
    BY <1>2, <2>1 DEF Arrive, Goto, TypeOK
  <2> QED BY <2>3, <2>5, <2>6
<1>3. ASSUME NEW q \in Requests, Arrive(q), p # q
      PROVE  pc'[p] = pc[p] /\ wanted'[p] = wanted[p] /\ known'[p] = known[p]
  BY <1>3 DEF Arrive, Goto, TypeOK
<1>4. ASSUME NEW q \in Requests, FindByKey(q)
      PROVE  UNCHANGED <<wanted, known>> /\ pc'[p] \in {"find", "found"}
  <2>1. UNCHANGED <<wanted, known>> /\ pc[p] \in {"find", "found"} /\ wanted[p] # None
    BY <1>4 DEF FindByKey, KnownIsThere
  <2>2. CASE p = q
    <3>1. Found(wanted[q])
      BY <2>1, <2>2 DEF Found, WithKey, KnownIsThere
    <3> QED BY <1>4, <2>1, <2>2, <3>1 DEF FindByKey, Goto, TypeOK
  <2>3. CASE p # q
    BY <1>4, <2>1, <2>3 DEF FindByKey, Goto, TypeOK
  <2> QED BY <2>1, <2>2, <2>3
<1>5. ASSUME NEW q \in Requests, CountActive(q) \/ CreateRun(q)
      PROVE  UNCHANGED <<wanted, known>> /\ pc'[p] = pc[p]
  <2>1. UNCHANGED <<wanted, known>> /\ pc[p] \in {"find", "found"}
    BY <1>5 DEF CountActive, CreateRun, KnownIsThere
  <2>2. pc[q] \in {"count", "create"}
    BY <1>5 DEF CountActive, CreateRun
  <2> QED BY <1>5, <2>1, <2>2 DEF CountActive, CreateRun, Goto, TypeOK
<1>6. CASE RetryRun \/ (\E r \in Runs : EndRun(r)) \/ UNCHANGED vars
  <2>1. UNCHANGED <<pc, wanted, known>>
    BY <1>6 DEF RetryRun, EndRun, vars
  <2> QED BY <1>1, <2>1 DEF KnownIsThere
<1>7. CASE \E q \in Requests : Arrive(q) \/ FindByKey(q) \/ CountActive(q) \/ CreateRun(q)
  BY <1>1, <1>2, <1>3, <1>4, <1>5, <1>7 DEF KnownIsThere
<1> QED BY <1>6, <1>7 DEF Next

(***************************************************************************)
(* A request that is repeated once its key has a run is answered with that *)
(* run, whatever races with it: it is never refused for the limit, and     *)
(* starts nothing.  It rests on keys never being lost (KnownIsThere).      *)
(***************************************************************************)
THEOREM RepeatAnswered == Spec => []RepeatIsAnswered
<1>1. Init => TypeOK /\ KnownIsThere BY DEF Init, TypeOK, KnownIsThere
<1>2. KnownIsThere => RepeatIsAnswered BY DEF KnownIsThere, RepeatIsAnswered
<1> QED BY <1>1, <1>2, TypedStep, KnownStep, PTL DEF Spec
=============================================================================
