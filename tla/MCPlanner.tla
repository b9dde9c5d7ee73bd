------------------------------ MODULE MCPlanner ------------------------------
(***************************************************************************)
(* Instances of Planner: every graph on three nodes, every graph with at   *)
(* most four edges on four nodes, and definitions with parallel, default   *)
(* or dangling edges, no trigger or faulty nodes.                          *)
(***************************************************************************)
EXTENDS Planner, SequencesExt, FiniteSetsExt

MCIds == 1..4

Plain(p) == [source |-> p[1], target |-> p[2], default |-> FALSE]

Chart(n, pairs) ==
    [nodes |-> 1..n, edges |-> FoldSet(LAMBDA p, es : Append(es, Plain(p)), << >>, pairs),
     triggers |-> {1}, faulty |-> {}]

Three == {Chart(3, pairs) : pairs \in SUBSET ((1..3) \X (1..3))}

Four == {Chart(4, pairs) : pairs \in UNION {kSubset(k, (1..4) \X (1..4)) : k \in 3..4}}

\* The first edge twice.
Parallel == {[w EXCEPT !.edges = <<w.edges[1]>> \o @] :
                w \in {v \in Three : Len(v.edges) \in 1..4}}

\* Sequences of at most two edges on two nodes and a missing one.
AnyEdge(n) == [source : 1..n, target : 1..n, default : BOOLEAN]

Odd == [nodes : {{}, 1..2}, edges : BoundedSeq(AnyEdge(3), 2), triggers : SUBSET (1..2),
        faulty : {{}, {2}}]

MCWorkflows == Three \union Four \union Parallel \union
               {w \in Odd : w.triggers \union w.faulty \subseteq w.nodes}
=============================================================================
