------------------------- MODULE SubWorkflowsProofs -------------------------
(***************************************************************************)
(* Theorems about SubWorkflows, and with it about WorkflowEngine, for any  *)
(* number of nodes, any workflows and libraries, and any number of retried *)
(* runs: what the queue and the join tokens of the engine mean, and that   *)
(* it implements Activation.                                               *)
(*                                                                         *)
(* Both engines, that of the run and that of a frame, are shown by the     *)
(* same argument: the edges followed so far make exactly those nodes due   *)
(* that were executed, are executed or are queued, and the tokens of a     *)
(* join count those that lead to it.                                       *)
(***************************************************************************)
EXTENDS SubWorkflows, FiniteSetTheorems, SequenceTheorems, TLAPS

\* The edges that the outputs of the nodes ran have selected, those of a set
\* of edges that lead to n, and the nodes that these make due.
Sent(w, ran, rt) == UNION {Selected(w, m, rt[m]) : m \in ran}
Into(w, edges, n) == {i \in edges : w.edges[i].to = n}
Due(w, first, edges, n) ==
    \/ n \in first
    \/ /\ Into(w, edges, n) # {}
       /\ n \in w.joins => Cardinality(Into(w, edges, n)) >= w.need[n]

Counted(w, edges, tokens) ==
    \A n \in w.joins : tokens[n] = Cardinality(Into(w, edges, n))

-----------------------------------------------------------------------------
(* The invariant of the engine of a run                                    *)

Ran      == {n \in Nodes : steps[n] = "succeeded"}
HasRun   == {n \in Nodes : steps[n] \in {"succeeded", "copied"}}
First    == IF source = None THEN Range(wf.roots) ELSE {source.from}
Followed == Sent(wf, Ran, output) \ fan

\* What a state says of the nodes that have run and the edges followed is
\* true; the nodes in busy are neither executed nor queued.
Faithful(w, first, ran, edges, state, busy) ==
    /\ state.executed = ran
    /\ busy \cap (ran \union state.enqueued) = {}
    /\ Counted(w, edges, state.tokens)
    /\ \A n \in Nodes : state.inputs[n] = {w.edges[i].from : i \in Into(w, edges, n)}
    /\ \A n \in state.enqueued \union busy : Due(w, first, edges, n)
    /\ \A n \in Nodes : Due(w, first, edges, n) => n \in ran \union state.enqueued \union busy
    /\ \A n \in Nodes \ ran : state.attempts[n] < IF n \in w.retried THEN 2 ELSE 1

Sound(state, busy) == Faithful(wf, First, HasRun, Followed, state, busy)

Working ==
    /\ phase # "off" =>
           /\ status \in {"running", "cancelling"}
           /\ Distinct(results) /\ Range(results) = HasRun
    /\ phase = "loop" => fan = {} /\ saved = local /\ Sound(local, {})
    /\ phase = "exec" => fan = {} /\ current \in Nodes /\ Sound(local, {current})
    /\ phase = "edges" => /\ current \in Ran
                          /\ fan \subseteq Selected(wf, current, output[current])
                          /\ Sound(local, {})

Resting ==
    /\ phase = "off" =>
           /\ status \notin {"running", "cancelling"}
           /\ current = 0 /\ fan = {} /\ local = NewState /\ results = << >>
           /\ saved # None => Sound(saved, {})
    /\ status \in {"paused", "waiting_human"} => saved # None

\* What a run has copied, and what it has not yet.
Copying ==
    /\ \A n \in Nodes : output[n] # None <=> n \in HasRun
    /\ source = None => \A n \in Nodes : steps[n] # "copied"
    /\ status = "queued" /\ saved = None => \A n \in Nodes : steps[n] = "pending"
    /\ source # None /\ (phase # "off" \/ saved # None) => \A n \in Copied : steps[n] = "copied"

EngineInv ==
    /\ TypeOK
    /\ wf \in Workflows
    /\ QueueCoherent
    /\ Working
    /\ Resting
    /\ Copying

-----------------------------------------------------------------------------
(* The invariant of the frames                                             *)

FrameFollowed(f) == Sent(Body(f), f.executed, f.route) \ f.fan
Busy(f)          == {f.node} \ {0}

FrameOK(f) ==
    /\ f \in Frame
    /\ f.name \in DOMAIN library
    /\ f.enqueued = Range(f.queue) /\ Distinct(f.queue)
    /\ Busy(f) \cap (f.executed \union f.enqueued) = {}
    /\ f.enqueued \cap f.executed = {}
    /\ f.node # 0 => f.fan = {}
    /\ f.fan \subseteq Sent(Body(f), f.executed, f.route)
    /\ Counted(Body(f), FrameFollowed(f), f.tokens)
    /\ \A n \in Nodes : Due(Body(f), Range(Body(f).roots), FrameFollowed(f), n)
                        <=> n \in f.executed \union f.enqueued \union Busy(f)

FramesInv ==
    /\ library \in Libraries
    /\ frames \in Seq(Frame) /\ Len(frames) <= MaxDepth
    /\ \A i \in DOMAIN frames : FrameOK(frames[i])
    /\ \A i \in DOMAIN frames : i < Len(frames) => frames[i].node # 0
    /\ outcome \in {"none", "returned", "raised", "asked"}
    /\ asker \in Nodes \union {0}

-----------------------------------------------------------------------------
(* Queues                                                                  *)

LEMMA QueueRange ==
    ASSUME NEW S, NEW q \in Seq(S)
    PROVE  /\ Range(q) \subseteq S
           /\ \A x \in Range(q) : \E i \in 1..Len(q) : q[i] = x
           /\ \A i \in 1..Len(q) : q[i] \in Range(q)
           /\ Range(q) = {} => q = << >>
BY DEF Range

LEMMA TakeHead ==
    ASSUME NEW S, NEW q \in Seq(S), Distinct(q), q # << >>
    PROVE  /\ Tail(q) \in Seq(S) /\ Distinct(Tail(q))
           /\ Head(q) \in Range(q) /\ Head(q) \in S
           /\ Range(Tail(q)) = Range(q) \ {Head(q)}
<1>1. Len(q) \in Nat \ {0} /\ DOMAIN q = 1..Len(q) BY EmptySeq
<1>2. /\ Tail(q) \in Seq(S) /\ Len(Tail(q)) = Len(q) - 1
      /\ \A i \in 1..Len(Tail(q)) : Tail(q)[i] = q[i + 1]
  BY HeadTailProperties
<1>3. DOMAIN Tail(q) = 1..(Len(q) - 1) BY <1>1, <1>2
<1>4. Head(q) = q[1] /\ 1 \in 1..Len(q) BY <1>1
<1>5. Distinct(Tail(q))
  <2> SUFFICES ASSUME NEW i \in 1..(Len(q) - 1), NEW j \in 1..(Len(q) - 1), Tail(q)[i] = Tail(q)[j]
               PROVE  i = j
    BY <1>3 DEF Distinct
  <2>1. i + 1 \in DOMAIN q /\ j + 1 \in DOMAIN q /\ q[i + 1] = q[j + 1] BY <1>1, <1>2
  <2>2. i + 1 = j + 1 BY <2>1 DEF Distinct
  <2> QED BY <1>1, <2>2
<1>6. Range(Tail(q)) \subseteq Range(q) \ {Head(q)}
  <2> SUFFICES ASSUME NEW i \in 1..(Len(q) - 1) PROVE Tail(q)[i] \in Range(q) \ {q[1]}
    BY <1>3, <1>4 DEF Range
  <2>1. i + 1 \in DOMAIN q /\ Tail(q)[i] = q[i + 1] BY <1>1, <1>2
  <2>2. q[i + 1] # q[1] BY <1>1, <1>4, <2>1 DEF Distinct
  <2> QED BY <2>1, <2>2 DEF Range
<1>7. Range(q) \ {Head(q)} \subseteq Range(Tail(q))
  <2> SUFFICES ASSUME NEW i \in 1..Len(q), q[i] # q[1] PROVE q[i] \in Range(Tail(q))
    BY <1>1, <1>4 DEF Range
  <2>1. i - 1 \in 1..(Len(q) - 1) /\ (i - 1) + 1 = i BY <1>1
  <2>2. Tail(q)[i - 1] = q[i] BY <1>2, <2>1
  <2> QED BY <1>3, <2>1, <2>2 DEF Range
<1>8. Head(q) \in Range(q) /\ Head(q) \in S BY <1>1, <1>4 DEF Range
<1> QED BY <1>2, <1>5, <1>6, <1>7, <1>8

LEMMA AddLast ==
    ASSUME NEW S, NEW q \in Seq(S), Distinct(q), NEW x \in S, x \notin Range(q)
    PROVE  /\ Append(q, x) \in Seq(S) /\ Distinct(Append(q, x))
           /\ Range(Append(q, x)) = Range(q) \union {x}
<1>1. /\ Append(q, x) \in Seq(S) /\ Len(Append(q, x)) = Len(q) + 1 /\ Len(q) \in Nat
      /\ DOMAIN q = 1..Len(q) /\ DOMAIN Append(q, x) = 1..(Len(q) + 1)
      /\ Append(q, x)[Len(q) + 1] = x
      /\ \A i \in 1..Len(q) : Append(q, x)[i] = q[i] /\ q[i] # x
  BY DEF Range
<1>2. \A i \in 1..(Len(q) + 1) : i \in 1..Len(q) \/ i = Len(q) + 1 BY <1>1
<1>3. Distinct(Append(q, x))
  <2> SUFFICES ASSUME NEW i \in 1..(Len(q) + 1), NEW j \in 1..(Len(q) + 1),
                      Append(q, x)[i] = Append(q, x)[j]
               PROVE  i = j
    BY <1>1 DEF Distinct
  <2> QED BY <1>1, <1>2 DEF Distinct
<1>4. Range(Append(q, x)) = Range(q) \union {x}
  <2>1. \A y \in Range(Append(q, x)) : y \in Range(q) \union {x} BY <1>1, <1>2 DEF Range
  <2>2. \A i \in 1..Len(q) : q[i] \in Range(Append(q, x))
    <3> SUFFICES ASSUME NEW i \in 1..Len(q) PROVE q[i] \in Range(Append(q, x)) OBVIOUS
    <3>1. i \in DOMAIN Append(q, x) /\ Append(q, x)[i] = q[i] BY <1>1
    <3> QED BY <3>1 DEF Range
  <2>3. x \in Range(Append(q, x))
    <3>1. Len(q) + 1 \in DOMAIN Append(q, x) BY <1>1
    <3> QED BY <1>1, <3>1 DEF Range
  <2>4. \A y \in Range(q) : \E i \in 1..Len(q) : q[i] = y BY QueueRange
  <2> QED BY <2>1, <2>2, <2>3, <2>4
<1> QED BY <1>1, <1>3, <1>4

LEMMA PutFirst ==
    ASSUME NEW S, NEW q \in Seq(S), Distinct(q), NEW x \in S, x \notin Range(q)
    PROVE  /\ <<x>> \o q \in Seq(S) /\ Distinct(<<x>> \o q)
           /\ Range(<<x>> \o q) = Range(q) \union {x}
<1> DEFINE p == <<x>> \o q
<1>1. <<x>> \in Seq(S) /\ Len(<<x>>) = 1 /\ <<x>>[1] = x OBVIOUS
<1>2. /\ p \in Seq(S) /\ Len(p) = 1 + Len(q) /\ Len(q) \in Nat
      /\ \A i \in 1..(1 + Len(q)) : p[i] = IF i <= 1 THEN <<x>>[i] ELSE q[i - 1]
  BY <1>1, ConcatProperties
<1> HIDE DEF p
<1>3. DOMAIN p = 1..(1 + Len(q)) /\ DOMAIN q = 1..Len(q) /\ p[1] = x BY <1>1, <1>2
<1>4. \A i \in 1..(1 + Len(q)) : i = 1 \/ (i - 1 \in 1..Len(q) /\ p[i] = q[i - 1]) BY <1>2
<1>5. \A i \in 1..Len(q) : q[i] \in Range(q) /\ q[i] # x BY <1>3 DEF Range
<1>6. Distinct(p)
  <2> SUFFICES ASSUME NEW i \in 1..(1 + Len(q)), NEW j \in 1..(1 + Len(q)), p[i] = p[j]
               PROVE  i = j
    BY <1>3 DEF Distinct
  <2>1. CASE i = 1 /\ j = 1 BY <2>1
  <2>2. CASE i # 1 /\ j # 1
    <3>1. i - 1 = j - 1 BY <1>3, <1>4, <2>2 DEF Distinct
    <3> QED BY <1>2, <3>1
  <2>3. CASE (i = 1) # (j = 1) BY <1>3, <1>4, <1>5, <2>3
  <2> QED BY <2>1, <2>2, <2>3
<1>7. Range(p) = Range(q) \union {x}
  <2>1. \A i \in 1..(1 + Len(q)) : p[i] \in Range(q) \union {x} BY <1>3, <1>4, <1>5
  <2>2. \A i \in 1..Len(q) : q[i] \in Range(p)
    <3> SUFFICES ASSUME NEW i \in 1..Len(q) PROVE q[i] \in Range(p) OBVIOUS
    <3>1. i + 1 \in 1..(1 + Len(q)) /\ (i + 1) - 1 = i /\ i + 1 # 1 BY <1>2
    <3>2. p[i + 1] = q[i] BY <1>4, <3>1
    <3> QED BY <1>3, <3>1, <3>2 DEF Range
  <2>3. x \in Range(p)
    <3>1. 1 \in DOMAIN p BY <1>2, <1>3
    <3> QED BY <1>3, <3>1 DEF Range
  <2>4. \A y \in Range(p) : \E i \in 1..(1 + Len(q)) : y = p[i] BY <1>3 DEF Range
  <2>5. \A y \in Range(q) : \E i \in 1..Len(q) : q[i] = y BY QueueRange
  <2> QED BY <2>1, <2>2, <2>3, <2>4, <2>5
<1> QED BY <1>2, <1>6, <1>7 DEF p

\* As many distinct elements as a finite set has are all of them.
LEMMA OrderOfAll ==
    ASSUME NEW S, IsFiniteSet(S), NEW order \in [1..Cardinality(S) -> S],
           \A i, j \in DOMAIN order : i # j => order[i] # order[j]
    PROVE  order \in Seq(S) /\ Distinct(order) /\ Range(order) = S
<1>1. Cardinality(S) \in Nat BY FS_CardinalityType
<1>2. order \in Seq(S) BY <1>1
<1>3. DOMAIN order = 1..Cardinality(S) OBVIOUS
<1>4. Distinct(order) BY DEF Distinct
<1>5. order \in Injection(1..Cardinality(S), S) BY <1>3 DEF Injection, IsInjective
<1>6. Cardinality(1..Cardinality(S)) = Cardinality(S)
  <2>1. Cardinality(1..Cardinality(S)) = Cardinality(S) - 1 + 1 BY <1>1, FS_Interval
  <2> QED BY <1>1, <2>1
<1>7. order \in Surjection(1..Cardinality(S), S) BY <1>5, <1>6, FS_Injection
<1>8. Range(order) = S BY <1>7 DEF Surjection, Range
<1> QED BY <1>2, <1>4, <1>8

-----------------------------------------------------------------------------
(* Edges                                                                   *)

LEMMA SelectedEdges ==
    ASSUME NEW w, NEW n, NEW r
    PROVE  Selected(w, n, r) \subseteq {i \in DOMAIN w.edges : w.edges[i].from = n}
BY DEF Selected, Out

LEMMA SentEdges ==
    ASSUME NEW w, NEW ran, NEW rt
    PROVE  /\ Sent(w, ran, rt) \subseteq DOMAIN w.edges
           /\ \A i \in Sent(w, ran, rt) : w.edges[i].from \in ran
BY SelectedEdges DEF Sent

LEMMA FiniteEdges ==
    ASSUME NEW w \in Chart, NEW F \in SUBSET (DOMAIN w.edges)
    PROVE  IsFiniteSet(F) /\ Cardinality(F) \in Nat
<1>1. DOMAIN w.edges = 1..Len(w.edges) /\ Len(w.edges) \in Nat BY DEF Chart
<1>2. IsFiniteSet(1..Len(w.edges)) BY <1>1, FS_Interval
<1> QED BY <1>1, <1>2, FS_Subset, FS_CardinalityType

LEMMA FiniteInto ==
    ASSUME NEW w \in Chart, NEW F \in SUBSET (DOMAIN w.edges), NEW n
    PROVE  IsFiniteSet(Into(w, F, n)) /\ Cardinality(Into(w, F, n)) \in Nat
<1>1. Into(w, F, n) \in SUBSET (DOMAIN w.edges) BY DEF Into
<1> QED BY <1>1, FiniteEdges

\* More edges make more nodes due.
LEMMA DueGrows ==
    ASSUME NEW w \in Chart, NEW G \in SUBSET (DOMAIN w.edges), NEW F \in SUBSET G,
           NEW first, NEW n \in Nodes, Due(w, first, F, n)
    PROVE  Due(w, first, G, n)
<1>1. Into(w, F, n) \subseteq Into(w, G, n) BY DEF Into
<1>2. /\ IsFiniteSet(Into(w, G, n)) /\ Cardinality(Into(w, G, n)) \in Nat
      /\ Cardinality(Into(w, F, n)) \in Nat
  BY FiniteInto
<1>3. Cardinality(Into(w, F, n)) <= Cardinality(Into(w, G, n)) BY <1>1, <1>2, FS_Subset
<1>4. w.need[n] \in Nat BY DEF Chart
<1>5. CASE n \in first BY <1>5 DEF Due
<1>6. CASE n \notin first BY <1>1, <1>2, <1>3, <1>4, <1>6 DEF Due
<1> QED BY <1>5, <1>6

\* One more edge is followed: the join it leads to counts it, and that node
\* may become due, but no other one.
LEMMA FollowOne ==
    ASSUME NEW w \in Chart, NEW F \in SUBSET (DOMAIN w.edges), NEW i \in DOMAIN w.edges,
           i \notin F, NEW first, NEW tokens \in [Nodes -> Nat], Counted(w, F, tokens),
           NEW more \in Nat,
           more = tokens[w.edges[i].to] + (IF w.edges[i].to \in w.joins THEN 1 ELSE 0)
    PROVE  /\ Counted(w, F \union {i}, [tokens EXCEPT ![w.edges[i].to] = more])
           /\ Into(w, F \union {i}, w.edges[i].to) = Into(w, F, w.edges[i].to) \union {i}
           /\ \A n \in Nodes : n # w.edges[i].to => Into(w, F \union {i}, n) = Into(w, F, n)
           /\ \A n \in Nodes : Due(w, first, F \union {i}, n) <=>
                  \/ Due(w, first, F, n)
                  \/ n = w.edges[i].to /\ (n \in w.joins => more >= w.need[n])
<1> DEFINE k == w.edges[i].to
           G == F \union {i}
<1>1. k \in Nodes /\ w.joins \subseteq Nodes
  <2>1. w.edges \in Seq(Edge) BY DEF Chart
  <2>2. w.edges[i] \in Edge BY <2>1
  <2> QED BY <2>2 DEF Edge, Chart
<1>2. Into(w, G, k) = Into(w, F, k) \union {i} /\ i \notin Into(w, F, k) BY DEF Into
<1>3. \A n \in Nodes : n # k => Into(w, G, n) = Into(w, F, n) BY DEF Into
<1>4. IsFiniteSet(Into(w, F, k)) /\ Cardinality(Into(w, F, k)) \in Nat BY FiniteInto
<1>5. Cardinality(Into(w, G, k)) = Cardinality(Into(w, F, k)) + 1
  BY <1>2, <1>4, FS_AddElement
<1>6. k \in w.joins => more = Cardinality(Into(w, G, k)) BY <1>5 DEF Counted
<1>7. Counted(w, G, [tokens EXCEPT ![k] = more])
  <2> SUFFICES ASSUME NEW n \in w.joins
               PROVE  [tokens EXCEPT ![k] = more][n] = Cardinality(Into(w, G, n))
    BY DEF Counted
  <2>1. CASE n = k BY <1>1, <1>6, <2>1
  <2>2. CASE n # k BY <1>1, <1>3, <2>2 DEF Counted
  <2> QED BY <2>1, <2>2
<1>8. ASSUME NEW n \in Nodes
      PROVE  Due(w, first, G, n) <=>
                 Due(w, first, F, n) \/ (n = k /\ (n \in w.joins => more >= w.need[n]))
  <2>1. CASE n # k BY <1>3, <2>1 DEF Due
  <2>2. CASE n = k
    <3>1. Into(w, G, n) # {} BY <1>2, <2>2
    <3>2. w.need[n] \in Nat BY DEF Chart
    <3>3. Due(w, first, G, n) <=> n \in first \/ (n \in w.joins => more >= w.need[n])
      BY <1>6, <2>2, <3>1 DEF Due
    <3>4. n \notin first /\ Due(w, first, F, n) => (n \in w.joins => more >= w.need[n])
      BY <1>4, <1>5, <1>6, <2>2, <3>2 DEF Due
    <3>5. n \in first => Due(w, first, F, n) BY DEF Due
    <3> QED BY <2>2, <3>3, <3>4, <3>5
  <2> QED BY <2>1, <2>2
<1> QED BY <1>2, <1>3, <1>7, <1>8

\* One more node has run; its edges are still to be followed.
LEMMA RunOne ==
    ASSUME NEW w, NEW ran, NEW rt, NEW ran2, NEW rt2, NEW n, n \notin ran,
           ran2 = ran \union {n}, \A m \in ran : rt2[m] = rt[m]
    PROVE  /\ Sent(w, ran2, rt2) = Sent(w, ran, rt) \union Selected(w, n, rt2[n])
           /\ Sent(w, ran2, rt2) \ Selected(w, n, rt2[n]) = Sent(w, ran, rt)
<1>1. Sent(w, ran2, rt2) = Sent(w, ran, rt) \union Selected(w, n, rt2[n]) BY DEF Sent
<1>2. Sent(w, ran, rt) \cap Selected(w, n, rt2[n]) = {}
  BY SentEdges, SelectedEdges
<1> QED BY <1>1, <1>2

-----------------------------------------------------------------------------
(* What the steps of the engine do to a state                              *)

\* The next node is taken from the queue.
TakeNext(state) == [state EXCEPT !.queue = Tail(@), !.enqueued = @ \ {Head(state.queue)}]

LEMMA Taken ==
    ASSUME NEW w \in Chart, NEW first, NEW ran, NEW F, NEW state \in States, Coherent(state),
           Faithful(w, first, ran, F, state, {}), state.queue # << >>,
           NEW next, next = TakeNext(state)
    PROVE  /\ next \in States /\ Coherent(next)
           /\ Head(state.queue) \in Nodes \ ran
           /\ Faithful(w, first, ran, F, next, {Head(state.queue)})
<1> DEFINE n == Head(state.queue)
<1>1. state.queue \in Seq(Nodes) /\ Distinct(state.queue) BY DEF States, Coherent
<1>2. /\ Tail(state.queue) \in Seq(Nodes) /\ Distinct(Tail(state.queue))
      /\ n \in Range(state.queue) /\ n \in Nodes
      /\ Range(Tail(state.queue)) = Range(state.queue) \ {n}
  BY <1>1, TakeHead
<1> HIDE DEF n
<1>3. /\ next \in States
      /\ next.queue = Tail(state.queue) /\ next.enqueued = state.enqueued \ {n}
      /\ next.executed = state.executed /\ next.tokens = state.tokens
      /\ next.attempts = state.attempts /\ next.inputs = state.inputs
  BY <1>2 DEF States, TakeNext, n
<1>4. Coherent(next) BY <1>2, <1>3 DEF Coherent
<1>5. n \in state.enqueued /\ n \notin ran BY <1>2 DEF Coherent, Faithful
<1>6. Faithful(w, first, ran, F, next, {n}) BY <1>3, <1>5 DEF Faithful
<1> QED BY <1>2, <1>3, <1>4, <1>5, <1>6 DEF n

\* The node that is executed is put back, with a number of attempts.
LEMMA PutBackSound ==
    ASSUME NEW w \in Chart, NEW first, NEW ran, NEW F, NEW state \in States, Coherent(state),
           NEW n \in Nodes, Faithful(w, first, ran, F, state, {n}),
           NEW tries \in Nat, tries < IF n \in w.retried THEN 2 ELSE 1,
           NEW next, next = [state EXCEPT !.attempts[n] = tries,
                                          !.queue = <<n>> \o @, !.enqueued = @ \union {n}]
    PROVE  next \in States /\ Coherent(next) /\ Faithful(w, first, ran, F, next, {})
<1>1. state.queue \in Seq(Nodes) /\ Distinct(state.queue) BY DEF States, Coherent
<1>2. n \notin ran /\ n \notin state.enqueued /\ state.executed = ran BY DEF Faithful
<1>3. n \notin Range(state.queue) BY <1>2 DEF Coherent
<1>4. /\ <<n>> \o state.queue \in Seq(Nodes) /\ Distinct(<<n>> \o state.queue)
      /\ Range(<<n>> \o state.queue) = Range(state.queue) \union {n}
  BY <1>1, <1>3, PutFirst
<1> DEFINE q == <<n>> \o state.queue
<1> HIDE DEF q
<1>5. tries \in 0..2 OBVIOUS
<1>6. /\ next \in States
      /\ next.queue = q /\ next.enqueued = state.enqueued \union {n}
      /\ next.executed = state.executed /\ next.tokens = state.tokens
      /\ next.inputs = state.inputs
      /\ next.attempts = [state.attempts EXCEPT ![n] = tries]
  BY <1>4, <1>5 DEF States, q
<1>7. Coherent(next) BY <1>2, <1>4, <1>6 DEF Coherent, q
<1>8. \A m \in Nodes \ ran : next.attempts[m] < IF m \in w.retried THEN 2 ELSE 1
  BY <1>6 DEF Faithful, States
<1>9. Faithful(w, first, ran, F, next, {}) BY <1>6, <1>8 DEF Faithful
<1> QED BY <1>6, <1>7, <1>9

\* The node that is executed has an output with route r.
Finish(state, n, tries, r, approval) ==
    [state EXCEPT !.attempts[n] = tries, !.route[n] = r, !.executed = @ \union {n},
                  !.decision = IF approval THEN [@ EXCEPT ![n] = r] ELSE @]

LEMMA Completed ==
    ASSUME NEW w \in Chart, NEW first, NEW ran \in SUBSET Nodes, NEW F, NEW state \in States,
           Coherent(state),
           NEW n \in Nodes, Faithful(w, first, ran, F, state, {n}),
           NEW tries \in 0..2, NEW r \in Routes \union {NoRoute}, NEW approval \in BOOLEAN,
           NEW next, next = Finish(state, n, tries, r, approval)
    PROVE  next \in States /\ Coherent(next) /\ Faithful(w, first, ran \union {n}, F, next, {})
<1>1. /\ next \in States
      /\ next.queue = state.queue /\ next.enqueued = state.enqueued
      /\ next.executed = state.executed \union {n} /\ next.tokens = state.tokens
      /\ next.inputs = state.inputs
      /\ next.attempts = [state.attempts EXCEPT ![n] = tries]
  BY DEF States, Finish
<1>2. n \notin state.enqueued /\ state.executed = ran BY DEF Faithful
<1>3. Coherent(next) BY <1>1, <1>2 DEF Coherent
<1>4. \A m \in Nodes \ (ran \union {n}) : next.attempts[m] = state.attempts[m] BY <1>1 DEF States
<1>5. Faithful(w, first, ran \union {n}, F, next, {}) BY <1>1, <1>2, <1>4 DEF Faithful
<1> QED BY <1>1, <1>3, <1>5

\* An edge of the node that was executed last is followed.
FollowTo(state, from, k, more, enter) ==
    [state EXCEPT !.inputs[k] = @ \union {from},
                  !.tokens[k] = more,
                  !.queue = IF enter THEN Append(@, k) ELSE @,
                  !.enqueued = IF enter THEN @ \union {k} ELSE @]

LEMMA EdgeFollowed ==
    ASSUME NEW w \in Chart, NEW first, NEW ran \in SUBSET Nodes, NEW F \in SUBSET (DOMAIN w.edges),
           NEW state \in States, Coherent(state), Faithful(w, first, ran, F, state, {}),
           NEW i \in DOMAIN w.edges, i \notin F, w.edges[i].from \in Nodes,
           NEW k \in Nodes, k = w.edges[i].to,
           NEW more \in Nat, more = state.tokens[k] + (IF k \in w.joins THEN 1 ELSE 0),
           NEW enter \in BOOLEAN,
           enter <=> /\ (k \in w.joins => more >= w.need[k])
                     /\ k \notin state.executed /\ k \notin state.enqueued,
           NEW next, next = FollowTo(state, w.edges[i].from, k, more, enter)
    PROVE  next \in States /\ Coherent(next) /\ Faithful(w, first, ran, F \union {i}, next, {})
<1>1. state.queue \in Seq(Nodes) /\ Distinct(state.queue) /\ state.enqueued = Range(state.queue)
  BY DEF States, Coherent
<1>2. enter => /\ Append(state.queue, k) \in Seq(Nodes) /\ Distinct(Append(state.queue, k))
               /\ Range(Append(state.queue, k)) = state.enqueued \union {k}
  BY <1>1, AddLast
<1>3. /\ next.queue = IF enter THEN Append(state.queue, k) ELSE state.queue
      /\ next.enqueued = IF enter THEN state.enqueued \union {k} ELSE state.enqueued
      /\ next.executed = state.executed /\ next.attempts = state.attempts
      /\ next.tokens = [state.tokens EXCEPT ![k] = more]
      /\ next.inputs = [state.inputs EXCEPT ![k] = @ \union {w.edges[i].from}]
      /\ next.route = state.route /\ next.decision = state.decision
  BY DEF States, FollowTo
<1>4. next.queue \in Seq(Nodes) /\ next.enqueued \in SUBSET Nodes
  BY <1>1, <1>2, <1>3 DEF States
<1>5. next \in States
  <2>1. /\ state.tokens \in [Nodes -> Nat] /\ state.inputs \in [Nodes -> SUBSET Nodes]
        /\ state.executed \in SUBSET Nodes /\ state.attempts \in [Nodes -> 0..2]
        /\ state.route \in [Nodes -> Routes \union {NoRoute}]
        /\ state.decision \in [Nodes -> Routes \union {NoRoute}]
    BY DEF States
  <2>2. next.tokens \in [Nodes -> Nat]
    <3>1. next.tokens = [state.tokens EXCEPT ![k] = more] BY <1>3
    <3> QED BY ONLY <2>1, <3>1, more \in Nat
  <2>3. next.inputs \in [Nodes -> SUBSET Nodes]
    <3>1. next.inputs = [state.inputs EXCEPT ![k] = @ \union {w.edges[i].from}] BY <1>3
    <3> QED BY ONLY <2>1, <3>1, w.edges[i].from \in Nodes
  <2>4. next = [queue |-> next.queue, enqueued |-> next.enqueued, executed |-> next.executed,
                tokens |-> next.tokens, attempts |-> next.attempts, route |-> next.route,
                inputs |-> next.inputs, decision |-> next.decision]
    BY DEF States, FollowTo
  <2> QED BY <1>3, <1>4, <2>1, <2>2, <2>3, <2>4 DEF States
<1>6. Coherent(next)
  <2>1. CASE enter BY <1>2, <1>3, <2>1 DEF Coherent
  <2>2. CASE ~enter BY <1>3, <2>2 DEF Coherent
  <2> QED BY <2>1, <2>2
<1>7. state.tokens \in [Nodes -> Nat] /\ state.inputs \in [Nodes -> SUBSET Nodes] BY DEF States
<1>8. Counted(w, F, state.tokens) BY DEF Faithful
<1> DEFINE G == F \union {i}
           tokens == state.tokens
<1>9. Counted(w, F, tokens) /\ tokens \in [Nodes -> Nat]
      /\ more = tokens[w.edges[i].to] + (IF w.edges[i].to \in w.joins THEN 1 ELSE 0)
  BY <1>7, <1>8
<1> HIDE DEF tokens
<1>10. /\ Counted(w, F \union {i}, [tokens EXCEPT ![w.edges[i].to] = more])
       /\ Into(w, F \union {i}, w.edges[i].to) = Into(w, F, w.edges[i].to) \union {i}
       /\ \A n \in Nodes : n # w.edges[i].to => Into(w, F \union {i}, n) = Into(w, F, n)
       /\ \A n \in Nodes : Due(w, first, F \union {i}, n) <=>
              \/ Due(w, first, F, n)
              \/ n = w.edges[i].to /\ (n \in w.joins => more >= w.need[n])
  BY <1>9, FollowOne
<1>11. /\ Counted(w, G, [state.tokens EXCEPT ![k] = more])
       /\ Into(w, G, k) = Into(w, F, k) \union {i}
       /\ \A n \in Nodes : n # k => Into(w, G, n) = Into(w, F, n)
       /\ \A n \in Nodes : Due(w, first, G, n) =>
              Due(w, first, F, n) \/ (n = k /\ (n \in w.joins => more >= w.need[n]))
       /\ \A n \in Nodes : Due(w, first, F, n) => Due(w, first, G, n)
       /\ (k \in w.joins => more >= w.need[k]) => Due(w, first, G, k)
  BY <1>10 DEF tokens
<1> HIDE DEF G
<1>12. ASSUME NEW n \in Nodes
       PROVE  next.inputs[n] = {w.edges[j].from : j \in Into(w, G, n)}
  <2>1. state.inputs[n] = {w.edges[j].from : j \in Into(w, F, n)} BY DEF Faithful
  <2>2. CASE n = k
    <3>1. next.inputs[k] = state.inputs[k] \union {w.edges[i].from} BY <1>3, <1>7
    <3>2. \A A : {w.edges[j].from : j \in A \union {i}}
                     = {w.edges[j].from : j \in A} \union {w.edges[i].from}
      OBVIOUS
    <3>3. {w.edges[j].from : j \in Into(w, G, k)}
             = {w.edges[j].from : j \in Into(w, F, k)} \union {w.edges[i].from}
      BY <1>11, <3>2
    <3> QED BY <2>1, <2>2, <3>1, <3>3
  <2>3. CASE n # k
    <3>1. next.inputs[n] = state.inputs[n] BY <1>3, <1>7, <2>3
    <3> QED BY <1>11, <2>1, <2>3, <3>1
  <2> QED BY <2>2, <2>3
<1>13. /\ state.enqueued \subseteq Nodes /\ state.executed = ran
       /\ \A n \in state.enqueued : Due(w, first, F, n)
       /\ \A n \in Nodes : Due(w, first, F, n) => n \in ran \union state.enqueued
  BY DEF Faithful, States
<1>14. \A n \in next.enqueued : Due(w, first, G, n)
  BY <1>3, <1>4, <1>11, <1>13
<1>15. \A n \in Nodes : Due(w, first, G, n) => n \in ran \union next.enqueued
  <2> SUFFICES ASSUME NEW n \in Nodes, Due(w, first, G, n), n \notin ran
               PROVE  n \in next.enqueued
    OBVIOUS
  <2>1. CASE Due(w, first, F, n) BY <1>3, <1>13, <2>1
  <2>2. CASE ~Due(w, first, F, n) BY <1>3, <1>11, <1>13, <2>2
  <2> QED BY <2>1, <2>2
<1>16. Faithful(w, first, ran, G, next, {})
  <2>1. Counted(w, G, next.tokens) BY <1>3, <1>11
  <2>2. next.executed = ran BY <1>3, <1>13
  <2>3. \A n \in Nodes \ ran : next.attempts[n] < IF n \in w.retried THEN 2 ELSE 1
    BY <1>3 DEF Faithful
  <2> QED BY <1>12, <1>14, <1>15, <2>1, <2>2, <2>3 DEF Faithful
<1> QED BY <1>5, <1>6, <1>16 DEF G

-----------------------------------------------------------------------------
(* The steps of the engine                                                 *)

LEMMA NewStateEmpty == NewState \in States /\ Coherent(NewState)
<1>1. << >> \in Seq(Nodes) BY EmptySeq
<1>2. NewState \in States BY <1>1 DEF NewState, States
<1>3. Coherent(NewState) BY DEF Coherent, NewState, Range, Distinct
<1> QED BY <1>2, <1>3

LEMMA HasRunFinite ==
    /\ IsFiniteSet(Nodes) /\ 0 \notin Nodes
    /\ \A S \in SUBSET Nodes : IsFiniteSet(S)
BY NodesAssumption, FS_Subset

\* The worker leaves the run, and its row keeps a state that is sound or none.
LEMMA Leaves ==
    ASSUME EngineInv, Leave, UNCHANGED <<wf, output, source, retries>>,
           steps' \in [Nodes -> StepStatuses], HasRun' = HasRun,
           \A n \in Nodes : steps[n] = "copied" <=> steps'[n] = "copied",
           phase # "off",
           \/ saved' = None /\ status' \in Ended
           \/ /\ saved' \in States /\ Coherent(saved')
              /\ Faithful(wf, First, HasRun, Sent(wf, Ran, output), saved', {})
              /\ status' \in {"paused", "waiting_human"}
              /\ Ran' = Ran
    PROVE  EngineInv'
<1>1. TypeOK'
  <2>1. /\ wf' = wf /\ phase' = "off" /\ current' = 0 /\ fan' = {} /\ local' = NewState
        /\ results' = << >> /\ output' = output /\ source' = source /\ retries' = retries
    BY DEF Leave
  <2>2. << >> \in Seq(Nodes) BY EmptySeq
  <2>3. saved' \in States \union {None}
        /\ status' \in {"queued", "running", "cancelling", "paused", "waiting_human"} \union Ended
    OBVIOUS
  <2>4. NewState \in States BY NewStateEmpty
  <2> QED BY <2>1, <2>2, <2>3, <2>4 DEF EngineInv, TypeOK
<1>2. wf' \in Workflows /\ QueueCoherent'
  BY NewStateEmpty DEF EngineInv, QueueCoherent, Leave
<1>3. Working' BY DEF Working, Leave
<1>4. Resting'
  <2>1. ASSUME saved' # None PROVE Sound(saved, {})'
    <3>1. Ran' = Ran /\ wf' = wf /\ output' = output /\ First' = First /\ fan' = {}
      BY <2>1 DEF Leave, First, Ended
    <3>2. Followed' = Sent(wf, Ran, output) BY <3>1 DEF Followed
    <3>3. Faithful(wf, First, HasRun, Sent(wf, Ran, output), saved', {}) BY <2>1
    <3> QED BY <3>1, <3>2, <3>3 DEF Sound
  <2>2. saved' = None => status' \in Ended BY EngineAssumption
  <2> QED BY <2>1, <2>2 DEF Resting, Leave, Ended
<1>5. Copying'
  <2>1. output' = output /\ source' = source OBVIOUS
  <2>2. phase # "off" /\ Copying BY DEF EngineInv
  <2>3. status' # "queued" BY DEF Ended
  <2> QED BY <2>1, <2>2, <2>3 DEF Copying, Copied
<1> QED BY <1>1, <1>2, <1>3, <1>4, <1>5 DEF EngineInv

LEMMA RunEnds ==
    ASSUME EngineInv,
           ControlExpires \/ ControlCancels \/ NodeFails \/ CredentialFails \/ RunSucceeds
    PROVE  EngineInv'
<1>1. /\ phase # "off" /\ Leave /\ UNCHANGED <<wf, output, source, retries>>
      /\ saved' = None /\ status' \in Ended
  BY DEF ControlExpires, ControlCancels, NodeFails, CredentialFails, RunSucceeds, EndRun, Ended
<1>2. steps \in [Nodes -> StepStatuses] BY DEF EngineInv, TypeOK
<1>3. /\ steps' \in [Nodes -> StepStatuses] /\ HasRun' = HasRun
      /\ \A n \in Nodes : steps[n] = "copied" <=> steps'[n] = "copied"
  <2>1. CASE ControlExpires BY <1>2, <2>1 DEF ControlExpires, HasRun
  <2>2. CASE ControlCancels BY <1>2, <2>2 DEF ControlCancels, MarkRemaining, HasRun, StepStatuses
  <2>3. CASE RunSucceeds BY <1>2, <2>3 DEF RunSucceeds, MarkRemaining, HasRun, StepStatuses
  <2>4. CASE NodeFails \/ CredentialFails
    <3>1. current \in Nodes /\ current \notin HasRun
      BY <2>4 DEF NodeFails, CredentialFails, EngineInv, Working, Sound, Faithful
    <3>2. steps' = [steps EXCEPT ![current] = "failed"]
      BY <2>4 DEF NodeFails, CredentialFails
    <3> QED BY <1>2, <3>1, <3>2 DEF HasRun, StepStatuses
  <2> QED BY <2>1, <2>2, <2>3, <2>4
<1> QED BY <1>1, <1>3, Leaves

\* PutBack, with as many attempts as before.
LEMMA PutBackAgain ==
    ASSUME EngineInv, phase = "exec"
    PROVE  /\ current \in Nodes /\ current \notin HasRun
           /\ local.attempts[current] \in Nat
           /\ local.attempts[current] < MaxAttempts(current)
           /\ \A tries \in Nat : tries < MaxAttempts(current) =>
                  LET next == PutBack([local EXCEPT !.attempts[current] = tries])
                  IN  /\ next \in States /\ Coherent(next)
                      /\ Faithful(wf, First, HasRun, Followed, next, {})
           /\ PutBack(local) = PutBack([local EXCEPT !.attempts[current] = local.attempts[current]])
<1>1. /\ wf \in Chart /\ local \in States /\ Coherent(local) /\ current \in Nodes
      /\ Faithful(wf, First, HasRun, Followed, local, {current})
  BY DEF EngineInv, TypeOK, QueueCoherent, Working, Sound
<1>2. current \notin HasRun BY <1>1 DEF Faithful
<1>3. local.attempts[current] \in 0..2 BY <1>1 DEF States
<1>4. local.attempts[current] < MaxAttempts(current)
  BY <1>1, <1>2 DEF Faithful, MaxAttempts
<1>5. ASSUME NEW tries \in Nat, tries < MaxAttempts(current),
             NEW next, next = PutBack([local EXCEPT !.attempts[current] = tries])
      PROVE  /\ next \in States /\ Coherent(next)
             /\ Faithful(wf, First, HasRun, Followed, next, {})
  <2>1. next = [local EXCEPT !.attempts[current] = tries,
                             !.queue = <<current>> \o @, !.enqueued = @ \union {current}]
    BY <1>1, <1>5 DEF PutBack, States
  <2>2. tries < IF current \in wf.retried THEN 2 ELSE 1 BY <1>5 DEF MaxAttempts
  <2> QED BY <1>1, <2>1, <2>2, PutBackSound
<1>6. [local EXCEPT !.attempts[current] = local.attempts[current]] = local
  BY <1>1 DEF States
<1> QED BY <1>1, <1>2, <1>3, <1>4, <1>5, <1>6

LEMMA RunWaits ==
    ASSUME EngineInv, phase = "exec", Wait
    PROVE  EngineInv'
<1>1. current \in Nodes /\ current \notin HasRun BY PutBackAgain
<1>2. fan = {} BY DEF EngineInv, Working
<1>3. Followed = Sent(wf, Ran, output) BY <1>2 DEF Followed
<1>4. /\ saved' = PutBack([local EXCEPT !.attempts[current] = local.attempts[current]])
      /\ Leave /\ UNCHANGED <<wf, output, source, retries>>
      /\ status' = "waiting_human" /\ steps' = [steps EXCEPT ![current] = "waiting_human"]
  BY PutBackAgain DEF Wait
<1>5. /\ saved' \in States /\ Coherent(saved')
      /\ Faithful(wf, First, HasRun, Sent(wf, Ran, output), saved', {})
  BY <1>3, <1>4, PutBackAgain
<1>6. /\ steps' \in [Nodes -> StepStatuses] /\ HasRun' = HasRun /\ Ran' = Ran
      /\ \A n \in Nodes : steps[n] = "copied" <=> steps'[n] = "copied"
  <2>1. steps \in [Nodes -> StepStatuses] BY DEF EngineInv, TypeOK
  <2> QED BY <1>1, <1>4, <2>1 DEF HasRun, Ran, StepStatuses
<1> QED BY <1>4, <1>5, <1>6, Leaves

LEMMA RunStops ==
    ASSUME EngineInv, StopPaused
    PROVE  EngineInv'
<1>1. phase = "loop" /\ Leave /\ status' = "paused" /\ saved' = saved /\ steps' = steps
      /\ UNCHANGED <<wf, output, source, retries>>
  BY DEF StopPaused
<1>2. fan = {} /\ saved = local /\ Sound(local, {}) BY <1>1 DEF EngineInv, Working
<1>3. Followed = Sent(wf, Ran, output) BY <1>2 DEF Followed
<1>4. saved' \in States /\ Coherent(saved') BY <1>1, <1>2 DEF EngineInv, TypeOK, QueueCoherent
<1>5. Faithful(wf, First, HasRun, Sent(wf, Ran, output), saved', {})
  BY <1>1, <1>2, <1>3 DEF Sound
<1>6. steps' \in [Nodes -> StepStatuses] /\ HasRun' = HasRun /\ Ran' = Ran
      /\ \A n \in Nodes : steps[n] = "copied" <=> steps'[n] = "copied"
  BY <1>1 DEF EngineInv, TypeOK, HasRun, Ran
<1> QED BY <1>1, <1>4, <1>5, <1>6, Leaves

LEMMA NextTaken ==
    ASSUME EngineInv, NextNode
    PROVE  /\ EngineInv'
           /\ Head(local.queue) \in Nodes \ HasRun
           /\ steps' = [steps EXCEPT ![Head(local.queue)] = "running"]
<1> DEFINE n == Head(local.queue)
<1>1. /\ phase = "loop" /\ local.queue # << >>
      /\ local' = [local EXCEPT !.queue = Tail(@), !.enqueued = @ \ {n}]
      /\ IF n \in local.executed
         THEN UNCHANGED <<phase, current, steps>>
         ELSE /\ phase' = "exec"
              /\ current' = n
              /\ steps' = [steps EXCEPT ![n] = "running"]
      /\ UNCHANGED <<wf, status, fan, results, saved, output, source, retries>>
  BY DEF NextNode
<1>2. /\ wf \in Chart /\ local \in States /\ Coherent(local) /\ saved = local /\ fan = {}
      /\ Faithful(wf, First, HasRun, Followed, local, {})
  BY <1>1 DEF EngineInv, TypeOK, QueueCoherent, Working, Sound
<1>3. /\ local' \in States /\ Coherent(local') /\ n \in Nodes \ HasRun
      /\ Faithful(wf, First, HasRun, Followed, local', {n})
  <2>1. local.queue # << >> /\ local' = TakeNext(local) BY <1>1 DEF TakeNext
  <2> QED BY <1>2, <2>1, Taken
<1> HIDE DEF n
<1>4. n \notin local.executed BY <1>2, <1>3 DEF Faithful
<1>5. phase' = "exec" /\ current' = n /\ steps' = [steps EXCEPT ![n] = "running"] BY <1>1, <1>4
<1>6. steps \in [Nodes -> StepStatuses] BY DEF EngineInv, TypeOK
<1>7. steps' \in [Nodes -> StepStatuses] /\ HasRun' = HasRun /\ Ran' = Ran
      /\ \A m \in Nodes : steps'[m] = "copied" <=> steps[m] = "copied"
  BY <1>3, <1>5, <1>6 DEF HasRun, Ran, StepStatuses
<1>8. TypeOK' BY <1>1, <1>3, <1>5, <1>7 DEF EngineInv, TypeOK
<1>9. wf' \in Workflows /\ QueueCoherent' BY <1>1, <1>3 DEF EngineInv, QueueCoherent
<1>10. Working'
  <2>1. Sound(local, {current})' BY <1>1, <1>3, <1>5, <1>7 DEF Sound, First, Followed
  <2> QED BY <1>1, <1>2, <1>3, <1>5, <1>7, <2>1 DEF EngineInv, Working
<1>11. Resting' BY <1>1, <1>5 DEF EngineInv, Resting
<1>12. Copying' BY <1>1, <1>5, <1>7 DEF EngineInv, Copying, Copied, Working
<1> QED BY <1>3, <1>5, <1>8, <1>9, <1>10, <1>11, <1>12 DEF EngineInv, n

\* The state of a run that has executed nothing itself.
LEMMA Starting ==
    ASSUME NEW w \in Chart, NEW ran, NEW state \in States, Distinct(state.queue),
           state.enqueued = Range(state.queue), state.executed = ran,
           Range(state.queue) \cap ran = {},
           state.tokens = NewState.tokens, state.attempts = NewState.attempts,
           state.inputs = NewState.inputs
    PROVE  Coherent(state) /\ Faithful(w, Range(state.queue), ran, {}, state, {})
<1>1. Coherent(state) BY DEF Coherent
<1>2. \A n : Into(w, {}, n) = {} BY DEF Into
<1>3. Cardinality({}) = 0 BY FS_EmptySet
<1>4. w.joins \subseteq Nodes BY DEF Chart
<1>5. Counted(w, {}, state.tokens) BY <1>2, <1>3, <1>4 DEF Counted, NewState
<1>6. \A n : Due(w, Range(state.queue), {}, n) <=> n \in Range(state.queue)
  BY <1>2 DEF Due
<1>7. \A n \in Nodes : state.inputs[n] = {w.edges[i].from : i \in Into(w, {}, n)}
  BY <1>2 DEF NewState
<1>8. \A n \in Nodes \ ran : state.attempts[n] < IF n \in w.retried THEN 2 ELSE 1
  BY DEF NewState
<1>9. Faithful(w, Range(state.queue), ran, {}, state, {})
  BY <1>5, <1>6, <1>7, <1>8 DEF Faithful
<1> QED BY <1>1, <1>9

\* A worker claims the run.
LEMMA LoopEntered ==
    ASSUME EngineInv, phase = "off", phase' = "loop", status' = "running",
           UNCHANGED <<wf, current, fan, source, retries>>,
           local' \in States, Coherent(local'), saved' = local',
           Faithful(wf, First, HasRun', Sent(wf, Ran', output'), local', {}),
           results' \in Seq(Nodes), Distinct(results'), Range(results') = HasRun',
           steps' \in [Nodes -> StepStatuses],
           output' \in [Nodes -> Routes \union {NoRoute, None}],
           Copying'
    PROVE  EngineInv'
<1>1. fan = {} BY DEF EngineInv, Resting
<1>2. TypeOK' BY DEF EngineInv, TypeOK
<1>3. wf' \in Workflows /\ QueueCoherent' BY DEF EngineInv, QueueCoherent
<1>4. Working'
  <2>1. First' = First /\ Followed' = Sent(wf, Ran', output') BY <1>1 DEF First, Followed
  <2>2. Sound(local, {})' BY <2>1 DEF Sound
  <2> QED BY <1>1, <2>2 DEF Working
<1>5. Resting' BY DEF Resting
<1> QED BY <1>2, <1>3, <1>4, <1>5 DEF EngineInv

LEMMA RunStartsFresh ==
    ASSUME EngineInv, StartFresh
    PROVE  EngineInv'
<1>1. /\ status = "queued" /\ phase = "off" /\ saved = None /\ source = None
      /\ local' = [NewState EXCEPT !.queue = wf.roots, !.enqueued = Range(wf.roots)]
      /\ results' = << >> /\ saved' = local' /\ status' = "running" /\ phase' = "loop"
      /\ UNCHANGED <<wf, current, fan, steps, output, source, retries>>
  BY DEF StartFresh
<1>2. wf \in Workflows /\ wf \in Chart /\ wf.roots \in Seq(Nodes)
  BY DEF EngineInv, TypeOK, Chart
<1>3. Range(wf.roots) \subseteq Nodes BY <1>2, QueueRange
<1>4. Distinct(wf.roots)
  <2>1. \A i, j \in 1..Len(wf.roots) : i < j => wf.roots[i] < wf.roots[j]
    BY <1>2, WorkflowsAssumption
  <2>2. \A i \in 1..Len(wf.roots) : wf.roots[i] \in Nat
    <3>1. \A i \in 1..Len(wf.roots) : wf.roots[i] \in Nodes BY <1>2
    <3> QED BY <3>1, NodesAssumption
  <2> QED BY <1>2, <2>1, <2>2 DEF Distinct
<1>5. /\ local' \in States
      /\ local'.queue = wf.roots /\ local'.enqueued = Range(wf.roots) /\ local'.executed = {}
      /\ local'.tokens = NewState.tokens /\ local'.attempts = NewState.attempts
      /\ local'.inputs = NewState.inputs
  <2>1. local' = [queue    |-> wf.roots,
                  enqueued |-> Range(wf.roots),
                  executed |-> {},
                  tokens   |-> NewState.tokens,
                  attempts |-> NewState.attempts,
                  route    |-> NewState.route,
                  inputs   |-> NewState.inputs,
                  decision |-> NewState.decision]
    BY <1>1 DEF NewState
  <2>2. NewState \in States BY NewStateEmpty
  <2> QED BY <1>2, <1>3, <2>1, <2>2 DEF States
<1>6. Coherent(local') /\ Faithful(wf, Range(local'.queue), {}, {}, local', {})
  BY <1>2, <1>4, <1>5, Starting
<1>7. HasRun' = {} /\ Ran' = {} BY <1>1 DEF EngineInv, Copying, HasRun, Ran
<1>8. Sent(wf, Ran', output') = {} BY <1>7 DEF Sent
<1>9. First = Range(local'.queue) BY <1>1, <1>5 DEF First
<1>10. results' \in Seq(Nodes) /\ Distinct(results') /\ Range(results') = HasRun'
  BY <1>1, <1>7 DEF Distinct, Range
<1>11. Copying' BY <1>1 DEF EngineInv, Copying, HasRun
<1>12. /\ steps' \in [Nodes -> StepStatuses]
       /\ output' \in [Nodes -> Routes \union {NoRoute, None}]
  BY <1>1 DEF EngineInv, TypeOK
<1>13. Faithful(wf, First, HasRun', Sent(wf, Ran', output'), local', {})
  BY <1>6, <1>7, <1>8, <1>9
<1> QED BY <1>1, <1>5, <1>6, <1>10, <1>11, <1>12, <1>13, LoopEntered

\* The results of a run that is claimed again list its steps in their order.
LEMMA StepsInOrder ==
    ASSUME NEW S \in SUBSET Nodes, NEW order \in [1..Cardinality(S) -> S],
           \A i, j \in DOMAIN order : i < j => order[i] < order[j]
    PROVE  order \in Seq(Nodes) /\ Distinct(order) /\ Range(order) = S
<1>1. IsFiniteSet(S) /\ Cardinality(S) \in Nat BY HasRunFinite, FS_CardinalityType
<1>2. \A i \in DOMAIN order : order[i] \in Nat /\ i \in Nat
  <2>1. \A i \in DOMAIN order : order[i] \in Nodes /\ i \in Nat BY <1>1
  <2> QED BY <2>1, NodesAssumption
<1>3. \A i, j \in DOMAIN order : i # j => order[i] # order[j] BY <1>2
<1>4. order \in Seq(S) /\ Distinct(order) /\ Range(order) = S BY <1>1, <1>3, OrderOfAll
<1> QED BY <1>4

LEMMA RunStartsRetry ==
    ASSUME EngineInv, StartRetry
    PROVE  EngineInv'
<1>1. /\ status = "queued" /\ phase = "off" /\ saved = None /\ source # None
      /\ saved' = local' /\ status' = "running" /\ phase' = "loop"
      /\ steps' = [n \in Nodes |-> IF n \in Copied THEN "copied" ELSE steps[n]]
      /\ output' = [n \in Nodes |-> IF n \in Copied THEN source.output[n] ELSE output[n]]
      /\ UNCHANGED <<wf, current, fan, source, retries>>
  BY DEF StartRetry
<1>2. wf \in Chart /\ source \in Source BY <1>1 DEF EngineInv, TypeOK
<1>3. /\ source.from \in Nodes /\ source.output \in [Nodes -> Routes \union {NoRoute, None}]
      /\ Copied \subseteq Nodes /\ source.from \notin Copied
      /\ \A n \in Copied : source.output[n] \in Routes \union {NoRoute} /\ source.output[n] # None
  <2>1. source.from \in Nodes /\ source.output \in [Nodes -> Routes \union {NoRoute, None}]
    BY <1>2 DEF Source
  <2>2. ~(source.from < source.from) BY <2>1, NodesAssumption
  <2> QED BY <2>1, <2>2 DEF Copied
<1>4. /\ local' \in States
      /\ local'.queue = <<source.from>> /\ local'.enqueued = {source.from}
      /\ local'.executed = Copied
      /\ local'.tokens = NewState.tokens /\ local'.attempts = NewState.attempts
      /\ local'.inputs = NewState.inputs
  <2> DEFINE rt == [n \in Nodes |-> IF n \in Copied THEN source.output[n] ELSE NoRoute]
             dn == [n \in Nodes |-> IF n \in Copied \cap wf.approvals
                                     THEN source.output[n] ELSE NoRoute]
  <2>1. local' = [queue    |-> <<source.from>>,
                  enqueued |-> {source.from},
                  executed |-> Copied,
                  tokens   |-> NewState.tokens,
                  attempts |-> NewState.attempts,
                  route    |-> rt,
                  inputs   |-> NewState.inputs,
                  decision |-> dn]
    BY DEF NewState, StartRetry
  <2>2. rt \in [Nodes -> Routes \union {NoRoute}] /\ dn \in [Nodes -> Routes \union {NoRoute}]
    BY <1>3
  <2>3. NewState \in States BY NewStateEmpty
  <2>4. <<source.from>> \in Seq(Nodes) BY <1>3
  <2> HIDE DEF rt, dn
  <2> QED BY <1>3, <2>1, <2>2, <2>3, <2>4 DEF States
<1>5. Distinct(<<source.from>>) /\ Range(<<source.from>>) = {source.from}
  BY DEF Distinct, Range
<1>6. Coherent(local') /\ Faithful(wf, Range(local'.queue), Copied, {}, local', {})
  BY <1>2, <1>3, <1>4, <1>5, Starting
<1>7. /\ \A n \in Nodes : steps[n] = "pending" /\ (output[n] # None <=> n \in HasRun)
      /\ steps \in [Nodes -> StepStatuses] /\ output \in [Nodes -> Routes \union {NoRoute, None}]
  BY <1>1 DEF EngineInv, Copying, TypeOK
<1>8. \A n \in Nodes : steps'[n] = IF n \in Copied THEN "copied" ELSE "pending"
  BY <1>1, <1>7
<1>9. HasRun' = Copied /\ Ran' = {} BY <1>3, <1>8 DEF HasRun, Ran
<1>10. Sent(wf, Ran', output') = {} BY <1>9 DEF Sent
<1>11. First = Range(local'.queue) BY <1>1, <1>4, <1>5 DEF First
<1>12. results' \in Seq(Nodes) /\ Distinct(results') /\ Range(results') = HasRun'
  <2>1. PICK order \in [1..Cardinality(Copied) -> Copied] :
            /\ \A i, j \in DOMAIN order : i < j => order[i] < order[j]
            /\ results' = order
    BY DEF StartRetry
  <2> QED BY <1>3, <1>9, <2>1, StepsInOrder
<1>13. /\ steps' \in [Nodes -> StepStatuses]
       /\ output' \in [Nodes -> Routes \union {NoRoute, None}]
  <2>1. steps' \in [Nodes -> StepStatuses] BY <1>1, <1>7 DEF StepStatuses
  <2>2. output' \in [Nodes -> Routes \union {NoRoute, None}] BY <1>1, <1>3, <1>7
  <2> QED BY <2>1, <2>2
<1>14. Copying'
  <2>1. \A n \in Nodes : output'[n] # None <=> n \in HasRun'
    <3> SUFFICES ASSUME NEW n \in Nodes PROVE output'[n] # None <=> n \in Copied
      BY <1>9
    <3>1. n \notin HasRun BY <1>7 DEF HasRun
    <3> QED BY <1>1, <1>3, <1>7, <3>1
  <2>2. \A n \in Copied' : steps'[n] = "copied" BY <1>1, <1>3, <1>8 DEF Copied
  <2> QED BY <1>1, <2>1, <2>2 DEF Copying
<1>15. Faithful(wf, First, HasRun', Sent(wf, Ran', output'), local', {})
  BY <1>6, <1>9, <1>10, <1>11
<1> QED BY <1>1, <1>4, <1>6, <1>12, <1>13, <1>14, <1>15, LoopEntered

LEMMA RunStartsRestored ==
    ASSUME EngineInv, StartRestored
    PROVE  EngineInv'
<1>1. /\ status = "queued" /\ phase = "off" /\ saved # None
      /\ local' = saved /\ saved' = saved /\ status' = "running" /\ phase' = "loop"
      /\ UNCHANGED <<wf, current, fan, steps, output, source, retries>>
  BY DEF StartRestored
<1>2. saved \in States /\ Coherent(saved) /\ Sound(saved, {}) /\ fan = {}
  BY <1>1 DEF EngineInv, TypeOK, QueueCoherent, Resting
<1>3. HasRun' = HasRun /\ Ran' = Ran BY <1>1 DEF HasRun, Ran
<1>4. Faithful(wf, First, HasRun', Sent(wf, Ran', output'), local', {})
  <2>1. Followed = Sent(wf, Ran, output) BY <1>2 DEF Followed
  <2> QED BY <1>1, <1>2, <1>3, <2>1 DEF Sound
<1>5. Done = HasRun /\ Done \subseteq Nodes BY DEF EngineInv, Copying, Done, HasRun
<1>6. results' \in Seq(Nodes) /\ Distinct(results') /\ Range(results') = HasRun'
  <2>1. PICK order \in [1..Cardinality(Done) -> Done] :
            /\ \A i, j \in DOMAIN order : i < j => order[i] < order[j]
            /\ results' = order
    BY DEF StartRestored
  <2> QED BY <1>3, <1>5, <2>1, StepsInOrder
<1>7. Copying' BY <1>1, <1>3 DEF EngineInv, Copying, Copied
<1>8. /\ steps' \in [Nodes -> StepStatuses]
      /\ output' \in [Nodes -> Routes \union {NoRoute, None}]
  BY <1>1 DEF EngineInv, TypeOK
<1> QED BY <1>1, <1>2, <1>4, <1>6, <1>7, <1>8, LoopEntered

\* The node that is executed has an output with route r.
LEMMA NodeCompletes ==
    ASSUME EngineInv, phase = "exec", NEW r \in Routes \union {NoRoute}, NEW tries \in 0..2,
           Complete(r, tries)
    PROVE  /\ EngineInv'
           /\ current \in Nodes \ HasRun /\ HasRun' = HasRun \union {current}
           /\ Due(wf, First, Followed, current)
<1>1. /\ wf \in Chart /\ local \in States /\ Coherent(local) /\ current \in Nodes /\ fan = {}
      /\ Faithful(wf, First, HasRun, Followed, local, {current})
      /\ results \in Seq(Nodes) /\ Distinct(results) /\ Range(results) = HasRun
      /\ status \in {"running", "cancelling"}
      /\ steps \in [Nodes -> StepStatuses] /\ output \in [Nodes -> Routes \union {NoRoute, None}]
  BY DEF EngineInv, TypeOK, QueueCoherent, Working, Sound
<1>2. current \notin HasRun /\ Due(wf, First, Followed, current) /\ HasRun \subseteq Nodes
  BY <1>1 DEF Faithful, HasRun
<1>3. /\ steps' = [steps EXCEPT ![current] = "succeeded"]
      /\ output' = [output EXCEPT ![current] = r]
      /\ results' = Append(results, current)
      /\ fan' = Selected(wf, current, r)
      /\ phase' = "edges"
      /\ UNCHANGED <<wf, status, current, saved, source, retries>>
  BY DEF Complete
<1>4. local' \in States /\ Coherent(local')
      /\ Faithful(wf, First, HasRun \union {current}, Followed, local', {})
  <2>1. PICK approval \in BOOLEAN : approval <=> current \in wf.approvals OBVIOUS
  <2>2. local' = Finish(local, current, tries, r, approval) BY <2>1 DEF Complete, Finish
  <2> QED BY <1>1, <1>2, <2>2, Completed
<1>5. HasRun' = HasRun \union {current} /\ Ran' = Ran \union {current}
  BY <1>1, <1>3 DEF HasRun, Ran
<1>6. First' = First BY <1>3 DEF First
<1>7. current \notin Ran /\ \A m \in Ran : output'[m] = output[m]
  BY <1>1, <1>2, <1>3 DEF Ran, HasRun
<1>8. Followed' = Followed /\ output'[current] = r
  <2>1. output'[current] = r BY <1>1, <1>3
  <2>2. Sent(wf, Ran', output') \ Selected(wf, current, output'[current]) = Sent(wf, Ran, output)
    BY <1>5, <1>7, RunOne
  <2> QED BY <1>1, <1>3, <2>1, <2>2 DEF Followed
<1>9. results' \in Seq(Nodes) /\ Distinct(results') /\ Range(results') = HasRun'
  BY <1>1, <1>2, <1>3, <1>5, AddLast
<1>10. TypeOK'
  <2>1. steps' \in [Nodes -> StepStatuses] BY <1>1, <1>3 DEF StepStatuses
  <2>2. output' \in [Nodes -> Routes \union {NoRoute, None}] BY <1>1, <1>3
  <2>3. fan' \subseteq DOMAIN wf.edges BY <1>3, SelectedEdges
  <2> QED BY <1>3, <1>4, <1>9, <2>1, <2>2, <2>3 DEF EngineInv, TypeOK
<1>11. wf' \in Workflows /\ QueueCoherent' BY <1>3, <1>4 DEF EngineInv, QueueCoherent
<1>12. Working'
  <2>1. Sound(local, {})' BY <1>3, <1>4, <1>5, <1>6, <1>8 DEF Sound
  <2>2. current' \in Ran' BY <1>3, <1>5
  <2> QED BY <1>1, <1>3, <1>8, <1>9, <2>1, <2>2 DEF Working
<1>13. Resting' BY <1>1, <1>3 DEF Resting
<1>14. Copying'
  <2>1. r # None BY EngineAssumption
  <2>2. \A n \in Nodes : output'[n] # None <=> n \in HasRun'
    BY <1>1, <1>3, <1>5, <2>1 DEF EngineInv, Copying
  <2>3. \A n \in Nodes : steps'[n] = "copied" <=> steps[n] = "copied"
    BY <1>1, <1>2, <1>3 DEF HasRun
  <2> QED BY <1>1, <1>3, <2>2, <2>3 DEF EngineInv, Copying, Copied
<1> QED BY <1>1, <1>2, <1>4, <1>5, <1>10, <1>11, <1>12, <1>13, <1>14 DEF EngineInv

\* The route of an output of the node that is executed.
LEMMA NodeOutputs ==
    ASSUME EngineInv, phase = "exec"
    PROVE  /\ wf.routes[current] \subseteq Routes \union {NoRoute}
           /\ local.decision[current] \in Routes \union {NoRoute}
           /\ Attempt \in 0..2
<1>1. wf \in Chart /\ local \in States /\ current \in Nodes BY DEF EngineInv, TypeOK, Working
<1>2. wf.routes[current] \subseteq Routes \union {NoRoute} BY <1>1 DEF Chart
<1>3. local.decision[current] \in Routes \union {NoRoute} BY <1>1 DEF States
<1>4. local.attempts[current] \in Nat /\ local.attempts[current] < MaxAttempts(current)
  BY PutBackAgain
<1>5. Attempt \in 0..2 BY <1>4 DEF Attempt, MaxAttempts
<1> QED BY <1>2, <1>3, <1>5

LEMMA NodeEnds ==
    ASSUME EngineInv, NodeSucceeds \/ NodeFallsBack
    PROVE  \E r \in Routes \union {NoRoute}, tries \in 0..2 : phase = "exec" /\ Complete(r, tries)
<1>1. CASE NodeSucceeds
  <2>1. phase = "exec" BY <1>1 DEF NodeSucceeds
  <2>2. PICK r \in IF current \in wf.approvals
                   THEN {local.decision[current]} ELSE wf.routes[current] : Complete(r, 0)
    BY <1>1 DEF NodeSucceeds
  <2>3. r \in Routes \union {NoRoute} BY <2>1, <2>2, NodeOutputs
  <2> QED BY <2>1, <2>2, <2>3
<1>2. CASE NodeFallsBack
  <2>1. phase = "exec" BY <1>2 DEF NodeFallsBack
  <2>2. PICK r \in wf.routes[current] : Complete(r, Attempt) BY <1>2 DEF NodeFallsBack
  <2> QED BY <2>1, <2>2, NodeOutputs
<1> QED BY <1>1, <1>2

LEMMA NodeTriedAgain ==
    ASSUME EngineInv, NodeRetries
    PROVE  EngineInv'
<1>1. /\ phase = "exec" /\ Attempt < MaxAttempts(current)
      /\ local' = PutBack([local EXCEPT !.attempts[current] = Attempt])
      /\ saved' = local' /\ phase' = "loop"
      /\ UNCHANGED <<wf, status, current, fan, results, steps, output, source, retries>>
  BY DEF NodeRetries
<1>2. Attempt \in Nat BY <1>1, NodeOutputs
<1>3. local' \in States /\ Coherent(local') /\ Faithful(wf, First, HasRun, Followed, local', {})
  BY <1>1, <1>2, PutBackAgain
<1>4. TypeOK' BY <1>1, <1>3 DEF EngineInv, TypeOK
<1>5. wf' \in Workflows /\ QueueCoherent' BY <1>1, <1>3 DEF EngineInv, QueueCoherent
<1>6. HasRun' = HasRun /\ Followed' = Followed /\ First' = First
  BY <1>1 DEF HasRun, Followed, Ran, First
<1>7. Working'
  <2>1. Sound(local, {})' BY <1>1, <1>3, <1>6 DEF Sound
  <2> QED BY <1>1, <1>6, <2>1 DEF EngineInv, Working
<1>8. Resting' BY <1>1 DEF EngineInv, Resting, Working
<1>9. Copying' BY <1>1, <1>6 DEF EngineInv, Copying, Copied, Working
<1> QED BY <1>4, <1>5, <1>7, <1>8, <1>9 DEF EngineInv

LEMMA EdgeTaken ==
    ASSUME EngineInv, FollowEdge
    PROVE  EngineInv' /\ HasRun' = HasRun
<1>1. phase = "edges" /\ UNCHANGED <<wf, status, phase, current, results, saved, steps, output,
                                    source, retries>>
  BY DEF FollowEdge
<1>2. /\ wf \in Chart /\ local \in States /\ Coherent(local) /\ current \in Ran
      /\ fan \subseteq Selected(wf, current, output[current])
      /\ Faithful(wf, First, HasRun, Followed, local, {})
  BY <1>1 DEF EngineInv, TypeOK, QueueCoherent, Working, Sound
<1>3. PICK i \in fan :
          /\ fan' = fan \ {i}
          /\ LET n      == wf.edges[i].to
                 tokens == local.tokens[n] + (IF n \in wf.joins THEN 1 ELSE 0)
                 enter  == /\ Ready(n, tokens)
                           /\ n \notin local.executed
                           /\ n \notin local.enqueued
             IN  local' = [local EXCEPT
                      !.inputs[n] = @ \union {current},
                      !.tokens[n] = tokens,
                      !.queue = IF enter THEN Append(@, n) ELSE @,
                      !.enqueued = IF enter THEN @ \union {n} ELSE @]
  BY DEF FollowEdge
<1>4. /\ i \in DOMAIN wf.edges /\ wf.edges[i].from = current
      /\ i \in Sent(wf, Ran, output) /\ i \notin Followed
      /\ Followed \in SUBSET (DOMAIN wf.edges)
  BY <1>2, SelectedEdges, SentEdges DEF Sent, Followed
<1>5. wf.edges[i].from \in Nodes /\ wf.edges[i].to \in Nodes
  <2>1. wf.edges \in Seq(Edge) BY <1>2 DEF Chart
  <2>2. wf.edges[i] \in Edge BY <1>4, <2>1
  <2> QED BY <2>2 DEF Edge
<1> DEFINE k    == wf.edges[i].to
           more == local.tokens[k] + (IF k \in wf.joins THEN 1 ELSE 0)
<1>6. local.tokens[k] \in Nat BY <1>2, <1>5 DEF States
<1>7. more \in Nat BY <1>6
<1>8. PICK enter \in BOOLEAN :
          enter <=> /\ (k \in wf.joins => more >= wf.need[k])
                    /\ k \notin local.executed /\ k \notin local.enqueued
  OBVIOUS
<1>9. local' = FollowTo(local, wf.edges[i].from, k, more, enter)
  BY <1>3, <1>4, <1>8 DEF FollowTo, Ready
<1> HIDE DEF k, more
<1>10. local' \in States /\ Coherent(local')
       /\ Faithful(wf, First, HasRun, Followed \union {i}, local', {})
  <2>1. HasRun \in SUBSET Nodes BY DEF HasRun
  <2> QED BY <1>2, <1>4, <1>5, <1>7, <1>8, <1>9, <2>1, EdgeFollowed DEF k, more
<1>11. HasRun' = HasRun /\ Ran' = Ran /\ First' = First /\ Followed' = Followed \union {i}
  BY <1>1, <1>3, <1>4 DEF HasRun, Ran, First, Followed
<1>12. TypeOK' BY <1>1, <1>3, <1>10 DEF EngineInv, TypeOK
<1>13. wf' \in Workflows /\ QueueCoherent' BY <1>1, <1>10 DEF EngineInv, QueueCoherent
<1>14. Working'
  <2>1. Sound(local, {})' BY <1>1, <1>10, <1>11 DEF Sound
  <2> QED BY <1>1, <1>2, <1>3, <1>11, <2>1 DEF EngineInv, Working
<1>15. Resting' BY <1>1 DEF EngineInv, Resting, Working
<1>16. Copying' BY <1>1, <1>11 DEF EngineInv, Copying, Copied, Working
<1> QED BY <1>11, <1>12, <1>13, <1>14, <1>15, <1>16 DEF EngineInv

LEMMA StateSaved ==
    ASSUME EngineInv, SaveState
    PROVE  EngineInv'
<1>1. /\ phase = "edges" /\ fan = {} /\ saved' = local /\ phase' = "loop"
      /\ UNCHANGED <<wf, status, current, fan, local, results, steps, output, source, retries>>
  BY DEF SaveState
<1>2. HasRun' = HasRun /\ Followed' = Followed /\ First' = First
  BY <1>1 DEF HasRun, Followed, Ran, First
<1>3. local \in States /\ Coherent(local) BY DEF EngineInv, TypeOK, QueueCoherent
<1>4. TypeOK' BY <1>1, <1>3 DEF EngineInv, TypeOK
<1>5. wf' \in Workflows /\ QueueCoherent' BY <1>1, <1>3 DEF EngineInv, QueueCoherent
<1>6. Working'
  <2>1. Sound(local, {})' BY <1>1, <1>2 DEF Sound, EngineInv, Working
  <2> QED BY <1>1, <1>2, <2>1 DEF EngineInv, Working
<1>7. Resting' BY <1>1 DEF EngineInv, Resting, Working
<1>8. Copying' BY <1>1, <1>2 DEF EngineInv, Copying, Copied, Working
<1> QED BY <1>4, <1>5, <1>6, <1>7, <1>8 DEF EngineInv

\* Somebody decides: the decision is put in the saved state.
LEMMA RunDecided ==
    ASSUME EngineInv, Decide \/ DecideInner
    PROVE  EngineInv'
<1>1. /\ status = "waiting_human" /\ phase = "off" /\ status' = "queued"
      /\ UNCHANGED <<wf, phase, current, fan, local, results, steps, output, source, retries>>
  BY DEF Decide, DecideInner
<1>2. saved \in States /\ Coherent(saved) /\ Faithful(wf, First, HasRun, Followed, saved, {})
  BY <1>1 DEF EngineInv, TypeOK, QueueCoherent, Resting, Sound
<1>3. PICK m, r : r \in {"approved", "rejected"} /\ saved' = [saved EXCEPT !.decision[m] = r]
  <2>1. CASE Decide
    <3>1. PICK r \in {"approved", "rejected"} :
              saved' = [saved EXCEPT !.decision[Head(saved.queue)] = r]
      BY <2>1 DEF Decide
    <3> QED BY <3>1, Zenon
  <2>2. CASE DecideInner
    <3>1. PICK r \in {"approved", "rejected"} : saved' = [saved EXCEPT !.decision[asker] = r]
      BY <2>2 DEF DecideInner
    <3> QED BY <3>1, Zenon
  <2> QED BY <2>1, <2>2
<1>4. /\ saved' \in States
      /\ saved'.queue = saved.queue /\ saved'.enqueued = saved.enqueued
      /\ saved'.executed = saved.executed /\ saved'.tokens = saved.tokens
      /\ saved'.attempts = saved.attempts /\ saved'.inputs = saved.inputs
  <2>1. r \in Routes \union {NoRoute} BY <1>3, EngineAssumption
  <2> QED BY <1>2, <1>3, <2>1 DEF States
<1>5. Coherent(saved') /\ Faithful(wf, First, HasRun, Followed, saved', {})
  BY <1>2, <1>4 DEF Coherent, Faithful
<1>6. HasRun' = HasRun /\ Followed' = Followed /\ First' = First
  BY <1>1 DEF HasRun, Followed, Ran, First
<1>7. saved' # None BY <1>4, EngineAssumption
<1>8. TypeOK' BY <1>1, <1>4 DEF EngineInv, TypeOK
<1>9. wf' \in Workflows /\ QueueCoherent' BY <1>1, <1>5 DEF EngineInv, QueueCoherent
<1>10. Working' BY <1>1 DEF Working
<1>11. Resting'
  <2>1. Sound(saved, {})' BY <1>1, <1>5, <1>6 DEF Sound
  <2> QED BY <1>1, <1>7, <2>1 DEF EngineInv, Resting
<1>12. Copying'
  <2>1. saved # None BY <1>1 DEF EngineInv, Resting
  <2> QED BY <1>1, <1>6, <1>7, <2>1 DEF EngineInv, Copying, Copied
<1> QED BY <1>8, <1>9, <1>10, <1>11, <1>12 DEF EngineInv

\* A request that changes the status only.
LEMMA RunRequested ==
    ASSUME EngineInv, ResumePaused \/ RequestCancel
    PROVE  EngineInv'
<1>1. UNCHANGED <<wf, phase, current, fan, local, results, saved, steps, output, source, retries>>
  BY DEF ResumePaused, RequestCancel
<1>2. \/ status = "running" /\ status' = "cancelling"
      \/ status \in {"queued", "paused", "waiting_human"} /\ status' = "cancelled"
      \/ status = "paused" /\ status' = "queued"
  BY DEF ResumePaused, RequestCancel
<1>3. HasRun' = HasRun /\ Followed' = Followed /\ First' = First
  BY <1>1 DEF HasRun, Followed, Ran, First
<1>4. TypeOK' BY <1>1, <1>2 DEF EngineInv, TypeOK, Ended
<1>5. wf' \in Workflows /\ QueueCoherent' BY <1>1 DEF EngineInv, QueueCoherent
<1>6. Working'
  <2>1. phase # "off" => status = "running" /\ status' = "cancelling"
    BY <1>2 DEF EngineInv, Working
  <2>2. Sound(local, {})' = Sound(local, {}) /\ Sound(local, {current})' = Sound(local, {current})
    BY <1>1, <1>3 DEF Sound
  <2>3. Ran' = Ran BY <1>1 DEF Ran
  <2> QED BY <1>1, <1>3, <2>1, <2>2, <2>3 DEF EngineInv, Working
<1>7. Resting'
  <2>1. Sound(saved, {})' = Sound(saved, {}) BY <1>1, <1>3 DEF Sound
  <2>2. phase = "off" => status # "running" BY DEF EngineInv, Resting
  <2> QED BY <1>1, <1>2, <2>1, <2>2 DEF EngineInv, Resting
<1>8. Copying'
  <2>1. status' = "queued" => saved # None BY <1>2 DEF EngineInv, Resting
  <2> QED BY <1>1, <1>3, <2>1 DEF EngineInv, Copying, Copied
<1> QED BY <1>4, <1>5, <1>6, <1>7, <1>8 DEF EngineInv

LEMMA RunRetried ==
    ASSUME EngineInv, RetryFromFailedStep
    PROVE  EngineInv'
<1>1. /\ status \in Ended /\ phase = "off" /\ retries < MaxRetryRuns
      /\ status' = "queued" /\ saved' = None
      /\ steps' = [n \in Nodes |-> "pending"] /\ output' = [n \in Nodes |-> None]
      /\ retries' = retries + 1
      /\ UNCHANGED <<wf, phase, current, fan, local, results>>
  BY DEF RetryFromFailedStep
<1>2. PICK n \in Nodes : source' = [from |-> n, output |-> output]
  BY DEF RetryFromFailedStep
<1>3. source' \in Source /\ source' # None
  <2>1. output \in [Nodes -> Routes \union {NoRoute, None}] BY DEF EngineInv, TypeOK
  <2>2. source' \in Source BY <1>2, <2>1 DEF Source
  <2> QED BY <2>2, EngineAssumption
<1>4. retries' \in 0..MaxRetryRuns BY <1>1, EngineAssumption DEF EngineInv, TypeOK
<1>5. TypeOK' BY <1>1, <1>3, <1>4 DEF EngineInv, TypeOK, StepStatuses
<1>6. wf' \in Workflows /\ QueueCoherent' BY <1>1 DEF EngineInv, QueueCoherent
<1>7. Working' BY <1>1 DEF Working
<1>8. Resting' BY <1>1 DEF EngineInv, Resting
<1>9. Copying' BY <1>1, <1>3 DEF Copying, HasRun
<1> QED BY <1>5, <1>6, <1>7, <1>8, <1>9 DEF EngineInv

\* The steps of the engine, those that SubWorkflows takes of it included.
EngineStep == Next \/ (phase = "exec" /\ Wait) \/ DecideInner

LEMMA EngineInvKept ==
    ASSUME EngineInv, EngineStep \/ UNCHANGED vars
    PROVE  EngineInv'
<1>1. CASE UNCHANGED vars
  BY <1>1 DEF vars, EngineInv, TypeOK, QueueCoherent, Working, Resting, Copying, Sound, HasRun,
              Followed, Ran, First, Copied
<1>2. CASE StartFresh BY <1>2, RunStartsFresh
<1>3. CASE StartRetry BY <1>3, RunStartsRetry
<1>4. CASE StartRestored BY <1>4, RunStartsRestored
<1>5. CASE ControlExpires \/ ControlCancels \/ NodeFails \/ CredentialFails \/ RunSucceeds
  BY <1>5, RunEnds
<1>6. CASE StopPaused BY <1>6, RunStops
<1>7. CASE NextNode BY <1>7, NextTaken
<1>8. CASE NodeWaits \/ (phase = "exec" /\ Wait) BY <1>8, RunWaits DEF NodeWaits
<1>9. CASE NodeSucceeds \/ NodeFallsBack BY <1>9, NodeEnds, NodeCompletes
<1>10. CASE NodeRetries BY <1>10, NodeTriedAgain
<1>11. CASE FollowEdge BY <1>11, EdgeTaken
<1>12. CASE SaveState BY <1>12, StateSaved
<1>13. CASE Decide \/ DecideInner BY <1>13, RunDecided
<1>14. CASE ResumePaused \/ RequestCancel BY <1>14, RunRequested
<1>15. CASE RetryFromFailedStep BY <1>15, RunRetried
<1> QED BY <1>1, <1>2, <1>3, <1>4, <1>5, <1>6, <1>7, <1>8, <1>9, <1>10, <1>11, <1>12, <1>13,
           <1>14, <1>15
        DEF EngineStep, Next, Work

LEMMA EngineInvStarts == Init => EngineInv
<1> SUFFICES ASSUME Init PROVE EngineInv OBVIOUS
<1>1. /\ wf \in Workflows /\ status = "queued" /\ phase = "off" /\ current = 0 /\ fan = {}
      /\ local = NewState /\ results = << >> /\ saved = None
      /\ steps = [n \in Nodes |-> "pending"] /\ output = [n \in Nodes |-> None]
      /\ source = None /\ retries = 0
  BY DEF Init
<1>2. wf \in Chart BY <1>1, WorkflowsAssumption
<1>3. << >> \in Seq(Nodes) BY EmptySeq
<1>4. TypeOK BY <1>1, <1>2, <1>3, NewStateEmpty, EngineAssumption DEF TypeOK, StepStatuses
<1>5. QueueCoherent BY <1>1, NewStateEmpty DEF QueueCoherent
<1>6. Working /\ Resting BY <1>1 DEF Working, Resting
<1>7. Copying BY <1>1 DEF Copying, HasRun
<1> QED BY <1>1, <1>4, <1>5, <1>6, <1>7 DEF EngineInv

-----------------------------------------------------------------------------
(* Activation is implemented                                               *)

\* What the instance Abstract substitutes for the variables of Activation.
AllExecuted == ToCopy \union {n \in Nodes : steps[n] \in {"succeeded", "copied"}}
AllRoutes   == [n \in Nodes |-> IF n \in ToCopy THEN source.output[n]
                                ELSE IF output[n] = None THEN NoRoute ELSE output[n]]
AllEnded    == IF status \notin Ended THEN "no"
               ELSE IF status = "succeeded" /\ source = None THEN "succeeded" ELSE "other"

LEMMA AbstractActivated ==
    ASSUME NEW n
    PROVE  /\ Abstract!ActiveInto(n) = Into(wf, Sent(wf, AllExecuted, AllRoutes), n)
           /\ Abstract!Activated(n) <=> Due(wf, First, Sent(wf, AllExecuted, AllRoutes), n)
<1>1. \A w, m, r : Abstract!Selected(w, m, r) = Selected(w, m, r)
  BY DEF Abstract!Selected, Selected, Abstract!Out, Out, Abstract!Unconditional, Unconditional
<1>2. Abstract!ActiveInto(n) = Into(wf, Sent(wf, AllExecuted, AllRoutes), n)
  BY <1>1 DEF Abstract!ActiveInto, Into, Sent, AllExecuted, AllRoutes
<1>3. Abstract!Activated(n) <=> Due(wf, First, Sent(wf, AllExecuted, AllRoutes), n)
  <2>1. Abstract!Activated(n) <=>
            \/ n \in First
            \/ n \notin wf.joins /\ Abstract!ActiveInto(n) # {}
            \/ /\ n \in wf.joins /\ Abstract!ActiveInto(n) # {}
               /\ Cardinality(Abstract!ActiveInto(n)) >= wf.need[n]
    <3>1. \A S : Abstract!Cardinality(S) = Cardinality(S)
      BY DEF Abstract!Cardinality, Cardinality, Abstract!IsFiniteSet, IsFiniteSet
    <3> QED BY <3>1 DEF Abstract!Activated, First
  <2> QED BY <1>2, <2>1 DEF Due
<1> QED BY <1>2, <1>3

\* A run that has begun has nothing left to copy, and one that is no retry
\* has nothing to copy.
Begun == phase # "off" \/ saved # None \/ source = None

Direct == /\ ToCopy = {} /\ AllExecuted = HasRun
          /\ AllRoutes = [n \in Nodes |-> IF output[n] = None THEN NoRoute ELSE output[n]]

LEMMA NothingToCopy == EngineInv /\ Begun => Direct
<1> SUFFICES ASSUME EngineInv, Begun PROVE Direct OBVIOUS
<1>1. ToCopy = {}
  <2>1. CASE source = None BY <2>1 DEF ToCopy
  <2>2. CASE source # None
    <3>1. \A n \in Copied : steps[n] = "copied" BY <2>2 DEF EngineInv, Copying, Begun
    <3>2. ToCopy \subseteq Copied /\ \A n \in ToCopy : steps[n] = "pending"
      BY DEF ToCopy, Copied
    <3> QED BY <3>1, <3>2
  <2> QED BY <2>1, <2>2
<1>2. AllExecuted = HasRun BY <1>1 DEF AllExecuted, HasRun
<1>3. AllRoutes = [n \in Nodes |-> IF output[n] = None THEN NoRoute ELSE output[n]]
  BY <1>1 DEF AllRoutes
<1> QED BY <1>1, <1>2, <1>3 DEF Direct

LEMMA RoutesOfRan ==
    ASSUME EngineInv, Direct
    PROVE  /\ Sent(wf, Ran, output) \subseteq Sent(wf, AllExecuted, AllRoutes)
           /\ source = None => Sent(wf, Ran, output) = Sent(wf, AllExecuted, AllRoutes)
<1>1. \A n \in Ran : n \in Nodes /\ output[n] # None
  BY DEF EngineInv, Copying, Ran, HasRun
<1>2. \A n \in Ran : AllRoutes[n] = output[n] BY <1>1 DEF Direct
<1>3. Ran \subseteq AllExecuted BY DEF Direct, Ran, HasRun
<1>4. source = None => Ran = AllExecuted BY DEF EngineInv, Copying, Direct, Ran, HasRun
<1> QED BY <1>2, <1>3, <1>4 DEF Sent

LEMMA Stutters ==
    ASSUME UNCHANGED <<wf, First, AllExecuted, AllRoutes, AllEnded>>
    PROVE  UNCHANGED Abstract!vars
BY DEF Abstract!vars, First, AllExecuted, AllRoutes, AllEnded

LEMMA Executes ==
    ASSUME NEW n \in Nodes, AllEnded = "no", n \notin AllExecuted,
           Due(wf, First, Sent(wf, AllExecuted, AllRoutes), n),
           NEW r \in Routes \union {NoRoute}, AllRoutes' = [AllRoutes EXCEPT ![n] = r],
           AllExecuted' = AllExecuted \union {n},
           UNCHANGED <<wf, First, AllEnded>>
    PROVE  Abstract!Next
<1>1. Abstract!Activated(n) BY AbstractActivated
<1>2. Abstract!Execute(n) BY <1>1 DEF Abstract!Execute, First, AllExecuted, AllRoutes, AllEnded
<1> QED BY <1>2 DEF Abstract!Next

LEMMA Aborts ==
    ASSUME AllEnded = "no", AllEnded' = "other", UNCHANGED <<wf, First, AllExecuted, AllRoutes>>
    PROVE  Abstract!Next
<1>1. Abstract!Abort BY DEF Abstract!Abort, First, AllExecuted, AllRoutes, AllEnded
<1> QED BY <1>1 DEF Abstract!Next

LEMMA Succeeds ==
    ASSUME AllEnded = "no", AllEnded' = "succeeded",
           \A n \in Nodes : Due(wf, First, Sent(wf, AllExecuted, AllRoutes), n) => n \in AllExecuted,
           UNCHANGED <<wf, First, AllExecuted, AllRoutes>>
    PROVE  Abstract!Next
<1>1. \A n \in Nodes : Abstract!Activated(n) => n \in AllExecuted BY AbstractActivated
<1>2. Abstract!Succeed
  BY <1>1 DEF Abstract!Succeed, First, AllExecuted, AllRoutes, AllEnded
<1> QED BY <1>2 DEF Abstract!Next

LEMMA Restarts ==
    ASSUME NEW n \in Nodes, AllEnded # "no", AllEnded' = "no", First' = {n},
           AllExecuted' = {m \in AllExecuted : m < n},
           AllRoutes' = [m \in Nodes |-> IF m < n THEN AllRoutes[m] ELSE NoRoute],
           UNCHANGED wf
    PROVE  Abstract!Next
<1>1. Abstract!Restart(n) BY DEF Abstract!Restart, First, AllExecuted, AllRoutes, AllEnded
<1> QED BY <1>1 DEF Abstract!Next

\* A step that neither executes a node nor ends the run.
LEMMA KeepsOn ==
    ASSUME Direct, Direct', UNCHANGED <<wf, output, source>>, HasRun' = HasRun,
           status \notin Ended, status' \notin Ended
    PROVE  UNCHANGED Abstract!vars
BY Stutters DEF Direct, AllEnded, First

LEMMA WorkerKeepsOn ==
    ASSUME EngineInv, EngineInv', phase # "off", phase' # "off" \/ saved' # None,
           UNCHANGED <<wf, output, source>>, HasRun' = HasRun, status' \notin Ended
    PROVE  UNCHANGED Abstract!vars
<1>1. Begun /\ Begun' BY DEF Begun
<1>2. Direct /\ Direct' BY <1>1, NothingToCopy, PTL
<1>3. status \notin Ended BY DEF EngineInv, Working, Ended
<1> QED BY <1>2, <1>3, KeepsOn

LEMMA StartsStutter ==
    ASSUME EngineInv, EngineInv', StartFresh \/ StartRetry \/ StartRestored
    PROVE  UNCHANGED Abstract!vars
<1>1. /\ UNCHANGED <<wf, source>> /\ status = "queued" /\ status' = "running" /\ phase' = "loop"
  BY DEF StartFresh, StartRetry, StartRestored
<1>2. Begun' BY <1>1 DEF Begun
<1>3. Direct' BY <1>2, NothingToCopy, PTL
<1>4. status \notin Ended /\ status' \notin Ended BY <1>1 DEF Ended
<1>5. CASE StartFresh \/ StartRestored
  <2>1. Begun /\ UNCHANGED <<steps, output>> BY <1>5 DEF StartFresh, StartRestored, Begun
  <2>2. Direct BY <2>1, NothingToCopy
  <2>3. HasRun' = HasRun BY <2>1 DEF HasRun
  <2> QED BY <1>1, <1>3, <1>4, <2>1, <2>2, <2>3, KeepsOn
<1>6. CASE StartRetry
  <2>1. /\ source # None /\ saved = None
        /\ steps' = [n \in Nodes |-> IF n \in Copied THEN "copied" ELSE steps[n]]
        /\ output' = [n \in Nodes |-> IF n \in Copied THEN source.output[n] ELSE output[n]]
    BY <1>6 DEF StartRetry
  <2>2. \A n \in Nodes : steps[n] = "pending" /\ output[n] = None
    <3>1. \A n \in Nodes : steps[n] = "pending" BY <1>1, <2>1 DEF EngineInv, Copying
    <3> QED BY <3>1 DEF EngineInv, Copying, HasRun
  <2>3. ToCopy = Copied /\ HasRun = {} BY <2>1, <2>2 DEF ToCopy, Copied, HasRun
  <2>4. \A n \in Copied : n \in Nodes /\ source.output[n] # None BY DEF Copied
  <2>5. AllExecuted = Copied BY <2>3 DEF AllExecuted, HasRun
  <2>6. AllExecuted' = Copied
    <3>1. HasRun' = Copied BY <2>1, <2>2, <2>4 DEF HasRun
    <3> QED BY <1>3, <3>1 DEF Direct
  <2>7. AllRoutes' = AllRoutes
    <3>1. \A n \in Nodes : output'[n] = IF n \in Copied THEN source.output[n] ELSE None
      BY <2>1, <2>2
    <3>2. AllRoutes = [n \in Nodes |-> IF n \in Copied THEN source.output[n] ELSE NoRoute]
      BY <2>2, <2>3 DEF AllRoutes
    <3>3. AllRoutes' = [n \in Nodes |-> IF output'[n] = None THEN NoRoute ELSE output'[n]]
      BY <1>3 DEF Direct
    <3>4. ASSUME NEW n \in Nodes
          PROVE  (IF output'[n] = None THEN NoRoute ELSE output'[n])
                     = IF n \in Copied THEN source.output[n] ELSE NoRoute
      BY <2>4, <3>1
    <3> QED BY <3>2, <3>3, <3>4
  <2> QED BY <1>1, <1>4, <2>5, <2>6, <2>7, Stutters DEF First, AllEnded
<1> QED BY <1>5, <1>6

\* The run ends: it succeeds when its queue is empty, and otherwise aborts.
LEMMA EndsImplement ==
    ASSUME EngineInv, EngineInv',
           ControlExpires \/ ControlCancels \/ NodeFails \/ CredentialFails \/ RunSucceeds
    PROVE  Abstract!Next
<1>1. /\ phase # "off" /\ status' \in Ended /\ UNCHANGED <<wf, output, source>>
  BY DEF ControlExpires, ControlCancels, NodeFails, CredentialFails, RunSucceeds, EndRun, Ended
<1>2. Begun /\ status \in {"running", "cancelling"} BY <1>1 DEF Begun, EngineInv, Working
<1>3. Direct BY <1>2, NothingToCopy
<1>4. steps \in [Nodes -> StepStatuses] BY DEF EngineInv, TypeOK
<1>5. HasRun' = HasRun /\ \A n \in Nodes : steps[n] = "copied" <=> steps'[n] = "copied"
  <2>1. CASE ControlExpires BY <1>4, <2>1 DEF ControlExpires, HasRun
  <2>2. CASE ControlCancels BY <1>4, <2>2 DEF ControlCancels, MarkRemaining, HasRun
  <2>3. CASE RunSucceeds BY <1>4, <2>3 DEF RunSucceeds, MarkRemaining, HasRun
  <2>4. CASE NodeFails \/ CredentialFails
    <3>1. current \in Nodes /\ current \notin HasRun
      BY <2>4 DEF NodeFails, CredentialFails, EngineInv, Working, Sound, Faithful
    <3>2. steps' = [steps EXCEPT ![current] = "failed"]
      BY <2>4 DEF NodeFails, CredentialFails
    <3> QED BY <1>4, <3>1, <3>2 DEF HasRun
  <2> QED BY <2>1, <2>2, <2>3, <2>4
<1>6. ToCopy' = {}
  <2>1. source # None => \A n \in Copied : steps'[n] = "copied"
    BY <1>1, <1>5 DEF EngineInv, Copying, Copied
  <2>2. source # None => \A n \in ToCopy' : n \in Copied /\ steps'[n] = "pending"
    BY <1>1 DEF ToCopy, Copied
  <2>3. source = None => ToCopy' = {} BY <1>1 DEF ToCopy
  <2> QED BY <2>1, <2>2, <2>3
<1>7. AllExecuted' = AllExecuted /\ AllRoutes' = AllRoutes /\ First' = First
  <2>1. AllExecuted' = HasRun' BY <1>6 DEF AllExecuted, HasRun
  <2>2. AllRoutes' = [n \in Nodes |-> IF output'[n] = None THEN NoRoute ELSE output'[n]]
    BY <1>6 DEF AllRoutes
  <2>3. First' = First BY <1>1 DEF First
  <2> QED BY <1>1, <1>3, <1>5, <2>1, <2>2, <2>3 DEF Direct
<1>8. AllEnded = "no" /\ AllEnded' \in {"succeeded", "other"}
  BY <1>1, <1>2 DEF AllEnded, Ended
<1>9. CASE AllEnded' = "other" BY <1>1, <1>7, <1>8, <1>9, Aborts
<1>10. CASE AllEnded' = "succeeded"
  <2>1. RunSucceeds /\ source = None
    BY <1>1, <1>10 DEF AllEnded, ControlExpires, ControlCancels, NodeFails, CredentialFails, EndRun
  <2>2. phase = "loop" /\ local.queue = << >> BY <2>1 DEF RunSucceeds
  <2>3. fan = {} /\ Coherent(local) /\ Faithful(wf, First, HasRun, Followed, local, {})
    BY <2>2 DEF EngineInv, Working, QueueCoherent, Sound
  <2>4. local.enqueued = {} BY <2>2, <2>3 DEF Coherent, Range
  <2>5. \A n \in Nodes : Due(wf, First, Followed, n) => n \in HasRun
    BY <2>3, <2>4 DEF Faithful
  <2>6. Followed = Sent(wf, AllExecuted, AllRoutes)
    BY <1>3, <2>1, <2>3, RoutesOfRan DEF Followed
  <2>7. AllExecuted = HasRun BY <1>3 DEF Direct
  <2> QED BY <1>1, <1>7, <1>8, <1>10, <2>5, <2>6, <2>7, Succeeds
<1> QED BY <1>8, <1>9, <1>10

LEMMA NodesImplement ==
    ASSUME EngineInv, EngineInv', NodeSucceeds \/ NodeFallsBack
    PROVE  Abstract!Next
<1>1. PICK r \in Routes \union {NoRoute}, tries \in 0..2 : phase = "exec" /\ Complete(r, tries)
  BY NodeEnds
<1>2. /\ current \in Nodes \ HasRun /\ HasRun' = HasRun \union {current}
      /\ Due(wf, First, Followed, current)
  BY <1>1, NodeCompletes
<1>3. /\ UNCHANGED <<wf, status, source>> /\ phase' = "edges"
      /\ output' = [output EXCEPT ![current] = r]
  BY <1>1 DEF Complete
<1>4. Begun /\ Begun' BY <1>1, <1>3 DEF Begun
<1>5. Direct /\ Direct' BY <1>4, NothingToCopy, PTL
<1>6. wf \in Chart /\ fan = {} /\ status \in {"running", "cancelling"}
      /\ output \in [Nodes -> Routes \union {NoRoute, None}]
  BY <1>1 DEF EngineInv, TypeOK, Working
<1>7. Due(wf, First, Sent(wf, AllExecuted, AllRoutes), current)
  <2>1. Followed \subseteq Sent(wf, AllExecuted, AllRoutes)
    BY <1>5, RoutesOfRan DEF Followed
  <2>2. Sent(wf, AllExecuted, AllRoutes) \in SUBSET (DOMAIN wf.edges) BY SentEdges
  <2> QED BY <1>2, <1>6, <2>1, <2>2, DueGrows
<1>8. AllExecuted' = AllExecuted \union {current} /\ current \notin AllExecuted
  BY <1>2, <1>5 DEF Direct
<1>9. AllRoutes' = [AllRoutes EXCEPT ![current] = r]
  <2>1. r # None BY EngineAssumption
  <2>2. AllRoutes = [n \in Nodes |-> IF output[n] = None THEN NoRoute ELSE output[n]]
    BY <1>5 DEF Direct
  <2>3. AllRoutes' = [n \in Nodes |-> IF output'[n] = None THEN NoRoute ELSE output'[n]]
    BY <1>5 DEF Direct
  <2>4. \A n \in Nodes : output'[n] = IF n = current THEN r ELSE output[n] BY <1>3, <1>6
  <2> QED BY <2>1, <2>2, <2>3, <2>4
<1>10. First' = First /\ AllEnded = "no" /\ AllEnded' = AllEnded
  BY <1>3, <1>6 DEF First, AllEnded, Ended
<1> QED BY <1>2, <1>3, <1>7, <1>8, <1>9, <1>10, Executes

\* The steps between the nodes, those that park the run included.
LEMMA LoopStutters ==
    ASSUME EngineInv, EngineInv',
           \/ NextNode \/ NodeRetries \/ FollowEdge \/ SaveState \/ StopPaused
           \/ phase = "exec" /\ Wait
    PROVE  UNCHANGED Abstract!vars
<1>1. /\ phase # "off" /\ UNCHANGED <<wf, output, source>>
      /\ status' \in {status, "paused", "waiting_human"}
  BY DEF NextNode, NodeRetries, FollowEdge, SaveState, StopPaused, Wait
<1>2. status' \notin Ended BY <1>1 DEF EngineInv, Working, Ended
<1>3. phase' # "off" \/ saved' # None
  <2>1. status' \in {"paused", "waiting_human"} => saved' # None BY DEF EngineInv, Resting
  <2>2. status \in {"running", "cancelling"} BY <1>1 DEF EngineInv, Working
  <2>3. phase' = "off" => status' \notin {"running", "cancelling"} BY DEF EngineInv, Resting
  <2> QED BY <1>1, <2>1, <2>2, <2>3
<1>4. HasRun' = HasRun
  <2>1. CASE NextNode
    <3>1. Head(local.queue) \in Nodes \ HasRun /\ steps' = [steps EXCEPT ![Head(local.queue)] = "running"]
      BY <2>1, NextTaken
    <3>2. PICK n : n = Head(local.queue) OBVIOUS
    <3>3. n \in Nodes \ HasRun /\ steps' = [steps EXCEPT ![n] = "running"] BY <3>1, <3>2
    <3>4. steps \in [Nodes -> StepStatuses] BY DEF EngineInv, TypeOK
    <3> QED BY <3>3, <3>4 DEF HasRun
  <2>2. CASE NodeRetries \/ FollowEdge \/ SaveState \/ StopPaused
    BY <2>2 DEF NodeRetries, FollowEdge, SaveState, StopPaused, HasRun
  <2>3. CASE phase = "exec" /\ Wait
    <3>1. current \in Nodes \ HasRun BY <2>3, PutBackAgain
    <3>2. steps' = [steps EXCEPT ![current] = "waiting_human"] BY <2>3 DEF Wait
    <3>3. steps \in [Nodes -> StepStatuses] BY DEF EngineInv, TypeOK
    <3> QED BY <3>1, <3>2, <3>3 DEF HasRun
  <2> QED BY <2>1, <2>2, <2>3
<1> QED BY <1>1, <1>2, <1>3, <1>4, WorkerKeepsOn

LEMMA RequestsImplement ==
    ASSUME EngineInv, EngineInv', Decide \/ DecideInner \/ ResumePaused \/ RequestCancel
    PROVE  Abstract!Next \/ UNCHANGED Abstract!vars
<1>1. UNCHANGED <<wf, steps, output, source>>
  BY DEF Decide, DecideInner, ResumePaused, RequestCancel
<1>2. UNCHANGED <<First, AllExecuted, AllRoutes>>
  BY <1>1 DEF First, AllExecuted, AllRoutes, ToCopy
<1>3. status \notin Ended BY DEF Decide, DecideInner, ResumePaused, RequestCancel, Ended
<1>4. status' \notin Ended \/ status' = "cancelled"
  BY DEF Decide, DecideInner, ResumePaused, RequestCancel, Ended
<1>5. CASE status' \notin Ended
  <2>1. AllEnded' = AllEnded BY <1>3, <1>5 DEF AllEnded
  <2> QED BY <1>1, <1>2, <2>1, Stutters
<1>6. CASE status' = "cancelled"
  <2>1. AllEnded = "no" /\ AllEnded' = "other" BY <1>3, <1>6 DEF AllEnded, Ended
  <2> QED BY <1>1, <1>2, <2>1, Aborts
<1> QED BY <1>4, <1>5, <1>6

LEMMA RetryImplements ==
    ASSUME EngineInv, RetryFromFailedStep
    PROVE  Abstract!Next
<1>1. /\ status \in Ended /\ status' = "queued"
      /\ steps' = [n \in Nodes |-> "pending"] /\ output' = [n \in Nodes |-> None]
      /\ wf' = wf
  BY DEF RetryFromFailedStep
<1>2. PICK n \in Nodes : steps[n] \in {"failed", "cancelled"} /\ source' = [from |-> n, output |-> output]
  BY DEF RetryFromFailedStep
<1>3. ToCopy = {} BY <1>2 DEF ToCopy
<1>4. source' # None /\ source'.from = n /\ source'.output = output
  <2>1. output \in [Nodes -> Routes \union {NoRoute, None}] BY DEF EngineInv, TypeOK
  <2>2. source' \in Source BY <1>2, <2>1 DEF Source
  <2> QED BY <1>2, <2>2, EngineAssumption
<1>5. AllExecuted = HasRun
      /\ AllRoutes = [m \in Nodes |-> IF output[m] = None THEN NoRoute ELSE output[m]]
  BY <1>3 DEF AllExecuted, AllRoutes, HasRun
<1>6. ToCopy' = {m \in Nodes : m < n /\ output[m] # None} BY <1>1, <1>4 DEF ToCopy
<1>7. \A m \in Nodes : output[m] # None <=> m \in HasRun BY DEF EngineInv, Copying
<1>8. AllExecuted' = {m \in AllExecuted : m < n}
  <2>1. AllExecuted' = ToCopy' BY <1>1 DEF AllExecuted
  <2>2. HasRun \subseteq Nodes BY DEF HasRun
  <2> QED BY <1>5, <1>6, <1>7, <2>1, <2>2
<1>9. AllRoutes' = [m \in Nodes |-> IF m < n THEN AllRoutes[m] ELSE NoRoute]
  <2>1. AllRoutes' = [m \in Nodes |-> IF m \in ToCopy' THEN output[m] ELSE NoRoute]
    BY <1>1, <1>4 DEF AllRoutes
  <2>2. ASSUME NEW m \in Nodes
        PROVE  (IF m \in ToCopy' THEN output[m] ELSE NoRoute)
                   = IF m < n THEN AllRoutes[m] ELSE NoRoute
    BY <1>5, <1>6
  <2> QED BY <2>1, <2>2
<1>10. First' = {n} BY <1>4 DEF First
<1>11. AllEnded # "no" /\ AllEnded' = "no" BY <1>1 DEF AllEnded, Ended
<1> QED BY <1>1, <1>8, <1>9, <1>10, <1>11, Restarts

LEMMA EngineImplements ==
    ASSUME EngineInv, EngineInv', EngineStep \/ UNCHANGED vars
    PROVE  Abstract!Next \/ UNCHANGED Abstract!vars
<1>1. CASE UNCHANGED vars
  <2>1. UNCHANGED <<wf, First, AllExecuted, AllRoutes, AllEnded>>
    BY <1>1 DEF vars, First, AllExecuted, AllRoutes, AllEnded, ToCopy
  <2> QED BY <2>1, Stutters
<1>2. CASE StartFresh \/ StartRetry \/ StartRestored BY <1>2, StartsStutter
<1>3. CASE ControlExpires \/ ControlCancels \/ NodeFails \/ CredentialFails \/ RunSucceeds
  BY <1>3, EndsImplement
<1>4. CASE \/ NextNode \/ NodeRetries \/ FollowEdge \/ SaveState \/ StopPaused
           \/ phase = "exec" /\ Wait
  BY <1>4, LoopStutters
<1>5. CASE NodeSucceeds \/ NodeFallsBack BY <1>5, NodesImplement
<1>6. CASE Decide \/ DecideInner \/ ResumePaused \/ RequestCancel BY <1>6, RequestsImplement
<1>7. CASE RetryFromFailedStep BY <1>7, RetryImplements
<1> QED BY <1>1, <1>2, <1>3, <1>4, <1>5, <1>6, <1>7 DEF EngineStep, Next, Work, NodeWaits

LEMMA AbstractStarts ==
    ASSUME Init
    PROVE  Abstract!Init
<1>1. /\ wf \in Workflows /\ status = "queued" /\ source = None
      /\ steps = [n \in Nodes |-> "pending"] /\ output = [n \in Nodes |-> None]
  BY DEF Init
<1>2. ToCopy = {} BY <1>1 DEF ToCopy
<1>3. AllExecuted = {} BY <1>1, <1>2 DEF AllExecuted
<1>4. AllRoutes = [n \in Nodes |-> NoRoute] BY <1>1, <1>2 DEF AllRoutes
<1>5. AllEnded = "no" BY <1>1 DEF AllEnded, Ended
<1>6. First = Abstract!Roots(wf) BY <1>1 DEF First, Abstract!Roots, Range
<1> QED BY <1>1, <1>3, <1>4, <1>5, <1>6 DEF Abstract!Init, First, AllExecuted, AllRoutes, AllEnded

-----------------------------------------------------------------------------
(* The frames                                                              *)

LEMMA LibraryBodies ==
    ASSUME library \in Libraries, NEW name \in DOMAIN library
    PROVE  /\ name \in Names /\ library[name] \in Chart
           /\ Range(library[name].roots) \subseteq Nodes
<1>1. name \in Names /\ library[name] \in Chart BY LibrariesAssumption
<1>2. library[name].roots \in Seq(Nodes) BY <1>1 DEF Chart
<1> QED BY <1>1, <1>2, QueueRange

LEMMA FrameKept ==
    ASSUME UNCHANGED library, NEW f, FrameOK(f)
    PROVE  FrameOK(f)'
BY DEF FrameOK, FrameFollowed, Body, Busy

\* FramesInv of the next state, for what the frames are in it.
LEMMA FramesNext ==
    ASSUME FramesInv, NEW next \in Seq(Frame), frames' = next, UNCHANGED library,
           Len(next) <= MaxDepth,
           \A i \in 1..Len(next) : FrameOK(next[i]) /\ (i < Len(next) => next[i].node # 0),
           outcome' \in {"none", "returned", "raised", "asked"}, asker' \in Nodes \union {0}
    PROVE  FramesInv'
<1>1. \A i \in DOMAIN next : FrameOK(next[i])' BY FrameKept
<1>2. DOMAIN next = 1..Len(next) OBVIOUS
<1>3. (\A i \in DOMAIN frames : FrameOK(frames[i]))'
  BY <1>1 DEF FrameOK, FrameFollowed, Body, Busy
<1>4. library' \in Libraries BY DEF FramesInv
<1>5. \A i \in DOMAIN frames' : i < Len(frames') => frames'[i].node # 0 BY <1>2
<1> QED BY <1>3, <1>4, <1>5 DEF FramesInv

\* A frame that has executed nothing.
LEMMA FrameBegins ==
    ASSUME library \in Libraries, NEW name \in DOMAIN library, NEW item \in Nat, NEW of \in Nat,
           NEW f \in NewFrame(name, item, of)
    PROVE  FrameOK(f)
<1> DEFINE R == Range(library[name].roots)
<1>1. name \in Names /\ library[name] \in Chart /\ R \subseteq Nodes BY LibraryBodies
<1>2. IsFiniteSet(R) BY <1>1, HasRunFinite
<1>3. PICK order \in SetToSeqs(R) :
          f = [name |-> name, item |-> item, of |-> of, node |-> 0, fan |-> {},
               queue |-> order, enqueued |-> Range(order), executed |-> {},
               tokens |-> [n \in Nodes |-> 0], route |-> [n \in Nodes |-> NoRoute]]
  BY DEF NewFrame
<1> HIDE DEF R
<1>4. order \in Seq(R) /\ Distinct(order) /\ Range(order) = R
  <2>1. /\ order \in [1..Cardinality(R) -> R]
        /\ \A i, j \in 1..Cardinality(R) : i # j => order[i] # order[j]
    BY <1>3 DEF SetToSeqs
  <2> QED BY <1>2, <2>1, OrderOfAll
<1>5. order \in Seq(Nodes) BY <1>1, <1>4
<1>6. /\ f.name = name /\ f.node = 0 /\ f.fan = {} /\ f.queue = order /\ f.enqueued = R
      /\ f.executed = {} /\ f.tokens = [n \in Nodes |-> 0]
  BY <1>3, <1>4
<1>7. f \in Frame BY <1>1, <1>3, <1>4, <1>5 DEF Frame
<1>8. Sent(Body(f), f.executed, f.route) = {} /\ Body(f) = library[name] BY <1>6 DEF Sent, Body
<1>9. FrameFollowed(f) = {} /\ Busy(f) = {} BY <1>6, <1>8 DEF FrameFollowed, Busy
<1>10. \A n : Into(Body(f), {}, n) = {} BY DEF Into
<1>11. Counted(Body(f), FrameFollowed(f), f.tokens)
  <2>1. Body(f).joins \subseteq Nodes BY <1>1, <1>8 DEF Chart
  <2>2. Cardinality({}) = 0 BY FS_EmptySet
  <2> QED BY <1>6, <1>9, <1>10, <2>1, <2>2 DEF Counted
<1>12. \A n \in Nodes : Due(Body(f), Range(Body(f).roots), FrameFollowed(f), n)
                         <=> n \in f.executed \union f.enqueued \union Busy(f)
  BY <1>6, <1>8, <1>9, <1>10 DEF Due, R
<1>13. f.enqueued = Range(f.queue) /\ Distinct(f.queue) BY <1>4, <1>6
<1> QED BY <1>6, <1>7, <1>8, <1>9, <1>11, <1>12, <1>13 DEF FrameOK

\* The frame takes the next node of its queue.
LEMMA FrameTakes ==
    ASSUME NEW f, FrameOK(f), f.node = 0, f.fan = {}, f.queue # << >>,
           NEW g, g = [f EXCEPT !.queue = Tail(@), !.enqueued = @ \ {Head(f.queue)}],
           NEW h, h = [g EXCEPT !.node = Head(f.queue)]
    PROVE  Head(f.queue) \notin f.executed /\ FrameOK(h)
<1>1. PICK n : n = Head(f.queue) OBVIOUS
<1>2. /\ f \in Frame /\ f.queue \in Seq(Nodes) /\ Distinct(f.queue)
      /\ f.enqueued = Range(f.queue)
  BY DEF FrameOK, Frame
<1>3. /\ Tail(f.queue) \in Seq(Nodes) /\ Distinct(Tail(f.queue))
      /\ n \in Range(f.queue) /\ n \in Nodes
      /\ Range(Tail(f.queue)) = Range(f.queue) \ {n}
  BY <1>1, <1>2, TakeHead
<1>4. n # 0 BY <1>3, NodesAssumption
<1>5. /\ h.queue = Tail(f.queue) /\ h.enqueued = f.enqueued \ {n} /\ h.node = n
      /\ h.name = f.name /\ h.fan = f.fan /\ h.executed = f.executed /\ h.tokens = f.tokens
      /\ h.route = f.route /\ h \in Frame
  BY <1>1, <1>2, <1>3 DEF Frame
<1>6. Busy(f) = {} /\ Busy(h) = {n} BY <1>4, <1>5 DEF Busy
<1>7. Body(h) = Body(f) /\ FrameFollowed(h) = FrameFollowed(f) BY <1>5 DEF Body, FrameFollowed
<1>8. n \notin f.executed BY <1>2, <1>3 DEF FrameOK
<1>9. \A m \in Nodes : Due(Body(h), Range(Body(h).roots), FrameFollowed(h), m)
                        <=> m \in h.executed \union h.enqueued \union Busy(h)
  BY <1>2, <1>3, <1>5, <1>6, <1>7 DEF FrameOK
<1>10. h.enqueued = Range(h.queue) /\ Distinct(h.queue) BY <1>2, <1>3, <1>5
<1>11. Busy(h) \cap (h.executed \union h.enqueued) = {} BY <1>5, <1>6, <1>8
<1>12. h.enqueued \cap h.executed = {} BY <1>5 DEF FrameOK
<1>13. /\ h.fan \subseteq Sent(Body(h), h.executed, h.route)
       /\ Counted(Body(h), FrameFollowed(h), h.tokens) /\ h.fan = {} /\ h.name \in DOMAIN library
  BY <1>5, <1>7 DEF FrameOK
<1>14. FrameOK(h) BY <1>5, <1>9, <1>10, <1>11, <1>12, <1>13 DEF FrameOK
<1> QED BY <1>1, <1>8, <1>14

\* The node of the frame has an output with route r.
LEMMA FrameExecutes ==
    ASSUME library \in Libraries, NEW f, FrameOK(f), f.node # 0, NEW r \in Routes \union {NoRoute}
    PROVE  FrameOK(Executed(f, r))
<1>1. PICK g, n : g = Executed(f, r) /\ n = f.node OBVIOUS
<1>2. f \in Frame /\ n \in Nodes /\ f.fan = {} /\ Busy(f) = {n}
  BY <1>1 DEF FrameOK, Frame, Busy
<1>3. Selected(Body(f), n, r) \subseteq DOMAIN Body(f).edges /\ Body(f) \in Chart
  BY SelectedEdges, LibraryBodies DEF FrameOK, Body
<1>4. Selected(Body(f), n, r) \in SUBSET Nat BY <1>3 DEF Chart
<1>5. /\ g.queue = f.queue /\ g.enqueued = f.enqueued /\ g.executed = f.executed \union {n}
      /\ g.node = 0 /\ g.name = f.name /\ g.fan = Selected(Body(f), n, r)
      /\ g.tokens = f.tokens /\ g.route = [f.route EXCEPT ![n] = r] /\ g \in Frame
  BY <1>1, <1>2, <1>4 DEF Frame, Executed
<1>6. Body(g) = Body(f) /\ Busy(g) = {} BY <1>5 DEF Body, Busy
<1>7. n \notin f.executed /\ n \notin f.enqueued BY <1>2 DEF FrameOK
<1>8. f.route \in [Nodes -> Routes \union {NoRoute}] /\ f.executed \subseteq Nodes
  BY <1>2 DEF Frame
<1>9. g.route[n] = r /\ \A m \in f.executed : g.route[m] = f.route[m]
  BY <1>2, <1>5, <1>7, <1>8
<1>10. FrameFollowed(g) = FrameFollowed(f)
       /\ g.fan \subseteq Sent(Body(g), g.executed, g.route)
  <2>1. /\ Sent(Body(f), g.executed, g.route)
               = Sent(Body(f), f.executed, f.route) \union Selected(Body(f), n, g.route[n])
        /\ Sent(Body(f), g.executed, g.route) \ Selected(Body(f), n, g.route[n])
               = Sent(Body(f), f.executed, f.route)
    <3>1. PICK w, ran, rt, ran2, rt2 :
              /\ w = Body(f) /\ ran = f.executed /\ rt = f.route
              /\ ran2 = g.executed /\ rt2 = g.route
      OBVIOUS
    <3>2. n \notin ran /\ ran2 = ran \union {n} BY <1>5, <1>7, <3>1
    <3>3. \A m \in ran : rt2[m] = rt[m] BY <1>9, <3>1
    <3>4. /\ Sent(w, ran2, rt2) = Sent(w, ran, rt) \union Selected(w, n, rt2[n])
          /\ Sent(w, ran2, rt2) \ Selected(w, n, rt2[n]) = Sent(w, ran, rt)
      BY ONLY <3>2, <3>3, RunOne
    <3> QED BY <3>1, <3>4
  <2> QED BY <1>2, <1>5, <1>6, <1>9, <2>1 DEF FrameFollowed
<1>11. \A m \in Nodes : Due(Body(g), Range(Body(g).roots), FrameFollowed(g), m)
                         <=> m \in g.executed \union g.enqueued \union Busy(g)
  BY <1>2, <1>5, <1>6, <1>10 DEF FrameOK
<1>12. /\ g.enqueued = Range(g.queue) /\ Distinct(g.queue) /\ g.enqueued \cap g.executed = {}
       /\ Counted(Body(g), FrameFollowed(g), g.tokens) /\ g.name \in DOMAIN library
  BY <1>5, <1>6, <1>7, <1>10 DEF FrameOK
<1>13. FrameOK(g) BY <1>5, <1>6, <1>10, <1>11, <1>12 DEF FrameOK
<1> QED BY <1>1, <1>13

\* What the frame is after an edge to node k has been followed.
FrameFollowTo(f, i, k, more, enter) ==
    [f EXCEPT !.fan = @ \ {i},
              !.tokens[k] = more,
              !.queue = IF enter THEN Append(@, k) ELSE @,
              !.enqueued = IF enter THEN @ \union {k} ELSE @]

LEMMA FrameFollows ==
    ASSUME library \in Libraries, NEW f, FrameOK(f), NEW i \in f.fan,
           NEW k, k = Body(f).edges[i].to,
           NEW more, more = f.tokens[k] + (IF k \in Body(f).joins THEN 1 ELSE 0),
           NEW enter \in BOOLEAN,
           enter <=> /\ (k \in Body(f).joins => more >= Body(f).need[k])
                     /\ k \notin f.executed \union f.enqueued,
           NEW g, g = FrameFollowTo(f, i, k, more, enter)
    PROVE  FrameOK(g)
<1> DEFINE w == Body(f)
           F == FrameFollowed(f)
           first == Range(Body(f).roots)
<1>1. /\ f \in Frame /\ f.node = 0 /\ Busy(f) = {} /\ w \in Chart
      /\ f.queue \in Seq(Nodes) /\ Distinct(f.queue) /\ f.enqueued = Range(f.queue)
      /\ f.tokens \in [Nodes -> Nat] /\ Counted(w, F, f.tokens)
  BY LibraryBodies DEF FrameOK, Frame, Busy, Body
<1>2. i \in Sent(w, f.executed, f.route) /\ i \in DOMAIN w.edges /\ i \notin F
      /\ F \in SUBSET (DOMAIN w.edges)
  BY SentEdges DEF FrameOK, FrameFollowed
<1>3. k \in Nodes
  <2>1. w.edges \in Seq(Edge) BY <1>1 DEF Chart
  <2>2. w.edges[i] \in Edge BY <1>2, <2>1
  <2> QED BY <2>2 DEF Edge
<1>4. more \in Nat BY <1>1, <1>3
<1> HIDE DEF w, F, first
<1>5. PICK tokens : tokens = f.tokens OBVIOUS
<1>6. /\ Counted(w, F \union {i}, [tokens EXCEPT ![k] = more])
      /\ \A n \in Nodes : Due(w, first, F \union {i}, n) <=>
             \/ Due(w, first, F, n)
             \/ n = k /\ (n \in w.joins => more >= w.need[n])
  <2>1. tokens \in [Nodes -> Nat] /\ Counted(w, F, tokens) BY <1>1, <1>5
  <2>2. /\ k = w.edges[i].to
        /\ more = tokens[w.edges[i].to] + (IF w.edges[i].to \in w.joins THEN 1 ELSE 0)
    BY <1>5 DEF w
  <2>3. /\ Counted(w, F \union {i}, [tokens EXCEPT ![w.edges[i].to] = more])
        /\ \A n \in Nodes : Due(w, first, F \union {i}, n) <=>
               \/ Due(w, first, F, n)
               \/ n = w.edges[i].to /\ (n \in w.joins => more >= w.need[n])
    <3>1. w \in Chart BY <1>1
    <3> QED BY <1>2, <1>4, <2>1, <2>2, <3>1, FollowOne
  <2> QED BY <2>2, <2>3
<1>7. /\ g.name = f.name /\ g.node = 0 /\ g.executed = f.executed /\ g.route = f.route
      /\ g.fan = f.fan \ {i}
      /\ g.queue = IF enter THEN Append(f.queue, k) ELSE f.queue
      /\ g.enqueued = IF enter THEN f.enqueued \union {k} ELSE f.enqueued
      /\ g.tokens = [tokens EXCEPT ![k] = more]
  BY <1>1, <1>5 DEF Frame, FrameFollowTo
<1>8. enter => /\ Append(f.queue, k) \in Seq(Nodes) /\ Distinct(Append(f.queue, k))
               /\ Range(Append(f.queue, k)) = f.enqueued \union {k}
  BY <1>1, <1>3, AddLast
<1>9. g.queue \in Seq(Nodes) /\ Distinct(g.queue) /\ g.enqueued = Range(g.queue)
  BY <1>1, <1>7, <1>8
<1>10. g \in Frame
  <2>1. g = [name |-> f.name, item |-> f.item, of |-> f.of, node |-> f.node, fan |-> g.fan,
             queue |-> g.queue, enqueued |-> g.enqueued, executed |-> f.executed,
             tokens |-> g.tokens, route |-> f.route]
    BY <1>1 DEF Frame, FrameFollowTo
  <2>2. g.tokens \in [Nodes -> Nat]
    <3>1. g.tokens = [f.tokens EXCEPT ![k] = more] BY <1>5, <1>7
    <3>2. f.tokens \in [Nodes -> Nat] BY <1>1
    <3> QED BY ONLY <1>4, <3>1, <3>2
  <2>3. g.fan \in SUBSET Nat BY <1>1, <1>7 DEF Frame
  <2>4. Range(g.queue) \subseteq Nodes BY <1>9, QueueRange
  <2>5. g.enqueued \in SUBSET Nodes BY <1>9, <2>4
  <2>6. /\ f.name \in Names /\ f.item \in Nat /\ f.of \in Nat /\ f.node \in Nodes \union {0}
        /\ f.executed \in SUBSET Nodes /\ f.route \in [Nodes -> Routes \union {NoRoute}]
    BY <1>1 DEF Frame
  <2>7. g.queue \in Seq(Nodes) BY <1>9
  <2> QED BY ONLY <2>1, <2>2, <2>3, <2>5, <2>6, <2>7 DEF Frame
<1>11. Body(g) = w /\ Busy(g) = {} BY <1>7 DEF Body, Busy, w
<1>12. FrameFollowed(g) = F \union {i}
  <2>1. FrameFollowed(g) = Sent(w, f.executed, f.route) \ (f.fan \ {i})
    BY <1>7, <1>11 DEF FrameFollowed
  <2>2. F = Sent(w, f.executed, f.route) \ f.fan BY DEF F, w, FrameFollowed
  <2> QED BY <1>2, <2>1, <2>2
<1>13. \A n \in Nodes : Due(w, first, F, n) <=> n \in f.executed \union f.enqueued
  BY <1>1 DEF FrameOK, w, F, first
<1>14. \A n \in Nodes : Due(w, first, F \union {i}, n) <=> n \in g.executed \union g.enqueued
  <2>1. enter <=> /\ (k \in w.joins => more >= w.need[k])
                  /\ k \notin f.executed \union f.enqueued
    BY DEF w
  <2> QED BY <1>3, <1>6, <1>7, <1>13, <2>1
<1>15. g.enqueued \cap g.executed = {} BY <1>7 DEF FrameOK
<1>16. /\ g.fan \subseteq Sent(w, g.executed, g.route) /\ g.name \in DOMAIN library
  BY <1>7 DEF FrameOK, w
<1>17. first = Range(Body(g).roots) BY <1>11 DEF first, w
<1>18. \A n \in Nodes : Due(Body(g), Range(Body(g).roots), FrameFollowed(g), n)
                         <=> n \in g.executed \union g.enqueued \union Busy(g)
  <2>1. \A n : Due(Body(g), Range(Body(g).roots), FrameFollowed(g), n)
                   <=> Due(w, first, F \union {i}, n)
    BY <1>11, <1>12, <1>17
  <2> QED BY <1>11, <1>14, <2>1
<1>19. Counted(Body(g), FrameFollowed(g), g.tokens) BY <1>6, <1>7, <1>11, <1>12
<1> QED BY <1>7, <1>9, <1>10, <1>11, <1>15, <1>16, <1>18, <1>19 DEF FrameOK

\* The frames below the innermost one: each executes the node that made the
\* next call.
Calling(stack) ==
    /\ stack \in Seq(Frame) /\ Len(stack) <= MaxDepth
    /\ \A i \in 1..Len(stack) : FrameOK(stack[i]) /\ stack[i].node # 0

LEMMA TopFrame ==
    ASSUME FramesInv, frames # << >>
    PROVE  /\ FrameOK(Top) /\ Len(frames) \in Nat \ {0}
           /\ Calling(Front(frames))
           /\ Top.node # 0 => Calling(frames)
<1>1. frames \in Seq(Frame) /\ Len(frames) \in Nat \ {0} /\ DOMAIN frames = 1..Len(frames)
  BY EmptySeq DEF FramesInv
<1>2. FrameOK(Top) BY <1>1 DEF FramesInv, Top
<1>3. /\ Front(frames) \in Seq(Frame) /\ Len(Front(frames)) = Len(frames) - 1
      /\ \A i \in 1..(Len(frames) - 1) : Front(frames)[i] = frames[i]
  <2>1. 1 \in 1..(Len(frames) + 1) /\ Len(frames) - 1 \in 0..Len(frames) BY <1>1
  <2> QED BY <1>1, <2>1, SubSeqProperties DEF Front
<1>4. \A i \in 1..(Len(frames) - 1) : FrameOK(frames[i]) /\ frames[i].node # 0
  BY <1>1 DEF FramesInv
<1>5. MaxDepth \in Nat /\ Len(frames) <= MaxDepth BY LibrariesAssumption DEF FramesInv
<1>6. Calling(Front(frames)) BY <1>1, <1>3, <1>4, <1>5 DEF Calling
<1>7. ASSUME Top.node # 0 PROVE Calling(frames)
  <2>1. \A i \in 1..Len(frames) : i \in 1..(Len(frames) - 1) \/ i = Len(frames)
    <3>1. PICK k \in Nat : k = Len(frames) BY <1>1
    <3>2. \A i \in 1..k : i \in 1..(k - 1) \/ i = k OBVIOUS
    <3> QED BY <3>1, <3>2
  <2> QED BY <1>1, <1>2, <1>4, <1>5, <1>7, <2>1 DEF Calling, Top
<1> QED BY <1>1, <1>2, <1>6, <1>7

LEMMA TopSet ==
    ASSUME FramesInv, NEW g, FrameOK(g), NEW stack, Calling(stack) \/ stack = frames,
           stack # << >>, frames' = [stack EXCEPT ![Len(stack)] = g],
           UNCHANGED <<library, outcome, asker>>
    PROVE  FramesInv'
<1>1. /\ stack \in Seq(Frame) /\ Len(stack) \in Nat \ {0} /\ Len(stack) <= MaxDepth
      /\ \A i \in 1..(Len(stack) - 1) : FrameOK(stack[i]) /\ stack[i].node # 0
  BY EmptySeq DEF FramesInv, Calling
<1>2. g \in Frame BY DEF FrameOK
<1>3. PICK next : next = frames' OBVIOUS
<1>4. /\ next \in Seq(Frame) /\ Len(next) = Len(stack)
      /\ \A i \in 1..Len(stack) : next[i] = IF i = Len(stack) THEN g ELSE stack[i]
  BY <1>1, <1>2, <1>3
<1>5. \A i \in 1..Len(stack) : i = Len(stack) \/ i \in 1..(Len(stack) - 1) BY <1>1
<1>6. \A i \in 1..Len(next) : FrameOK(next[i]) /\ (i < Len(next) => next[i].node # 0)
  BY <1>1, <1>4, <1>5
<1>7. outcome' \in {"none", "returned", "raised", "asked"} /\ asker' \in Nodes \union {0}
  BY DEF FramesInv
<1> QED BY <1>1, <1>3, <1>4, <1>6, <1>7, FramesNext

LEMMA NoFrames ==
    ASSUME FramesInv, frames' = << >>, UNCHANGED library,
           outcome' \in {"none", "returned", "raised", "asked"}, asker' \in Nodes \union {0}
    PROVE  FramesInv'
<1>1. << >> \in Seq(Frame) /\ Len(<< >>) = 0 /\ DOMAIN << >> = {} BY EmptySeq
<1> QED BY <1>1, LibrariesAssumption DEF FramesInv

LEMMA StackUnwound ==
    ASSUME FramesInv, NEW how \in {"raised", "asked"}, NEW n \in Nodes \union {0}, Unwind(how, n)
    PROVE  FramesInv' /\ UNCHANGED vars
BY NoFrames DEF Unwind

LEMMA StackPushed ==
    ASSUME FramesInv, NEW stack, Calling(stack), NEW name, NEW item \in Nat, NEW of \in Nat,
           Push(stack, name, item, of)
    PROVE  FramesInv' /\ UNCHANGED vars
<1>1. CASE name \in DOMAIN library \cap ValidNames /\ Len(stack) < MaxDepth
  <2>1. PICK f \in NewFrame(name, item, of) : frames' = Append(stack, f)
    BY <1>1 DEF Push
  <2>2. UNCHANGED <<vars, library, outcome, asker>> BY <1>1 DEF Push
  <2>3. FrameOK(f) BY <1>1, <2>1, FrameBegins DEF FramesInv
  <2>4. /\ stack \in Seq(Frame) /\ Len(stack) \in Nat
        /\ \A i \in 1..Len(stack) : FrameOK(stack[i]) /\ stack[i].node # 0
    BY DEF Calling
  <2>5. f \in Frame BY <2>3 DEF FrameOK
  <2>6. PICK next : next = frames' OBVIOUS
  <2>7. /\ next \in Seq(Frame) /\ Len(next) = Len(stack) + 1
        /\ \A i \in 1..(Len(stack) + 1) : next[i] = IF i = Len(stack) + 1 THEN f ELSE stack[i]
    BY <2>1, <2>4, <2>5, <2>6
  <2>8. \A i \in 1..(Len(stack) + 1) : i = Len(stack) + 1 \/ i \in 1..Len(stack) BY <2>4
  <2>9. \A i \in 1..Len(next) : FrameOK(next[i]) /\ (i < Len(next) => next[i].node # 0)
    BY <2>3, <2>4, <2>7, <2>8
  <2>10. Len(next) <= MaxDepth BY <1>1, <2>4, <2>7, LibrariesAssumption
  <2>11. outcome' \in {"none", "returned", "raised", "asked"} /\ asker' \in Nodes \union {0}
    BY <2>2 DEF FramesInv
  <2> QED BY <2>2, <2>6, <2>7, <2>9, <2>10, <2>11, FramesNext
<1>2. CASE ~(name \in DOMAIN library \cap ValidNames /\ Len(stack) < MaxDepth)
  <2>1. Unwind("raised", 0) BY <1>2 DEF Push
  <2> QED BY <2>1, StackUnwound
<1> QED BY <1>1, <1>2

LEMMA StackReturned ==
    ASSUME FramesInv, NEW stack, Calling(stack), Return(stack)
    PROVE  FramesInv' /\ UNCHANGED vars
<1>1. CASE stack = << >>
  <2>1. /\ frames' = << >> /\ outcome' = "returned" /\ UNCHANGED <<vars, library, asker>>
    BY <1>1 DEF Return
  <2>2. asker' \in Nodes \union {0} BY <2>1 DEF FramesInv
  <2> QED BY <2>1, <2>2, NoFrames
<1>2. CASE stack # << >>
  <2>1. PICK f : f = stack[Len(stack)] OBVIOUS
  <2>2. Len(stack) \in Nat \ {0} /\ stack \in Seq(Frame) BY <1>2, EmptySeq DEF Calling
  <2>3. FrameOK(f) /\ f.node # 0 BY <2>1, <2>2 DEF Calling
  <2>4. PICK g : g = Executed(f, NoRoute) OBVIOUS
  <2>5. FrameOK(g) BY <2>3, <2>4, FrameExecutes DEF FramesInv
  <2>6. frames' = [stack EXCEPT ![Len(stack)] = g] /\ UNCHANGED <<vars, library, outcome, asker>>
    BY <1>2, <2>1, <2>2, <2>4 DEF Return
  <2> QED BY <1>2, <2>5, <2>6, TopSet
<1> QED BY <1>1, <1>2

LEMMA FrameCalls ==
    ASSUME FramesInv, Calling(frames), NEW w \in Chart, NEW n \in Nodes, Call(w, n)
    PROVE  FramesInv' /\ UNCHANGED vars
<1>1. PICK k \in w.times[n] : IF k = 0 THEN Return(frames) ELSE Push(frames, w.calls[n], 1, k)
  BY DEF Call
<1>2. k \in Nat BY <1>1 DEF Chart
<1>3. CASE k = 0 BY <1>1, <1>3, StackReturned
<1>4. CASE k # 0 BY <1>1, <1>2, <1>4, StackPushed
<1> QED BY <1>3, <1>4

LEMMA InlineKeeps ==
    ASSUME EngineInv, FramesInv, Inline
    PROVE  FramesInv' /\ UNCHANGED vars
<1>1. library \in Libraries BY DEF FramesInv
<1>2. CASE RunCalls
  <2>1. phase = "exec" /\ frames = << >> /\ Call(wf, current)
    BY <1>2 DEF RunCalls, CallBegins, AtCall
  <2>2. wf \in Chart /\ current \in Nodes BY <2>1 DEF EngineInv, TypeOK, Working
  <2>3. Calling(frames)
    <3>1. << >> \in Seq(Frame) /\ Len(<< >>) = 0 BY EmptySeq
    <3> QED BY <2>1, <3>1, LibrariesAssumption DEF Calling
  <2> QED BY <2>1, <2>2, <2>3, FrameCalls
<1>3. CASE CallFails BY <1>3, StackUnwound DEF CallFails
<1>4. ASSUME InCall
      PROVE  /\ frames # << >> /\ FrameOK(Top) /\ Body(Top) \in Chart /\ Top \in Frame
             /\ Calling(Front(frames)) /\ (Top.node # 0 => Calling(frames) /\ Top.node \in Nodes)
  <2>1. frames # << >> BY <1>4 DEF InCall
  <2>2. FrameOK(Top) /\ Calling(Front(frames)) /\ (Top.node # 0 => Calling(frames))
    BY <2>1, TopFrame
  <2>3. Top \in Frame /\ Body(Top) \in Chart BY <1>1, <2>2, LibraryBodies DEF FrameOK, Body
  <2>4. Top.node \in Nodes \union {0} BY <2>3 DEF Frame
  <2> QED BY <2>1, <2>2, <2>3, <2>4
<1>5. CASE InlineFollows
  <2>1. InCall /\ UNCHANGED <<vars, library, outcome, asker>> BY <1>5 DEF InlineFollows
  <2>2. PICK f : f = Top OBVIOUS
  <2>3. PICK i \in f.fan :
            LET n      == Body(f).edges[i].to
                tokens == f.tokens[n] + (IF n \in Body(f).joins THEN 1 ELSE 0)
                enter  == /\ InlineReady(Body(f), n, tokens)
                          /\ n \notin f.executed \union f.enqueued
            IN  SetTop([f EXCEPT
                     !.fan = @ \ {i},
                     !.tokens[n] = tokens,
                     !.queue = IF enter THEN Append(@, n) ELSE @,
                     !.enqueued = IF enter THEN @ \union {n} ELSE @])
    BY <1>5, <2>2 DEF InlineFollows
  <2>4. PICK k, more : /\ k = Body(f).edges[i].to
                       /\ more = f.tokens[k] + (IF k \in Body(f).joins THEN 1 ELSE 0)
    OBVIOUS
  <2>5. PICK enter \in BOOLEAN :
            enter <=> /\ (k \in Body(f).joins => more >= Body(f).need[k])
                      /\ k \notin f.executed \union f.enqueued
    OBVIOUS
  <2>6. PICK g : g = FrameFollowTo(f, i, k, more, enter) OBVIOUS
  <2>7. frames' = [frames EXCEPT ![Len(frames)] = g]
    BY <2>3, <2>4, <2>5, <2>6 DEF SetTop, FrameFollowTo, InlineReady
  <2>8. FrameOK(g) BY <1>1, <1>4, <2>1, <2>2, <2>4, <2>5, <2>6, FrameFollows
  <2> QED BY <1>4, <2>1, <2>7, <2>8, TopSet
<1>6. CASE InlineTakes
  <2>1. /\ InCall /\ Top.node = 0 /\ Top.fan = {} /\ Top.queue # << >>
        /\ UNCHANGED <<vars, library, outcome, asker>>
    BY <1>6 DEF InlineTakes, AtHead
  <2>2. PICK f, g, h : /\ f = Top
                       /\ g = [f EXCEPT !.queue = Tail(@), !.enqueued = @ \ {Head(f.queue)}]
                       /\ h = [g EXCEPT !.node = Head(f.queue)]
    OBVIOUS
  <2>3. Head(f.queue) \notin f.executed /\ FrameOK(h) BY <1>4, <2>1, <2>2, FrameTakes
  <2>4. SetTop(h) BY <1>6, <2>2, <2>3 DEF InlineTakes
  <2> QED BY <1>4, <2>1, <2>3, <2>4, TopSet DEF SetTop
<1>7. CASE InlineSucceeds
  <2>1. InCall /\ Top.node # 0 /\ UNCHANGED <<vars, library, outcome, asker>>
    BY <1>7 DEF InlineSucceeds, Inner
  <2>2. PICK r \in Body(Top).routes[Top.node] : SetTop(Executed(Top, r))
    BY <1>7 DEF InlineSucceeds
  <2>3. r \in Routes \union {NoRoute} BY <1>4, <2>1, <2>2 DEF Chart
  <2>4. PICK g : g = Executed(Top, r) OBVIOUS
  <2>5. FrameOK(g) BY <1>1, <1>4, <2>1, <2>3, <2>4, FrameExecutes
  <2> QED BY <1>4, <2>1, <2>2, <2>4, <2>5, TopSet DEF SetTop
<1>8. CASE InlineFails BY <1>8, StackUnwound DEF InlineFails
<1>9. CASE InlineCalls
  <2>1. InCall /\ Top.node # 0 /\ Call(Body(Top), Top.node) BY <1>9 DEF InlineCalls, Inner
  <2> QED BY <1>4, <2>1, FrameCalls
<1>10. CASE InlineAsks
  <2>1. InCall /\ Top.node # 0 /\ Unwind("asked", Top.node) BY <1>10 DEF InlineAsks, Inner
  <2> QED BY <1>4, <2>1, StackUnwound
<1>11. CASE InlineReturns
  <2>1. InCall /\ IF Top.item < Top.of THEN Push(Front(frames), Top.name, Top.item + 1, Top.of)
                                      ELSE Return(Front(frames))
    BY <1>11 DEF InlineReturns, AtHead
  <2>2. Top.item + 1 \in Nat /\ Top.of \in Nat BY <1>4, <2>1 DEF Frame
  <2>3. CASE Top.item < Top.of BY <1>4, <2>1, <2>2, <2>3, StackPushed
  <2>4. CASE ~(Top.item < Top.of) BY <1>4, <2>1, <2>4, StackReturned
  <2> QED BY <2>3, <2>4
<1> QED BY <1>2, <1>3, <1>5, <1>6, <1>7, <1>8, <1>9, <1>10, <1>11 DEF Inline

LEMMA ForgetKeeps ==
    ASSUME FramesInv, Forget
    PROVE  FramesInv'
<1>1. /\ UNCHANGED <<library, frames>>
      /\ outcome' \in {outcome, "none"} /\ asker' \in {asker, 0}
  BY DEF Forget
<1> QED BY <1>1 DEF FramesInv, FrameOK, FrameFollowed, Body, Busy

-----------------------------------------------------------------------------
(* The system                                                              *)

SubInv == EngineInv /\ FramesInv

LEMMA SubInvStarts == SubInit => SubInv
<1> SUFFICES ASSUME SubInit PROVE SubInv OBVIOUS
<1>1. /\ Init /\ library \in Libraries /\ frames = << >> /\ outcome = "none" /\ asker = 0
  BY DEF SubInit
<1>2. << >> \in Seq(Frame) /\ Len(<< >>) = 0 /\ DOMAIN << >> = {} BY EmptySeq
<1>3. FramesInv BY <1>1, <1>2, LibrariesAssumption DEF FramesInv
<1> QED BY <1>1, <1>3, EngineInvStarts DEF SubInv

\* Every step is one of the engine of the run or leaves its variables alone.
LEMMA SubSteps ==
    ASSUME SubInv, [SubNext]_allVars
    PROVE  (EngineStep \/ UNCHANGED vars) /\ FramesInv'
<1>1. CASE UNCHANGED allVars
  BY <1>1 DEF allVars, subVars, SubInv, FramesInv, FrameOK, FrameFollowed, Body, Busy
<1>2. CASE Inline BY <1>2, InlineKeeps DEF SubInv
<1>3. CASE ~AtCall /\ Work /\ Forget BY <1>3, ForgetKeeps DEF SubInv, EngineStep, Next
<1>4. CASE CallBegins /\ CredentialFails /\ Forget
  BY <1>4, ForgetKeeps DEF SubInv, EngineStep, Next, Work
<1>5. CASE AtCall /\ CallEnds /\ Forget
  BY <1>5, ForgetKeeps DEF SubInv, AtCall, CallEnds, EngineStep, Next, Work
<1>6. CASE SubDecide BY <1>6, ForgetKeeps DEF SubInv, SubDecide, EngineStep, Next
<1>7. CASE (ResumePaused \/ RequestCancel \/ RetryFromFailedStep) /\ Forget
  BY <1>7, ForgetKeeps DEF SubInv, EngineStep, Next
<1> QED BY <1>1, <1>2, <1>3, <1>4, <1>5, <1>6, <1>7 DEF SubNext, SubWork

LEMMA SubInvKept == SubInv /\ [SubNext]_allVars => SubInv'
<1> SUFFICES ASSUME SubInv, [SubNext]_allVars PROVE SubInv' OBVIOUS
<1>1. (EngineStep \/ UNCHANGED vars) /\ FramesInv' BY SubSteps
<1>2. EngineInv' BY <1>1, EngineInvKept DEF SubInv
<1> QED BY <1>1, <1>2 DEF SubInv

LEMMA SubInvHolds == SubSpec => []SubInv
BY SubInvStarts, SubInvKept, PTL DEF SubSpec

-----------------------------------------------------------------------------
(* Theorems                                                                *)

\* Every variable of the engine of a run and of the frames keeps its type:
\* no attempt is counted beyond the second, no edge is followed that the
\* workflow does not have, and no stack is deeper than MaxDepth.
THEOREM TypeCorrect == SubSpec => []SubTypeOK
<1>1. SubInv => SubTypeOK
  BY DEF SubInv, EngineInv, FramesInv, FrameOK, SubTypeOK
<1> QED BY <1>1, SubInvHolds, PTL

\* The set of queued nodes mirrors the queue, no node is queued twice or
\* queued again once it has been executed, in the worker's variables and in
\* the saved state.
THEOREM QueueIsCoherent == SubSpec => []QueueCoherent
<1>1. SubInv => QueueCoherent BY DEF SubInv, EngineInv
<1> QED BY <1>1, SubInvHolds, PTL

\* The results that a run hands on are those of the steps that succeeded or
\* were copied, each of them once.
THEOREM ResultsAreTheSteps == SubSpec => []ResultsMatchSteps
<1>1. SubInv => ResultsMatchSteps
  BY DEF SubInv, EngineInv, Working, Sound, Faithful, HasRun, ResultsMatchSteps
<1> QED BY <1>1, SubInvHolds, PTL

\* A join is executed only with the inputs that it needs, and its tokens and
\* its inputs are exactly the edges that executed nodes activated, whatever
\* approvals and retries were in between.
THEOREM JoinsAreComplete == SubSpec => []JoinsHaveTheirInputs
<1>1. SubInv => JoinsHaveTheirInputs
  <2> SUFFICES ASSUME SubInv, phase = "exec", current \in wf.joins, source = None,
                      current \notin Range(wf.roots)
               PROVE  /\ local.tokens[current] >= wf.need[current]
                      /\ local.tokens[current] = Cardinality(Abstract!ActiveInto(current))
                      /\ local.inputs[current] =
                            {wf.edges[i].from : i \in Abstract!ActiveInto(current)}
    BY DEF JoinsHaveTheirInputs
  <2>1. /\ EngineInv /\ fan = {} /\ current \in Nodes
        /\ Faithful(wf, First, HasRun, Followed, local, {current})
    BY DEF SubInv, EngineInv, Working, Sound
  <2>2. Direct BY <2>1, NothingToCopy DEF Begun
  <2>3. Followed = Sent(wf, AllExecuted, AllRoutes) BY <2>1, <2>2, RoutesOfRan DEF Followed
  <2>4. Abstract!ActiveInto(current) = Into(wf, Followed, current) BY <2>3, AbstractActivated
  <2>5. /\ local.tokens[current] = Cardinality(Into(wf, Followed, current))
        /\ local.inputs[current] = {wf.edges[i].from : i \in Into(wf, Followed, current)}
        /\ Due(wf, First, Followed, current)
    BY <2>1 DEF Faithful, Counted
  <2>6. current \notin First BY DEF First
  <2> QED BY <2>4, <2>5, <2>6 DEF Due
<1> QED BY <1>1, SubInvHolds, PTL

\* The engine of a run, with its queue, its saved state, its table of steps,
\* its crashes and its retried runs, executes what Activation says.
THEOREM Implements == SubSpec => ImplementsActivation
<1>1. SubInit => Abstract!Init BY AbstractStarts DEF SubInit
<1>2. SubInv /\ SubInv' /\ [SubNext]_allVars => [Abstract!Next]_(Abstract!vars)
  <2> SUFFICES ASSUME SubInv, SubInv', [SubNext]_allVars
               PROVE  Abstract!Next \/ UNCHANGED Abstract!vars
    OBVIOUS
  <2>1. EngineStep \/ UNCHANGED vars BY SubSteps
  <2> QED BY <2>1, EngineImplements DEF SubInv
<1> QED BY <1>1, <1>2, SubInvHolds, PTL DEF SubSpec, ImplementsActivation, Abstract!Spec

\* The inline engine, the second copy of the first one, executes what
\* Activation says too, at every depth, and returns when nothing is left.
THEOREM InlineImplements == SubSpec => []InlineAgrees
<1>1. ASSUME NEW f, NEW n
      PROVE  Inlined(f)!Activated(n)
                 <=> Due(Body(f), Range(Body(f).roots), Sent(Body(f), f.executed, f.route), n)
  <2>1. \A w, m, r : Inlined(f)!Selected(w, m, r) = Selected(w, m, r)
    BY DEF Inlined!Selected, Selected, Inlined!Out, Out, Inlined!Unconditional, Unconditional
  <2>2. Inlined(f)!ActiveInto(n) = Into(Body(f), Sent(Body(f), f.executed, f.route), n)
    BY <2>1 DEF Inlined!ActiveInto, Into, Sent
  <2>3. \A S : Inlined(f)!Cardinality(S) = Cardinality(S)
    BY DEF Inlined!Cardinality, Cardinality, Inlined!IsFiniteSet, IsFiniteSet
  <2>4. Inlined(f)!Activated(n) <=>
            \/ n \in Range(Body(f).roots)
            \/ n \notin Body(f).joins /\ Inlined(f)!ActiveInto(n) # {}
            \/ /\ n \in Body(f).joins /\ Inlined(f)!ActiveInto(n) # {}
               /\ Cardinality(Inlined(f)!ActiveInto(n)) >= Body(f).need[n]
    BY <2>3 DEF Inlined!Activated
  <2> QED BY <2>2, <2>4 DEF Due
<1>2. SubInv => InlineAgrees
  <2> SUFFICES ASSUME SubInv, NEW i \in DOMAIN frames, NEW f, f = frames[i]
               PROVE  /\ f.executed \union ({f.node} \ {0}) \subseteq
                             {n \in Nodes : Inlined(f)!Activated(n)}
                      /\ f.node = 0 /\ f.fan = {} /\ f.queue = << >> =>
                             \A n \in Nodes : Inlined(f)!Activated(n) => n \in f.executed
    BY DEF InlineAgrees
  <2>1. FrameOK(f) /\ f \in Frame /\ library \in Libraries BY DEF SubInv, FramesInv, FrameOK
  <2>2. Body(f) \in Chart BY <2>1, LibraryBodies DEF FrameOK, Body
  <2> DEFINE E == Sent(Body(f), f.executed, f.route)
             R == Range(Body(f).roots)
  <2>3. \A n : Inlined(f)!Activated(n) <=> Due(Body(f), R, E, n) BY <1>1
  <2>4. /\ E \in SUBSET (DOMAIN Body(f).edges) /\ FrameFollowed(f) \in SUBSET E
        /\ (f.fan = {} => FrameFollowed(f) = E)
    BY SentEdges DEF FrameFollowed
  <2>5. \A n \in Nodes : Due(Body(f), R, FrameFollowed(f), n)
                           <=> n \in f.executed \union f.enqueued \union ({f.node} \ {0})
    BY <2>1 DEF FrameOK, Busy
  <2> HIDE DEF E, R
  <2>6. \A n \in Nodes : Due(Body(f), R, FrameFollowed(f), n) => Due(Body(f), R, E, n)
    BY <2>2, <2>4, DueGrows
  <2>7. f.executed \union ({f.node} \ {0}) \subseteq {n \in Nodes : Inlined(f)!Activated(n)}
    <3>1. f.executed \union ({f.node} \ {0}) \subseteq Nodes BY <2>1 DEF Frame
    <3> QED BY <2>3, <2>5, <2>6, <3>1
  <2>8. ASSUME f.node = 0, f.fan = {}, f.queue = << >>
        PROVE  \A n \in Nodes : Inlined(f)!Activated(n) => n \in f.executed
    <3>1. f.enqueued = {} BY <2>1, <2>8 DEF FrameOK, Range
    <3> QED BY <2>3, <2>4, <2>5, <2>8, <3>1
  <2> QED BY <2>7, <2>8
<1> QED BY <1>2, SubInvHolds, PTL
=============================================================================
