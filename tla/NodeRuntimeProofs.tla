-------------------------- MODULE NodeRuntimeProofs -------------------------
(***************************************************************************)
(* Theorems about the storage of payloads and the execution of a node, for *)
(* any configuration of the node, any inputs, tools, models, guardrails    *)
(* and limits, any number of attempts, pauses and crashes, and payloads    *)
(* that nest as deeply as one likes.                                       *)
(*                                                                         *)
(* Payloads are recursive functions over levels of nesting: each is shown  *)
(* to exist level by level, and a payload has what its atoms have and what *)
(* goes from the items of a branch to the branch.  So what goes into a row *)
(* and files, and is read back from them, is the payload as JSON has it.   *)
(*                                                                         *)
(* The invariant of NodeRuntime says what each place of the worker may     *)
(* rely on: that the memory of the worker and the stored state are both    *)
(* what was said so far, that the calls of this attempt are ahead of the   *)
(* attempts by one for the tools that it has called and by none for the    *)
(* others, that an answer is guarded before it is written, and that what   *)
(* fails to be written was heard from a tool.                              *)
(***************************************************************************)
EXTENDS NodeRuntime, FiniteSetTheorems, WellFoundedInduction, SequenceTheorems, TLAPS

-----------------------------------------------------------------------------
(* Payloads                                                                *)

\* A leaf, a reference and a branch are told apart by their fields.
LEMMA AtomKinds ==
    ASSUME NEW a \in Atoms
    PROVE  /\ ~IsBranch(a)
           /\ IsLeaf(a) <=> ~IsReference(a)
           /\ IsLeaf(a) <=> a \in Leaves
           /\ IsLeaf(a) => a.data \in Data
           /\ IsReference(a) => a.file \in Nat
BY SMT DEF Atoms, Leaves, IsBranch, IsLeaf, IsReference

LEMMA BranchKind ==
    ASSUME NEW s
    PROVE  /\ IsBranch(Branch(s)) /\ ~IsReference(Branch(s)) /\ ~IsLeaf(Branch(s))
           /\ Branch(s).items = s
           /\ Branch(s) \notin Atoms
BY SMT DEF Branch, Atoms, Leaves, IsBranch, IsLeaf, IsReference

LEMMA BranchType ==
    ASSUME NEW S, NEW p \in [items : Seq(S)]
    PROVE  /\ IsBranch(p) /\ p = Branch(p.items) /\ p.items \in Seq(S)
BY SMT DEF Branch, IsBranch

LEMMA LeafKinds ==
    ASSUME NEW data \in Data, NEW size \in Nat
    PROVE  /\ Leaf(data, size) \in Leaves /\ Leaf(data, size) \in Atoms
           /\ IsLeaf(Leaf(data, size)) /\ Leaf(data, size).data = data
BY SMT DEF Leaf, Atoms, Leaves, IsLeaf

LEMMA ReferenceKinds ==
    ASSUME NEW k \in Nat
    PROVE  /\ Reference(k) \in Atoms /\ IsReference(Reference(k)) /\ ~IsLeaf(Reference(k))
           /\ Reference(k).file = k
BY SMT DEF Reference, Atoms, IsLeaf, IsReference

\* Induction over the natural numbers for sets, from the minimal element of a
\* set of initial segments.
LEMMA SetMin ==
    ASSUME NEW S, IsFiniteSet(S), NEW T \in SUBSET (SUBSET S), T # {}
    PROVE  \E x \in T : \A y \in T : y \subseteq x => y = x
<1> DEFINE R == StrictSubsetOrdering(S)
<1>1. IsWellFoundedOn(R, SUBSET S)
  BY FS_StrictSubsetOrderingWellFounded, FS_FiniteSubsetsOfFinite
<1>2. \A x, y \in SUBSET S : <<x, y>> \in R <=> x \subseteq y /\ x # y
  BY DEF StrictSubsetOrdering
<1> HIDE DEF R
<1>3. PICK x \in T : \A y \in T : <<y, x>> \notin R BY <1>1, WFMin
<1> QED BY <1>2, <1>3

LEMMA Induction ==
    ASSUME NEW S, 0 \in S, \A n \in Nat : n \in S => n + 1 \in S
    PROVE  Nat \subseteq S
<1> SUFFICES ASSUME NEW n \in Nat, n \notin S PROVE FALSE OBVIOUS
<1> DEFINE T == {0..m : m \in {m \in 0..n : m \notin S}}
           I == 0..n
<1>1. T \in SUBSET (SUBSET I) /\ T # {} OBVIOUS
<1>2. IsFiniteSet(I) BY FS_Interval
<1>3. \A m \in 0..n : m \notin S => 0..m \in T OBVIOUS
<1>4. \A t \in T : \E m \in 0..n : m \notin S /\ t = 0..m OBVIOUS
<1> HIDE DEF T, I
<1>5. PICK t \in T : \A u \in T : u \subseteq t => u = t BY <1>1, <1>2, SetMin
<1>6. PICK m \in 0..n : m \notin S /\ t = 0..m BY <1>4
<1>7. m # 0 BY <1>6
<1>8. m - 1 \in 0..n /\ m - 1 \in Nat /\ (m - 1) + 1 = m BY <1>7
<1>9. m - 1 \notin S BY <1>6, <1>8
<1>10. 0..(m - 1) = 0..m
  <2>1. 0..(m - 1) \in T BY <1>3, <1>8, <1>9
  <2>2. 0..(m - 1) \subseteq t BY <1>6
  <2> QED BY <2>1, <2>2, <1>5, <1>6
<1>11. m \in 0..m /\ m \notin 0..(m - 1) OBVIOUS
<1> QED BY <1>10, <1>11

\* Nested exists: every initial segment of it does.
LEMMA NestedDef ==
    \A d \in Nat : Nested[d] = IF d = 0 THEN Atoms
                               ELSE Atoms \union [items : Seq(Nested[d - 1])]
<1> DEFINE Level(f, d) == IF d = 0 THEN Atoms ELSE Atoms \union [items : Seq(f[d - 1])]
           Segment(n, f) == f = [d \in 0..n |-> Level(f, d)]
<1>1. \A n \in Nat : \E f : Segment(n, f)
  <2> DEFINE S == {n \in Nat : \E f : Segment(n, f)}
  <2>1. 0 \in S
    <3>1. Segment(0, [d \in 0..0 |-> Atoms]) OBVIOUS
    <3> QED BY <3>1
  <2>2. ASSUME NEW n \in Nat, n \in S PROVE n + 1 \in S
    <3>1. PICK f : Segment(n, f) BY <2>2
    <3> DEFINE g == [d \in 0..(n + 1) |-> Level(f, d)]
    <3>2. \A d \in 0..n : g[d] = f[d]
      <4>1. \A d \in 0..n : d \in 0..(n + 1) OBVIOUS
      <4> HIDE DEF Level
      <4> QED BY <4>1, <3>1
    <3>3. \A d \in 0..(n + 1) : d # 0 => g[d - 1] = f[d - 1]
      <4>1. \A d \in 0..(n + 1) : d # 0 => d - 1 \in 0..n OBVIOUS
      <4> HIDE DEF g
      <4> QED BY <4>1, <3>2
    <3>4. \A d \in 0..(n + 1) : Level(f, d) = Level(g, d) 
      <4> HIDE DEF g
      <4> QED BY <3>3
    <3>5. Segment(n + 1, g)
      <4> HIDE DEF Level
      <4> QED BY <3>4
    <3> HIDE DEF Segment
    <3> QED BY <3>5
  <2> HIDE DEF S
  <2>3. Nat \subseteq S BY <2>1, <2>2, Induction
  <2> QED BY <2>3 DEF S
<1>2. ASSUME NEW n \in Nat, NEW m \in Nat, NEW f, NEW g, Segment(n, f), Segment(m, g)
      PROVE  \A d \in Nat : d <= n /\ d <= m => f[d] = g[d]
  <2> DEFINE S == {d \in Nat : d <= n /\ d <= m => f[d] = g[d]}
  <2>1. 0 \in S BY <1>2
  <2>2. ASSUME NEW d \in Nat, d \in S PROVE d + 1 \in S
    <3> SUFFICES ASSUME d + 1 <= n, d + 1 <= m PROVE f[d + 1] = g[d + 1] OBVIOUS
    <3>1. f[d] = g[d] BY <2>2
    <3>2. f[d + 1] = Level(f, d + 1) /\ g[d + 1] = Level(g, d + 1)
      <4>1. d + 1 \in 0..n /\ d + 1 \in 0..m OBVIOUS
      <4> HIDE DEF Level
      <4> QED BY <4>1, <1>2
    <3>3. (d + 1) - 1 = d OBVIOUS
    <3> QED BY <3>1, <3>2, <3>3
  <2> HIDE DEF S
  <2>3. Nat \subseteq S BY <2>1, <2>2, Induction
  <2> QED BY <2>3 DEF S
<1> DEFINE G(n) == CHOOSE f : Segment(n, f)
           F    == [n \in Nat |-> G(n)[n]]
<1>3. \A n \in Nat : Segment(n, G(n))
  <2> HIDE DEF Segment
  <2> QED BY <1>1
<1>4. \A n \in Nat : F[n] = Level(F, n)
  <2> SUFFICES ASSUME NEW n \in Nat PROVE F[n] = Level(F, n) OBVIOUS
  <2>1. F[n] = Level(G(n), n)
    <3>1. Segment(n, G(n)) BY <1>3
    <3>2. F[n] = G(n)[n] OBVIOUS
    <3> HIDE DEF G, F, Level
    <3> QED BY <3>1, <3>2
  <2>2. CASE n = 0 BY <2>1, <2>2
  <2>3. CASE n # 0
    <3>1. n - 1 \in Nat BY <2>3
    <3>2. Segment(n, G(n)) /\ Segment(n - 1, G(n - 1)) BY <1>3, <3>1
    <3>3. G(n)[n - 1] = G(n - 1)[n - 1]
      <4> HIDE DEF G, Segment
      <4> QED BY <3>1, <3>2, <1>2
    <3>4. F[n - 1] = G(n - 1)[n - 1] BY <3>1
    <3> HIDE DEF F, G
    <3> QED BY <3>3, <3>4, <2>1, <2>3
  <2> QED BY <2>2, <2>3
<1>5. \E f : f = [d \in Nat |-> Level(f, d)]
  <2>1. F = [d \in Nat |-> F[d]] OBVIOUS
  <2> HIDE DEF F, Level
  <2> QED BY <1>4, <2>1
<1>6. Nested = [d \in Nat |-> Level(Nested, d)]
  BY <1>5 DEF Nested
<1> HIDE DEF Level
<1>7. \A d \in Nat : Nested[d] = Level(Nested, d) BY <1>6
<1> QED BY <1>7 DEF Level

\* The levels of nesting grow, and start at the atoms.
LEMMA NestedAtoms == \A d \in Nat : Atoms \subseteq Nested[d]
BY NestedDef

LEMMA NestedZero == Nested[0] = Atoms
BY NestedDef

LEMMA NestedNext == \A d \in Nat : Nested[d + 1] = Atoms \union [items : Seq(Nested[d])]
<1> SUFFICES ASSUME NEW d \in Nat PROVE Nested[d + 1] = Atoms \union [items : Seq(Nested[d])]
  OBVIOUS
<1>1. d + 1 \in Nat /\ d + 1 # 0 /\ (d + 1) - 1 = d OBVIOUS
<1> QED BY <1>1, NestedDef

\* A branch is deeper than its items, and what is nested is a branch or an atom.
LEMMA NestedBranch ==
    ASSUME NEW d \in Nat
    PROVE  /\ \A s \in Seq(Nested[d]) : Branch(s) \in Nested[d + 1]
           /\ \A p \in Nested[d + 1] :
                  IsBranch(p) => p.items \in Seq(Nested[d]) /\ p = Branch(p.items)
<1>1. ASSUME NEW s \in Seq(Nested[d]) PROVE Branch(s) \in Nested[d + 1]
  BY NestedNext DEF Branch
<1>2. ASSUME NEW p \in Nested[d + 1], IsBranch(p)
      PROVE  p.items \in Seq(Nested[d]) /\ p = Branch(p.items)
  <2>1. p \in [items : Seq(Nested[d])] BY <1>2, NestedNext, AtomKinds
  <2> QED BY <2>1, BranchType
<1> QED BY <1>1, <1>2

LEMMA NestedAtom == ASSUME NEW d \in Nat, NEW p \in Nested[d], ~IsBranch(p) PROVE p \in Atoms
BY NestedDef, BranchType

LEMMA NestedZeroAtom == ASSUME NEW p \in Nested[0] PROVE p \in Atoms /\ ~IsBranch(p)
BY NestedZero, AtomKinds

LEMMA NestedGrows == \A d \in Nat : Nested[d] \subseteq Nested[d + 1]
<1> DEFINE S == {d \in Nat : Nested[d] \subseteq Nested[d + 1]}
<1>1. 0 \in S BY NestedZero, NestedAtoms
<1>2. ASSUME NEW d \in Nat, d \in S PROVE d + 1 \in S
  <2>1. Seq(Nested[d]) \subseteq Seq(Nested[d + 1])
    <3> DEFINE A == Nested[d]
               B == Nested[d + 1]
    <3>1. A \subseteq B BY <1>2
    <3> HIDE DEF A, B
    <3>2. Seq(A) \subseteq Seq(B) BY <3>1
    <3> QED BY <3>2 DEF A, B
  <2>2. d + 1 \in Nat OBVIOUS
  <2>3. Nested[d + 1] = Atoms \union [items : Seq(Nested[d])] BY NestedNext
  <2>4. Nested[d + 1 + 1] = Atoms \union [items : Seq(Nested[d + 1])] BY <2>2, NestedNext
  <2>5. [items : Seq(Nested[d])] \subseteq [items : Seq(Nested[d + 1])]
    <3> DEFINE A == Seq(Nested[d])
               B == Seq(Nested[d + 1])
    <3>1. A \subseteq B BY <2>1
    <3> HIDE DEF A, B
    <3>2. [items : A] \subseteq [items : B] BY <3>1
    <3> QED BY <3>2 DEF A, B
  <2> QED BY <2>2, <2>3, <2>4, <2>5
<1> HIDE DEF S
<1>3. Nat \subseteq S BY <1>1, <1>2, Induction
<1> QED BY <1>3 DEF S

\* What nests less deeply nests more deeply as well.
LEMMA NestedDeeper == \A d, e \in Nat : Nested[d] \subseteq Nested[d + e]
<1> SUFFICES ASSUME NEW d \in Nat PROVE \A e \in Nat : Nested[d] \subseteq Nested[d + e] OBVIOUS
<1> DEFINE S == {e \in Nat : Nested[d] \subseteq Nested[d + e]}
<1>1. 0 \in S OBVIOUS
<1>2. ASSUME NEW e \in Nat, e \in S PROVE e + 1 \in S
  <2>1. Nested[d + e] \subseteq Nested[(d + e) + 1] BY NestedGrows
  <2>2. (d + e) + 1 = d + (e + 1) OBVIOUS
  <2> QED BY <2>1, <2>2, <1>2
<1> HIDE DEF S
<1>3. Nat \subseteq S BY <1>1, <1>2, Induction
<1> QED BY <1>3 DEF S

-----------------------------------------------------------------------------
\* Replace exists, depth by depth.
LEMMA ReplaceDef ==
    ASSUME NEW new
    PROVE  \A p \in Payload :
               Replace(new)[p] = IF IsBranch(p)
                                 THEN Branch([i \in DOMAIN p.items |-> Replace(new)[p.items[i]]])
                                 ELSE new[p]
<1> DEFINE Body(f, p) == IF IsBranch(p) THEN Branch([i \in DOMAIN p.items |-> f[p.items[i]]])
                                        ELSE new[p]
           S == {d \in Nat : \E f : f = [p \in Nested[d] |-> Body(f, p)]}
<1>1. 0 \in S
  <2> DEFINE f == [p \in Nested[0] |-> new[p]]
  <2>1. f = [p \in Nested[0] |-> Body(f, p)] BY NestedZeroAtom
  <2> HIDE DEF f, Body
  <2> QED BY <2>1
<1>2. ASSUME NEW d \in Nat, d \in S PROVE d + 1 \in S
  <2>1. PICK f : f = [p \in Nested[d] |-> Body(f, p)] BY <1>2
  <2> DEFINE g == [p \in Nested[d + 1] |-> Body(f, p)]
  <2>2. \A p \in Nested[d] : g[p] = f[p]
    <3> HIDE DEF Body
    <3> QED BY <2>1, NestedGrows
  <2> HIDE DEF g
  <2>3. \A p \in Nested[d + 1] : Body(f, p) = Body(g, p)
    <3> SUFFICES ASSUME NEW p \in Nested[d + 1], IsBranch(p) PROVE Body(f, p) = Body(g, p) OBVIOUS
    <3>1. \A i \in DOMAIN p.items : p.items[i] \in Nested[d] BY NestedBranch
    <3>2. \A i \in DOMAIN p.items : f[p.items[i]] = g[p.items[i]] BY <3>1, <2>2
    <3> QED BY <3>2
  <2> HIDE DEF Body
  <2>4. g = [p \in Nested[d + 1] |-> Body(g, p)] BY <2>3 DEF g
  <2> QED BY <2>4
<1> HIDE DEF S
<1>3. Nat \subseteq S BY <1>1, <1>2, Induction
<1>4. \E f : f = [p \in Payload |-> Body(f, p)]
  <2> HIDE DEF Body
  <2> QED BY <1>3, MaxDepthAssumption DEF S, Payload
<1>5. Replace(new) = [p \in Payload |-> Body(Replace(new), p)]
  <2> DEFINE r == CHOOSE f : f = [p \in Payload |-> Body(f, p)]
  <2>1. r = [p \in Payload |-> Body(r, p)]
    <3> HIDE DEF Body
    <3> QED BY <1>4
  <2>2. Replace(new) = r BY DEF Replace
  <2> HIDE DEF Body, r
  <2> QED BY <2>1, <2>2
<1> HIDE DEF Body
<1>6. \A p \in Payload : Replace(new)[p] = Body(Replace(new), p) BY <1>5
<1> QED BY <1>6 DEF Body
\* And so does Within.
LEMMA WithinDef ==
    \A p \in Payload : Within[p] = IF IsBranch(p)
                                   THEN UNION {Within[p.items[i]] : i \in DOMAIN p.items}
                                   ELSE {p}
<1> DEFINE Body(f, p) == IF IsBranch(p) THEN UNION {f[p.items[i]] : i \in DOMAIN p.items}
                                        ELSE {p}
           S == {d \in Nat : \E f : f = [p \in Nested[d] |-> Body(f, p)]}
<1>1. 0 \in S
  <2> DEFINE f == [p \in Nested[0] |-> {p}]
  <2>1. f = [p \in Nested[0] |-> Body(f, p)] BY NestedZeroAtom
  <2> HIDE DEF f, Body
  <2> QED BY <2>1
<1>2. ASSUME NEW d \in Nat, d \in S PROVE d + 1 \in S
  <2>1. PICK f : f = [p \in Nested[d] |-> Body(f, p)] BY <1>2
  <2> DEFINE g == [p \in Nested[d + 1] |-> Body(f, p)]
  <2>2. \A p \in Nested[d] : g[p] = f[p]
    <3> HIDE DEF Body
    <3> QED BY <2>1, NestedGrows
  <2> HIDE DEF g
  <2>3. \A p \in Nested[d + 1] : Body(f, p) = Body(g, p)
    <3> SUFFICES ASSUME NEW p \in Nested[d + 1], IsBranch(p) PROVE Body(f, p) = Body(g, p) OBVIOUS
    <3>1. \A i \in DOMAIN p.items : p.items[i] \in Nested[d] BY NestedBranch
    <3>2. \A i \in DOMAIN p.items : f[p.items[i]] = g[p.items[i]] BY <3>1, <2>2
    <3> QED BY <3>2
  <2> HIDE DEF Body
  <2>4. g = [p \in Nested[d + 1] |-> Body(g, p)] BY <2>3 DEF g
  <2> QED BY <2>4
<1> HIDE DEF S
<1>3. Nat \subseteq S BY <1>1, <1>2, Induction
<1>4. \E f : f = [p \in Payload |-> Body(f, p)]
  <2> HIDE DEF Body
  <2> QED BY <1>3, MaxDepthAssumption DEF S, Payload
<1> HIDE DEF Body
<1>5. Within = [p \in Payload |-> Body(Within, p)] BY <1>4 DEF Within, Body
<1>6. \A p \in Payload : Within[p] = Body(Within, p) BY <1>5
<1> QED BY <1>6 DEF Body

-----------------------------------------------------------------------------
(* What holds of atoms, and of a branch if it holds of its items, holds of *)
(* every payload.                                                          *)

\* A payload is a branch of payloads, or an atom.
LEMMA PayloadKinds ==
    ASSUME NEW p \in Payload
    PROVE  /\ IsBranch(p) => p.items \in Seq(Payload) /\ p = Branch(p.items)
           /\ ~IsBranch(p) => p \in Atoms
<1>1. CASE MaxDepth = 0 BY <1>1, NestedZeroAtom DEF Payload
<1>2. CASE MaxDepth # 0
  <2> DEFINE d == MaxDepth - 1
  <2>1. d \in Nat /\ d + 1 = MaxDepth BY <1>2, MaxDepthAssumption
  <2> HIDE DEF d
  <2>2. IsBranch(p) => p.items \in Seq(Nested[d]) /\ p = Branch(p.items)
    BY <2>1, NestedBranch DEF Payload
  <2>3. Nested[d] \subseteq Payload BY <2>1, NestedGrows DEF Payload
  <2>4. Seq(Nested[d]) \subseteq Seq(Payload)
    <3> DEFINE A == Nested[d]
    <3>1. A \subseteq Payload BY <2>3
    <3> HIDE DEF A
    <3>2. Seq(A) \subseteq Seq(Payload) BY <3>1
    <3> QED BY <3>2 DEF A
  <2>5. ~IsBranch(p) => p \in Atoms BY MaxDepthAssumption, NestedAtom DEF Payload
  <2> QED BY <2>2, <2>4, <2>5
<1> QED BY <1>1, <1>2

LEMMA PayloadAtoms == Atoms \subseteq Payload
BY NestedAtoms, MaxDepthAssumption DEF Payload

\* Within and Replace, on atoms and on branches.
LEMMA OfAtoms ==
    ASSUME NEW a \in Atoms
    PROVE  Within[a] = {a} /\ \A new : Replace(new)[a] = new[a]
<1>1. a \in Payload /\ ~IsBranch(a) BY PayloadAtoms, AtomKinds
<1>2. Within[a] = {a} BY <1>1, WithinDef
<1>3. ASSUME NEW new PROVE Replace(new)[a] = new[a] BY <1>1, ReplaceDef
<1> QED BY <1>2, <1>3

LEMMA OfBranches ==
    ASSUME NEW p \in Payload, IsBranch(p)
    PROVE  /\ \A a : a \in Within[p] <=> \E i \in DOMAIN p.items : a \in Within[p.items[i]]
           /\ \A new :
                  Replace(new)[p] = Branch([i \in DOMAIN p.items |-> Replace(new)[p.items[i]]])
<1>1. Within[p] = UNION {Within[p.items[i]] : i \in DOMAIN p.items} BY WithinDef
<1>2. \A a : a \in UNION {Within[p.items[i]] : i \in DOMAIN p.items}
                 <=> \E i \in DOMAIN p.items : a \in Within[p.items[i]]
  OBVIOUS
<1>3. ASSUME NEW new
      PROVE  Replace(new)[p] = Branch([i \in DOMAIN p.items |-> Replace(new)[p.items[i]]])
  BY ReplaceDef
<1> QED BY <1>1, <1>2, <1>3

\* Induction over payloads: what holds of the atoms, and of a branch when it
\* holds of its items, holds of all payloads.
LEMMA Structure ==
    ASSUME NEW T,
           \A p \in Atoms : p \in T,
           \A p \in Payload :
               IsBranch(p) /\ (\A i \in DOMAIN p.items : p.items[i] \in T) => p \in T
    PROVE  \A p \in Payload : p \in T
<1> DEFINE S == {d \in Nat : d <= MaxDepth => \A p \in Nested[d] : p \in T}
<1>1. 0 \in S BY NestedZeroAtom
<1>2. ASSUME NEW d \in Nat, d \in S PROVE d + 1 \in S
  <2> SUFFICES ASSUME d + 1 <= MaxDepth, NEW p \in Nested[d + 1] PROVE p \in T OBVIOUS
  <2>1. \A q \in Nested[d] : q \in T BY <1>2, MaxDepthAssumption
  <2>2. p \in Payload
    <3>1. MaxDepth - (d + 1) \in Nat /\ (d + 1) + (MaxDepth - (d + 1)) = MaxDepth
      BY MaxDepthAssumption
    <3>2. Nested[d + 1] \subseteq Nested[(d + 1) + (MaxDepth - (d + 1))] BY <3>1, NestedDeeper
    <3> QED BY <3>1, <3>2 DEF Payload
  <2>3. CASE IsBranch(p)
    <3>1. p.items \in Seq(Nested[d]) BY <2>3, NestedBranch
    <3>2. \A i \in DOMAIN p.items : p.items[i] \in T BY <3>1, <2>1
    <3> QED BY <3>2, <2>2, <2>3
  <2>4. CASE ~IsBranch(p) BY <2>4, NestedAtom
  <2> QED BY <2>3, <2>4
<1> HIDE DEF S
<1>3. Nat \subseteq S BY <1>1, <1>2, Induction
<1> QED BY <1>3, MaxDepthAssumption DEF S, Payload

LEMMA WithinAtoms == \A p \in Payload : Within[p] \subseteq Atoms
<1> DEFINE T == {p \in Payload : Within[p] \subseteq Atoms}
<1>1. \A p \in Atoms : p \in T BY OfAtoms, PayloadAtoms
<1>2. ASSUME NEW p \in Payload, IsBranch(p), \A i \in DOMAIN p.items : p.items[i] \in T
      PROVE  p \in T
  BY <1>2, OfBranches
<1> HIDE DEF T
<1>3. \A p \in Payload : p \in T BY <1>1, <1>2, Structure
<1> QED BY <1>3 DEF T

\* What replaces the atoms of a payload decides what becomes of it.
LEMMA Agree ==
    ASSUME NEW g, NEW h
    PROVE  \A p \in Payload :
               (\A a \in Within[p] : g[a] = h[a]) => Replace(g)[p] = Replace(h)[p]
<1> DEFINE Same(p) == \A a \in Within[p] : g[a] = h[a]
           T == {p \in Payload : Same(p) => Replace(g)[p] = Replace(h)[p]}
<1>1. \A p \in Atoms : p \in T BY OfAtoms, PayloadAtoms
<1>2. ASSUME NEW p \in Payload, IsBranch(p), \A i \in DOMAIN p.items : p.items[i] \in T
      PROVE  p \in T
  <2> SUFFICES ASSUME Same(p) PROVE Replace(g)[p] = Replace(h)[p] OBVIOUS
  <2>1. \A i \in DOMAIN p.items : Same(p.items[i]) BY <1>2, OfBranches
  <2>2. \A i \in DOMAIN p.items : Replace(g)[p.items[i]] = Replace(h)[p.items[i]]
    BY <2>1, <1>2
  <2>3. [i \in DOMAIN p.items |-> Replace(g)[p.items[i]]]
            = [i \in DOMAIN p.items |-> Replace(h)[p.items[i]]]
    BY <2>2
  <2>4. Replace(g)[p] = Branch([i \in DOMAIN p.items |-> Replace(g)[p.items[i]]])
    BY <1>2, OfBranches
  <2>5. Replace(h)[p] = Branch([i \in DOMAIN p.items |-> Replace(h)[p.items[i]]])
    BY <1>2, OfBranches
  <2> QED BY <2>3, <2>4, <2>5
<1> HIDE DEF T
<1>3. \A p \in Payload : p \in T BY <1>1, <1>2, Structure
<1> QED BY <1>3 DEF T

\* Nothing changes when every atom stays what it is, and when atoms take the
\* place of atoms a payload keeps its shape.
LEMMA Unchanged ==
    ASSUME NEW g
    PROVE  \A p \in Payload : (\A a \in Within[p] : g[a] = a) => Replace(g)[p] = p
<1> DEFINE Same(p) == \A a \in Within[p] : g[a] = a
           T == {p \in Payload : Same(p) => Replace(g)[p] = p}
<1>1. \A p \in Atoms : p \in T BY OfAtoms, PayloadAtoms
<1>2. ASSUME NEW p \in Payload, IsBranch(p), \A i \in DOMAIN p.items : p.items[i] \in T
      PROVE  p \in T
  <2> SUFFICES ASSUME Same(p) PROVE Replace(g)[p] = p OBVIOUS
  <2>1. \A i \in DOMAIN p.items : Same(p.items[i]) BY <1>2, OfBranches
  <2>2. \A i \in DOMAIN p.items : Replace(g)[p.items[i]] = p.items[i] BY <2>1, <1>2
  <2>3. p.items \in Seq(Payload) /\ p = Branch(p.items) BY <1>2, PayloadKinds
  <2>4. [i \in DOMAIN p.items |-> Replace(g)[p.items[i]]] = p.items BY <2>2, <2>3
  <2> QED BY <2>3, <2>4, <1>2, OfBranches
<1> HIDE DEF T
<1>3. \A p \in Payload : p \in T BY <1>1, <1>2, Structure
<1> QED BY <1>3 DEF T

LEMMA Replaced ==
    ASSUME NEW g, \A a \in Atoms : g[a] \in Atoms
    PROVE  \A p \in Payload :
               /\ \A d \in Nat : p \in Nested[d] => Replace(g)[p] \in Nested[d]
               /\ Within[Replace(g)[p]] = {g[a] : a \in Within[p]}
<1> DEFINE Typed(p) == \A d \in Nat : p \in Nested[d] => Replace(g)[p] \in Nested[d]
           Atomic(p) == Within[Replace(g)[p]] = {g[a] : a \in Within[p]}
           T == {p \in Payload : Typed(p) /\ Atomic(p)}
<1>1. ASSUME NEW p \in Atoms PROVE p \in T
  <2>1. Replace(g)[p] = g[p] /\ Within[p] = {p} BY OfAtoms
  <2>2. g[p] \in Atoms /\ Within[g[p]] = {g[p]} BY OfAtoms
  <2> QED BY <2>1, <2>2, PayloadAtoms, NestedAtoms
<1>2. ASSUME NEW p \in Payload, IsBranch(p), \A i \in DOMAIN p.items : p.items[i] \in T
      PROVE  p \in T
  <2> DEFINE s == [i \in DOMAIN p.items |-> Replace(g)[p.items[i]]]
  <2>1. Replace(g)[p] = Branch(s) BY <1>2, OfBranches
  <2>2. Typed(p)
    <3> SUFFICES ASSUME NEW d \in Nat, p \in Nested[d] PROVE Branch(s) \in Nested[d] BY <2>1
    <3>1. d # 0 BY <1>2, NestedZeroAtom
    <3>2. PICK e \in Nat : d = e + 1
      <4>1. d - 1 \in Nat /\ d = (d - 1) + 1 BY <3>1
      <4> QED BY <4>1
    <3>3. p.items \in Seq(Nested[e]) BY <3>2, <1>2, NestedBranch
    <3>4. \A i \in DOMAIN p.items : s[i] \in Nested[e] BY <3>3, <1>2
    <3>5. DOMAIN s = 1..Len(p.items) /\ Len(p.items) \in Nat BY <3>3
    <3>6. s \in Seq(Nested[e])
      <4> DEFINE N == Nested[e]
      <4>1. \A i \in 1..Len(p.items) : s[i] \in N BY <3>4, <3>5
      <4>2. s = [i \in 1..Len(p.items) |-> s[i]] BY <3>5
      <4> HIDE DEF N, s
      <4>3. s \in Seq(N) BY <4>1, <4>2, <3>5, SeqDef
      <4> QED BY <4>3 DEF N
    <3> QED BY <3>2, <3>6, NestedBranch
  <2>3. Branch(s) \in Payload BY <2>1, <2>2, MaxDepthAssumption DEF Payload
  <2>4. \A b : b \in Within[Branch(s)] <=> \E i \in DOMAIN p.items : b \in Within[s[i]]
    <3>1. DOMAIN s = DOMAIN p.items OBVIOUS
    <3> HIDE DEF s
    <3> QED BY <2>3, <3>1, OfBranches, BranchKind
  <2>5. \A i \in DOMAIN p.items : Within[s[i]] = {g[a] : a \in Within[p.items[i]]} BY <1>2
  <2>6. \A a : a \in Within[p] <=> \E i \in DOMAIN p.items : a \in Within[p.items[i]]
    BY <1>2, OfBranches
  <2>7. Atomic(p)
    <3> HIDE DEF s
    <3>1. \A b \in Within[Branch(s)] : \E a \in Within[p] : b = g[a] BY <2>4, <2>5, <2>6
    <3>2. \A a \in Within[p] : g[a] \in Within[Branch(s)] BY <2>4, <2>5, <2>6
    <3> QED BY <2>1, <3>1, <3>2
  <2> QED BY <2>2, <2>7
<1> HIDE DEF T
<1>3. \A p \in Payload : p \in T BY <1>1, <1>2, Structure
<1> QED BY <1>3 DEF T

-----------------------------------------------------------------------------
(* Written: its result is as deep, has no references where there were none, *)
(* and is JSON, of which it changes nothing.                               *)

\* The payloads that nest to a depth, without references.
Plain(d) == {p \in Nested[d] : \A a \in Within[p] : ~IsReference(a)}

\* What JSON makes of an atom is an atom that JSON can express, and no other
\* atom than it was if it could be expressed.
LEMMA InJsonType ==
    \A a \in Atoms : /\ InJson[a] \in Atoms
                     /\ IsReference(InJson[a]) <=> IsReference(a)
                     /\ IsLeaf(InJson[a]) => InJson[a].data \notin DOMAIN AsText
                     /\ (IsLeaf(a) => a.data \notin DOMAIN AsText) => InJson[a] = a
<1> SUFFICES ASSUME NEW a \in Atoms
             PROVE  /\ InJson[a] \in Atoms
                    /\ IsReference(InJson[a]) <=> IsReference(a)
                    /\ IsLeaf(InJson[a]) => InJson[a].data \notin DOMAIN AsText
                    /\ (IsLeaf(a) => a.data \notin DOMAIN AsText) => InJson[a] = a
  OBVIOUS
<1>1. CASE IsLeaf(a) /\ a.data \in DOMAIN AsText
  <2>1. InJson[a] = [a EXCEPT !.data = AsText[a.data]] BY <1>1 DEF InJson
  <2>2. AsText[a.data] \in Data /\ AsText[a.data] \notin DOMAIN AsText BY <1>1, AsTextAssumption
  <2>3. a \in Leaves BY <1>1, AtomKinds
  <2>4. InJson[a] \in Leaves /\ InJson[a].data = AsText[a.data] BY <2>1, <2>2, <2>3 DEF Leaves
  <2>5. IsLeaf(InJson[a]) /\ ~IsReference(InJson[a]) /\ InJson[a] \in Atoms
    BY <2>4 DEF Leaves, Atoms, IsLeaf, IsReference
  <2> QED BY <2>2, <2>4, <2>5, <1>1, AtomKinds
<1>2. CASE ~(IsLeaf(a) /\ a.data \in DOMAIN AsText)
  <2>1. InJson[a] = a BY <1>2 DEF InJson
  <2> QED BY <2>1, <1>2
<1> QED BY <1>1, <1>2

\* What is written is JSON, is as deep as it was, and is the same when it is
\* written again.
LEMMA WrittenType ==
    ASSUME NEW p \in Payload
    PROVE  /\ \A d \in Nat : p \in Nested[d] => Written(p) \in Nested[d]
           /\ Written(p) \in Payload
           /\ Within[Written(p)] = {InJson[a] : a \in Within[p]}
           /\ IsJson(Written(p))
           /\ \A d \in Nat : p \in Plain(d) => Written(p) \in Plain(d)
<1>1. \A a \in Atoms : InJson[a] \in Atoms BY InJsonType
<1>2. /\ \A d \in Nat : p \in Nested[d] => Written(p) \in Nested[d]
      /\ Within[Written(p)] = {InJson[a] : a \in Within[p]}
  BY <1>1, Replaced DEF Written
<1>3. Written(p) \in Payload BY <1>2, MaxDepthAssumption DEF Payload
<1>4. \A b \in Within[Written(p)] : \E a \in Atoms : a \in Within[p] /\ b = InJson[a]
  BY <1>2, WithinAtoms
<1>5. IsJson(Written(p)) BY <1>4, InJsonType DEF IsJson
<1>6. \A d \in Nat : p \in Plain(d) => Written(p) \in Plain(d)
  BY <1>2, <1>4, InJsonType DEF Plain
<1> QED BY <1>2, <1>3, <1>5, <1>6

LEMMA JsonIsWritten == \A p \in Payload : IsJson(p) => Written(p) = p
<1> SUFFICES ASSUME NEW p \in Payload, IsJson(p) PROVE Written(p) = p OBVIOUS
<1>1. \A a \in Within[p] : InJson[a] = a BY WithinAtoms, InJsonType DEF IsJson
<1> QED BY <1>1, Unchanged DEF Written

LEMMA WrittenTwice == \A p \in Payload : Written(Written(p)) = Written(p)
BY WrittenType, JsonIsWritten

-----------------------------------------------------------------------------
(* Preparing the items of a branch, one after the other.                   *)

Prefix(prepared, items, k, f, n) ==
    IF n = 0 THEN Stored(<< >>, << >>)
    ELSE Stored(Append(f[n - 1].value, prepared[items[n]][k + Len(f[n - 1].files)].value),
                f[n - 1].files \o prepared[items[n]][k + Len(f[n - 1].files)].files)

\* The prefixes of the items that PreparedItems goes through exist.
LEMMA PrefixesExist ==
    ASSUME NEW prepared, NEW items, NEW k, NEW N \in Nat
    PROVE  \E f : f = [n \in 0..N |-> Prefix(prepared, items, k, f, n)]
<1> DEFINE Segment(m, f) == f = [n \in 0..m |-> Prefix(prepared, items, k, f, n)]
           S == {m \in Nat : \E f : Segment(m, f)}
<1>1. 0 \in S
  <2>1. Segment(0, [n \in 0..0 |-> Stored(<< >>, << >>)]) BY DEF Prefix
  <2> QED BY <2>1
<1>2. ASSUME NEW m \in Nat, m \in S PROVE m + 1 \in S
  <2>1. PICK f : Segment(m, f) BY <1>2
  <2> DEFINE g == [n \in 0..(m + 1) |-> Prefix(prepared, items, k, f, n)]
  <2>2. \A n \in 0..m : g[n] = f[n]
    <3>1. \A n \in 0..m : n \in 0..(m + 1) OBVIOUS
    <3> QED BY <3>1, <2>1
  <2>3. \A n \in 0..(m + 1) : n # 0 => g[n - 1] = f[n - 1]
    <3>1. \A n \in 0..(m + 1) : n # 0 => n - 1 \in 0..m OBVIOUS
    <3> HIDE DEF g
    <3> QED BY <3>1, <2>2
  <2>4. \A n \in 0..(m + 1) : Prefix(prepared, items, k, f, n) = Prefix(prepared, items, k, g, n)
    <3> HIDE DEF g
    <3> QED BY <2>3 DEF Prefix
  <2>5. Segment(m + 1, g) BY <2>4
  <2> HIDE DEF Segment
  <2> QED BY <2>5
<1> HIDE DEF S
<1>3. Nat \subseteq S BY <1>1, <1>2, Induction
<1> QED BY <1>3 DEF S

Prefixes(prepared, items, k) ==
    CHOOSE f : f = [n \in 0..Len(items) |-> Prefix(prepared, items, k, f, n)]

LEMMA PrefixesDef ==
    ASSUME NEW prepared, NEW items, NEW k, Len(items) \in Nat
    PROVE  /\ Prefixes(prepared, items, k)[0] = Stored(<< >>, << >>)
           /\ \A n \in 0..Len(items) : n # 0 =>
                  Prefixes(prepared, items, k)[n] =
                      Prefix(prepared, items, k, Prefixes(prepared, items, k), n)
<1> DEFINE f == Prefixes(prepared, items, k)
<1>1. f = [n \in 0..Len(items) |-> Prefix(prepared, items, k, f, n)]
  BY PrefixesExist DEF Prefixes
<1> HIDE DEF f
<1>2. \A n \in 0..Len(items) : f[n] = Prefix(prepared, items, k, f, n) BY <1>1
<1>3. 0 \in 0..Len(items) OBVIOUS
<1>4. f[0] = Stored(<< >>, << >>) BY <1>2, <1>3 DEF Prefix
<1> QED BY <1>2, <1>4 DEF f

\* PreparedItems is what the last prefix has, and it asks for nothing but what
\* becomes of the items.
LEMMA ItemsDef ==
    ASSUME NEW prepared, NEW items, NEW k
    PROVE  PreparedItems(prepared, items, k) =
               Stored(Branch(Prefixes(prepared, items, k)[Len(items)].value),
                      Prefixes(prepared, items, k)[Len(items)].files)
BY DEF PreparedItems, Prefixes, Prefix

LEMMA ItemsAgree ==
    ASSUME NEW g, NEW h, NEW items, NEW k, Len(items) \in Nat,
           \A n \in 1..Len(items) : g[items[n]] = h[items[n]]
    PROVE  PreparedItems(g, items, k) = PreparedItems(h, items, k)
<1> DEFINE u == Prefixes(g, items, k)
           v == Prefixes(h, items, k)
           S == {n \in Nat : n <= Len(items) => u[n] = v[n]}
<1>1. 0 \in S BY PrefixesDef
<1>2. ASSUME NEW n \in Nat, n \in S PROVE n + 1 \in S
  <2> SUFFICES ASSUME n + 1 <= Len(items) PROVE u[n + 1] = v[n + 1] OBVIOUS
  <2>1. n + 1 \in 0..Len(items) /\ n + 1 \in 1..Len(items) /\ n + 1 # 0 /\ (n + 1) - 1 = n
    OBVIOUS
  <2>2. u[n] = v[n] BY <1>2
  <2>3. g[items[n + 1]] = h[items[n + 1]] BY <2>1
  <2>4. u[n + 1] = Prefix(g, items, k, u, n + 1) /\ v[n + 1] = Prefix(h, items, k, v, n + 1)
    BY <2>1, PrefixesDef
  <2> HIDE DEF u, v
  <2> QED BY <2>1, <2>2, <2>3, <2>4 DEF Prefix
<1> HIDE DEF S
<1>3. Nat \subseteq S BY <1>1, <1>2, Induction
<1>4. u[Len(items)] = v[Len(items)] BY <1>3 DEF S
<1> QED BY <1>4, ItemsDef

\* One step of _prepare_stored_payload, given what it does with the items.
PreparedBy(prepared, p, lim) ==
    [k \in Nat |-> IF Fits(p, lim) \/ IsReference(p) THEN Stored(p, << >>)
                   ELSE IF IsBranch(p) THEN PreparedBranch(prepared, p, k, lim)
                   ELSE WriteJson(p, k, << >>)]

\* Prepare exists, depth by depth.
LEMMA PrepareDef ==
    ASSUME NEW lim
    PROVE  \A p \in Payload : Prepare(lim)[p] = PreparedBy(Prepare(lim), p, lim)
<1> DEFINE Body(f, p) == PreparedBy(f, p, lim)
           S == {d \in Nat : \E f : f = [p \in Nested[d] |-> Body(f, p)]}
<1>1. 0 \in S
  <2> DEFINE f == [p \in Nested[0] |-> Body(p, p)]
  <2>1. \A p \in Nested[0] : Body(p, p) = Body(f, p)
    <3> HIDE DEF f
    <3> QED BY NestedZeroAtom DEF PreparedBy
  <2> HIDE DEF Body
  <2>2. f = [p \in Nested[0] |-> Body(f, p)] BY <2>1
  <2> HIDE DEF f
  <2> QED BY <2>2
<1>2. ASSUME NEW d \in Nat, d \in S PROVE d + 1 \in S
  <2>1. PICK f : f = [p \in Nested[d] |-> Body(f, p)] BY <1>2
  <2> DEFINE g == [p \in Nested[d + 1] |-> Body(f, p)]
  <2>2. \A p \in Nested[d] : g[p] = f[p]
    <3> HIDE DEF Body
    <3> QED BY <2>1, NestedGrows
  <2> HIDE DEF g
  <2>3. \A p \in Nested[d + 1] : Body(f, p) = Body(g, p)
    <3> SUFFICES ASSUME NEW p \in Nested[d + 1] PROVE Body(f, p) = Body(g, p) OBVIOUS
    <3>1. ASSUME IsBranch(p), NEW k
          PROVE  PreparedBranch(f, p, k, lim) = PreparedBranch(g, p, k, lim)
      <4>1. p.items \in Seq(Nested[d]) BY <3>1, NestedBranch
      <4>2. Len(p.items) \in Nat /\ \A n \in 1..Len(p.items) : p.items[n] \in Nested[d] BY <4>1
      <4>3. \A n \in 1..Len(p.items) : f[p.items[n]] = g[p.items[n]] BY <4>2, <2>2
      <4>4. PreparedItems(f, p.items, k) = PreparedItems(g, p.items, k) BY <4>2, <4>3, ItemsAgree
      <4> QED BY <4>4 DEF PreparedBranch
    <3> QED BY <3>1 DEF PreparedBy
  <2> HIDE DEF Body
  <2>4. g = [p \in Nested[d + 1] |-> Body(g, p)] BY <2>3 DEF g
  <2> QED BY <2>4
<1> HIDE DEF S
<1>3. Nat \subseteq S BY <1>1, <1>2, Induction
<1>4. \E f : f = [p \in Payload |-> Body(f, p)]
  <2> HIDE DEF Body
  <2> QED BY <1>3, MaxDepthAssumption DEF S, Payload
<1>5. Prepare(lim) = [p \in Payload |-> Body(Prepare(lim), p)]
  <2> DEFINE r == CHOOSE f : f = [p \in Payload |-> Body(f, p)]
  <2>1. r = [p \in Payload |-> Body(r, p)]
    <3> HIDE DEF Body
    <3> QED BY <1>4
  <2>2. Prepare(lim) = r BY DEF Prepare, PreparedBy
  <2> HIDE DEF Body, r
  <2> QED BY <2>1, <2>2
<1> HIDE DEF Body
<1>6. \A p \in Payload : Prepare(lim)[p] = Body(Prepare(lim), p) BY <1>5
<1> QED BY <1>6 DEF Body

-----------------------------------------------------------------------------
(* What is prepared.                                                       *)

\* A payload as it is read with files whose contents are JSON.
Restore(fs) == [a \in Atoms |-> IF IsReference(a) THEN fs[a.file] ELSE InJson[a]]

\* Files that hold the new ones after k others.
Holds(fs, k, new) == \A i \in DOMAIN new : fs[k + i] = new[i]

\* The new references lead to the new files, and what is read is the payload.
Keeps(p, k, r) ==
    /\ r.files \in Seq(Plain(MaxDepth))
    /\ \A a \in Within[r.value] : IsReference(a) => a.file \in (k + 1)..(k + Len(r.files))
    /\ \A fs : Holds(fs, k, r.files) => Replace(Restore(fs))[r.value] = Written(p)
    /\ IsJson(p) => IsJson(r.value)

\* What goes into a row as it is, and what goes into a file.
LEMMA StoredFields ==
    ASSUME NEW v, NEW f PROVE Stored(v, f).value = v /\ Stored(v, f).files = f
BY DEF Stored

LEMMA KeptAsItIs ==
    ASSUME NEW p \in Plain(MaxDepth), NEW k \in Nat
    PROVE  Keeps(p, k, Stored(p, << >>))
<1>1. p \in Payload /\ \A a \in Within[p] : ~IsReference(a) BY DEF Plain, Payload
<1>2. ASSUME NEW fs PROVE Replace(Restore(fs))[p] = Written(p)
  <2>1. \A a \in Within[p] : Restore(fs)[a] = InJson[a]
    BY <1>1, WithinAtoms DEF Restore
  <2> QED BY <2>1, <1>1, Agree DEF Written
<1>3. << >> \in Seq(Plain(MaxDepth)) OBVIOUS
<1> QED BY <1>1, <1>2, <1>3, StoredFields DEF Keeps

LEMMA KeptInFile ==
    ASSUME NEW p \in Plain(MaxDepth), NEW k \in Nat, NEW f \in Seq(Plain(MaxDepth))
    PROVE  /\ Keeps(p, k, WriteJson(p, k, f))
           /\ WriteJson(p, k, f).value \in Atoms
           /\ IsReference(WriteJson(p, k, f).value)
<1> DEFINE n == Len(f) + 1
           new == Append(f, Written(p))
           ref == Reference(k + Len(f) + 1)
<1>1. p \in Payload /\ Written(p) \in Plain(MaxDepth)
  BY WrittenType, MaxDepthAssumption DEF Plain, Payload
<1>2. Len(f) \in Nat /\ k + Len(f) + 1 \in Nat /\ k + Len(f) + 1 = k + n OBVIOUS
<1>3. ref \in Atoms /\ IsReference(ref) /\ ref.file = k + n /\ ~IsLeaf(ref) BY <1>2, ReferenceKinds
<1>4. new \in Seq(Plain(MaxDepth)) /\ Len(new) = n /\ new[n] = Written(p) /\ n \in DOMAIN new
  <2> DEFINE S == Plain(MaxDepth)
  <2>1. f \in Seq(S) /\ Written(p) \in S BY <1>1
  <2> HIDE DEF S
  <2>2. new \in Seq(S) /\ Len(new) = n /\ new[n] = Written(p) /\ n \in DOMAIN new BY <2>1
  <2> QED BY <2>2 DEF S
<1>5. WriteJson(p, k, f).value = ref /\ WriteJson(p, k, f).files = new
  BY StoredFields DEF WriteJson
<1> HIDE DEF ref, new
<1>6. Within[ref] = {ref} /\ \A g : Replace(g)[ref] = g[ref] BY <1>3, OfAtoms
<1>7. ASSUME NEW fs, Holds(fs, k, new) PROVE Replace(Restore(fs))[ref] = Written(p)
  <2>1. fs[k + n] = Written(p) BY <1>4, <1>7 DEF Holds
  <2>2. Restore(fs)[ref] = fs[k + n] BY <1>3 DEF Restore
  <2> QED BY <2>1, <2>2, <1>6
<1>8. \A a \in Within[ref] : IsReference(a) => a.file \in (k + 1)..(k + Len(new))
  BY <1>2, <1>3, <1>4, <1>6
<1>9. IsJson(ref) BY <1>3, <1>6 DEF IsJson
<1> HIDE DEF n
<1> QED BY <1>3, <1>4, <1>5, <1>7, <1>8, <1>9 DEF Keeps

\* Files that are written before, or after, take nothing away.
LEMMA KeptAfter ==
    ASSUME NEW p, NEW k \in Nat, NEW r, Keeps(p, k, r), NEW more \in Seq(Plain(MaxDepth))
    PROVE  Keeps(p, k, Stored(r.value, r.files \o more))
<1> DEFINE S == Plain(MaxDepth)
           f == r.files \o more
<1>1. r.files \in Seq(S) /\ more \in Seq(S) BY DEF Keeps
<1> HIDE DEF S
<1>2. f \in Seq(S) /\ Len(f) = Len(r.files) + Len(more) /\ Len(r.files) \in Nat /\ Len(more) \in Nat
  BY <1>1
<1>3. \A i \in DOMAIN r.files : i \in DOMAIN f /\ f[i] = r.files[i] BY <1>1
<1> HIDE DEF f
<1>4. \A fs : Holds(fs, k, f) => Holds(fs, k, r.files) BY <1>3 DEF Holds
<1>5. \A i \in (k + 1)..(k + Len(r.files)) : i \in (k + 1)..(k + Len(f)) BY <1>2
<1>6. Stored(r.value, f).value = r.value /\ Stored(r.value, f).files = f BY StoredFields
<1> HIDE DEF f
<1>7. Keeps(p, k, Stored(r.value, f)) BY <1>2, <1>4, <1>5, <1>6 DEF Keeps, S
<1> QED BY <1>7 DEF f

LEMMA KeptBefore ==
    ASSUME NEW p, NEW k \in Nat, NEW before \in Seq(Plain(MaxDepth)), NEW r,
           Keeps(p, k + Len(before), r)
    PROVE  Keeps(p, k, Stored(r.value, before \o r.files))
<1> DEFINE S == Plain(MaxDepth)
           m == Len(before)
           f == before \o r.files
<1>1. r.files \in Seq(S) /\ before \in Seq(S) BY DEF Keeps
<1> HIDE DEF S
<1>2. f \in Seq(S) /\ Len(f) = m + Len(r.files) /\ Len(r.files) \in Nat /\ m \in Nat
  BY <1>1
<1>3. \A i \in DOMAIN r.files : m + i \in DOMAIN f /\ f[m + i] = r.files[i] /\ i \in Nat BY <1>1
<1> HIDE DEF f
<1>4. ASSUME NEW fs, Holds(fs, k, f) PROVE Holds(fs, k + m, r.files)
  <2>1. \A i \in DOMAIN r.files : fs[k + (m + i)] = r.files[i] BY <1>3, <1>4 DEF Holds
  <2>2. \A i \in DOMAIN r.files : k + (m + i) = (k + m) + i BY <1>2, <1>3
  <2> QED BY <2>1, <2>2 DEF Holds
<1>5. \A i \in ((k + m) + 1)..((k + m) + Len(r.files)) : i \in (k + 1)..(k + Len(f))
  <2>1. \A l, n, i \in Nat :
            n = m + l /\ i \in ((k + m) + 1)..((k + m) + l) => i \in (k + 1)..(k + n)
    <3> HIDE DEF m
    <3> QED BY <1>2
  <2>2. \A i \in ((k + m) + 1)..((k + m) + Len(r.files)) : i \in Nat BY <1>2
  <2>3. Len(f) \in Nat BY <1>2
  <2> QED BY <1>2, <2>1, <2>2, <2>3
<1>6. Stored(r.value, f).value = r.value /\ Stored(r.value, f).files = f BY StoredFields
<1>7. Keeps(p, k + m, r) OBVIOUS
<1> HIDE DEF f, m
<1>8. Keeps(p, k, Stored(r.value, f)) BY <1>2, <1>4, <1>5, <1>6, <1>7 DEF Keeps, S
<1> QED BY <1>8 DEF f

\* The items one after the other: the files of each are kept in all of them.
LEMMA ItemsKept ==
    ASSUME NEW g, NEW items \in Seq(Plain(MaxDepth)), NEW k \in Nat,
           NEW e \in Nat, items \in Seq(Nested[e]),
           \A n \in 1..Len(items) : \A j \in Nat :
               /\ Keeps(items[n], j, g[items[n]][j])
               /\ g[items[n]][j].value \in Nested[e]
    PROVE  LET r == Prefixes(g, items, k)[Len(items)]
           IN  /\ r.value \in Seq(Nested[e]) /\ Len(r.value) = Len(items)
               /\ r.files \in Seq(Plain(MaxDepth))
               /\ \A i \in 1..Len(items) : Keeps(items[i], k, Stored(r.value[i], r.files))
<1> DEFINE u == Prefixes(g, items, k)
           N == Nested[e]
           P == Plain(MaxDepth)
           Good(n) == /\ u[n].value \in Seq(N) /\ Len(u[n].value) = n
                      /\ u[n].files \in Seq(P)
                      /\ \A i \in 1..n : Keeps(items[i], k, Stored(u[n].value[i], u[n].files))
           S == {n \in Nat : n <= Len(items) => Good(n)}
<1>1. 0 \in S
  <2>1. u[0].value = << >> /\ u[0].files = << >> BY PrefixesDef, StoredFields
  <2>2. << >> \in Seq(N) /\ << >> \in Seq(P) /\ Len(<< >>) = 0 OBVIOUS
  <2>3. \A i \in 1..0 : FALSE OBVIOUS
  <2> HIDE DEF u, N, P
  <2>4. Good(0) BY <2>1, <2>2, <2>3
  <2> QED BY <2>4
<1>2. ASSUME NEW n \in Nat, n \in S PROVE n + 1 \in S
  <2> SUFFICES ASSUME n + 1 <= Len(items) PROVE Good(n + 1) OBVIOUS
  <2>1. Good(n) BY <1>2
  <2>2. n + 1 \in 0..Len(items) /\ n + 1 \in 1..Len(items) /\ n + 1 # 0 /\ (n + 1) - 1 = n
    OBVIOUS
  <2> DEFINE r == g[items[n + 1]][k + Len(u[n].files)]
  <2>3. u[n + 1] = Prefix(g, items, k, u, n + 1) BY <2>2, PrefixesDef
  <2>4. u[n + 1].value = Append(u[n].value, r.value) /\ u[n + 1].files = u[n].files \o r.files
    <3>1. Prefix(g, items, k, u, n + 1) = Stored(Append(u[n].value, r.value), u[n].files \o r.files)
      <4> HIDE DEF u
      <4> QED BY <2>2 DEF Prefix
    <3> DEFINE v == Append(u[n].value, r.value)
               f == u[n].files \o r.files
               w == u[n + 1]
    <3>2. w = Stored(v, f) BY <2>3, <3>1
    <3> HIDE DEF v, f, w
    <3>3. w.value = v /\ w.files = f BY <3>2, StoredFields
    <3> QED BY <3>3 DEF v, f, w
  <2>5. k + Len(u[n].files) \in Nat
    <3> HIDE DEF u, P
    <3> QED BY <2>1
  <2>6. Keeps(items[n + 1], k + Len(u[n].files), r) /\ r.value \in N BY <2>2, <2>5
  <2> HIDE DEF u, N, P, r
  <2>7. r.files \in Seq(P) BY <2>6 DEF Keeps, P
  <2>8. u[n + 1].value \in Seq(N) /\ Len(u[n + 1].value) = n + 1 /\ u[n + 1].files \in Seq(P)
    BY <2>1, <2>4, <2>6, <2>7
  <2>9. u[n + 1].value[n + 1] = r.value /\ \A i \in 1..n : u[n + 1].value[i] = u[n].value[i]
    BY <2>1, <2>4, <2>6
  <2>10. ASSUME NEW i \in 1..n
         PROVE  Keeps(items[i], k, Stored(u[n + 1].value[i], u[n + 1].files))
    <3>1. Keeps(items[i], k, Stored(u[n].value[i], u[n].files)) BY <2>1
    <3> DEFINE q == Stored(u[n].value[i], u[n].files)
    <3>2. q.value = u[n].value[i] /\ q.files = u[n].files BY StoredFields
    <3> HIDE DEF q
    <3>3. Keeps(items[i], k, Stored(q.value, q.files \o r.files))
      BY <3>1, <2>7, KeptAfter DEF P, q
    <3> QED BY <3>2, <3>3, <2>4, <2>9
  <2>11. Keeps(items[n + 1], k, Stored(u[n + 1].value[n + 1], u[n + 1].files))
    <3>1. Keeps(items[n + 1], k, Stored(r.value, u[n].files \o r.files))
      BY <2>1, <2>6, KeptBefore DEF P
    <3> QED BY <3>1, <2>4, <2>9
  <2>12. \A i \in 1..(n + 1) : i \in 1..n \/ i = n + 1 OBVIOUS
  <2> QED BY <2>8, <2>10, <2>11, <2>12
<1> HIDE DEF S
<1>3. Nat \subseteq S BY <1>1, <1>2, Induction
<1>4. Good(Len(items)) BY <1>3 DEF S
<1> QED BY <1>4

LEMMA PlainItems ==
    ASSUME NEW p \in Plain(MaxDepth), IsBranch(p)
    PROVE  p.items \in Seq(Plain(MaxDepth))
<1> DEFINE P == Plain(MaxDepth)
<1>1. p \in Payload /\ \A a \in Within[p] : ~IsReference(a) BY DEF Plain, Payload
<1>2. p.items \in Seq(Payload) BY <1>1, PayloadKinds
<1>3. \A i \in 1..Len(p.items) : p.items[i] \in P
  BY <1>1, <1>2, OfBranches DEF Plain, Payload
<1>4. p.items = [i \in 1..Len(p.items) |-> p.items[i]] /\ Len(p.items) \in Nat BY <1>2
<1> HIDE DEF P
<1>5. p.items \in Seq(P) BY <1>3, <1>4, SeqDef
<1> QED BY <1>5 DEF P

\* What a branch becomes when its items are prepared one by one.
LEMMA BranchKept ==
    ASSUME NEW g, NEW p \in Plain(MaxDepth), IsBranch(p), NEW k \in Nat, NEW d \in Nat,
           p \in Nested[d],
           \A i \in DOMAIN p.items : \A j \in Nat :
               /\ Keeps(p.items[i], j, g[p.items[i]][j])
               /\ \A c \in Nat : p.items[i] \in Nested[c] => g[p.items[i]][j].value \in Nested[c]
    PROVE  /\ Keeps(p, k, PreparedItems(g, p.items, k))
           /\ PreparedItems(g, p.items, k).value \in Nested[d]
<1> DEFINE items == p.items
           r     == Prefixes(g, items, k)[Len(items)]
           b     == Branch(r.value)
           P     == Plain(MaxDepth)
<1>1. p \in Payload BY DEF Plain, Payload
<1>2. items \in Seq(P) BY PlainItems
<1>3. ASSUME NEW e \in Nat, p \in Nested[e + 1]
      PROVE  /\ r.value \in Seq(Nested[e]) /\ Len(r.value) = Len(items)
             /\ r.files \in Seq(P)
             /\ \A i \in 1..Len(items) : Keeps(items[i], k, Stored(r.value[i], r.files))
             /\ b \in Nested[e + 1]
  <2>1. items \in Seq(Nested[e]) BY <1>3, NestedBranch
  <2>2. \A n \in 1..Len(items) : items[n] \in Nested[e] /\ n \in DOMAIN items BY <2>1
  <2>3. \A n \in 1..Len(items) : \A j \in Nat :
            Keeps(items[n], j, g[items[n]][j]) /\ g[items[n]][j].value \in Nested[e]
    BY <2>2
  <2>4. /\ r.value \in Seq(Nested[e]) /\ Len(r.value) = Len(items)
        /\ r.files \in Seq(P)
        /\ \A i \in 1..Len(items) : Keeps(items[i], k, Stored(r.value[i], r.files))
    <3> HIDE DEF items
    <3> QED BY <1>2, <2>1, <2>3, ItemsKept
  <2> HIDE DEF r
  <2> QED BY <2>4, NestedBranch
<1>4. \A e \in Nat : p \in Nested[e] => e # 0 /\ \E f \in Nat : e = f + 1
  <2> SUFFICES ASSUME NEW e \in Nat, p \in Nested[e] PROVE e # 0 /\ \E f \in Nat : e = f + 1
    OBVIOUS
  <2>1. e # 0 BY NestedZeroAtom
  <2>2. e - 1 \in Nat /\ e = (e - 1) + 1 BY <2>1
  <2> QED BY <2>1, <2>2
<1>5. b \in Nested[d]
  <2>1. PICK f \in Nat : d = f + 1 BY <1>4
  <2> HIDE DEF b, r
  <2> QED BY <2>1, <1>3
<1>6. PICK e \in Nat : MaxDepth = e + 1 BY <1>4, MaxDepthAssumption DEF Plain
<1>7. p \in Nested[e + 1] BY <1>6 DEF Plain
<1>8. /\ r.value \in Seq(Nested[e]) /\ Len(r.value) = Len(items)
      /\ r.files \in Seq(P)
      /\ \A i \in 1..Len(items) : Keeps(items[i], k, Stored(r.value[i], r.files))
      /\ b \in Payload
  <2> HIDE DEF b, r, items, P
  <2> QED BY <1>6, <1>7, <1>3 DEF Payload
<1>9. PreparedItems(g, p.items, k) = Stored(b, r.files) BY ItemsDef
<1>10. IsBranch(b) /\ b.items = r.value BY BranchKind
<1> HIDE DEF b, r
<1>11. DOMAIN r.value = 1..Len(items) /\ DOMAIN items = 1..Len(items) BY <1>2, <1>8
<1>12. \A i \in 1..Len(items) :
           /\ \A a \in Within[r.value[i]] : IsReference(a) => a.file \in (k + 1)..(k + Len(r.files))
           /\ \A fs : Holds(fs, k, r.files) =>
                             Replace(Restore(fs))[r.value[i]] = Written(items[i])
           /\ IsJson(items[i]) => IsJson(r.value[i])
  <2> TAKE i \in 1..Len(items)
  <2> DEFINE q == Stored(r.value[i], r.files)
  <2>1. Keeps(items[i], k, q) BY <1>8
  <2>2. q.value = r.value[i] /\ q.files = r.files BY StoredFields
  <2> HIDE DEF q
  <2> QED BY <2>1, <2>2 DEF Keeps
<1>13. \A a : a \in Within[b] <=> \E i \in 1..Len(items) : a \in Within[r.value[i]]
  BY <1>8, <1>10, <1>11, OfBranches
<1>14. ASSUME NEW fs, Holds(fs, k, r.files)
       PROVE  Replace(Restore(fs))[b] = Written(p)
  <2>1. Replace(Restore(fs))[b] =
            Branch([i \in 1..Len(items) |-> Replace(Restore(fs))[r.value[i]]])
    BY <1>8, <1>10, <1>11, OfBranches
  <2>2. Written(p) = Branch([i \in 1..Len(items) |-> Written(items[i])])
    BY <1>1, <1>11, OfBranches DEF Written
  <2>3. \A i \in 1..Len(items) : Replace(Restore(fs))[r.value[i]] = Written(items[i])
    BY <1>12, <1>14
  <2> HIDE DEF items
  <2>4. [i \in 1..Len(items) |-> Replace(Restore(fs))[r.value[i]]]
            = [i \in 1..Len(items) |-> Written(items[i])]
    BY <2>3
  <2> QED BY <2>1, <2>2, <2>4
<1>15. \A a \in Within[b] : IsReference(a) => a.file \in (k + 1)..(k + Len(r.files))
  BY <1>12, <1>13
<1>16. ASSUME IsJson(p) PROVE IsJson(b)
  <2>1. \A i \in 1..Len(items) : IsJson(items[i])
    BY <1>1, <1>11, <1>16, OfBranches DEF IsJson
  <2>2. \A i \in 1..Len(items) : IsJson(r.value[i]) BY <2>1, <1>12
  <2> QED BY <2>2, <1>13 DEF IsJson
<1>17. Stored(b, r.files).value = b /\ Stored(b, r.files).files = r.files BY StoredFields
<1>18. Keeps(p, k, Stored(b, r.files))
  BY <1>8, <1>14, <1>15, <1>16, <1>17 DEF Keeps
<1> QED BY <1>5, <1>9, <1>17, <1>18

\* Whatever the limit: what goes into a row fits or is a reference, its new
\* references lead to the files that were written, and what is read from row
\* and files is the payload as JSON has it.
THEOREM PreparedKeeps ==
    ASSUME NEW lim
    PROVE  \A p \in Plain(MaxDepth) : \A k \in Nat :
               /\ Keeps(p, k, Prepared(p, k, lim))
               /\ \A d \in Nat : p \in Nested[d] => Prepared(p, k, lim).value \in Nested[d]
               /\ \/ Fits(Prepared(p, k, lim).value, lim)
                  \/ IsReference(Prepared(p, k, lim).value)
<1> DEFINE g == Prepare(lim)
           Good(p, k) ==
               /\ Keeps(p, k, g[p][k])
               /\ \A d \in Nat : p \in Nested[d] => g[p][k].value \in Nested[d]
               /\ Fits(g[p][k].value, lim) \/ IsReference(g[p][k].value)
           T == {p \in Payload : p \in Plain(MaxDepth) => \A k \in Nat : Good(p, k)}
<1>1. ASSUME NEW p \in Payload, NEW k \in Nat
      PROVE  g[p][k] = IF Fits(p, lim) \/ IsReference(p) THEN Stored(p, << >>)
                       ELSE IF IsBranch(p) THEN PreparedBranch(g, p, k, lim)
                       ELSE WriteJson(p, k, << >>)
  <2>1. g[p] = PreparedBy(g, p, lim) BY PrepareDef
  <2> HIDE DEF g
  <2> QED BY <2>1 DEF PreparedBy
<1> HIDE DEF g
<1>2. ASSUME NEW p \in Plain(MaxDepth), NEW k \in Nat, Fits(p, lim) \/ IsReference(p)
      PROVE  Good(p, k)
  <2>1. p \in Payload BY DEF Plain, Payload
  <2>2. g[p][k] = Stored(p, << >>) BY <2>1, <1>1, <1>2
  <2> QED BY <2>2, <1>2, KeptAsItIs, StoredFields
<1>3. ASSUME NEW p \in Plain(MaxDepth), NEW k \in Nat, NEW f \in Seq(Plain(MaxDepth)),
             g[p][k] = WriteJson(p, k, f)
      PROVE  Good(p, k)
  BY <1>3, KeptInFile, NestedAtoms
<1>4. << >> \in Seq(Plain(MaxDepth)) OBVIOUS
<1>5. ASSUME NEW p \in Atoms PROVE p \in T
  <2>1. p \in Payload /\ ~IsBranch(p) BY PayloadAtoms, AtomKinds
  <2> SUFFICES ASSUME p \in Plain(MaxDepth), NEW k \in Nat PROVE Good(p, k) BY <2>1
  <2>2. CASE Fits(p, lim) \/ IsReference(p) BY <2>2, <1>2
  <2>3. CASE ~(Fits(p, lim) \/ IsReference(p))
    <3>1. g[p][k] = WriteJson(p, k, << >>) BY <2>1, <2>3, <1>1
    <3> HIDE DEF Good
    <3> QED BY <3>1, <1>3, <1>4
  <2> QED BY <2>2, <2>3
<1>6. ASSUME NEW p \in Payload, IsBranch(p), \A i \in DOMAIN p.items : p.items[i] \in T
      PROVE  p \in T
  <2> SUFFICES ASSUME p \in Plain(MaxDepth), NEW k \in Nat PROVE Good(p, k) OBVIOUS
  <2> DEFINE inside == PreparedItems(g, p.items, k)
  <2>1. ASSUME NEW d \in Nat, p \in Nested[d]
        PROVE  Keeps(p, k, inside) /\ inside.value \in Nested[d]
    <3>1. p.items \in Seq(Plain(MaxDepth)) BY <1>6, PlainItems
    <3>2. \A i \in DOMAIN p.items : p.items[i] \in Plain(MaxDepth) BY <3>1
    <3>3. \A i \in DOMAIN p.items : \A j \in Nat : Good(p.items[i], j) BY <3>2, <1>6
    <3> QED BY <3>3, <2>1, <1>6, BranchKept
  <2>2. Keeps(p, k, inside) BY <2>1, MaxDepthAssumption DEF Plain
  <2>3. CASE Fits(p, lim) \/ IsReference(p) BY <2>3, <1>2
  <2>4. CASE ~(Fits(p, lim) \/ IsReference(p)) /\ Fits(inside.value, lim)
    <3>1. g[p][k] = inside BY <2>4, <1>1, <1>6 DEF PreparedBranch
    <3> HIDE DEF inside
    <3> QED BY <3>1, <2>1, <2>2, <2>4
  <2>5. CASE ~(Fits(p, lim) \/ IsReference(p)) /\ ~Fits(inside.value, lim)
    <3>1. g[p][k] = WriteJson(p, k, inside.files) BY <2>5, <1>1, <1>6 DEF PreparedBranch, Whole
    <3>2. inside.files \in Seq(Plain(MaxDepth)) BY <2>2 DEF Keeps
    <3> HIDE DEF inside, Good
    <3> QED BY <3>1, <3>2, <1>3
  <2> QED BY <2>3, <2>4, <2>5
<1> HIDE DEF T
<1>7. \A p \in Payload : p \in T BY <1>5, <1>6, Structure
<1> HIDE DEF Good
<1>8. \A p \in Plain(MaxDepth) : \A k \in Nat : Good(p, k) BY <1>7 DEF T, Plain, Payload
<1> QED BY <1>8 DEF Good, g, Prepared

-----------------------------------------------------------------------------
(* The invariant                                                           *)

\* How deep the payloads are that the run gets.
Depth == MaxDepth - 4

\* The value v, in a row or on its way, holds the payload p.
StoredAs(v, p, lim, fs, exc) ==
    /\ v \in Payload
    /\ p \in Plain(MaxDepth)
    /\ Fits(v, lim) \/ IsReference(v)
    /\ \A a \in Within[v] : IsReference(a) => a.file \in DOMAIN fs
    /\ Readable(v, fs) => Replace(Restore(fs))[v] = Written(p)
    /\ ~exc => Readable(v, fs)
    /\ IsJson(p) => IsJson(v)

\* What the variables are.
NodeTypeOK ==
    /\ config \in Configs /\ limit \in Limits
    /\ status \in {"queued", "running", "pause_requested", "paused", "succeeded", "failed"}
    /\ step \in {"pending", "running", "succeeded", "failed"}
    /\ DOMAIN row = Columns /\ DOMAIN wrote = Columns
    /\ files \in Seq(Plain(MaxDepth) \union {Gone})
    /\ pc \in Places
    /\ local \in [input : Plain(Depth) \union {None}, memory : Seq(Plain(Depth)),
                  attempts : 0..config.attempts]
    /\ turn \in Nat
    /\ said \in Seq(Plain(Depth)) /\ happened \in Seq(Plain(Depth))
    /\ output \in Plain(Depth + 2) \union {None}
    /\ calls \in [1..config.tools -> Nat]
    /\ full \in BOOLEAN /\ excused \in BOOLEAN
    /\ pauses \in Nat /\ crashes \in Nat

\* What is in the rows, or about to be, holds what was stored.
Rows ==
    /\ \A c \in Columns : row[c] # None =>
           StoredAs(row[c], wrote[c], limit, files, excused) /\ IsJson(row[c])
    /\ row["input"] # None /\ wrote["input"] \in Inputs
    /\ writing # None => pc \in Saving /\ StoredAs(writing, Tree(pc), limit, files, excused)

AllJson(s) == \A i \in DOMAIN s : IsJson(s[i])

\* The memory of an agent is what was said, as far as JSON tells.
Known(memory) ==
    config.kind = "agent" => /\ Len(memory) = Len(happened)
                             /\ \A i \in DOMAIN happened : Written(memory[i]) = Written(happened[i])

\* Where the worker has a run.
Working == Places \ {"idle", "load"}

\* What the worker knows; it knows nothing that JSON cannot express if it was
\* told nothing of the kind.
Heard ==
    /\ pc \in Working => local.input # None /\ IsJson(local.input) /\ Known(local.memory)
    /\ pc = "start" => AllJson(local.memory)
    /\ AllJson(happened) =>
           AllJson(local.memory) /\ AllJson(said) /\ (output # None => IsJson(output))

\* No tool is called more often than the one before it, or than attempts.
Descending == \A t \in DOMAIN calls : t > 1 => calls[t] <= calls[t - 1]
CalledBy(attempts) == attempts < config.attempts /\ \A t \in DOMAIN calls : calls[t] <= attempts

\* The tools that this attempt has called.
Attempted == IF pc = "generate" /\ config.kind = "agent" THEN turn + 1 ELSE turn

\* The calls of the tools, in the attempts before this one and in this one.
Counted ==
    /\ Descending
    /\ \A t \in DOMAIN calls : calls[t] <= config.attempts
    /\ pc \in {"start", "retry", "control", "parked", "begin"} => CalledBy(local.attempts)
    /\ pc \in {"call", "generate", "reflect", "guard", "fail"} =>
           /\ local.attempts < config.attempts
           /\ \A t \in DOMAIN calls : calls[t] <= local.attempts + 1
    /\ pc \in {"call", "generate"} => \A t \in DOMAIN calls : t > Attempted =>
           calls[t] <= local.attempts /\ (t > 1 /\ t = Attempted + 1 => calls[t] < calls[t - 1])
    /\ pc = "call" => config.kind \in {"tool", "agent"}
    /\ pc = "call" /\ config.kind = "tool" => turn = 0
    /\ pc \in {"generate", "reflect", "guard"} => config.kind \in {"prompt", "agent"}

\* Where the run can be taken up, by this worker or another, and with what.
Resumable == \/ pc \in {"load", "control", "parked"}
             \/ pc = "idle" /\ status \in {"queued", "paused"}

StateOf(l) == Branch(<<Book(l), Branch(<<l.input, Branch(l.memory)>>)>>)

TakenUp(l) ==
    /\ l \in [input : Plain(Depth), memory : Seq(Plain(Depth)), attempts : 0..config.attempts]
    /\ wrote["state"] = StateOf(l)
    /\ Known(l.memory)
    /\ CalledBy(l.attempts)

\* The state that is stored is what the run is taken up with.
Saved ==
    /\ Resumable /\ row["state"] = None =>
           happened = << >> /\ \A t \in DOMAIN calls : calls[t] = 0
    /\ Resumable /\ row["state"] # None => TakenUp(Restored(wrote["state"]))
    /\ pc \in {"control", "parked"} => row["state"] # None

\* The answer so far is what a model said, and then one that is guarded.
Answered ==
    /\ pc \in {"call", "generate", "reflect"} /\ turn # 0 => output \in Drafts
    /\ pc = "guard" => output \in Drafts \union {Empty}
    /\ pc \in {"output", "save", "result", "event"} =>
          /\ output # None
          /\ config.guarded /\ config.kind # "tool" => Response(output).data \notin Unfit
    /\ ResponseIsGuarded

\* How the run and its step stand to each other, wherever the worker is.
Ends ==
    /\ RunEndsWithItsStep
    /\ status \in {"queued", "paused"} => pc \in {"idle", "parked"}
    /\ pc = "parked" => status \in {"queued", "paused"}
    /\ status = "failed" => pc = "idle"
    /\ status = "succeeded" => pc \in {"idle", "event", "bury", "letter", "end"}
    /\ pc = "event" => status = "succeeded"
    /\ pc \in {"save", "result", "event"} => step = "succeeded"
    /\ status \in {"queued", "paused"} => step # "succeeded"
    /\ pc \in {"load", "start", "control", "parked", "begin", "call", "generate", "reflect",
               "guard", "fail", "retry", "output"} => step # "succeeded"
    /\ pc \in {"bury", "letter", "end"} /\ step = "succeeded" => full \/ ~AllJson(happened)

-----------------------------------------------------------------------------
(* Plain payloads, and what the program writes itself                      *)

\* How deep the payloads of a run are, and what is made of them.
LEMMA Depths ==
    /\ Depth \in Nat /\ Depth + 4 = MaxDepth
    /\ \A d \in 0..4 : Depth + d \in Nat /\ Depth + d <= MaxDepth
BY PayloadsAssumption, MaxDepthAssumption DEF Depth

LEMMA PlainDeeper == ASSUME NEW d \in Nat, NEW e \in Nat PROVE Plain(d) \subseteq Plain(d + e)
BY NestedDeeper DEF Plain

LEMMA PlainPayload ==
    ASSUME NEW d \in Nat, d <= MaxDepth
    PROVE  Plain(d) \subseteq Plain(MaxDepth) /\ Plain(d) \subseteq Payload
<1>1. MaxDepth - d \in Nat /\ d + (MaxDepth - d) = MaxDepth BY MaxDepthAssumption
<1>2. Plain(d) \subseteq Plain(MaxDepth) BY <1>1, PlainDeeper
<1> QED BY <1>2 DEF Plain, Payload

LEMMA PlainAtom ==
    ASSUME NEW a \in Atoms, ~IsReference(a)
    PROVE  \A d \in Nat : a \in Plain(d)
BY OfAtoms, NestedAtoms DEF Plain

\* A branch of plain payloads is plain, and is written item by item.
LEMMA PlainBranch ==
    ASSUME NEW d \in Nat, d + 1 <= MaxDepth, NEW s \in Seq(Plain(d))
    PROVE  /\ Branch(s) \in Plain(d + 1)
           /\ Written(Branch(s)) = Branch([i \in DOMAIN s |-> Written(s[i])])
           /\ IsJson(Branch(s)) <=> AllJson(s)
<1> DEFINE b == Branch(s)
           P == Plain(d)
           N == Nested[d]
<1>1. b \in Nested[d + 1]
  <2>1. P \subseteq N /\ s \in Seq(P) BY DEF Plain
  <2> HIDE DEF P, N
  <2>2. s \in Seq(N) BY <2>1
  <2> QED BY <2>2, NestedBranch DEF N
<1>2. b \in Payload
  <2>1. MaxDepth - (d + 1) \in Nat /\ (d + 1) + (MaxDepth - (d + 1)) = MaxDepth
    BY MaxDepthAssumption
  <2>2. Nested[d + 1] \subseteq Nested[(d + 1) + (MaxDepth - (d + 1))] 
    BY <2>1, NestedDeeper, d + 1 \in Nat
  <2> QED BY <1>1, <2>1, <2>2 DEF Payload
<1>3. IsBranch(b) /\ b.items = s BY BranchKind
<1> HIDE DEF b
<1>4. \A a : a \in Within[b] <=> \E i \in DOMAIN s : a \in Within[s[i]] BY <1>2, <1>3, OfBranches
<1>5. \A i \in DOMAIN s : s[i] \in P BY DEF P
<1>6. b \in Plain(d + 1) BY <1>1, <1>4, <1>5 DEF Plain
<1>7. Written(b) = Branch([i \in DOMAIN s |-> Written(s[i])])
  BY <1>2, <1>3, OfBranches DEF Written
<1>8. IsJson(b) <=> AllJson(s) BY <1>4 DEF IsJson, AllJson
<1> QED BY <1>6, <1>7, <1>8 DEF b

\* The texts of the program are plain, are JSON, and are no objection.
LEMMA Texts ==
    ASSUME NEW data \in {"book", "empty", "redacted", "fallback_output", "fallback_response"}
    PROVE  /\ \A d \in Nat : Leaf(data, 1) \in Plain(d)
           /\ IsJson(Leaf(data, 1)) /\ ~IsBranch(Leaf(data, 1))
           /\ Leaf(data, 1).data = data
<1>1. data \in Data /\ data \notin DOMAIN AsText  BY TextsAssumption
<1>2. Leaf(data, 1) \in Atoms /\ IsLeaf(Leaf(data, 1)) /\ Leaf(data, 1).data = data
  BY <1>1, LeafKinds
<1>3. ~IsReference(Leaf(data, 1)) /\ ~IsBranch(Leaf(data, 1)) BY <1>2, AtomKinds
<1>4. Within[Leaf(data, 1)] = {Leaf(data, 1)} BY <1>2, OfAtoms
<1>5. IsJson(Leaf(data, 1)) BY <1>1, <1>2, <1>4 DEF IsJson
<1> QED BY <1>2, <1>3, <1>5, PlainAtom

LEMMA Markers ==
    /\ \A d \in Nat : {StandIn, Hidden, Empty, Canned} \subseteq Plain(d)
    /\ \A p \in {StandIn, Hidden, Empty, Canned} : IsJson(p) /\ ~IsBranch(p)
    /\ StandIn.data \notin Unfit /\ Canned.data \notin Unfit
<1>1. StandIn.data = "fallback_output" /\ Canned.data = "fallback_response"
  BY Texts DEF StandIn, Canned
<1>2. StandIn.data \notin Unfit /\ Canned.data \notin Unfit BY <1>1, TextsAssumption
<1>3. ASSUME NEW p \in {StandIn, Hidden, Empty, Canned}
      PROVE  (\A d \in Nat : p \in Plain(d)) /\ IsJson(p) /\ ~IsBranch(p)
  BY Texts DEF StandIn, Hidden, Empty, Canned
<1> QED BY <1>2, <1>3

\* The attempts of a node, as they are stored.
LEMMA Books ==
    ASSUME NEW l, l.attempts \in Nat
    PROVE  /\ \A d \in Nat : Book(l) \in Plain(d)
           /\ IsJson(Book(l)) /\ Book(l).attempts = l.attempts
<1> DEFINE b == Book(l)
<1>1. b \in Leaves /\ IsLeaf(b) /\ b.data = "book" /\ b.attempts = l.attempts
  <2>1. b \in [data : Data, size : Nat, attempts : Nat]
    BY TextsAssumption DEF Book
  <2>2. b.data = "book" /\ b.attempts = l.attempts /\ IsLeaf(b) BY DEF Book, IsLeaf
  <2> QED BY <2>1, <2>2 DEF Leaves
<1> HIDE DEF b
<1>2. b \in Atoms BY <1>1 DEF Atoms
<1>3. ~IsReference(b) /\ Within[b] = {b} BY <1>1, <1>2, AtomKinds, OfAtoms
<1>4. IsJson(b) BY <1>1, <1>3, TextsAssumption DEF IsJson
<1> QED BY <1>1, <1>2, <1>3, <1>4, PlainAtom DEF b

\* What the run gets from outside.
LEMMA PlainInputs ==
    /\ Inputs \subseteq Plain(Depth) /\ \A p \in Inputs : IsJson(p)
    /\ ToolOutputs \subseteq Plain(Depth)
BY PayloadsAssumption, Depths DEF Plain, Depth

LEMMA PlainDrafts ==
    ASSUME NEW draft \in Drafts
    PROVE  (\A d \in Nat : draft \in Plain(d)) /\ IsJson(draft) /\ ~IsBranch(draft)
<1>1. draft \in Leaves /\ IsJson(draft) BY PayloadsAssumption
<1>2. draft \in Atoms BY <1>1 DEF Atoms
<1> QED BY <1>1, <1>2, AtomKinds, PlainAtom

LEMMA NoneIsNoPayload == \A d \in Nat : d <= MaxDepth => None \notin Plain(d)
BY PlainPayload, PayloadsAssumption

-----------------------------------------------------------------------------
(* Rows and files                                                          *)

File == Plain(MaxDepth) \union {Gone}

\* A file that is gone holds nothing that anything could be taken for.
LEMMA GoneIsNoPayload == Gone \notin Payload
<1> SUFFICES ASSUME Gone \in Payload PROVE FALSE OBVIOUS
<1>1. ~IsBranch(Gone) /\ ~IsLeaf(Gone) /\ ~IsReference(Gone)
  BY DEF Gone, IsBranch, IsLeaf, IsReference
<1>2. Gone \in Atoms BY <1>1, PayloadKinds
<1> QED BY <1>1, <1>2, AtomKinds

\* What is stored in files that are not taken away.
LEMMA StoredFresh ==
    ASSUME NEW p \in Plain(MaxDepth), NEW fs \in Seq(File), NEW lim, NEW exc
    PROVE  LET r == Prepared(p, Len(fs), lim)
           IN  /\ StoredAs(r.value, p, lim, fs \o r.files, exc)
               /\ r.files \in Seq(Plain(MaxDepth))
               /\ fs \o r.files \in Seq(File)
               /\ Len(fs \o r.files) = Len(fs) + Len(r.files)
<1> DEFINE r == Prepared(p, Len(fs), lim)
           P == Plain(MaxDepth)
           k == Len(fs)
           f == fs \o r.files
<1>1. k \in Nat OBVIOUS
<1>2. Keeps(p, k, r) /\ (Fits(r.value, lim) \/ IsReference(r.value)) BY <1>1, PreparedKeeps
<1>3. r.value \in Payload /\ p \in Payload
  BY <1>1, PreparedKeeps, MaxDepthAssumption DEF Plain, Payload
<1> HIDE DEF r, P
<1>4. r.files \in Seq(P) BY <1>2 DEF Keeps, P
<1>5. f \in Seq(File) /\ Len(f) = k + Len(r.files) /\ DOMAIN f = 1..Len(f) /\ Len(r.files) \in Nat
      /\ \A i \in 1..Len(r.files) : f[k + i] = r.files[i] /\ r.files[i] \in P
      /\ DOMAIN r.files = 1..Len(r.files)
  <2>1. P \subseteq File BY DEF P, File
  <2> HIDE DEF k
  <2>2. r.files \in Seq(File) BY <1>4, <2>1
  <2> QED BY <1>4, <2>2 DEF k
<1> HIDE DEF f, k
<1>6. Holds(f, k, r.files) BY <1>5 DEF Holds
<1>7. Replace(Restore(f))[r.value] = Written(p) BY <1>2, <1>6 DEF Keeps
<1>8. ASSUME NEW a \in Within[r.value], IsReference(a)
      PROVE  a.file \in DOMAIN f /\ f[a.file] # Gone
  <2>1. a.file \in (k + 1)..(k + Len(r.files)) BY <1>2, <1>8 DEF Keeps
  <2>2. PICK i \in 1..Len(r.files) : a.file = k + i
    <3>1. a.file - k \in 1..Len(r.files) /\ a.file = k + (a.file - k) BY <1>1, <1>5, <2>1
    <3> QED BY <3>1
  <2>3. a.file \in DOMAIN f BY <1>1, <1>5, <2>2
  <2>4. f[a.file] \in Payload BY <1>5, <2>2 DEF P, Plain, Payload
  <2> QED BY <2>3, <2>4, GoneIsNoPayload
<1>9. Readable(r.value, f) BY <1>8 DEF Readable
<1>10. IsJson(p) => IsJson(r.value) BY <1>2 DEF Keeps
<1>11. StoredAs(r.value, p, lim, f, exc)
  BY <1>2, <1>3, <1>7, <1>8, <1>9, <1>10 DEF StoredAs
<1> QED BY <1>4, <1>5, <1>11 DEF r, P, f, k

\* Files that are added take nothing from what is stored, and files that are
\* lost can only take it all.
LEMMA StoredStill ==
    ASSUME NEW v, NEW p, NEW lim, NEW fs, NEW exc, StoredAs(v, p, lim, fs, exc),
           NEW gs, NEW ex2, DOMAIN fs \subseteq DOMAIN gs,
           \A i \in DOMAIN fs : gs[i] = fs[i] \/ gs[i] = Gone,
           ~ex2 => ~exc /\ \A i \in DOMAIN fs : gs[i] = fs[i]
    PROVE  StoredAs(v, p, lim, gs, ex2)
<1>1. v \in Payload /\ \A a \in Within[v] : a \in Atoms /\ (IsReference(a) => a.file \in DOMAIN fs)
  BY WithinAtoms DEF StoredAs
<1>2. ASSUME Readable(v, gs) PROVE Replace(Restore(gs))[v] = Written(p)
  <2>1. \A a \in Within[v] : IsReference(a) => gs[a.file] = fs[a.file]
    BY <1>1, <1>2 DEF Readable
  <2>2. Readable(v, fs) BY <1>2, <2>1 DEF Readable
  <2>3. \A a \in Within[v] : Restore(gs)[a] = Restore(fs)[a] BY <1>1, <2>1 DEF Restore
  <2> QED BY <1>1, <2>2, <2>3, Agree DEF StoredAs
<1>3. ASSUME ~ex2 PROVE Readable(v, gs)
  <2>1. Readable(v, fs) BY <1>3 DEF StoredAs
  <2> QED BY <1>1, <1>3, <2>1 DEF Readable
<1> QED BY <1>1, <1>2, <1>3 DEF StoredAs

\* What is read back is what was stored, as JSON has it.
LEMMA StoredIsRead ==
    ASSUME NEW v, NEW p, NEW lim, NEW fs, NEW exc, StoredAs(v, p, lim, fs, exc), IsJson(v),
           Readable(v, fs)
    PROVE  Materialised(v, fs) = Written(p)
<1> DEFINE new == [a \in Atoms |-> IF IsReference(a) THEN fs[a.file] ELSE a]
<1>1. v \in Payload BY DEF StoredAs
<1>2. \A a \in Within[v] : new[a] = Restore(fs)[a]
  <2>1. \A a \in Within[v] : ~IsReference(a) => InJson[a] = a
    BY <1>1, WithinAtoms, InJsonType DEF IsJson
  <2> QED BY <1>1, <2>1, WithinAtoms DEF Restore
<1> HIDE DEF new
<1>3. Replace(new)[v] = Replace(Restore(fs))[v] BY <1>1, <1>2, Agree
<1>4. Materialised(v, fs) = Replace(new)[v] BY DEF Materialised, new
<1> QED BY <1>3, <1>4 DEF StoredAs

-----------------------------------------------------------------------------
(* The payloads that a node stores.                                        *)

LEMMA PlainOne ==
    ASSUME NEW d \in Nat, d + 1 <= MaxDepth, NEW a \in Plain(d)
    PROVE  /\ Branch(<<a>>) \in Plain(d + 1)
           /\ IsJson(a) => IsJson(Branch(<<a>>))
<1> DEFINE P == Plain(d)
<1>1. <<a>> \in Seq(P) OBVIOUS
<1>2. AllJson(<<a>>) <=> IsJson(a) BY DEF AllJson
<1> QED BY <1>1, <1>2, PlainBranch

LEMMA PlainTwo ==
    ASSUME NEW d \in Nat, d + 1 <= MaxDepth, NEW a \in Plain(d), NEW b \in Plain(d)
    PROVE  /\ Branch(<<a, b>>) \in Plain(d + 1)
           /\ Written(Branch(<<a, b>>)) = Branch(<<Written(a), Written(b)>>)
           /\ IsJson(a) /\ IsJson(b) => IsJson(Branch(<<a, b>>))
<1> DEFINE s == <<a, b>>
           P == Plain(d)
<1>1. s \in Seq(P) OBVIOUS
<1>2. IsJson(a) /\ IsJson(b) => AllJson(s) BY DEF AllJson
<1>3. [i \in DOMAIN s |-> Written(s[i])] = <<Written(a), Written(b)>>
  <2>1. DOMAIN s = 1..2 /\ s[1] = a /\ s[2] = b OBVIOUS
  <2> HIDE DEF s
  <2>2. [i \in DOMAIN s |-> Written(s[i])]
            = [i \in 1..2 |-> IF i = 1 THEN Written(a) ELSE Written(b)]
    BY <2>1
  <2> QED BY <2>2
<1> HIDE DEF s
<1>4. Branch(s) \in Plain(d + 1) /\ Written(Branch(s)) = Branch(<<Written(a), Written(b)>>)
      /\ (IsJson(Branch(s)) <=> AllJson(s))
  BY <1>1, <1>3, PlainBranch
<1> QED BY <1>2, <1>4 DEF s

LEMMA PlainThree ==
    ASSUME NEW d \in Nat, d + 1 <= MaxDepth,
           NEW a \in Plain(d), NEW b \in Plain(d), NEW c \in Plain(d)
    PROVE  /\ Branch(<<a, b, c>>) \in Plain(d + 1)
           /\ IsJson(a) /\ IsJson(b) /\ IsJson(c) => IsJson(Branch(<<a, b, c>>))
<1> DEFINE P == Plain(d)
<1>1. <<a, b, c>> \in Seq(P) OBVIOUS
<1>2. IsJson(a) /\ IsJson(b) /\ IsJson(c) => AllJson(<<a, b, c>>) BY DEF AllJson
<1> QED BY <1>1, <1>2, PlainBranch

-----------------------------------------------------------------------------
(* What a node stores                                                      *)

\* A sequence whose elements are replaced.
LEMMA SameLength ==
    ASSUME NEW S, NEW s \in Seq(S), NEW T, NEW f, f = [i \in DOMAIN s |-> f[i]],
           \A i \in DOMAIN s : f[i] \in T
    PROVE  f \in Seq(T) /\ Len(f) = Len(s) /\ DOMAIN f = DOMAIN s
<1>1. DOMAIN s = 1..Len(s) /\ Len(s) \in Nat OBVIOUS
<1>2. f \in Seq(T) BY <1>1, SeqDef
<1> QED BY <1>1, <1>2

LEMMA ItemsArePlain ==
    ASSUME NEW d \in Nat, d + 1 <= MaxDepth, NEW p \in Plain(d + 1), IsBranch(p)
    PROVE  /\ p.items \in Seq(Plain(d))
           /\ IsJson(p) <=> AllJson(p.items)
<1> DEFINE P == Plain(d)
           N == Nested[d]
           s == p.items
<1>1. p \in Payload BY PlainPayload
<1>2. s \in Seq(N) /\ p = Branch(s) BY NestedBranch DEF Plain
<1>3. \A i \in DOMAIN s : s[i] \in P
  <2>1. \A i \in DOMAIN s : s[i] \in N
    <3> HIDE DEF N, s
    <3> QED BY <1>2
  <2> QED BY <1>1, <2>1, OfBranches DEF Plain
<1> HIDE DEF P, N, s
<1>4. s \in Seq(P)
  <2>1. s = [i \in DOMAIN s |-> s[i]] BY <1>2
  <2> QED BY <1>2, <1>3, <2>1, SameLength
<1>5. IsJson(p) <=> AllJson(s) BY <1>2, <1>4, PlainBranch DEF P
<1> QED BY <1>4, <1>5 DEF P, s

\* What is redacted for the last event is as deep as it was, and JSON if it was.
LEMMA RedactedType ==
    ASSUME NEW d \in Nat, d <= MaxDepth, NEW p \in Plain(d)
    PROVE  Redacted(p) \in Plain(d) /\ (IsJson(p) => IsJson(Redacted(p)))
<1>1. \A e \in Nat : \A a \in Plain(e) : Open(a) \in Plain(e) /\ (IsJson(a) => IsJson(Open(a)))
  BY Markers DEF Open
<1>2. CASE ~IsBranch(p) BY <1>1, <1>2 DEF Redacted
<1>3. CASE IsBranch(p)
  <2>1. PICK e \in Nat : d = e + 1
    <3>1. d # 0 BY <1>3, NestedZeroAtom DEF Plain
    <3>2. d - 1 \in Nat /\ d = (d - 1) + 1 BY <3>1
    <3> QED BY <3>2
  <2> DEFINE s == p.items
             f == [i \in DOMAIN s |-> Open(s[i])]
             P == Plain(e)
  <2>2. s \in Seq(P) /\ (IsJson(p) <=> AllJson(s)) BY <2>1, <1>3, ItemsArePlain
  <2>3. \A i \in DOMAIN s : s[i] \in P
    <3> HIDE DEF P, s
    <3> QED BY <2>2
  <2>4. \A i \in DOMAIN s : f[i] \in P /\ (IsJson(s[i]) => IsJson(f[i])) BY <1>1, <2>3
  <2>5. f \in Seq(P) /\ DOMAIN f = DOMAIN s
    <3>1. f = [i \in DOMAIN s |-> f[i]] OBVIOUS
    <3> HIDE DEF f, P, s
    <3> QED BY <2>2, <2>4, <3>1, SameLength
  <2>6. Redacted(p) = Branch(f) BY <1>3 DEF Redacted
  <2> HIDE DEF f, s
  <2>7. AllJson(s) => AllJson(f) BY <2>4, <2>5 DEF AllJson
  <2>8. Branch(f) \in Plain(e + 1) /\ (IsJson(Branch(f)) <=> AllJson(f))
    BY <2>1, <2>5, PlainBranch
  <2> QED BY <2>1, <2>2, <2>6, <2>7, <2>8
<1> QED BY <1>2, <1>3

\* The last event shows nothing that JSON cannot express if there is nothing.
LEMMA ShownType ==
    ASSUME NodeTypeOK, output # None
    PROVE  /\ Shown \in Plain(Depth + 2)
           /\ IsJson(output) /\ AllJson(said) /\ AllJson(local.memory) => IsJson(Shown)
<1>1. output \in Plain(Depth + 2) BY DEF NodeTypeOK
<1>2. said \in Seq(Plain(Depth)) /\ local.memory \in Seq(Plain(Depth)) BY DEF NodeTypeOK
<1>3. Depth \in Nat /\ Depth + 1 \in Nat /\ Depth + 2 \in Nat /\ (Depth + 1) + 1 = Depth + 2
      /\ Depth + 1 <= MaxDepth /\ Depth + 2 <= MaxDepth /\ Depth <= MaxDepth
  BY Depths
<1>4. config.kind \in {"tool", "prompt", "agent"} BY ConfigsAssumption DEF NodeTypeOK
<1>5. CASE output = StandIn BY <1>3, <1>5, Markers DEF Shown
<1>6. CASE output # StandIn /\ config.kind = "tool"
  <2>1. Shown = Redacted(output) BY <1>6 DEF Shown
  <2> QED BY <1>1, <1>3, <2>1, RedactedType
<1>7. CASE output # StandIn /\ config.kind = "prompt"
  <2>1. Shown = Hidden BY <1>7 DEF Shown
  <2> QED BY <1>3, <2>1, Markers
<1>8. CASE output # StandIn /\ config.kind = "agent"
  <2> DEFINE P == Plain(Depth)
             memory == local.memory
             f == [i \in DOMAIN said |-> Redacted(said[i])]
             g == [i \in DOMAIN memory |-> Recalled(memory[i])]
  <2>1. Shown = Branch(<<Branch(f), Branch(g), Hidden>>) BY <1>8 DEF Shown
  <2>2. /\ \A i \in DOMAIN said : said[i] \in P
        /\ \A i \in DOMAIN memory : memory[i] \in P
    <3> HIDE DEF P, memory
    <3> QED BY <1>2 DEF P, memory
  <2>3. /\ \A i \in DOMAIN said : f[i] \in P /\ (IsJson(said[i]) => IsJson(f[i]))
        /\ \A i \in DOMAIN memory : g[i] \in P /\ (IsJson(memory[i]) => IsJson(g[i]))
    BY <1>3, <2>2, RedactedType, Markers DEF Recalled
  <2>4. f = [i \in DOMAIN said |-> f[i]] /\ g = [i \in DOMAIN memory |-> g[i]] OBVIOUS
  <2> HIDE DEF f, g, memory
  <2>5. f \in Seq(P) /\ DOMAIN f = DOMAIN said /\ g \in Seq(P) /\ DOMAIN g = DOMAIN memory
    <3> HIDE DEF P
    <3>1. said \in Seq(P) /\ memory \in Seq(P) BY <1>2 DEF P, memory
    <3>2. f \in Seq(P) /\ DOMAIN f = DOMAIN said BY <3>1, <2>3, <2>4, SameLength
    <3>3. g \in Seq(P) /\ DOMAIN g = DOMAIN memory BY <3>1, <2>3, <2>4, SameLength
    <3> QED BY <3>2, <3>3
  <2>6. (AllJson(said) => AllJson(f)) /\ (AllJson(memory) => AllJson(g))
    BY <2>3, <2>5 DEF AllJson
  <2>7. Branch(f) \in Plain(Depth + 1) /\ (IsJson(Branch(f)) <=> AllJson(f))
    BY <1>3, <2>5, PlainBranch
  <2>8. Branch(g) \in Plain(Depth + 1) /\ (IsJson(Branch(g)) <=> AllJson(g))
    BY <1>3, <2>5, PlainBranch
  <2>9. Hidden \in Plain(Depth + 1) /\ IsJson(Hidden) BY <1>3, Markers
  <2> QED BY <1>3, <2>1, <2>6, <2>7, <2>8, <2>9, PlainThree DEF memory
<1> QED BY <1>4, <1>5, <1>6, <1>7, <1>8

LEMMA AppendThird == ASSUME NEW a, NEW b, NEW c PROVE Append(<<a, b>>, c) = <<a, b, c>>
<1> DEFINE S == {a, b, c}
           s == <<a, b>>
           t == <<a, b, c>>
<1>1. s \in Seq(S) /\ Len(s) = 2 /\ s[1] = a /\ s[2] = b /\ c \in S OBVIOUS
<1>2. t \in Seq(S) /\ Len(t) = 3 /\ t[1] = a /\ t[2] = b /\ t[3] = c OBVIOUS
<1> HIDE DEF s, t, S
<1>3. Append(s, c) \in Seq(S) /\ Len(Append(s, c)) = 3 BY <1>1
<1>4. Append(s, c)[1] = a /\ Append(s, c)[2] = b BY <1>1
<1>5. Append(s, c)[3] = c
  <2>1. Append(s, c)[Len(s) + 1] = c BY <1>1, AppendProperties
  <2> QED BY <1>1, <2>1
<1>6. Append(s, c) = t
  <2>1. \A i \in 1..3 : i = 1 \/ i = 2 \/ i = 3 OBVIOUS
  <2>2. \A i \in 1..3 : Append(s, c)[i] = t[i] BY <1>2, <1>4, <1>5, <2>1
  <2> QED BY <1>2, <1>3, <2>2, SeqEqual
<1> QED BY <1>6 DEF s, t

\* The execution state is not too deep, is JSON if its parts are, and holds
\* the context of the worker as it is.
LEMMA StateType ==
    ASSUME NodeTypeOK, local.input # None, step = "succeeded" => output # None
    PROVE  /\ State \in Plain(MaxDepth)
           /\ IsJson(local.input) /\ AllJson(local.memory)
                  /\ (step = "succeeded" => IsJson(output)) => IsJson(State)
           /\ step # "succeeded" => State = StateOf(local)
<1> DEFINE P == Plain(Depth + 2)
           m == Branch(local.memory)
           b == Book(local)
<1>1. Depth \in Nat /\ Depth + 1 \in Nat /\ Depth + 2 \in Nat /\ Depth + 3 \in Nat
      /\ (Depth + 1) + 1 = Depth + 2 /\ (Depth + 2) + 1 = Depth + 3 /\ (Depth + 3) + 1 = MaxDepth
      /\ Depth + 1 <= MaxDepth /\ Depth + 3 <= MaxDepth /\ (Depth + 3) + 1 <= MaxDepth
  BY Depths, MaxDepthAssumption
<1>2. local.input \in P /\ (output # None => output \in P)
  BY <1>1, PlainDeeper DEF NodeTypeOK
<1>3. m \in P /\ (IsJson(m) <=> AllJson(local.memory))
  <2>1. local.memory \in Seq(Plain(Depth)) BY DEF NodeTypeOK
  <2>2. m \in Plain(Depth + 1) /\ (IsJson(m) <=> AllJson(local.memory)) BY <1>1, <2>1, PlainBranch
  <2> QED BY <1>1, <2>2, PlainDeeper
<1>4. b \in Plain(Depth + 3) /\ IsJson(b)
  BY <1>1, Books, ConfigsAssumption DEF NodeTypeOK
<1> HIDE DEF m, b
<1>5. CASE step = "succeeded"
  <2> DEFINE c == Branch(<<local.input, m, output>>)
  <2>2. Append(<<local.input, m>>, output) = <<local.input, m, output>> BY AppendThird
  <2>3. State = Branch(<<b, c>>) BY <1>5, <2>2 DEF State, m, b
  <2>4. c \in Plain(Depth + 3) /\ (IsJson(local.input) /\ IsJson(m) /\ IsJson(output) => IsJson(c))
    BY <1>1, <1>2, <1>3, <1>5, PlainThree
  <2> HIDE DEF c
  <2>5. /\ Branch(<<b, c>>) \in Plain((Depth + 3) + 1)
        /\ IsJson(b) /\ IsJson(c) => IsJson(Branch(<<b, c>>))
    BY <1>1, <1>4, <2>4, PlainTwo
  <2> QED BY <1>1, <1>3, <1>4, <1>5, <2>3, <2>4, <2>5
<1>6. CASE step # "succeeded"
  <2> DEFINE c == Branch(<<local.input, m>>)
  <2>1. State = Branch(<<b, c>>) BY <1>6 DEF State, m, b
  <2>2. c \in Plain(Depth + 3) /\ (IsJson(local.input) /\ IsJson(m) => IsJson(c))
    BY <1>1, <1>2, <1>3, PlainTwo
  <2>3. StateOf(local) = Branch(<<b, c>>) BY DEF StateOf, m, b
  <2> HIDE DEF c
  <2>4. /\ Branch(<<b, c>>) \in Plain((Depth + 3) + 1)
        /\ IsJson(b) /\ IsJson(c) => IsJson(Branch(<<b, c>>))
    BY <1>1, <1>4, <2>2, PlainTwo
  <2> QED BY <1>1, <1>3, <1>4, <1>6, <2>1, <2>2, <2>3, <2>4
<1> QED BY <1>5, <1>6

\* The invariant.
Inv == NodeTypeOK /\ Rows /\ Heard /\ Counted /\ Saved /\ Answered /\ Ends

\* What is to be stored is not too deep, and it is JSON if all that was heard is.
LEMMA TreeType ==
    ASSUME NodeTypeOK, Heard, Answered, Ends, pc \in Saving
    PROVE  /\ Tree(pc) \in Plain(MaxDepth)
           /\ pc = "start" \/ AllJson(happened) => IsJson(Tree(pc))
           /\ pc \in {"start", "retry"} => Tree(pc) = StateOf(local)
<1>1. local.input # None /\ IsJson(local.input) BY DEF Heard, Saving, Working, Places
<1>2. Depth \in Nat /\ Depth + 2 \in Nat /\ Depth + 2 <= MaxDepth /\ Depth + 3 \in Nat
      /\ (Depth + 2) + 1 = Depth + 3 /\ Depth + 3 <= MaxDepth
  BY Depths
<1>3. CASE pc \in {"start", "retry"}
  <2>1. Tree(pc) = State /\ step # "succeeded" BY <1>3 DEF Tree, Ends
  <2>2. pc = "start" \/ AllJson(happened) => AllJson(local.memory) BY DEF Heard
  <2> QED BY <1>1, <1>3, <2>1, <2>2, StateType
<1>4. CASE pc \in {"output", "save", "result", "event"}
  <2>1. output # None /\ output \in Plain(Depth + 2) BY <1>4 DEF Answered, NodeTypeOK
  <2>2. AllJson(happened) => AllJson(local.memory) /\ AllJson(said) /\ IsJson(output)
    BY <2>1 DEF Heard
  <2>3. CASE pc = "output" BY <1>2, <2>1, <2>2, <2>3, PlainPayload DEF Tree
  <2>4. CASE pc = "save"
    <3>1. Tree(pc) = State BY <2>4 DEF Tree
    <3> QED BY <1>1, <2>1, <2>2, <2>4, <3>1, StateType
  <2>5. CASE pc = "result"
    <3>1. Tree(pc) = Branch(<<output, output>>) BY <2>5 DEF Tree
    <3>2. /\ Branch(<<output, output>>) \in Plain(Depth + 3)
          /\ IsJson(output) => IsJson(Branch(<<output, output>>))
      BY <1>2, <2>1, PlainTwo
    <3> QED BY <1>2, <2>2, <2>5, <3>1, <3>2, PlainPayload
  <2>6. CASE pc = "event"
    <3>1. Tree(pc) = Branch(<<Hidden, Shown>>) BY <2>6 DEF Tree
    <3>2. Shown \in Plain(Depth + 2) /\ (AllJson(happened) => IsJson(Shown))
      BY <2>1, <2>2, ShownType
    <3>3. Hidden \in Plain(Depth + 2) /\ IsJson(Hidden) BY <1>2, Markers
    <3>4. /\ Branch(<<Hidden, Shown>>) \in Plain(Depth + 3)
          /\ IsJson(Hidden) /\ IsJson(Shown) => IsJson(Branch(<<Hidden, Shown>>))
      BY <1>2, <3>2, <3>3, PlainTwo
    <3> QED BY <1>2, <2>6, <3>1, <3>2, <3>3, <3>4, PlainPayload
  <2> QED BY <1>4, <2>3, <2>4, <2>5, <2>6
<1> QED BY <1>3, <1>4 DEF Saving

\* A state that was written down and read again.
LEMMA StateIsRestored ==
    ASSUME NEW l \in [input : Plain(Depth), memory : Seq(Plain(Depth)),
                      attempts : 0..config.attempts],
           config.attempts \in Nat
    PROVE  LET w == [i \in DOMAIN l.memory |-> Written(l.memory[i])]
           IN  /\ StateOf(l) \in Plain(MaxDepth)
               /\ Restored(Written(StateOf(l))) = [input    |-> Written(l.input),
                                                   memory   |-> w,
                                                   attempts |-> l.attempts]
               /\ Written(l.input) \in Plain(Depth) /\ IsJson(Written(l.input))
               /\ w \in Seq(Plain(Depth)) /\ Len(w) = Len(l.memory) /\ AllJson(w)
               /\ \A i \in DOMAIN l.memory : Written(w[i]) = Written(l.memory[i])
<1> DEFINE s == l.memory
           w == [i \in DOMAIN s |-> Written(s[i])]
           P == Plain(Depth)
           b == Book(l)
           m == Branch(s)
           c == Branch(<<l.input, m>>)
<1>1. Depth \in Nat /\ Depth + 1 \in Nat /\ Depth + 2 \in Nat /\ Depth + 3 \in Nat
      /\ (Depth + 1) + 1 = Depth + 2 /\ (Depth + 2) + 1 = Depth + 3 /\ (Depth + 3) + 1 = MaxDepth
      /\ Depth <= MaxDepth /\ Depth + 1 <= MaxDepth /\ Depth + 2 <= MaxDepth
      /\ (Depth + 3) + 1 <= MaxDepth
  BY Depths, MaxDepthAssumption
<1>2. l.input \in P /\ s \in Seq(P) /\ l.attempts \in Nat OBVIOUS
<1>3. \A i \in DOMAIN s : s[i] \in P
  <2> HIDE DEF s, P
  <2> QED BY <1>2
<1>4. \A p \in P : p \in Payload BY <1>1, PlainPayload
<1>5. \A i \in DOMAIN s : w[i] \in P /\ IsJson(w[i]) /\ Written(w[i]) = Written(s[i])
  BY <1>1, <1>3, <1>4, WrittenType, WrittenTwice
<1>6. w \in Seq(P) /\ Len(w) = Len(s) /\ DOMAIN w = DOMAIN s
  <2>1. w = [i \in DOMAIN s |-> w[i]] OBVIOUS
  <2> HIDE DEF w, P, s
  <2> QED BY <1>2, <1>5, <2>1, SameLength
<1>7. AllJson(w)
  <2> HIDE DEF w
  <2> QED BY <1>5, <1>6 DEF AllJson
<1>8. Written(l.input) \in P /\ IsJson(Written(l.input)) BY <1>1, <1>2, <1>4, WrittenType
<1>9. m \in Plain(Depth + 1) /\ Written(m) = Branch(w) BY <1>1, <1>2, PlainBranch
<1>10. m \in Plain(Depth + 2) /\ l.input \in Plain(Depth + 2) BY <1>1, <1>2, <1>9, PlainDeeper
<1> HIDE DEF m, w, s
<1>11. c \in Plain(Depth + 3) /\ Written(c) = Branch(<<Written(l.input), Branch(w)>>)
  BY <1>1, <1>9, <1>10, PlainTwo
<1>12. b \in Plain(Depth + 3) /\ IsJson(b) /\ b.attempts = l.attempts BY <1>1, <1>2, Books
<1>13. Written(b) = b
  <2>1. b \in Payload BY <1>1, <1>12, PlainPayload
  <2> QED BY <2>1, <1>12, JsonIsWritten
<1> HIDE DEF b, c
<1>14. /\ Branch(<<b, c>>) \in Plain((Depth + 3) + 1)
       /\ Written(Branch(<<b, c>>)) = Branch(<<Written(b), Written(c)>>)
  BY <1>1, <1>11, <1>12, PlainTwo
<1>15. StateOf(l) = Branch(<<b, c>>) BY DEF StateOf, b, c, m, s
<1> DEFINE q == Written(StateOf(l))
<1>16. q = Branch(<<b, Branch(<<Written(l.input), Branch(w)>>)>>) BY <1>11, <1>13, <1>14, <1>15
<1> HIDE DEF q
<1>17. q.items[1] = b /\ q.items[2].items[1] = Written(l.input) /\ q.items[2].items[2].items = w
  BY <1>16 DEF Branch
<1>18. Restored(q) = [input |-> Written(l.input), memory |-> w, attempts |-> l.attempts]
  BY <1>12, <1>17 DEF Restored
<1> QED BY <1>1, <1>5, <1>6, <1>7, <1>8, <1>14, <1>15, <1>18 DEF w, s, q

-----------------------------------------------------------------------------
(* The start                                                               *)

\* The configuration of the node, and the places of its worker.
LEMMA Configuration ==
    ASSUME config \in Configs
    PROVE  /\ config.kind \in {"tool", "prompt", "agent"}
           /\ config.tools \in Nat /\ config.attempts \in Nat /\ config.attempts >= 1
BY ConfigsAssumption

LEMMA PlacesAre ==
    /\ Saving \subseteq Working
    /\ Working = Saving \union {"control", "parked", "begin", "call", "generate", "reflect",
                                "guard", "fail", "bury", "letter", "end"}
    /\ Places = Working \union {"idle", "load"}
    /\ "idle" \notin Working /\ "load" \notin Working /\ "idle" \notin Saving
BY DEF Working, Places, Saving

\* The invariant holds of a run that was just queued.
LEMMA InitInv == Init => Inv
<1> SUFFICES ASSUME Init PROVE Inv OBVIOUS
<1>1. PICK input \in Inputs :
          LET stored == Prepared(input, 0, limit)
          IN  /\ row = [c \in Columns |-> IF c = "input" THEN stored.value ELSE None]
              /\ files = stored.files
              /\ wrote = [c \in Columns |-> IF c = "input" THEN input ELSE None]
  BY DEF Init
<1> DEFINE stored == Prepared(input, 0, limit)
<1>2. config \in Configs /\ limit \in Limits /\ status = "queued" /\ step = "pending"
      /\ pc = "idle" /\ local = Fresh(None) /\ turn = 0 /\ said = << >> /\ output = None
      /\ writing = None /\ happened = << >> /\ calls = [t \in 1..config.tools |-> 0]
      /\ full = FALSE /\ excused = FALSE /\ pauses = 0 /\ crashes = 0
  BY DEF Init
<1>3. input \in Plain(MaxDepth) /\ IsJson(input)
  BY PlainInputs, PlainPayload, Depths, MaxDepthAssumption
<1>4. StoredAs(stored.value, input, limit, files, excused) /\ files \in Seq(File)
  <2>1. << >> \in Seq(File) /\ Len(<< >>) = 0 OBVIOUS
  <2>2. /\ StoredAs(stored.value, input, limit, << >> \o stored.files, excused)
        /\ stored.files \in Seq(Plain(MaxDepth))
        /\ << >> \o stored.files \in Seq(File)
    BY <1>3, <2>1, StoredFresh
  <2> HIDE DEF stored
  <2>3. << >> \o stored.files = stored.files BY <2>2
  <2> QED BY <1>1, <2>2, <2>3 DEF stored
<1>5. "input" \in Columns /\ "state" \in Columns BY DEF Columns
<1>6. row = [c \in Columns |-> IF c = "input" THEN stored.value ELSE None]
      /\ wrote = [c \in Columns |-> IF c = "input" THEN input ELSE None]
  BY <1>1
<1> HIDE DEF stored
<1>7. NodeTypeOK
  <2>1. local \in [input : Plain(Depth) \union {None}, memory : Seq(Plain(Depth)),
                   attempts : 0..config.attempts]
    <3>1. << >> \in Seq(Plain(Depth)) /\ 0 \in 0..config.attempts BY <1>2, Configuration
    <3> QED BY <1>2, <3>1 DEF Fresh
  <2>2. said \in Seq(Plain(Depth)) /\ happened \in Seq(Plain(Depth)) BY <1>2
  <2>3. calls \in [1..config.tools -> Nat] BY <1>2
  <2> QED BY <1>2, <1>4, <1>6, <2>1, <2>2, <2>3 DEF NodeTypeOK, Places, File
<1>8. Rows
  <2>1. stored.value # None /\ IsJson(stored.value)
    BY <1>3, <1>4, PayloadsAssumption DEF StoredAs
  <2> QED BY <1>2, <1>4, <1>5, <1>6, <2>1 DEF Rows
<1>9. Heard
  <2>1. AllJson(local.memory) /\ AllJson(said) BY <1>2 DEF AllJson, Fresh
  <2> QED BY <1>2, <2>1, PlacesAre DEF Heard
<1>10. Counted
  <2>1. \A t \in DOMAIN calls : calls[t] = 0 BY <1>2
  <2>2. DOMAIN calls = 1..config.tools BY <1>2
  <2>3. config.tools \in Nat /\ config.attempts \in Nat BY <1>2, Configuration
  <2>4. Descending BY <2>1, <2>2, <2>3 DEF Descending
  <2> QED BY <1>2, <2>1, <2>3, <2>4 DEF Counted
<1>11. Saved
  <2>1. row["state"] = None BY <1>5, <1>6
  <2>2. \A t \in DOMAIN calls : calls[t] = 0 BY <1>2
  <2> QED BY <1>2, <2>1, <2>2 DEF Saved
<1>12. Answered BY <1>2 DEF Answered, ResponseIsGuarded
<1>13. Ends BY <1>2 DEF Ends, RunEndsWithItsStep, AllJson
<1> QED BY <1>7, <1>8, <1>9, <1>10, <1>11, <1>12, <1>13 DEF Inv

-----------------------------------------------------------------------------
(* The types                                                               *)

LEMMA AppendPlain ==
    ASSUME NEW d \in Nat, NEW s \in Seq(Plain(d)), NEW a \in Plain(d)
    PROVE  Append(s, a) \in Seq(Plain(d))
OBVIOUS

\* The variables of the worker keep their types.
WorkerType ==
    /\ pc \in Places
    /\ local \in [input : Plain(Depth) \union {None}, memory : Seq(Plain(Depth)),
                  attempts : 0..config.attempts]
    /\ turn \in Nat
    /\ said \in Seq(Plain(Depth))
    /\ output \in Plain(Depth + 2) \union {None}

\* The types of what a worker leaves behind, hears and answers.
LEMMA LeaveType == NodeTypeOK /\ Leave /\ config' = config => WorkerType'
<1> SUFFICES ASSUME NodeTypeOK, Leave, config' = config PROVE WorkerType' OBVIOUS
<1>1. << >> \in Seq(Plain(Depth)) /\ 0 \in 0..config.attempts
  BY Configuration DEF NodeTypeOK
<1>2. Fresh(None) \in [input : Plain(Depth) \union {None}, memory : Seq(Plain(Depth)),
                       attempts : 0..config.attempts]
  BY <1>1 DEF Fresh
<1> QED BY <1>1, <1>2 DEF Leave, Goto, WorkerType, Places

LEMMA FailedInType ==
    ASSUME NEW places, NodeTypeOK, FailedIn(places), config' = config PROVE WorkerType'
BY LeaveType DEF FailedIn, NodeTypeOK, WorkerType, nodeVars, Goto, Places

LEMMA HearType ==
    ASSUME NodeTypeOK, NEW p \in Plain(Depth), Hear(p)
    PROVE  /\ said' \in Seq(Plain(Depth)) /\ happened' \in Seq(Plain(Depth))
           /\ local' \in [input : Plain(Depth) \union {None}, memory : Seq(Plain(Depth)),
                          attempts : 0..config.attempts]
<1>1. Depth \in Nat BY Depths
<1>2. Append(said, p) \in Seq(Plain(Depth)) /\ Append(happened, p) \in Seq(Plain(Depth))
      /\ Append(local.memory, p) \in Seq(Plain(Depth))
  BY <1>1, AppendPlain DEF NodeTypeOK
<1>3. config.kind \in {"tool", "prompt", "agent"} /\ 0 \in 0..config.attempts
  BY Configuration DEF NodeTypeOK
<1>4. local' \in [input : Plain(Depth) \union {None}, memory : Seq(Plain(Depth)),
                  attempts : 0..config.attempts]
  <2> DEFINE P == Plain(Depth)
  <2>1. local \in [input : P \union {None}, memory : Seq(P), attempts : 0..config.attempts]
    BY DEF NodeTypeOK
  <2> HIDE DEF P
  <2>2. CASE config.kind = "agent"
    <3>1. local' = [local EXCEPT !.memory = Append(local.memory, p)] BY <2>2 DEF Hear
    <3>2. Append(local.memory, p) \in Seq(P) BY <1>2 DEF P
    <3> QED BY <2>1, <3>1, <3>2 DEF P
  <2>3. CASE config.kind = "prompt" BY <2>1, <2>3 DEF Hear, P
  <2>4. CASE config.kind = "tool"
    <3>1. local' = [local EXCEPT !.attempts = 0] BY <2>4 DEF Hear
    <3> QED BY <1>3, <2>1, <3>1 DEF P
  <2> QED BY <1>3, <2>2, <2>3, <2>4
<1> QED BY <1>2, <1>4 DEF Hear

LEMMA TurnIs == \A t : Turn(t) \in {"call", "generate", "reflect"}
BY DEF Turn

LEMMA ReplyType ==
    ASSUME NodeTypeOK, NEW response, \A d \in Nat : response \in Plain(d)
    PROVE  Reply(response) \in Plain(Depth + 2)
<1>1. Depth \in Nat /\ Depth + 1 \in Nat /\ Depth + 2 \in Nat /\ (Depth + 1) + 1 = Depth + 2
      /\ Depth + 1 <= MaxDepth /\ Depth + 2 <= MaxDepth
  BY Depths
<1>2. said \in Seq(Plain(Depth)) /\ local.memory \in Seq(Plain(Depth)) BY DEF NodeTypeOK
<1>3. Branch(said) \in Plain(Depth + 1) /\ Branch(local.memory) \in Plain(Depth + 1)
  BY <1>1, <1>2, PlainBranch
<1>4. Branch(<<Branch(said), Branch(local.memory), response>>) \in Plain(Depth + 2)
  BY <1>1, <1>3, PlainThree
<1> QED BY <1>1, <1>4 DEF Reply

\* The state or the input that is loaded.
LEMMA Loaded ==
    ASSUME Inv, LoadRun
    PROVE  \/ /\ \E c \in {"input", "state"} : row[c] # None /\ ~Readable(row[c], files)
              /\ Leave
           \/ /\ pc' = "start"
              /\ local' \in [input : Plain(Depth), memory : Seq(Plain(Depth)),
                             attempts : 0..config.attempts]
              /\ IsJson(local'.input) /\ AllJson(local'.memory)
              /\ Known(local'.memory)
              /\ CalledBy(local'.attempts)
              /\ UNCHANGED <<turn, said, output, writing>>
<1>1. CASE ~ \A c \in {"input", "state"} : row[c] # None => Readable(row[c], files)
  BY <1>1 DEF LoadRun
<1>2. CASE \A c \in {"input", "state"} : row[c] # None => Readable(row[c], files)
  <2>1. pc = "load" /\ pc' = "start" /\ UNCHANGED <<turn, said, output, writing>>
        /\ local' = IF row["state"] = None THEN Fresh(Materialised(row["input"], files))
                                           ELSE Restored(Materialised(row["state"], files))
    BY <1>2 DEF LoadRun, Goto
  <2>2. config.tools \in Nat /\ config.attempts \in Nat /\ config.attempts >= 1
    BY Configuration DEF Inv, NodeTypeOK
  <2>3. "input" \in Columns /\ "state" \in Columns BY DEF Columns
  <2>4. Resumable BY <2>1 DEF Resumable
  <2>5. CASE row["state"] = None
    <3> DEFINE v == row["input"]
               p == wrote["input"]
    <3>1. v # None /\ p \in Inputs /\ StoredAs(v, p, limit, files, excused) /\ IsJson(v)
      BY <2>3 DEF Inv, Rows
    <3>2. Materialised(v, files) = Written(p) BY <1>2, <3>1, StoredIsRead
    <3>3. p \in Plain(Depth) /\ p \in Payload /\ Depth \in Nat
      BY <3>1, PlainInputs, PlainPayload, Depths
    <3>4. Written(p) \in Plain(Depth) /\ IsJson(Written(p)) BY <3>3, WrittenType
    <3>5. local' = Fresh(Written(p)) BY <2>1, <2>5, <3>2
    <3>6. << >> \in Seq(Plain(Depth)) /\ AllJson(<< >>) BY DEF AllJson
    <3>7. happened = << >> /\ \A t \in DOMAIN calls : calls[t] = 0
      BY <2>4, <2>5 DEF Inv, Saved
    <3>8. Known(<< >>) BY <3>7 DEF Known
    <3>9. CalledBy(0) BY <2>2, <3>7 DEF CalledBy
    <3> HIDE DEF v, p
    <3>10. local' = [input |-> Written(p), memory |-> << >>, attempts |-> 0] BY <3>5 DEF Fresh
    <3>11. local'.input = Written(p) /\ local'.memory = << >> /\ local'.attempts = 0 BY <3>10
    <3>12. local' \in [input : Plain(Depth), memory : Seq(Plain(Depth)),
                       attempts : 0..config.attempts]
      BY <2>2, <3>4, <3>6, <3>10
    <3> QED BY <2>1, <3>4, <3>6, <3>8, <3>9, <3>11, <3>12
  <2>6. CASE row["state"] # None
    <3> DEFINE v == row["state"]
               p == wrote["state"]
    <3>1. StoredAs(v, p, limit, files, excused) /\ IsJson(v) BY <2>3, <2>6 DEF Inv, Rows
    <3>2. Materialised(v, files) = Written(p) BY <1>2, <2>6, <3>1, StoredIsRead
    <3>3. PICK l : /\ l \in [input : Plain(Depth), memory : Seq(Plain(Depth)),
                             attempts : 0..config.attempts]
                   /\ p = StateOf(l) /\ Known(l.memory) /\ CalledBy(l.attempts)
      BY <2>4, <2>6 DEF Inv, Saved, TakenUp
    <3> DEFINE w == [i \in DOMAIN l.memory |-> Written(l.memory[i])]
    <3>4. /\ Restored(Written(StateOf(l))) = [input    |-> Written(l.input),
                                              memory   |-> w,
                                              attempts |-> l.attempts]
          /\ Written(l.input) \in Plain(Depth) /\ IsJson(Written(l.input))
          /\ w \in Seq(Plain(Depth)) /\ Len(w) = Len(l.memory) /\ AllJson(w)
          /\ \A i \in DOMAIN l.memory : Written(w[i]) = Written(l.memory[i])
      BY <2>2, <3>3, StateIsRestored
    <3>5. local' = [input |-> Written(l.input), memory |-> w, attempts |-> l.attempts]
      BY <2>1, <2>6, <3>2, <3>3, <3>4
    <3>6. l.memory \in Seq(Plain(Depth)) /\ l.attempts \in 0..config.attempts BY <3>3
    <3>7. happened \in Seq(Plain(Depth)) BY DEF Inv, NodeTypeOK
    <3> HIDE DEF w
    <3>8. Known(w)
      <4> SUFFICES ASSUME config.kind = "agent"
                   PROVE  /\ Len(w) = Len(happened)
                          /\ \A i \in DOMAIN happened : Written(w[i]) = Written(happened[i])
        BY DEF Known
      <4>1. Len(l.memory) = Len(happened)
            /\ \A i \in DOMAIN happened : Written(l.memory[i]) = Written(happened[i])
        BY <3>3 DEF Known
      <4>2. DOMAIN l.memory = DOMAIN happened BY <3>6, <3>7, <4>1
      <4> QED BY <3>4, <4>1, <4>2
    <3> QED BY <2>1, <3>3, <3>4, <3>5, <3>6, <3>8
  <2> QED BY <2>5, <2>6
<1> QED BY <1>1, <1>2

\* What the other steps of the node leave alone.
LEMMA TypeStep == Inv /\ [Next]_vars => NodeTypeOK'
<1> SUFFICES ASSUME Inv, [Next]_vars PROVE NodeTypeOK' OBVIOUS
<1> USE DEF Goto
<1>1. NodeTypeOK /\ Heard /\ Answered /\ Ends BY DEF Inv
<1>2. Depth \in Nat /\ Depth + 2 \in Nat /\ Depth <= MaxDepth /\ Depth + 2 <= MaxDepth BY Depths
<1>3. config.attempts \in Nat /\ config.attempts >= 1
      /\ config.kind \in {"tool", "prompt", "agent"}
  BY <1>1, Configuration DEF NodeTypeOK
<1>4. Plain(Depth) \subseteq Plain(Depth + 2) BY <1>2, PlainDeeper
<1>5. CASE UNCHANGED vars
  BY <1>1, <1>5 DEF NodeTypeOK, vars, runVars, nodeVars, history
<1>6. CASE ClaimRun BY <1>1, <1>6 DEF ClaimRun, NodeTypeOK, nodeVars, history, Places
<1>7. CASE LoadRun
  <2>1. UNCHANGED <<runVars, history>> BY <1>7 DEF LoadRun
  <2>2. WorkerType'
    <3>1. CASE Leave BY <1>1, <2>1, <3>1, LeaveType DEF runVars
    <3>2. CASE /\ pc' = "start"
               /\ local' \in [input : Plain(Depth), memory : Seq(Plain(Depth)),
                              attempts : 0..config.attempts]
               /\ UNCHANGED <<turn, said, output, writing>>
      <4>1. local' \in [input : Plain(Depth) \union {None}, memory : Seq(Plain(Depth)),
                         attempts : 0..config.attempts]
        BY <3>2
      <4>2. config' = config BY <2>1 DEF runVars
      <4>3. UNCHANGED <<turn, said, output>> /\ pc' \in Places BY <3>2 DEF Places, Saving
      <4> QED BY <1>1, <4>1, <4>2, <4>3 DEF WorkerType, NodeTypeOK
    <3> QED BY <1>7, <3>1, <3>2, Loaded
  <2> QED BY <1>1, <2>1, <2>2 DEF NodeTypeOK, WorkerType, runVars, history
<1>8. CASE CheckControl BY <1>1, <1>8 DEF CheckControl, NodeTypeOK, nodeVars, history, Places
<1>9. CASE PollResumed BY <1>1, <1>9 DEF PollResumed, NodeTypeOK, nodeVars, history, Places
<1>10. CASE BeginNode
  <2>1. << >> \in Seq(Plain(Depth)) OBVIOUS
  <2>2. pc' \in Places BY <1>3, <1>10, TurnIs DEF BeginNode, Places
  <2> QED BY <1>1, <1>10, <2>1, <2>2 DEF BeginNode, NodeTypeOK, history
<1>11. CASE CallTool
  <2>1. UNCHANGED <<config, limit, status, step, row, files, writing, wrote, full, excused, pauses,
                    crashes, turn>>
    BY <1>11 DEF CallTool, NodeStep
  <2>2. calls' \in [1..config.tools -> Nat]
    <3>1. calls' = [calls EXCEPT ![turn + 1] = calls[turn + 1] + 1] BY <1>11 DEF CallTool
    <3>2. calls \in [1..config.tools -> Nat] BY <1>1 DEF NodeTypeOK
    <3>3. CASE turn + 1 \in 1..config.tools
      <4>1. calls[turn + 1] + 1 \in Nat BY <3>2, <3>3
      <4> QED BY <3>1, <3>2, <4>1
    <3>4. CASE turn + 1 \notin 1..config.tools
      <4>1. calls' = calls BY <3>1, <3>2, <3>4
      <4> QED BY <3>2, <4>1
    <3> QED BY <3>3, <3>4
  <2>3. CASE \E out \in ToolOutputs :
                 /\ Hear(out)
                 /\ IF config.kind = "tool"
                    THEN output' = out /\ Goto("output")
                    ELSE UNCHANGED output /\ Goto(IF IsJson(out) THEN "generate" ELSE "fail")
    <3>1. PICK out \in ToolOutputs :
                 /\ Hear(out)
                 /\ IF config.kind = "tool"
                    THEN output' = out /\ Goto("output")
                    ELSE UNCHANGED output /\ Goto(IF IsJson(out) THEN "generate" ELSE "fail")
      BY <2>3
    <3>2. out \in Plain(Depth) BY PlainInputs
    <3>3. output' \in Plain(Depth + 2) \union {None} BY <1>1, <1>4, <3>1, <3>2 DEF NodeTypeOK
    <3>4. pc' \in Places
      <4>1. pc' \in {"output", "generate", "fail"} BY <3>1
      <4> QED BY <4>1 DEF Places, Saving
    <3>5. /\ said' \in Seq(Plain(Depth)) /\ happened' \in Seq(Plain(Depth))
          /\ local' \in [input : Plain(Depth) \union {None}, memory : Seq(Plain(Depth)),
                         attempts : 0..config.attempts]
      BY <1>1, <3>1, <3>2, HearType
    <3> QED BY <1>1, <2>1, <2>2, <3>3, <3>4, <3>5 DEF NodeTypeOK
  <2>4. CASE Goto("fail") /\ UNCHANGED <<said, happened, local, output>>
    BY <1>1, <2>1, <2>2, <2>4 DEF NodeTypeOK, Places
  <2> QED BY <1>11, <2>3, <2>4 DEF CallTool
<1>12. CASE Generate
  <2>1. UNCHANGED <<config, limit, status, step, row, files, writing, wrote, full, excused, pauses,
                    crashes, calls>>
    BY <1>12 DEF Generate, NodeStep
  <2>2. CASE Goto("fail") /\ UNCHANGED <<said, happened, local, output, turn>>
    BY <1>1, <2>1, <2>2 DEF NodeTypeOK, Places
  <2>3. ASSUME NEW draft \in Drafts, Hear(draft), output' = draft, turn' = turn + 1,
               pc' \in {"guard", "call", "generate", "reflect"}
        PROVE  NodeTypeOK'
    <3>1. draft \in Plain(Depth) /\ draft \in Plain(Depth + 2) BY <1>2, PlainDrafts
    <3>2. /\ said' \in Seq(Plain(Depth)) /\ happened' \in Seq(Plain(Depth))
          /\ local' \in [input : Plain(Depth) \union {None}, memory : Seq(Plain(Depth)),
                         attempts : 0..config.attempts]
      BY <1>1, <2>3, <3>1, HearType
    <3> QED BY <1>1, <2>1, <2>3, <3>1, <3>2 DEF NodeTypeOK, Places
  <2>4. \A t : Turn(t) \in {"call", "generate", "reflect"} BY TurnIs
  <2> QED BY <1>12, <2>2, <2>3, <2>4 DEF Generate
<1>13. CASE Reflect
  <2>1. output' \in Plain(Depth + 2) \union {None}
    BY <1>1, <1>2, <1>13, PlainDrafts, Markers DEF Reflect, NodeTypeOK
  <2> QED BY <1>1, <1>13, <2>1 DEF Reflect, NodeStep, NodeTypeOK, Places
<1>14. CASE ApplyGuardrails
  <2>1. CASE config.guarded /\ Objection /\ ~config.fallback
    BY <1>1, <1>14, <2>1 DEF ApplyGuardrails, NodeStep, NodeTypeOK, Places
  <2>2. CASE ~(config.guarded /\ Objection /\ ~config.fallback)
    <3> DEFINE response == IF config.guarded /\ Objection THEN Canned ELSE output
    <3>1. pc = "guard" /\ output' = Reply(response) /\ pc' = "output"
          /\ local' = [local EXCEPT !.attempts = 0]
      BY <1>14, <2>2 DEF ApplyGuardrails
    <3>2. \A d \in Nat : response \in Plain(d)
      BY <1>1, <3>1, Markers, PlainDrafts DEF Answered
    <3> HIDE DEF response
    <3>3. output' \in Plain(Depth + 2) BY <1>1, <3>1, <3>2, ReplyType
    <3>4. local' \in [input : Plain(Depth) \union {None}, memory : Seq(Plain(Depth)),
                      attempts : 0..config.attempts]
      <4>1. local \in [input : Plain(Depth) \union {None}, memory : Seq(Plain(Depth)),
                        attempts : 0..config.attempts]
        BY <1>1 DEF NodeTypeOK
      <4>2. 0 \in 0..config.attempts BY <1>3
      <4> QED BY <3>1, <4>1, <4>2
    <3>5. pc' \in Places BY <3>1 DEF Places, Saving
    <3> QED BY <1>1, <1>14, <3>3, <3>4, <3>5 DEF ApplyGuardrails, NodeStep, NodeTypeOK
  <2> QED BY <2>1, <2>2
<1>15. CASE AttemptFails
  <2>1. pc = "fail" /\ local.attempts < config.attempts BY <1>15 DEF AttemptFails, Inv, Counted
  <2>2. local' = local \/ local' = [local EXCEPT !.attempts = local.attempts + 1]
    BY <1>15 DEF AttemptFails
  <2>3. local' \in [input : Plain(Depth) \union {None}, memory : Seq(Plain(Depth)),
                    attempts : 0..config.attempts]
    BY <1>1, <1>3, <2>1, <2>2 DEF NodeTypeOK
  <2>4. output' \in Plain(Depth + 2) \union {None}
    BY <1>1, <1>2, <1>15, Markers DEF AttemptFails, NodeTypeOK
  <2>5. pc' \in Places
    <3>1. pc' \in {"retry", "output", "bury"} BY <1>15 DEF AttemptFails
    <3> QED BY <3>1 DEF Places, Saving
  <2> QED BY <1>1, <1>15, <2>3, <2>4, <2>5 DEF AttemptFails, NodeStep, NodeTypeOK
<1>16. CASE WriteFiles
  <2> DEFINE stored == Prepared(Tree(pc), Len(files), limit)
  <2>1. pc \in Saving /\ UNCHANGED <<config, limit, status, step, row, happened, calls, wrote,
                                     pauses, crashes>>
    BY <1>16 DEF WriteFiles
  <2>2. files \in Seq(File) BY <1>1 DEF NodeTypeOK, File
  <2>3. Tree(pc) \in Plain(MaxDepth) BY <1>1, <2>1, TreeType
  <2>4. stored.files \in Seq(Plain(MaxDepth)) /\ files \o stored.files \in Seq(File)
    BY <2>2, <2>3, StoredFresh
  <2>5. CASE /\ files' = files \o stored.files
             /\ UNCHANGED <<pc, nodeVars, full, excused>>
    <3> HIDE DEF stored
    <3> QED BY <1>1, <2>1, <2>4, <2>5 DEF NodeTypeOK, nodeVars, File
  <2>6. CASE DiskFull(stored) /\ StoringFails /\ excused' = (excused \/ pc = "start")
    <3>1. WorkerType' BY <1>1, <2>1, <2>6, FailedInType DEF StoringFails
    <3>2. PICK n \in 0..(Len(stored.files) - 1) : files' = files \o SubSeq(stored.files, 1, n)
      BY <2>6 DEF DiskFull
    <3>3. files' \in Seq(File)
      <4> DEFINE f == stored.files
                 P == Plain(MaxDepth)
      <4>1. f \in Seq(P) /\ P \subseteq File BY <2>4 DEF File
      <4> HIDE DEF f, P
      <4>2. f \in Seq(File) BY <4>1
      <4>3. n \in 0..Len(f) BY <4>2 DEF f
      <4>4. SubSeq(f, 1, n) \in Seq(File) BY <4>2, <4>3
      <4> QED BY <2>2, <3>2, <4>4 DEF f
    <3>4. full' = TRUE /\ excused' \in BOOLEAN BY <1>1, <2>6 DEF DiskFull, NodeTypeOK
    <3> QED BY <1>1, <2>1, <3>1, <3>3, <3>4 DEF NodeTypeOK, WorkerType, File
  <2> QED BY <1>16, <2>5, <2>6 DEF WriteFiles
<1>17. CASE RefuseRow
  <2>1. UNCHANGED <<config, limit, status, step, row, files, history>> BY <1>17 DEF RefuseRow
  <2>2. WorkerType' BY <1>1, <1>17, <2>1, FailedInType DEF RefuseRow, StoringFails
  <2> QED BY <1>1, <2>1, <2>2 DEF NodeTypeOK, WorkerType, history
<1>18. CASE WriteRow
  <2>1. UNCHANGED <<config, limit, files, happened, calls, full, excused, pauses, crashes>>
    BY <1>18 DEF WriteRow
  <2>2. DOMAIN row' = Columns /\ DOMAIN wrote' = Columns BY <1>1, <1>18 DEF WriteRow, NodeTypeOK
  <2>3. step' \in {"pending", "running", "succeeded", "failed"}
        /\ status' \in {"queued", "running", "pause_requested", "paused", "succeeded", "failed"}
    BY <1>1, <1>18 DEF WriteRow, NodeTypeOK
  <2>4. WorkerType'
    <3>1. CASE pc = "event" BY <1>1, <1>18, <2>1, <3>1, LeaveType DEF WriteRow
    <3>2. CASE pc # "event"
      <4>1. pc' = After(pc) /\ UNCHANGED nodeVars /\ pc \in Saving BY <1>18, <3>2 DEF WriteRow
      <4>2. pc' \in Places BY <3>2, <4>1 DEF After, Saving, Places
      <4> QED BY <1>1, <2>1, <4>1, <4>2 DEF WorkerType, NodeTypeOK, nodeVars
    <3> QED BY <3>1, <3>2
  <2> QED BY <1>1, <2>1, <2>2, <2>3, <2>4 DEF NodeTypeOK, WorkerType
<1>19. CASE FailStep BY <1>1, <1>19 DEF FailStep, NodeTypeOK, nodeVars, history, Places
<1>20. CASE CreateDeadLetter
  <2> DEFINE p      == Branch(<<local.input>>)
             stored == Prepared(p, Len(files), limit)
  <2>1. pc = "letter" /\ UNCHANGED <<config, limit, status, step, row, happened, calls, wrote,
                                     pauses, crashes>>
    BY <1>20 DEF CreateDeadLetter
  <2>2. files \in Seq(File) BY <1>1 DEF NodeTypeOK, File
  <2>3. p \in Plain(MaxDepth)
    <3>1. local.input # None BY <1>1, <2>1 DEF Heard, Working, Places
    <3>2. local.input \in Plain(Depth) BY <1>1, <3>1 DEF NodeTypeOK
    <3>3. Depth + 1 \in Nat /\ Depth + 1 <= MaxDepth BY Depths
    <3>4. p \in Plain(Depth + 1) BY <1>2, <3>2, <3>3, PlainOne
    <3> QED BY <3>3, <3>4, PlainPayload
  <2> HIDE DEF p
  <2>4. stored.files \in Seq(Plain(MaxDepth)) /\ files \o stored.files \in Seq(File)
    BY <2>2, <2>3, StoredFresh
  <2>5. CASE files' = files \o stored.files /\ Goto("end")
             /\ UNCHANGED <<nodeVars, writing, full, excused>>
    <3> HIDE DEF stored
    <3> QED BY <1>1, <2>1, <2>4, <2>5 DEF NodeTypeOK, nodeVars, File, Places
  <2>6. CASE DiskFull(stored) /\ Leave /\ excused' = TRUE
    <3>1. WorkerType' BY <1>1, <2>1, <2>6, LeaveType
    <3>2. PICK n \in 0..(Len(stored.files) - 1) : files' = files \o SubSeq(stored.files, 1, n)
      BY <2>6 DEF DiskFull
    <3>3. files' \in Seq(File)
      <4> DEFINE f == stored.files
                 P == Plain(MaxDepth)
      <4>1. f \in Seq(P) /\ P \subseteq File BY <2>4 DEF File
      <4> HIDE DEF f, P
      <4>2. f \in Seq(File) BY <4>1
      <4>3. n \in 0..Len(f) BY <4>2 DEF f
      <4>4. SubSeq(f, 1, n) \in Seq(File) BY <4>2, <4>3
      <4> QED BY <2>2, <3>2, <4>4 DEF f
    <3>4. full' = TRUE /\ excused' \in BOOLEAN BY <1>1, <2>6 DEF DiskFull, NodeTypeOK
    <3> QED BY <1>1, <2>1, <3>1, <3>3, <3>4 DEF NodeTypeOK, WorkerType, File
  <2> QED BY <1>20, <2>5, <2>6 DEF CreateDeadLetter, p
<1>21. CASE FailRun
  <2>1. UNCHANGED <<config, limit, step, files, history>> /\ Leave /\ status' = "failed"
        /\ DOMAIN row' = Columns
    BY <1>1, <1>21 DEF FailRun, NodeTypeOK
  <2>2. WorkerType' BY <1>1, <2>1, LeaveType
  <2> QED BY <1>1, <2>1, <2>2 DEF NodeTypeOK, WorkerType, history
<1>22. CASE RequestPause BY <1>1, <1>22 DEF RequestPause, NodeTypeOK, nodeVars
<1>23. CASE ResumeRun BY <1>1, <1>23 DEF ResumeRun, NodeTypeOK, nodeVars, history
<1>24. CASE Die
  <2>1. UNCHANGED <<runVars, happened, calls, wrote, full, pauses>> /\ Leave
        /\ crashes' \in Nat /\ excused' \in BOOLEAN
    BY <1>1, <1>24 DEF Die, NodeTypeOK
  <2>2. WorkerType' BY <1>1, <2>1, LeaveType DEF runVars
  <2> QED BY <1>1, <2>1, <2>2 DEF NodeTypeOK, WorkerType, runVars
<1>25. CASE LoseFiles
  <2>1. files \in Seq(File) /\ Gone \in File BY <1>1 DEF NodeTypeOK, File
  <2>2. files' = [k \in DOMAIN files |-> Gone] BY <1>25 DEF LoseFiles
  <2>3. files' \in Seq(File) BY <2>1, <2>2
  <2> QED BY <1>1, <1>25, <2>3 DEF LoseFiles, NodeTypeOK, nodeVars, File
<1> QED BY <1>5, <1>6, <1>7, <1>8, <1>9, <1>10, <1>11, <1>12, <1>13, <1>14, <1>15, <1>16, <1>17,
           <1>18, <1>19, <1>20, <1>21, <1>22, <1>23, <1>24, <1>25 DEF Next

-----------------------------------------------------------------------------
(* Rows                                                                    *)

\* Files are added or lost.
FilesMove ==
    /\ DOMAIN files \subseteq DOMAIN files'
    /\ \A i \in DOMAIN files : files'[i] = files[i] \/ files'[i] = Gone
    /\ ~excused' => ~excused /\ \A i \in DOMAIN files : files'[i] = files[i]

\* Files that stay, and files that are added.
LEMMA FilesStay == UNCHANGED files /\ (excused => excused') => FilesMove
BY DEF FilesMove

LEMMA FilesAdded ==
    ASSUME NodeTypeOK, NEW new \in Seq(File), files' = files \o new, excused => excused'
    PROVE  FilesMove
<1>1. files \in Seq(File) BY DEF NodeTypeOK, File
<1>2. DOMAIN files \subseteq DOMAIN files' /\ \A i \in DOMAIN files : files'[i] = files[i]
  BY <1>1
<1> QED BY <1>2 DEF FilesMove

LEMMA TreeUnchanged ==
    ASSUME UNCHANGED <<pc, nodeVars, step, config>>
    PROVE  Tree(pc)' = Tree(pc)
BY DEF nodeVars, Tree, State, Shown, Book

\* Rows that nothing is written to keep what was stored, whatever becomes of
\* the files.
LEMMA RowsKept ==
    ASSUME Rows, FilesMove, UNCHANGED <<limit, wrote>>,
           \A c \in Columns : row'[c] = row[c] \/ row'[c] = None,
           row'["input"] = row["input"],
           \/ writing' = None
           \/ UNCHANGED <<pc, writing, nodeVars, step, config>>
    PROVE  Rows'
<1>1. ASSUME NEW c \in Columns, row'[c] # None
      PROVE  StoredAs(row'[c], wrote'[c], limit', files', excused') /\ IsJson(row'[c])
  <2>1. row'[c] = row[c] /\ StoredAs(row[c], wrote[c], limit, files, excused) /\ IsJson(row[c])
    BY <1>1 DEF Rows
  <2> QED BY <2>1, StoredStill DEF FilesMove
<1>2. ASSUME writing' # None
      PROVE  pc' \in Saving /\ StoredAs(writing', Tree(pc)', limit', files', excused')
  <2>1. UNCHANGED <<pc, writing, nodeVars, step, config>> BY <1>2
  <2>2. pc \in Saving /\ StoredAs(writing, Tree(pc), limit, files, excused) BY <1>2, <2>1 DEF Rows
  <2>3. Tree(pc)' = Tree(pc) BY <2>1, TreeUnchanged
  <2> QED BY <2>1, <2>2, <2>3, StoredStill DEF FilesMove
<1> QED BY <1>1, <1>2 DEF Rows

\* The steps that leave rows and files alone, and either keep what is being
\* written, or there is nothing any more.
Aside ==
    /\ UNCHANGED <<limit, files, row, wrote>>
    /\ excused => excused'
    /\ \/ writing' = None
       \/ UNCHANGED <<pc, writing, nodeVars, step, config>>

LEMMA RowsAside == Rows /\ Aside => Rows'
BY FilesStay, RowsKept DEF Aside

\* Every step keeps what the rows say: what is being written or was written is
\* the payload that was to be stored.
LEMMA RowsStep == Inv /\ [Next]_vars => Rows'
<1> SUFFICES ASSUME Inv, [Next]_vars PROVE Rows' OBVIOUS
<1> USE DEF Goto
<1>1. NodeTypeOK /\ Rows /\ Heard /\ Answered /\ Ends BY DEF Inv
<1>2. pc \notin Saving => writing = None BY <1>1 DEF Rows
<1>3. CASE UNCHANGED vars
  BY <1>1, <1>3, RowsAside DEF Aside, vars, runVars, nodeVars, history
<1>4. CASE ClaimRun \/ LoadRun \/ CheckControl \/ PollResumed \/ BeginNode \/ FailStep
  <2>1. writing' = None
    BY <1>2, <1>4 DEF ClaimRun, LoadRun, CheckControl, PollResumed, BeginNode, FailStep, Leave,
                      Saving
  <2>2. UNCHANGED <<limit, files, row, wrote, excused>>
    BY <1>4 DEF ClaimRun, LoadRun, CheckControl, PollResumed, BeginNode, FailStep, runVars, history
  <2> QED BY <1>1, <2>1, <2>2, RowsAside DEF Aside
<1>5. CASE CallTool \/ Generate \/ Reflect \/ ApplyGuardrails \/ AttemptFails
  <2>1. pc \notin Saving /\ NodeStep
    BY <1>5 DEF CallTool, Generate, Reflect, ApplyGuardrails, AttemptFails, Saving
  <2> QED BY <1>1, <1>2, <2>1, RowsAside DEF Aside, NodeStep
<1>6. CASE RequestPause \/ ResumeRun
  BY <1>1, <1>6, RowsAside DEF Aside, RequestPause, ResumeRun, nodeVars, history
<1>7. CASE Die
  BY <1>1, <1>7, RowsAside DEF Aside, Die, Leave, runVars
<1>8. CASE LoseFiles
  <2>1. FilesMove BY <1>8 DEF LoseFiles, FilesMove
  <2> QED BY <1>1, <1>8, <2>1, RowsKept DEF LoseFiles
<1>9. CASE RefuseRow
  <2>1. writing' = None BY <1>9 DEF RefuseRow, StoringFails, FailedIn, Leave
  <2> QED BY <1>1, <1>9, <2>1, RowsAside DEF Aside, RefuseRow, history
<1>10. CASE FailRun
  <2>1. writing' = None /\ FilesMove
    BY <1>10, FilesStay DEF FailRun, Leave, history
  <2>2. /\ \A c \in Columns : row'[c] = row[c] \/ row'[c] = None
        /\ row'["input"] = row["input"]
    <3>1. "input" \in DOMAIN row BY <1>1 DEF NodeTypeOK, Columns
    <3> QED BY <1>1, <1>10, <3>1 DEF FailRun, NodeTypeOK
  <2> QED BY <1>1, <1>10, <2>1, <2>2, RowsKept DEF FailRun, history
<1>11. CASE WriteFiles
  <2> DEFINE stored == Prepared(Tree(pc), Len(files), limit)
  <2>1. pc \in Saving /\ writing = None
        /\ UNCHANGED <<config, limit, status, step, row, happened, calls, wrote, pauses, crashes>>
    BY <1>11 DEF WriteFiles
  <2>2. files \in Seq(File) /\ Plain(MaxDepth) \subseteq File BY <1>1 DEF NodeTypeOK, File
  <2>3. Tree(pc) \in Plain(MaxDepth) BY <1>1, <2>1, TreeType
  <2>4. /\ StoredAs(stored.value, Tree(pc), limit, files \o stored.files, excused)
        /\ stored.files \in Seq(Plain(MaxDepth))
    BY <2>2, <2>3, StoredFresh
  <2> HIDE DEF stored
  <2>5. stored.files \in Seq(File)
    <3> DEFINE P == Plain(MaxDepth)
    <3>1. stored.files \in Seq(P) /\ P \subseteq File BY <2>2, <2>4
    <3> HIDE DEF P
    <3> QED BY <3>1
  <2>6. CASE /\ files' = files \o stored.files
             /\ writing' = stored.value
             /\ UNCHANGED <<pc, nodeVars, full, excused>>
    <3>1. FilesMove BY <1>1, <2>5, <2>6, FilesAdded
    <3>2. \A c \in Columns : row[c] # None =>
              StoredAs(row[c], wrote[c], limit, files', excused') /\ IsJson(row[c])
      BY <1>1, <3>1, StoredStill DEF Rows, FilesMove
    <3>3. Tree(pc)' = Tree(pc) BY <2>1, <2>6, TreeUnchanged
    <3>4. pc' \in Saving /\ StoredAs(writing', Tree(pc)', limit', files', excused')
      BY <2>1, <2>4, <2>6, <3>3
    <3> QED BY <1>1, <2>1, <3>2, <3>4 DEF Rows
  <2>7. CASE DiskFull(stored) /\ StoringFails /\ excused' = (excused \/ pc = "start")
    <3>1. PICK n \in 0..(Len(stored.files) - 1) : files' = files \o SubSeq(stored.files, 1, n)
      BY <2>7 DEF DiskFull
    <3>2. SubSeq(stored.files, 1, n) \in Seq(File) BY <2>5
    <3>3. FilesMove BY <1>1, <2>7, <3>1, <3>2, FilesAdded
    <3>4. writing' = None BY <2>7 DEF StoringFails, FailedIn, Leave
    <3> QED BY <1>1, <2>1, <3>3, <3>4, RowsKept
  <2> QED BY <1>11, <2>6, <2>7 DEF WriteFiles, stored
<1>12. CASE CreateDeadLetter
  <2> DEFINE p      == Branch(<<local.input>>)
             stored == Prepared(p, Len(files), limit)
  <2>1. pc = "letter" /\ UNCHANGED <<config, limit, status, step, row, happened, calls, wrote,
                                     pauses, crashes>>
    BY <1>12 DEF CreateDeadLetter
  <2>2. files \in Seq(File) /\ Plain(MaxDepth) \subseteq File BY <1>1 DEF NodeTypeOK, File
  <2>3. p \in Plain(MaxDepth)
    <3>1. local.input # None BY <1>1, <2>1 DEF Heard, Working, Places
    <3>2. local.input \in Plain(Depth) BY <1>1, <3>1 DEF NodeTypeOK
    <3>3. Depth \in Nat /\ Depth + 1 \in Nat /\ Depth + 1 <= MaxDepth BY Depths
    <3>4. p \in Plain(Depth + 1) BY <3>2, <3>3, PlainOne
    <3> QED BY <3>3, <3>4, PlainPayload
  <2> HIDE DEF p
  <2>4. stored.files \in Seq(Plain(MaxDepth)) BY <2>2, <2>3, StoredFresh
  <2> HIDE DEF stored
  <2>5. stored.files \in Seq(File)
    <3> DEFINE P == Plain(MaxDepth)
    <3>1. stored.files \in Seq(P) /\ P \subseteq File BY <2>2, <2>4
    <3> HIDE DEF P
    <3> QED BY <3>1
  <2>6. writing = None BY <1>2, <2>1 DEF Saving
  <2>7. CASE files' = files \o stored.files /\ Goto("end")
             /\ UNCHANGED <<nodeVars, writing, full, excused>>
    <3>1. FilesMove BY <1>1, <2>5, <2>7, FilesAdded
    <3> QED BY <1>1, <2>1, <2>6, <2>7, <3>1, RowsKept
  <2>8. CASE DiskFull(stored) /\ Leave /\ excused' = TRUE
    <3>1. PICK n \in 0..(Len(stored.files) - 1) : files' = files \o SubSeq(stored.files, 1, n)
      BY <2>8 DEF DiskFull
    <3>2. SubSeq(stored.files, 1, n) \in Seq(File) BY <2>5
    <3>3. FilesMove BY <1>1, <2>8, <3>1, <3>2, FilesAdded
    <3>4. writing' = None BY <2>8 DEF Leave
    <3> QED BY <1>1, <2>1, <3>3, <3>4, RowsKept
  <2> QED BY <1>12, <2>7, <2>8 DEF CreateDeadLetter, p, stored
<1>13. CASE WriteRow
  <2>1. pc \in Saving /\ writing # None /\ IsJson(writing) /\ UNCHANGED <<limit, files, excused>>
    BY <1>13 DEF WriteRow
  <2>2. StoredAs(writing, Tree(pc), limit, files, excused) BY <1>1, <2>1 DEF Rows
  <2>3. writing' = None BY <1>13 DEF WriteRow, Leave
  <2>4. Column(pc) \in Columns \ {"input"} BY DEF Column, Columns
  <2>5. /\ wrote' = [wrote EXCEPT ![Column(pc)] = Tree(pc)]
        /\ row' = [row EXCEPT ![Column(pc)] = writing, !["state"] = IF pc = "result" THEN None
                              ELSE IF Column(pc) = "state" THEN writing ELSE @]
    BY <1>13 DEF WriteRow
  <2>6. DOMAIN row = Columns /\ DOMAIN wrote = Columns BY <1>1 DEF NodeTypeOK
  <2>7. "input" \in Columns /\ "state" \in Columns BY DEF Columns
  <2> DEFINE column == Column(pc)
             whole  == Tree(pc)
  <2> HIDE DEF column, whole
  <2>8. ASSUME NEW c \in Columns
        PROVE  \/ row'[c] = None
               \/ c = column /\ row'[c] = writing /\ wrote'[c] = whole
               \/ c # column /\ row'[c] = row[c] /\ wrote'[c] = wrote[c]
    <3>1. wrote'[c] = IF c = column THEN whole ELSE wrote[c] BY <2>5, <2>6 DEF column, whole
    <3>2. CASE c = "state"
      <4>1. row'[c] = IF pc = "result" THEN None
                      ELSE IF column = "state" THEN writing ELSE row[c]
        BY <2>5, <2>6, <2>7, <3>2 DEF column
      <4> QED BY <3>1, <3>2, <4>1
    <3>3. CASE c # "state"
      <4>1. row'[c] = IF c = column THEN writing ELSE row[c]
        BY <2>5, <2>6, <2>7, <3>3 DEF column
      <4> QED BY <3>1, <4>1
    <3> QED BY <3>2, <3>3
  <2>9. \A c \in Columns : row'[c] # None =>
            StoredAs(row'[c], wrote'[c], limit, files, excused) /\ IsJson(row'[c])
    BY <1>1, <2>1, <2>2, <2>8 DEF Rows, whole
  <2>10. row'["input"] = row["input"] /\ wrote'["input"] = wrote["input"]
    BY <2>4, <2>5, <2>6, <2>7
  <2>11. row["input"] # None /\ wrote["input"] \in Inputs BY <1>1 DEF Rows
  <2> QED BY <2>1, <2>3, <2>9, <2>10, <2>11 DEF Rows
<1> QED BY <1>3, <1>4, <1>5, <1>6, <1>7, <1>8, <1>9, <1>10, <1>11, <1>12, <1>13 DEF Next

-----------------------------------------------------------------------------
(* What was heard                                                          *)

\* What is heard is added at the end.
LEMMA AppendJson ==
    ASSUME NEW d \in Nat, NEW s \in Seq(Plain(d)), NEW a \in Plain(d)
    PROVE  AllJson(Append(s, a)) <=> AllJson(s) /\ IsJson(a)
<1> DEFINE P == Plain(d)
           t == Append(s, a)
<1>1. /\ t \in Seq(P) /\ Len(t) = Len(s) + 1 /\ Len(s) \in Nat
      /\ DOMAIN t = 1..Len(t) /\ DOMAIN s = 1..Len(s)
      /\ \A i \in DOMAIN s : t[i] = s[i]
      /\ t[Len(s) + 1] = a
  <2> HIDE DEF P
  <2> QED BY AppendProperties DEF P
<1> HIDE DEF t
<1>2. \A i \in DOMAIN t : i \in DOMAIN s \/ i = Len(s) + 1 BY <1>1
<1>3. Len(s) + 1 \in DOMAIN t /\ \A i \in DOMAIN s : i \in DOMAIN t BY <1>1
<1> QED BY <1>1, <1>2, <1>3 DEF AllJson, t

LEMMA KnownGrows ==
    ASSUME NodeTypeOK, Known(local.memory), NEW a \in Plain(Depth), Hear(a), config' = config
    PROVE  Known(local.memory)'
<1> SUFFICES ASSUME config.kind = "agent"
             PROVE  /\ Len(local'.memory) = Len(happened')
                    /\ \A i \in DOMAIN happened' : Written(local'.memory[i]) = Written(happened'[i])
  BY DEF Known
<1> DEFINE P == Plain(Depth)
           m == local.memory
<1>1. m \in Seq(P) /\ happened \in Seq(P) BY DEF NodeTypeOK
<1>2. local' = [local EXCEPT !.memory = Append(local.memory, a)] /\ happened' = Append(happened, a)
  BY DEF Hear
<1>3. local'.memory = Append(m, a) BY <1>2 DEF NodeTypeOK
<1>4. Len(m) = Len(happened) /\ \A i \in DOMAIN happened : Written(m[i]) = Written(happened[i])
  BY DEF Known
<1> HIDE DEF P, m
<1>5. /\ Len(Append(m, a)) = Len(m) + 1 /\ Append(m, a)[Len(m) + 1] = a
      /\ \A i \in 1..Len(m) : Append(m, a)[i] = m[i]
      /\ Len(m) \in Nat /\ DOMAIN happened = 1..Len(m)
  BY <1>1, <1>4, AppendProperties DEF P
<1>6. /\ Len(Append(happened, a)) = Len(m) + 1 /\ Append(happened, a)[Len(m) + 1] = a
      /\ \A i \in 1..Len(m) : Append(happened, a)[i] = happened[i]
      /\ DOMAIN Append(happened, a) = 1..(Len(m) + 1)
  BY <1>1, <1>4, AppendProperties DEF P
<1>7. ASSUME NEW i \in 1..(Len(m) + 1)
      PROVE  Written(Append(m, a)[i]) = Written(Append(happened, a)[i])
  <2>1. i \in 1..Len(m) \/ i = Len(m) + 1 BY <1>5
  <2> QED BY <1>4, <1>5, <1>6, <2>1
<1> QED BY <1>2, <1>3, <1>5, <1>6, <1>7

\* What has been heard, in the memory and in what was said.
LEMMA HearHeard ==
    ASSUME NodeTypeOK, Heard, pc \in Working, NEW a \in Plain(Depth), Hear(a), config' = config
    PROVE  /\ local'.input = local.input
           /\ Known(local.memory)'
           /\ AllJson(happened') => IsJson(a) /\ AllJson(happened)
           /\ AllJson(happened') => AllJson(local'.memory) /\ AllJson(said')
<1>1. Depth \in Nat /\ said \in Seq(Plain(Depth)) /\ happened \in Seq(Plain(Depth))
      /\ local.memory \in Seq(Plain(Depth))
  BY Depths DEF NodeTypeOK
<1>2. config.kind \in {"tool", "prompt", "agent"} BY Configuration DEF NodeTypeOK
<1>3. Known(local.memory)' BY KnownGrows DEF Heard
<1>4. AllJson(happened') <=> AllJson(happened) /\ IsJson(a) BY <1>1, AppendJson DEF Hear
<1>5. AllJson(said') <=> AllJson(said) /\ IsJson(a) BY <1>1, AppendJson DEF Hear
<1>6. local'.input = local.input /\ local'.memory \in {local.memory, Append(local.memory, a)}
  BY <1>2 DEF Hear, NodeTypeOK
<1>7. AllJson(local'.memory) \/ ~(AllJson(local.memory) /\ IsJson(a)) BY <1>1, <1>6, AppendJson
<1> QED BY <1>3, <1>4, <1>5, <1>6, <1>7 DEF Heard

\* A worker that is gone knows nothing.
LEMMA LeaveHeard == Leave => Heard'
<1> SUFFICES ASSUME Leave PROVE Heard' OBVIOUS
<1>1. local' = Fresh(None) /\ said' = << >> /\ output' = None /\ pc' = "idle" BY DEF Leave, Goto
<1>2. local'.memory = << >> BY <1>1 DEF Fresh
<1>3. AllJson(<< >>) BY DEF AllJson
<1> QED BY <1>1, <1>2, <1>3, PlacesAre DEF Heard

\* Steps at which nothing is heard.
LEMMA HeardKept ==
    ASSUME Heard, UNCHANGED <<config, happened>>,
           local'.input = local.input, local'.memory = local.memory,
           said' = said \/ said' = << >>,
           output' = output \/ (AllJson(happened) => IsJson(output')),
           pc' \in Working => pc \in Working,
           pc' # "start" \/ pc = "start"
    PROVE  Heard'
<1>1. AllJson(<< >>) BY DEF AllJson
<1>2. Known(local.memory) => Known(local.memory)' BY DEF Known
<1> QED BY <1>1, <1>2 DEF Heard

LEMMA FailedInHeard ==
    ASSUME NEW places, Heard, UNCHANGED <<config, happened>>, FailedIn(places), pc \in Working
    PROVE  Heard'
<1>1. CASE pc \in places
  BY <1>1, HeardKept DEF FailedIn, nodeVars, Goto
<1>2. CASE pc \notin places BY <1>2, LeaveHeard DEF FailedIn
<1> QED BY <1>1, <1>2

LEMMA ReplyJson ==
    ASSUME NodeTypeOK, NEW response, \A d \in Nat : response \in Plain(d), IsJson(response),
           AllJson(said), AllJson(local.memory)
    PROVE  IsJson(Reply(response))
<1>1. Depth \in Nat /\ Depth + 1 \in Nat /\ Depth + 2 \in Nat /\ (Depth + 1) + 1 = Depth + 2
      /\ Depth + 1 <= MaxDepth /\ Depth + 2 <= MaxDepth
  BY Depths
<1>2. said \in Seq(Plain(Depth)) /\ local.memory \in Seq(Plain(Depth)) BY DEF NodeTypeOK
<1>3. /\ Branch(said) \in Plain(Depth + 1) /\ Branch(local.memory) \in Plain(Depth + 1)
      /\ IsJson(Branch(said)) /\ IsJson(Branch(local.memory))
  BY <1>1, <1>2, PlainBranch
<1>4. IsJson(Branch(<<Branch(said), Branch(local.memory), response>>))
  BY <1>1, <1>3, PlainThree
<1> QED BY <1>4 DEF Reply

\* Every step keeps the memory of the worker true.
LEMMA HeardStep == Inv /\ [Next]_vars => Heard'
<1> SUFFICES ASSUME Inv, [Next]_vars PROVE Heard' OBVIOUS
<1> USE DEF Goto
<1>1. NodeTypeOK /\ Heard /\ Answered BY DEF Inv
<1>2. config.kind \in {"tool", "prompt", "agent"} BY <1>1, Configuration DEF NodeTypeOK
<1>3. CASE UNCHANGED vars
  BY <1>1, <1>3, HeardKept DEF vars, runVars, nodeVars, history
<1>4. CASE ClaimRun
  BY <1>1, <1>4, HeardKept, PlacesAre DEF ClaimRun, nodeVars, history
<1>5. CASE LoadRun
  <2>1. UNCHANGED <<config, happened>> BY <1>5 DEF LoadRun, runVars, history
  <2>2. CASE Leave BY <2>2, LeaveHeard
  <2>3. CASE /\ pc' = "start"
             /\ local' \in [input : Plain(Depth), memory : Seq(Plain(Depth)),
                            attempts : 0..config.attempts]
             /\ IsJson(local'.input) /\ AllJson(local'.memory)
             /\ Known(local'.memory)
             /\ UNCHANGED <<turn, said, output, writing>>
    <3>1. local'.input \in Plain(Depth) BY <2>3
    <3>2. local'.input # None BY <3>1, NoneIsNoPayload, Depths
    <3>3. Known(local.memory)' BY <2>1, <2>3 DEF Known
    <3> QED BY <1>1, <2>1, <2>3, <3>2, <3>3 DEF Heard
  <2> QED BY <1>5, <2>2, <2>3, Loaded
<1>6. CASE CheckControl \/ PollResumed
  <2>1. pc \in {"control", "parked"} /\ pc' \in {"parked", "begin"}
        /\ UNCHANGED <<config, nodeVars, history>>
    BY <1>6 DEF CheckControl, PollResumed
  <2> QED BY <1>1, <2>1, HeardKept, PlacesAre DEF nodeVars, history
<1>7. CASE BeginNode
  <2>1. pc' # "start" BY <1>2, <1>7, TurnIs DEF BeginNode
  <2>2. pc \in Working BY <1>7, PlacesAre DEF BeginNode
  <2> QED BY <1>1, <1>7, <2>1, <2>2, HeardKept DEF BeginNode, history
<1>8. CASE CallTool
  <2>1. pc \in Working BY <1>8, PlacesAre DEF CallTool
  <2>2. config' = config BY <1>8 DEF CallTool, NodeStep
  <2>3. ASSUME NEW out \in ToolOutputs, Hear(out), output' = out \/ output' = output,
               pc' \in {"output", "generate", "fail"}
        PROVE  Heard'
    <3>1. out \in Plain(Depth) BY PlainInputs
    <3>2. /\ local'.input = local.input /\ Known(local.memory)'
          /\ AllJson(happened') => IsJson(out) /\ AllJson(happened)
          /\ AllJson(happened') => AllJson(local'.memory) /\ AllJson(said')
      BY <1>1, <2>1, <2>2, <2>3, <3>1, HearHeard
    <3> QED BY <1>1, <2>1, <2>3, <3>2 DEF Heard
  <2>4. CASE Goto("fail") /\ UNCHANGED <<said, happened, local, output>>
    BY <1>1, <2>1, <2>2, <2>4, HeardKept
  <2> QED BY <1>8, <2>3, <2>4 DEF CallTool
<1>9. CASE Generate
  <2>1. pc \in Working BY <1>9, PlacesAre DEF Generate
  <2>2. config' = config BY <1>9 DEF Generate, NodeStep
  <2>3. ASSUME NEW draft \in Drafts, Hear(draft), output' = draft,
               pc' \in {"guard", "call", "generate", "reflect"}
        PROVE  Heard'
    <3>1. draft \in Plain(Depth) /\ IsJson(draft) BY PlainDrafts, Depths
    <3>2. /\ local'.input = local.input /\ Known(local.memory)'
          /\ AllJson(happened') => AllJson(local'.memory) /\ AllJson(said')
      BY <1>1, <2>1, <2>2, <2>3, <3>1, HearHeard
    <3> QED BY <1>1, <2>1, <2>3, <3>1, <3>2 DEF Heard
  <2>4. CASE Goto("fail") /\ UNCHANGED <<said, happened, local, output, turn>>
    BY <1>1, <2>1, <2>2, <2>4, HeardKept
  <2>5. \A t : Turn(t) \in {"call", "generate", "reflect"} BY TurnIs
  <2> QED BY <1>9, <2>3, <2>4, <2>5 DEF Generate
<1>10. CASE Reflect
  <2>1. pc \in Working /\ pc' # "start" BY <1>10, PlacesAre DEF Reflect
  <2>2. output' = output \/ IsJson(output')
    BY <1>10, PlainDrafts, Markers DEF Reflect
  <2> QED BY <1>1, <1>10, <2>1, <2>2, HeardKept DEF Reflect, NodeStep
<1>11. CASE ApplyGuardrails
  <2>1. pc \in Working /\ pc' # "start" BY <1>11, PlacesAre DEF ApplyGuardrails
  <2>2. local'.input = local.input /\ local'.memory = local.memory
    BY <1>1, <1>11 DEF ApplyGuardrails, NodeTypeOK
  <2>3. CASE config.guarded /\ Objection /\ ~config.fallback
    BY <1>1, <1>11, <2>1, <2>2, <2>3, HeardKept DEF ApplyGuardrails, NodeStep
  <2>4. CASE ~(config.guarded /\ Objection /\ ~config.fallback)
    <3> DEFINE response == IF config.guarded /\ Objection THEN Canned ELSE output
    <3>1. pc = "guard" /\ output' = Reply(response)
      BY <1>11, <2>4 DEF ApplyGuardrails
    <3>2. (\A d \in Nat : response \in Plain(d)) /\ IsJson(response)
      BY <1>1, <3>1, Markers, PlainDrafts DEF Answered
    <3> HIDE DEF response
    <3>3. AllJson(happened) => IsJson(output') BY <1>1, <3>1, <3>2, ReplyJson DEF Heard
    <3> QED BY <1>1, <1>11, <2>1, <2>2, <3>3, HeardKept DEF ApplyGuardrails, NodeStep
  <2> QED BY <2>3, <2>4
<1>12. CASE AttemptFails
  <2>1. pc \in Working /\ pc' # "start" BY <1>12, PlacesAre DEF AttemptFails
  <2>2. local'.input = local.input /\ local'.memory = local.memory
    BY <1>1, <1>12 DEF AttemptFails, NodeTypeOK
  <2>3. output' = output \/ IsJson(output') BY <1>12, Markers DEF AttemptFails
  <2> QED BY <1>1, <1>12, <2>1, <2>2, <2>3, HeardKept DEF AttemptFails, NodeStep
<1>13. CASE WriteFiles
  <2>1. pc \in Working /\ UNCHANGED <<config, happened>> BY <1>13, PlacesAre DEF WriteFiles
  <2>2. CASE StoringFails BY <1>1, <2>1, <2>2, FailedInHeard DEF StoringFails
  <2>3. CASE UNCHANGED <<pc, nodeVars>> BY <1>1, <2>1, <2>3, HeardKept DEF nodeVars
  <2> QED BY <1>13, <2>2, <2>3 DEF WriteFiles
<1>14. CASE WriteRow
  <2>1. pc \in Working /\ UNCHANGED <<config, happened>> BY <1>14, PlacesAre DEF WriteRow
  <2>2. CASE pc = "event" BY <1>14, <2>2, LeaveHeard DEF WriteRow
  <2>3. CASE pc # "event"
    <3>1. pc' \in {"control", "save", "result", "event"}
      BY <1>14, <2>3 DEF WriteRow, After, Saving
    <3> QED BY <1>1, <1>14, <2>1, <2>3, <3>1, HeardKept DEF WriteRow, nodeVars
  <2> QED BY <2>2, <2>3
<1>15. CASE RefuseRow
  <2>1. pc \in Working /\ UNCHANGED <<config, happened>> /\ StoringFails
    BY <1>15, PlacesAre DEF RefuseRow, history
  <2> QED BY <1>1, <2>1, FailedInHeard DEF StoringFails
<1>16. CASE FailStep
  BY <1>1, <1>16, HeardKept, PlacesAre DEF FailStep, nodeVars, history
<1>17. CASE CreateDeadLetter
  <2>1. CASE Leave BY <2>1, LeaveHeard
  <2>2. CASE Goto("end") /\ UNCHANGED nodeVars
    BY <1>1, <1>17, <2>2, HeardKept, PlacesAre DEF CreateDeadLetter, nodeVars
  <2> QED BY <1>17, <2>1, <2>2 DEF CreateDeadLetter
<1>18. CASE FailRun \/ Die
  <2>1. Leave BY <1>18 DEF FailRun, Die
  <2> QED BY <2>1, LeaveHeard
<1>19. CASE RequestPause \/ ResumeRun \/ LoseFiles
  BY <1>1, <1>19, HeardKept DEF RequestPause, ResumeRun, LoseFiles, nodeVars, history
<1> QED BY <1>3, <1>4, <1>5, <1>6, <1>7, <1>8, <1>9, <1>10, <1>11, <1>12, <1>13, <1>14, <1>15,
           <1>16, <1>17, <1>18, <1>19 DEF Next

-----------------------------------------------------------------------------
(* Calls                                                                   *)

\* Between attempts, and during one.
Resting   == {"start", "retry", "control", "parked", "begin"}
Attempting == {"call", "generate", "reflect", "guard", "fail"}

\* Steps that call no tool.
LEMMA CountedAside ==
    ASSUME Counted, UNCHANGED <<config, calls>>, pc' \notin Resting \union Attempting
    PROVE  Counted'
BY DEF Counted, Descending, Resting, Attempting

\* A worker that rests has made no call in the attempt to come.
LEMMA CountedResting ==
    ASSUME Counted, UNCHANGED <<config, calls>>, pc' \in Resting, CalledBy(local'.attempts)
    PROVE  Counted'
<1>1. pc' \notin Attempting BY DEF Resting, Attempting
<1>2. CalledBy(local.attempts)' BY DEF CalledBy
<1> QED BY <1>1, <1>2 DEF Counted, Descending, Resting, Attempting

LEMMA CountedKept ==
    ASSUME Counted, UNCHANGED <<config, calls, pc, turn, local>>
    PROVE  Counted'
BY DEF Counted, Descending, CalledBy, Attempted

LEMMA CountedAttempt ==
    ASSUME Counted, UNCHANGED <<config, calls>>, local'.attempts = local.attempts,
           pc \in Attempting, pc' \in {"reflect", "guard", "fail"},
           pc' # "fail" => config.kind \in {"prompt", "agent"}
    PROVE  Counted'
BY DEF Counted, Descending, Attempting

LEMMA CountedFailedIn ==
    ASSUME NEW places, Counted, UNCHANGED <<config, calls>>, FailedIn(places)
    PROVE  Counted'
<1>1. pc' \in {"bury", "idle"} BY DEF FailedIn, Leave, Goto
<1> QED BY <1>1, CountedAside DEF Resting, Attempting

\* A call of the next tool: the tools before it have been called in this
\* attempt, and it has not.
LEMMA CountedCall ==
    ASSUME NodeTypeOK, Counted, CallTool PROVE Counted'
<1> USE DEF Goto
<1>1. /\ pc = "call" /\ UNCHANGED <<config, turn>>
      /\ calls' = [calls EXCEPT ![turn + 1] = calls[turn + 1] + 1]
  BY DEF CallTool, NodeStep
<1>2. /\ calls \in [1..config.tools -> Nat] /\ config.tools \in Nat /\ config.attempts \in Nat
      /\ turn \in Nat /\ local.attempts \in 0..config.attempts
      /\ config.kind \in {"tool", "prompt", "agent"}
  BY Configuration DEF NodeTypeOK
<1>3. /\ local.attempts < config.attempts /\ Descending
      /\ \A t \in DOMAIN calls : calls[t] <= config.attempts /\ calls[t] <= local.attempts + 1
      /\ \A t \in DOMAIN calls : t > turn =>
             calls[t] <= local.attempts /\ (t > 1 /\ t = turn + 1 => calls[t] < calls[t - 1])
      /\ config.kind \in {"tool", "agent"} /\ (config.kind = "tool" => turn = 0)
  BY <1>1 DEF Counted, Attempted
<1>4. DOMAIN calls' = DOMAIN calls /\ DOMAIN calls = 1..config.tools BY <1>1, <1>2
<1>5. \A t \in DOMAIN calls : calls'[t] = IF t = turn + 1 THEN calls[t] + 1 ELSE calls[t]
  BY <1>1, <1>2
<1>6. Descending'
  <2> SUFFICES ASSUME NEW t \in DOMAIN calls, t > 1 PROVE calls'[t] <= calls'[t - 1]
    BY <1>4 DEF Descending
  <2>1. t - 1 \in DOMAIN calls /\ calls[t] \in Nat /\ calls[t - 1] \in Nat BY <1>2, <1>4
  <2>2. calls[t] <= calls[t - 1] BY <1>3 DEF Descending
  <2>3. t = turn + 1 => calls[t] < calls[t - 1] BY <1>2, <1>3
  <2> QED BY <1>2, <1>4, <1>5, <2>1, <2>2, <2>3
<1>7. \A t \in DOMAIN calls' : calls'[t] <= config.attempts /\ calls'[t] <= local.attempts + 1
  BY <1>2, <1>3, <1>4, <1>5
<1>8. \/ pc' = "output"
      \/ pc' = "fail" /\ local'.attempts = local.attempts
      \/ pc' = "generate" /\ config.kind = "agent" /\ local'.attempts = local.attempts
  <2>1. CASE \E out \in ToolOutputs :
                 /\ Hear(out)
                 /\ IF config.kind = "tool"
                    THEN output' = out /\ Goto("output")
                    ELSE UNCHANGED output /\ Goto(IF IsJson(out) THEN "generate" ELSE "fail")
    <3>1. CASE config.kind = "tool" BY <2>1, <3>1
    <3>2. CASE config.kind # "tool"
      <4>1. config.kind = "agent" /\ pc' \in {"generate", "fail"} BY <1>3, <2>1, <3>2
      <4>2. PICK out \in ToolOutputs : Hear(out) BY <2>1
      <4>3. local' = [local EXCEPT !.memory = Append(local.memory, out)] BY <4>1, <4>2 DEF Hear
      <4>4. local'.attempts = local.attempts BY <4>3 DEF NodeTypeOK
      <4> QED BY <4>1, <4>4
    <3> QED BY <3>1, <3>2
  <2>2. CASE Goto("fail") /\ UNCHANGED <<said, happened, local, output>> BY <2>2
  <2> QED BY <2>1, <2>2 DEF CallTool
<1>9. CASE pc' = "output" BY <1>1, <1>6, <1>7, <1>9 DEF Counted
<1>10. CASE pc' = "fail" /\ local'.attempts = local.attempts
  BY <1>1, <1>3, <1>6, <1>7, <1>10 DEF Counted
<1>11. CASE pc' = "generate" /\ config.kind = "agent" /\ local'.attempts = local.attempts
  <2>1. Attempted' = turn + 1 BY <1>1, <1>11 DEF Attempted
  <2>2. ASSUME NEW t \in DOMAIN calls, t > turn + 1
        PROVE  calls'[t] <= local.attempts /\ (t > 1 /\ t = turn + 2 => calls'[t] < calls'[t - 1])
    <3>1. calls'[t] = calls[t] /\ calls[t] <= local.attempts BY <1>2, <1>3, <1>4, <1>5, <2>2
    <3>2. ASSUME t = turn + 2 PROVE calls[t] < calls'[t - 1]
      <4>1. t - 1 = turn + 1 /\ t - 1 \in DOMAIN calls /\ t > 1 BY <1>2, <1>4, <3>2
      <4>2. calls'[t - 1] = calls[t - 1] + 1 BY <1>5, <4>1
      <4>3. calls[t] <= calls[t - 1] BY <1>3, <4>1 DEF Descending
      <4>4. calls[t] \in Nat /\ calls[t - 1] \in Nat BY <1>2, <1>4, <4>1
      <4> QED BY <4>2, <4>3, <4>4
    <3> QED BY <3>1, <3>2
  <2>3. \A t \in DOMAIN calls' : t > Attempted' =>
            /\ calls'[t] <= local'.attempts
            /\ t > 1 /\ t = Attempted' + 1 => calls'[t] < calls'[t - 1]
    BY <1>2, <1>4, <1>11, <2>1, <2>2
  <2> QED BY <1>1, <1>3, <1>6, <1>7, <1>11, <2>3 DEF Counted
<1> QED BY <1>8, <1>9, <1>10, <1>11

\* An attempt starts before the first tool.
LEMMA CountedBegin ==
    ASSUME NodeTypeOK, Counted, BeginNode PROVE Counted'
<1> USE DEF Goto
<1>1. pc = "begin" /\ turn' = 0 /\ UNCHANGED <<config, calls, local>>
  BY DEF BeginNode, history
<1>2. config.kind \in {"tool", "prompt", "agent"} BY Configuration DEF NodeTypeOK
<1>3. /\ pc' \in {"call", "generate", "reflect"}
      /\ pc' = "call" => config.kind \in {"tool", "agent"}
      /\ pc' \in {"generate", "reflect"} => config.kind \in {"prompt", "agent"}
  BY <1>2, TurnIs DEF BeginNode
<1>4. local.attempts < config.attempts /\ \A t \in DOMAIN calls : calls[t] <= local.attempts
  BY <1>1 DEF Counted, CalledBy
<1>5. calls \in [1..config.tools -> Nat] /\ local.attempts \in Nat /\ config.tools \in Nat
  BY Configuration DEF NodeTypeOK
<1>6. \A t \in DOMAIN calls : calls[t] <= local.attempts + 1
  <2>1. \A t \in DOMAIN calls : calls[t] \in Nat BY <1>5
  <2> QED BY <1>4, <1>5, <2>1
<1>7. Attempted' \in {0, 1}  BY <1>1 DEF Attempted
<1>8. CASE Attempted' = 0
  <2>1. \A t \in DOMAIN calls : t = 0 + 1 => ~(t > 1) BY <1>5
  <2>2. \A t \in DOMAIN calls' : t > Attempted' =>
            /\ calls'[t] <= local'.attempts
            /\ t > 1 /\ t = Attempted' + 1 => calls'[t] < calls'[t - 1]
    BY <1>1, <1>4, <1>5, <1>8, <2>1
  <2> QED BY <1>1, <1>3, <1>4, <1>6, <2>2 DEF Counted, Descending
<1>9. CASE Attempted' = 1
  <2>1. pc' = "generate" /\ config.kind = "agent" BY <1>1, <1>9 DEF Attempted
  <2>2. 0 >= config.tools
    <3>1. Turn(0) = "generate" BY <1>1, <2>1 DEF BeginNode
    <3>2. config.turns \in Nat BY ConfigsAssumption DEF NodeTypeOK
    <3> QED BY <1>5, <3>1, <3>2 DEF Turn
  <2>3. \A t : t \notin DOMAIN calls BY <1>5, <2>2
  <2> QED BY <1>1, <1>3, <1>4, <2>3 DEF Counted, Descending
<1> QED BY <1>7, <1>8, <1>9

LEMMA CountedGenerate ==
    ASSUME NodeTypeOK, Counted, Generate PROVE Counted'
<1> USE DEF Goto
<1>1. pc = "generate" /\ UNCHANGED <<config, calls>> /\ config.kind \in {"prompt", "agent"}
  BY DEF Generate, NodeStep, Counted
<1>2. calls \in [1..config.tools -> Nat] /\ local.attempts \in Nat /\ config.tools \in Nat
      /\ config.turns \in Nat /\ turn \in Nat
  BY Configuration, ConfigsAssumption DEF NodeTypeOK
<1>3. CASE Goto("fail") /\ UNCHANGED <<said, happened, local, output, turn>>
  BY <1>1, <1>3, CountedAttempt DEF Attempting
<1>4. ASSUME NEW draft \in Drafts, Hear(draft), turn' = turn + 1,
             pc' = CASE config.kind = "prompt" -> "guard"
                     [] config.kind = "agent" /\ turn < config.tools -> Turn(turn + 1)
                     [] OTHER -> "reflect"
      PROVE  Counted'
  <2>1. local'.attempts = local.attempts
    <3>1. CASE config.kind = "prompt" BY <1>4, <3>1 DEF Hear
    <3>2. CASE config.kind = "agent"
      <4>1. local' = [local EXCEPT !.memory = Append(local.memory, draft)] BY <1>4, <3>2 DEF Hear
      <4> QED BY <4>1 DEF NodeTypeOK
    <3> QED BY <1>1, <3>1, <3>2
  <2>2. CASE pc' \in {"guard", "reflect"} BY <1>1, <2>1, <2>2, CountedAttempt DEF Attempting
  <2>3. CASE pc' \notin {"guard", "reflect"}
    <3>1. config.kind = "agent" /\ turn < config.tools /\ pc' = Turn(turn + 1)
      BY <1>1, <1>4, <2>3
    <3>2. Attempted = turn + 1 BY <1>1, <3>1 DEF Attempted
    <3>3. /\ Descending /\ local.attempts < config.attempts
          /\ \A t \in DOMAIN calls : calls[t] <= config.attempts /\ calls[t] <= local.attempts + 1
          /\ \A t \in DOMAIN calls : t > turn + 1 =>
                 /\ calls[t] <= local.attempts
                 /\ t > 1 /\ t = (turn + 1) + 1 => calls[t] < calls[t - 1]
      BY <1>1, <3>2 DEF Counted
    <3>4. CASE pc' = "call"
      <4>1. Attempted' = turn + 1 BY <1>4, <3>4 DEF Attempted
      <4> QED BY <1>1, <2>1, <3>1, <3>3, <3>4, <4>1 DEF Counted, Descending
    <3>5. CASE pc' = "generate"
      <4>1. Attempted' = (turn + 1) + 1 BY <1>1, <1>4, <3>1, <3>5 DEF Attempted
      <4>2. turn + 1 >= config.tools BY <1>2, <3>1, <3>5 DEF Turn
      <4>3. \A t \in DOMAIN calls : ~(t > (turn + 1) + 1) BY <1>2, <4>2
      <4> QED BY <1>1, <2>1, <3>1, <3>3, <3>5, <4>1, <4>3 DEF Counted, Descending
    <3> QED BY <2>3, <3>1, <3>4, <3>5, TurnIs
  <2> QED BY <2>2, <2>3
<1> QED BY <1>3, <1>4 DEF Generate

\* Every step keeps the count of the calls.
LEMMA CountedStep == Inv /\ [Next]_vars => Counted'
<1> SUFFICES ASSUME Inv, [Next]_vars PROVE Counted' OBVIOUS
<1> USE DEF Goto
<1>1. NodeTypeOK /\ Counted BY DEF Inv
<1>2. calls \in [1..config.tools -> Nat] /\ local.attempts \in Nat /\ config.attempts \in Nat
  BY <1>1, Configuration DEF NodeTypeOK
<1>3. CASE UNCHANGED vars
  BY <1>1, <1>3, CountedKept DEF vars, runVars, nodeVars, history
<1>4. CASE ClaimRun
  BY <1>1, <1>4, CountedAside DEF ClaimRun, nodeVars, history, Resting, Attempting
<1>5. CASE LoadRun
  <2>1. UNCHANGED <<config, calls>> BY <1>5 DEF LoadRun, runVars, history
  <2>2. CASE Leave
    BY <1>1, <2>1, <2>2, CountedAside DEF Leave, Resting, Attempting
  <2>3. CASE pc' = "start" /\ CalledBy(local'.attempts)
    BY <1>1, <2>1, <2>3, CountedResting DEF Resting
  <2> QED BY <1>5, <2>2, <2>3, Loaded
<1>6. CASE CheckControl \/ PollResumed
  <2>1. pc \in {"control", "parked"} /\ pc' \in {"parked", "begin"}
        /\ UNCHANGED <<config, calls, local>>
    BY <1>6 DEF CheckControl, PollResumed, nodeVars, history
  <2>2. CalledBy(local'.attempts) BY <1>1, <2>1 DEF Counted
  <2> QED BY <1>1, <2>1, <2>2, CountedResting DEF Resting
<1>7. CASE BeginNode BY <1>1, <1>7, CountedBegin
<1>8. CASE CallTool BY <1>1, <1>8, CountedCall
<1>9. CASE Generate BY <1>1, <1>9, CountedGenerate
<1>10. CASE Reflect
  <2>1. pc = "reflect" /\ pc' \in {"guard", "fail"} /\ UNCHANGED <<config, calls, local>>
    BY <1>10 DEF Reflect, NodeStep
  <2> QED BY <1>1, <2>1, CountedAttempt DEF Counted, Attempting
<1>11. CASE ApplyGuardrails
  <2>1. pc = "guard" /\ UNCHANGED <<config, calls>>
        /\ (pc' = "output" \/ (pc' = "fail" /\ local' = local))
    <3>1. pc = "guard" /\ UNCHANGED <<config, calls>> BY <1>11 DEF ApplyGuardrails, NodeStep
    <3>2. CASE config.guarded /\ Objection /\ ~config.fallback
      BY <1>11, <3>1, <3>2 DEF ApplyGuardrails
    <3>3. CASE ~(config.guarded /\ Objection /\ ~config.fallback)
      <4>1. pc' = "output" BY <1>11, <3>3 DEF ApplyGuardrails
      <4> QED BY <3>1, <4>1
    <3> QED BY <3>2, <3>3
  <2> QED BY <1>1, <2>1, CountedAttempt, CountedAside DEF Counted, Resting, Attempting
<1>12. CASE AttemptFails
  <2>1. pc = "fail" /\ UNCHANGED <<config, calls>> BY <1>12 DEF AttemptFails, NodeStep
  <2>2. CASE local.attempts + 1 < config.attempts
    <3>0. ~(local.attempts + 1 >= config.attempts /\ config.stand_in) BY <1>2, <2>2
    <3>1. local' = [local EXCEPT !.attempts = local.attempts + 1] /\ pc' = "retry"
      BY <1>12, <2>2, <3>0 DEF AttemptFails
    <3>2. local'.attempts = local.attempts + 1 BY <1>1, <3>1 DEF NodeTypeOK
    <3>3. \A t \in DOMAIN calls : calls[t] <= local.attempts + 1 BY <1>1, <2>1 DEF Counted
    <3> QED BY <1>1, <2>1, <2>2, <3>1, <3>2, <3>3, CountedResting DEF Resting, CalledBy
  <2>3. CASE ~(local.attempts + 1 < config.attempts)
    <3>1. pc' \in {"output", "bury"} BY <1>12, <2>3 DEF AttemptFails
    <3> QED BY <1>1, <2>1, <3>1, CountedAside DEF Resting, Attempting
  <2> QED BY <2>2, <2>3
<1>13. CASE WriteFiles
  <2>1. UNCHANGED <<config, calls>> BY <1>13 DEF WriteFiles
  <2>2. CASE StoringFails BY <1>1, <2>1, <2>2, CountedFailedIn DEF StoringFails
  <2>3. CASE UNCHANGED <<pc, nodeVars>> BY <1>1, <2>1, <2>3, CountedKept DEF nodeVars
  <2> QED BY <1>13, <2>2, <2>3 DEF WriteFiles
<1>14. CASE WriteRow
  <2>1. pc \in Saving /\ UNCHANGED <<config, calls>> BY <1>14 DEF WriteRow
  <2>2. CASE pc \in {"start", "retry"}
    <3>1. pc' = "control" /\ local' = local BY <1>14, <2>2 DEF WriteRow, After, nodeVars
    <3>2. CalledBy(local'.attempts) BY <1>1, <2>2, <3>1 DEF Counted
    <3> QED BY <1>1, <2>1, <3>1, <3>2, CountedResting DEF Resting
  <2>3. CASE pc \notin {"start", "retry"}
    <3>1. pc' \in {"idle", "save", "result", "event"}
      BY <1>14, <2>1, <2>3 DEF WriteRow, After, Saving, Leave
    <3> QED BY <1>1, <2>1, <3>1, CountedAside DEF Resting, Attempting
  <2> QED BY <2>2, <2>3
<1>15. CASE RefuseRow
  BY <1>1, <1>15, CountedFailedIn DEF RefuseRow, StoringFails, history
<1>16. CASE FailStep
  <2>1. pc' \in {"letter", "end"} BY <1>16 DEF FailStep
  <2> QED BY <1>1, <1>16, <2>1, CountedAside DEF FailStep, history, Resting, Attempting
<1>17. CASE CreateDeadLetter
  <2>1. pc' \in {"end", "idle"} BY <1>17 DEF CreateDeadLetter, Leave
  <2> QED BY <1>1, <1>17, <2>1, CountedAside DEF CreateDeadLetter, Resting, Attempting
<1>18. CASE FailRun \/ Die
  <2>1. pc' = "idle" /\ UNCHANGED <<config, calls>>
    BY <1>18 DEF FailRun, Die, Leave, runVars, history
  <2> QED BY <1>1, <2>1, CountedAside DEF Resting, Attempting
<1>19. CASE RequestPause \/ ResumeRun \/ LoseFiles
  BY <1>1, <1>19, CountedKept DEF RequestPause, ResumeRun, LoseFiles, nodeVars, history
<1> QED BY <1>3, <1>4, <1>5, <1>6, <1>7, <1>8, <1>9, <1>10, <1>11, <1>12, <1>13, <1>14, <1>15,
           <1>16, <1>17, <1>18, <1>19 DEF Next

-----------------------------------------------------------------------------
(* The state                                                               *)

\* No worker can take up the run.
LEMMA SavedAside ==
    ASSUME pc' \notin {"load", "control", "parked"},
           pc' # "idle" \/ status' \notin {"queued", "paused"}
    PROVE  Saved'
BY DEF Saved, Resumable

LEMMA SavedKept ==
    ASSUME Saved, UNCHANGED <<config, row, wrote, happened, calls>>, Resumable' => Resumable,
           pc' \in {"control", "parked"} => pc \in {"control", "parked"}
    PROVE  Saved'
<1>1. \A m : Known(m) => Known(m)' BY DEF Known
<1>2. \A n : CalledBy(n) => CalledBy(n)' BY DEF CalledBy
<1>3. \A l : TakenUp(l) => TakenUp(l)' BY <1>1, <1>2 DEF TakenUp
<1> QED BY <1>3 DEF Saved

\* The state that the run would be taken up with is the worker's.
LEMMA StateOfRestored ==
    ASSUME NEW I, NEW M, NEW A, NEW l \in [input : I, memory : M, attempts : A]
    PROVE  Restored(StateOf(l)) = l
<1> DEFINE s == StateOf(l)
<1>1. s.items[1].attempts = l.attempts /\ s.items[2].items[1] = l.input
      /\ s.items[2].items[2].items = l.memory
  BY DEF StateOf, Branch, Book
<1> HIDE DEF s
<1>2. Restored(s) = [input |-> l.input, memory |-> l.memory, attempts |-> l.attempts]
  BY <1>1 DEF Restored
<1>3. l = [input |-> l.input, memory |-> l.memory, attempts |-> l.attempts] OBVIOUS
<1> QED BY <1>2, <1>3 DEF s

\* The state is written: whoever takes up the run has what the worker has.
LEMMA SavedWrite ==
    ASSUME Inv, WriteRow, pc \in {"start", "retry"} PROVE Saved'
<1>1. NodeTypeOK /\ Rows /\ Heard /\ Counted /\ Answered /\ Ends BY DEF Inv
<1>2. pc \in Saving /\ writing # None /\ pc' = "control" /\ Column(pc) = "state"
      /\ UNCHANGED <<config, happened, calls>>
  BY DEF WriteRow, After, Goto, Column
<1>0. local' = local BY <1>2 DEF WriteRow, nodeVars
<1>3. "state" \in Columns BY DEF Columns
<1> DEFINE whole == Tree(pc)
<1>4. whole = StateOf(local) BY <1>1, <1>2, TreeType
<1>5. wrote' = [wrote EXCEPT ![Column(pc)] = whole]
      /\ row' = [row EXCEPT ![Column(pc)] = writing, !["state"] = IF pc = "result" THEN None
                            ELSE IF Column(pc) = "state" THEN writing ELSE @]
  BY DEF WriteRow
<1> HIDE DEF whole
<1>6. wrote'["state"] = StateOf(local) /\ row'["state"] = writing
  BY <1>1, <1>2, <1>3, <1>4, <1>5 DEF NodeTypeOK
<1> DEFINE P == Plain(Depth)
<1>7. local \in [input : P, memory : Seq(P), attempts : 0..config.attempts]
  <2>1. local \in [input : P \union {None}, memory : Seq(P), attempts : 0..config.attempts]
    BY <1>1 DEF NodeTypeOK
  <2>2. local.input # None BY <1>1, <1>2, PlacesAre DEF Heard
  <2> HIDE DEF P
  <2>3. local.input \in P BY <2>1, <2>2
  <2> QED BY <2>1, <2>3
<1>8. Restored(wrote'["state"]) = local BY <1>6, <1>7, StateOfRestored
<1>9. Known(local.memory) /\ CalledBy(local.attempts)
  BY <1>1, <1>2, PlacesAre DEF Heard, Counted
<1>10. \A l : l = local => Known(l.memory)' /\ CalledBy(l.attempts)'
  BY <1>2, <1>9 DEF Known, CalledBy
<1>11. \A l : l = local => TakenUp(l)' BY <1>2, <1>6, <1>7, <1>10 DEF TakenUp
<1>12. row'["state"] # None BY <1>2, <1>6
<1> QED BY <1>8, <1>11, <1>12 DEF Saved

\* Every step keeps the state good enough to take up the run.
LEMMA SavedStep == Inv /\ [Next]_vars => Saved'
<1> SUFFICES ASSUME Inv, [Next]_vars PROVE Saved' OBVIOUS
<1> USE DEF Goto
<1>1. Saved /\ Ends BY DEF Inv
<1>2. pc \notin {"idle", "parked"} => status \notin {"queued", "paused"} BY <1>1 DEF Ends
<1>3. CASE UNCHANGED vars
  BY <1>1, <1>3, SavedKept DEF vars, runVars, nodeVars, history, Resumable
<1>4. CASE ClaimRun \/ CheckControl \/ PollResumed
  <2>1. UNCHANGED <<config, row, wrote, happened, calls>>
    BY <1>4 DEF ClaimRun, CheckControl, PollResumed, history
  <2>2. Resumable' => Resumable
    BY <1>4 DEF ClaimRun, CheckControl, PollResumed, Resumable
  <2>3. pc' \in {"control", "parked"} => pc \in {"control", "parked"}
    BY <1>4 DEF ClaimRun, CheckControl, PollResumed
  <2> QED BY <1>1, <2>1, <2>2, <2>3, SavedKept
<1>5. CASE LoadRun
  <2>1. pc = "load" /\ status' = status /\ pc' \in {"start", "idle"}
    BY <1>5 DEF LoadRun, Leave, runVars
  <2> QED BY <1>2, <2>1, SavedAside
<1>6. CASE BeginNode \/ CallTool \/ Generate \/ Reflect \/ ApplyGuardrails \/ AttemptFails
  <2>1. config.kind \in {"tool", "prompt", "agent"} BY Configuration DEF Inv, NodeTypeOK
  <2>2. \A t : Turn(t) \in {"call", "generate", "reflect"} BY TurnIs
  <2>3. pc' \in {"call", "generate", "reflect", "guard", "fail", "output", "retry", "bury"}
    <3>1. CASE BeginNode BY <2>1, <2>2, <3>1 DEF BeginNode
    <3>2. CASE CallTool BY <3>2 DEF CallTool
    <3>3. CASE Generate BY <2>2, <3>3 DEF Generate
    <3>4. CASE Reflect BY <3>4 DEF Reflect
    <3>5. CASE ApplyGuardrails BY <3>5 DEF ApplyGuardrails
    <3>6. CASE AttemptFails BY <3>6 DEF AttemptFails
    <3> QED BY <1>6, <3>1, <3>2, <3>3, <3>4, <3>5, <3>6
  <2> QED BY <2>3, SavedAside
<1>7. CASE WriteFiles \/ RefuseRow
  <2>1. pc \in Saving /\ status' = status
    BY <1>7 DEF WriteFiles, RefuseRow
  <2>2. pc' \in {pc, "bury", "idle"}
    BY <1>7 DEF WriteFiles, RefuseRow, StoringFails, FailedIn, Leave
  <2> QED BY <1>2, <2>1, <2>2, SavedAside DEF Saving
<1>8. CASE WriteRow
  <2>1. CASE pc \in {"start", "retry"} BY <1>8, <2>1, SavedWrite
  <2>2. CASE pc \notin {"start", "retry"}
    <3>1. pc' \in {"save", "result", "event"} \/ (pc' = "idle" /\ pc = "event" /\ status' = status)
      BY <1>8, <2>2 DEF WriteRow, After, Saving, Leave
    <3> QED BY <1>2, <3>1, SavedAside
  <2> QED BY <2>1, <2>2
<1>9. CASE FailStep \/ CreateDeadLetter
  <2>1. pc \in {"bury", "letter"} /\ status' = status /\ pc' \in {"letter", "end", "idle"}
    BY <1>9 DEF FailStep, CreateDeadLetter, Leave
  <2> QED BY <1>2, <2>1, SavedAside
<1>10. CASE FailRun
  <2>1. pc' = "idle" /\ status' = "failed" BY <1>10 DEF FailRun, Leave
  <2> QED BY <2>1, SavedAside
<1>11. CASE RequestPause \/ ResumeRun \/ LoseFiles
  <2>1. UNCHANGED <<config, row, wrote, happened, calls, pc>>
    BY <1>11 DEF RequestPause, ResumeRun, LoseFiles, history
  <2>2. Resumable' => Resumable
    BY <1>11, <2>1 DEF RequestPause, ResumeRun, LoseFiles, Resumable
  <2> QED BY <1>1, <2>1, <2>2, SavedKept
<1>12. CASE Die
  <2>1. pc # "idle" /\ pc' = "idle" /\ status' = status
        /\ UNCHANGED <<config, row, wrote, happened, calls>>
    BY <1>12 DEF Die, Leave, runVars
  <2>2. Resumable' => Resumable BY <1>2, <2>1 DEF Resumable
  <2> QED BY <1>1, <2>1, <2>2, SavedKept
<1> QED BY <1>3, <1>4, <1>5, <1>6, <1>7, <1>8, <1>9, <1>10, <1>11, <1>12 DEF Next

-----------------------------------------------------------------------------
(* Answers                                                                 *)

Answering == {"call", "generate", "reflect", "guard", "output", "save", "result", "event"}

\* Steps that answer nothing.
LEMMA AnsweredKept ==
    ASSUME Answered, UNCHANGED <<config, output, turn>>,
           step' = step \/ step' # "succeeded", wrote'["output"] = wrote["output"],
           pc' = pc \/ pc' \notin Answering
    PROVE  Answered'
BY DEF Answered, ResponseIsGuarded, Answering

LEMMA AnsweredAside ==
    ASSUME Answered, config' = config,
           step' = step \/ step' # "succeeded", wrote'["output"] = wrote["output"],
           pc' \notin Answering
    PROVE  Answered'
BY DEF Answered, ResponseIsGuarded, Answering

\* The response of what a node answers is the one that it was given.
LEMMA ReplyIsGuarded ==
    ASSUME NodeTypeOK, NEW response, ~IsBranch(response), config.kind # "tool"
    PROVE  Response(Reply(response)) = response
<1>1. CASE config.kind = "agent"
  <2> DEFINE s == <<Branch(said), Branch(local.memory), response>>
  <2>1. s[3] = response OBVIOUS
  <2>2. Reply(response) = Branch(s) BY <1>1 DEF Reply
  <2> HIDE DEF s
  <2> QED BY <2>1, <2>2, BranchKind DEF Response
<1>2. CASE config.kind # "agent" BY <1>2 DEF Reply, Response
<1> QED BY <1>1, <1>2

\* The output is written with the status of the step.
LEMMA AnsweredWrite ==
    ASSUME NodeTypeOK, Answered, WriteRow PROVE Answered'
<1> USE DEF Goto
<1> DEFINE whole == Tree(pc)
<1>1. /\ pc \in Saving /\ config' = config
      /\ wrote' = [wrote EXCEPT ![Column(pc)] = whole]
      /\ step' = IF pc = "output" THEN "succeeded" ELSE step
  BY DEF WriteRow
<1>2. DOMAIN wrote = Columns /\ "output" \in Columns BY DEF NodeTypeOK, Columns
<1>3. pc = "output" => whole = output BY DEF Tree
<1> HIDE DEF whole
<1>4. CASE pc = "output"
  <2>1. wrote'["output"] = output BY <1>1, <1>2, <1>3, <1>4 DEF Column
  <2>2. pc' = "save" /\ output' = output BY <1>4 DEF WriteRow, After, nodeVars
  <2> QED BY <1>1, <1>4, <2>1, <2>2 DEF Answered, ResponseIsGuarded
<1>5. CASE pc # "output"
  <2>1. Column(pc) # "output" BY <1>1, <1>5 DEF Column, Saving
  <2>2. wrote'["output"] = wrote["output"] BY <1>1, <1>2, <2>1
  <2>3. CASE pc = "event"
    <3>1. pc' = "idle" BY <2>3 DEF WriteRow, Leave
    <3> QED BY <1>1, <1>5, <2>2, <3>1, AnsweredAside DEF Answering
  <2>4. CASE pc \in {"start", "retry"}
    <3>1. pc' = "control" BY <2>4 DEF WriteRow, After
    <3> QED BY <1>1, <1>5, <2>2, <3>1, AnsweredAside DEF Answering
  <2>5. CASE pc \in {"save", "result"}
    <3>1. pc' \in {"result", "event"} /\ output' = output BY <2>5 DEF WriteRow, After, nodeVars
    <3> QED BY <1>1, <1>5, <2>2, <2>5, <3>1 DEF Answered, ResponseIsGuarded
  <2> QED BY <1>1, <1>5, <2>3, <2>4, <2>5 DEF Saving
<1> QED BY <1>4, <1>5

\* Every step keeps the responses guarded.
LEMMA AnsweredStep == Inv /\ [Next]_vars => Answered'
<1> SUFFICES ASSUME Inv, [Next]_vars PROVE Answered' OBVIOUS
<1> USE DEF Goto
<1>1. NodeTypeOK /\ Answered /\ Counted BY DEF Inv
<1>2. config.kind \in {"tool", "prompt", "agent"} BY <1>1, Configuration DEF NodeTypeOK
<1>3. Depth + 2 \in Nat /\ Depth + 2 <= MaxDepth /\ Depth \in Nat /\ Depth <= MaxDepth BY Depths
<1>4. CASE UNCHANGED vars
  BY <1>1, <1>4, AnsweredKept DEF vars, runVars, nodeVars, history
<1>5. CASE ClaimRun \/ CheckControl \/ PollResumed \/ FailStep
  <2>1. UNCHANGED <<config, wrote, step>> \/ (UNCHANGED <<config, wrote>> /\ step' = "failed")
    BY <1>5 DEF ClaimRun, CheckControl, PollResumed, FailStep, history
  <2>2. pc' \in {"load", "parked", "begin", "letter", "end"}
    BY <1>5 DEF ClaimRun, CheckControl, PollResumed, FailStep
  <2> QED BY <1>1, <2>1, <2>2, AnsweredAside DEF Answering
<1>6. CASE LoadRun
  <2>1. pc' \in {"start", "idle"} /\ UNCHANGED <<config, wrote, step>>
    BY <1>6 DEF LoadRun, Leave, runVars, history
  <2> QED BY <1>1, <2>1, AnsweredAside DEF Answering
<1>7. CASE BeginNode
  <2>1. /\ turn' = 0 /\ step' = "running" /\ pc' \in {"call", "generate", "reflect"}
    BY <1>2, <1>7, TurnIs DEF BeginNode
  <2> QED BY <2>1 DEF Answered, ResponseIsGuarded
<1>8. CASE CallTool
  <2>1. UNCHANGED <<config, wrote, step, turn>> /\ pc = "call"
        /\ config.kind \in {"tool", "agent"}
    BY <1>1, <1>8 DEF CallTool, NodeStep, Counted
  <2>2. \/ pc' = "fail"
        \/ pc' = "generate" /\ output' = output
        \/ pc' = "output" /\ config.kind = "tool" /\ output' \in ToolOutputs
    BY <1>8 DEF CallTool
  <2>3. CASE pc' = "fail" BY <1>1, <2>1, <2>3, AnsweredAside DEF Answering
  <2>4. CASE pc' = "generate" /\ output' = output
    BY <1>1, <2>1, <2>4 DEF Answered, ResponseIsGuarded
  <2>5. CASE pc' = "output" /\ config.kind = "tool" /\ output' \in ToolOutputs
    <3>1. output' # None BY <1>3, <2>5, PlainInputs, NoneIsNoPayload
    <3> QED BY <1>1, <2>1, <2>5, <3>1 DEF Answered, ResponseIsGuarded
  <2> QED BY <2>2, <2>3, <2>4, <2>5
<1>9. CASE Generate
  <2>1. UNCHANGED <<config, wrote, step>> BY <1>9 DEF Generate, NodeStep
  <2>2. pc' = "fail" \/ (output' \in Drafts /\ pc' \in {"guard", "call", "generate", "reflect"})
    BY <1>9, TurnIs DEF Generate
  <2>3. CASE pc' = "fail" BY <1>1, <2>1, <2>3, AnsweredAside DEF Answering
  <2>4. CASE output' \in Drafts /\ pc' \in {"guard", "call", "generate", "reflect"}
    BY <1>1, <2>1, <2>4 DEF Answered, ResponseIsGuarded
  <2> QED BY <2>2, <2>3, <2>4
<1>10. CASE Reflect
  <2>1. UNCHANGED <<config, wrote, step>> /\ pc = "reflect" BY <1>10 DEF Reflect, NodeStep
  <2>2. pc' = "fail" \/ (output' \in Drafts \union {Empty} /\ pc' = "guard")
    BY <1>1, <1>10 DEF Reflect, Answered
  <2>3. CASE pc' = "fail" BY <1>1, <2>1, <2>3, AnsweredAside DEF Answering
  <2>4. CASE output' \in Drafts \union {Empty} /\ pc' = "guard"
    BY <1>1, <2>1, <2>4 DEF Answered, ResponseIsGuarded
  <2> QED BY <2>2, <2>3, <2>4
<1>11. CASE ApplyGuardrails
  <2>1. UNCHANGED <<config, wrote, step>> /\ pc = "guard" BY <1>11 DEF ApplyGuardrails, NodeStep
  <2>2. CASE config.guarded /\ Objection /\ ~config.fallback
    <3>1. pc' = "fail" BY <1>11, <2>2 DEF ApplyGuardrails
    <3> QED BY <1>1, <2>1, <3>1, AnsweredAside DEF Answering
  <2>3. CASE ~(config.guarded /\ Objection /\ ~config.fallback)
    <3> DEFINE response == IF config.guarded /\ Objection THEN Canned ELSE output
    <3>1. output' = Reply(response) /\ pc' = "output" BY <1>11, <2>3 DEF ApplyGuardrails
    <3>2. /\ \A d \in Nat : response \in Plain(d)
          /\ ~IsBranch(response)
      BY <1>1, <2>1, Markers, PlainDrafts DEF Answered
    <3>3. config.guarded => response.data \notin Unfit BY Markers DEF Objection
    <3> HIDE DEF response
    <3>4. output' # None BY <1>1, <1>3, <3>1, <3>2, ReplyType, NoneIsNoPayload
    <3>5. config.kind # "tool" => Response(output') = response BY <1>1, <3>1, <3>2, ReplyIsGuarded
    <3>6. config.guarded /\ config.kind # "tool" => Response(output').data \notin Unfit
      BY <3>3, <3>5
    <3> QED BY <1>1, <2>1, <3>1, <3>4, <3>6 DEF Answered, ResponseIsGuarded
  <2> QED BY <2>2, <2>3
<1>12. CASE AttemptFails
  <2>1. UNCHANGED <<config, wrote, step>> BY <1>12 DEF AttemptFails, NodeStep
  <2>2. pc' \in {"retry", "bury"} \/ (pc' = "output" /\ output' = StandIn)
    BY <1>12 DEF AttemptFails
  <2>3. CASE pc' \in {"retry", "bury"} BY <1>1, <2>1, <2>3, AnsweredAside DEF Answering
  <2>4. CASE pc' = "output" /\ output' = StandIn
    <3>1. StandIn # None /\ Response(StandIn) = StandIn /\ StandIn.data \notin Unfit
      BY <1>3, Markers, NoneIsNoPayload DEF Response
    <3> QED BY <1>1, <2>1, <2>4, <3>1 DEF Answered, ResponseIsGuarded
  <2> QED BY <2>2, <2>3, <2>4
<1>13. CASE WriteFiles \/ RefuseRow
  <2>1. UNCHANGED <<config, wrote, step>> BY <1>13 DEF WriteFiles, RefuseRow, history
  <2>2. UNCHANGED <<pc, nodeVars>> \/ pc' \in {"bury", "idle"}
    BY <1>13 DEF WriteFiles, RefuseRow, StoringFails, FailedIn, Leave
  <2> QED BY <1>1, <2>1, <2>2, AnsweredKept, AnsweredAside DEF nodeVars, Answering
<1>14. CASE WriteRow BY <1>1, <1>14, AnsweredWrite
<1>15. CASE CreateDeadLetter \/ FailRun \/ Die
  <2>1. UNCHANGED <<config, wrote, step>> /\ pc' \in {"idle", "end"}
    BY <1>15 DEF CreateDeadLetter, FailRun, Die, Leave, runVars, history
  <2> QED BY <1>1, <2>1, AnsweredAside DEF Answering
<1>16. CASE RequestPause \/ ResumeRun \/ LoseFiles
  BY <1>1, <1>16, AnsweredKept DEF RequestPause, ResumeRun, LoseFiles, nodeVars, history
<1> QED BY <1>4, <1>5, <1>6, <1>7, <1>8, <1>9, <1>10, <1>11, <1>12, <1>13, <1>14, <1>15, <1>16
        DEF Next

-----------------------------------------------------------------------------
(* The end of the run                                                      *)

\* Where the step has not succeeded yet.
Held == {"load", "start", "control", "begin", "call", "generate", "reflect", "guard", "fail",
         "retry", "output"}

\* What JSON cannot express was heard.
LEMMA NotAllJson ==
    ~AllJson(happened) <=> \E i \in DOMAIN happened : ~IsJson(happened[i])
BY DEF AllJson

LEMMA EndsIdle ==
    ASSUME Ends, pc' = "idle", UNCHANGED <<status, step, happened>>, full => full',
           status \in {"running", "pause_requested"} => excused'
    PROVE  Ends'
BY DEF Ends, RunEndsWithItsStep

\* The worker goes on with a step that has not succeeded.
LEMMA EndsHeld ==
    ASSUME Ends, pc \in Held, UNCHANGED status, step' # "succeeded",
           pc' \in (Held \union {"bury"}) \ {"load"}
    PROVE  Ends'
<1>1. pc # "idle" /\ pc # "parked" /\ pc \notin {"event", "bury", "letter", "end"} BY DEF Held
<1>2. status \notin {"queued", "paused", "failed", "succeeded"} BY <1>1 DEF Ends
<1>3. pc' \notin {"idle", "parked", "event", "save", "result"} BY DEF Held
<1> QED BY <1>2, <1>3 DEF Ends, RunEndsWithItsStep

\* An error while storing: the run is buried.
LEMMA EndsBuried ==
    ASSUME Ends, pc \in Saving, UNCHANGED <<status, step>>, pc' = "bury",
           step = "succeeded" => full' \/ ~AllJson(happened')
    PROVE  Ends'
<1>1. pc # "idle" /\ pc # "parked" BY DEF Saving
<1>2. status \notin {"queued", "paused", "failed"} BY <1>1 DEF Ends
<1> QED BY <1>2 DEF Ends, RunEndsWithItsStep

LEMMA EndsKept ==
    ASSUME Ends, UNCHANGED <<pc, status, step, happened, full>>, excused => excused'
    PROVE  Ends'
BY DEF Ends, RunEndsWithItsStep

\* A row is written, with the status of the step or of the run.
LEMMA EndsWrite ==
    ASSUME Ends, WriteRow PROVE Ends'
<1> USE DEF Goto
<1>1. /\ pc \in Saving /\ UNCHANGED <<happened, full, excused>>
      /\ step' = IF pc = "output" THEN "succeeded" ELSE step
      /\ status' = IF pc = "result" THEN "succeeded" ELSE status
  BY DEF WriteRow
<1>2. status \notin {"queued", "paused", "failed"} BY <1>1 DEF Ends, Saving
<1>3. pc # "event" => status # "succeeded" BY <1>1 DEF Ends, Saving
<1>4. CASE pc \in {"start", "retry"}
  <2>1. pc' = "control" BY <1>4 DEF WriteRow, After
  <2> QED BY <1>1, <1>4, <2>1, EndsHeld DEF Held, Ends
<1>5. CASE pc = "output"
  <2>1. pc' = "save" BY <1>5 DEF WriteRow, After
  <2> QED BY <1>1, <1>2, <1>3, <1>5, <2>1 DEF Ends, RunEndsWithItsStep
<1>6. CASE pc = "save"
  <2>1. pc' = "result" BY <1>6 DEF WriteRow, After
  <2> QED BY <1>1, <1>2, <1>3, <1>6, <2>1 DEF Ends, RunEndsWithItsStep
<1>7. CASE pc = "result"
  <2>1. pc' = "event" BY <1>7 DEF WriteRow, After
  <2> QED BY <1>1, <1>7, <2>1 DEF Ends, RunEndsWithItsStep
<1>8. CASE pc = "event"
  <2>1. pc' = "idle" /\ status = "succeeded" BY <1>8 DEF WriteRow, Leave, Ends
  <2> QED BY <1>1, <1>8, <2>1, EndsIdle
<1> QED BY <1>1, <1>4, <1>5, <1>6, <1>7, <1>8 DEF Saving

\* Every step keeps the way a run ends.
LEMMA EndsStep == Inv /\ [Next]_vars => Ends'
<1> SUFFICES ASSUME Inv, [Next]_vars PROVE Ends' OBVIOUS
<1> USE DEF Goto
<1>1. NodeTypeOK /\ Rows /\ Heard /\ Answered /\ Ends BY DEF Inv
<1>2. config.kind \in {"tool", "prompt", "agent"} BY <1>1, Configuration DEF NodeTypeOK
<1>3. pc \in Held => step # "succeeded" BY <1>1 DEF Ends, Held
<1>4. CASE UNCHANGED vars
  BY <1>1, <1>4, EndsKept DEF vars, runVars, history
<1>5. CASE ClaimRun
  <2>1. pc = "idle" /\ status = "queued" /\ status' = "running" /\ pc' = "load" /\ step' = step
    BY <1>5 DEF ClaimRun
  <2> QED BY <1>1, <2>1 DEF Ends, RunEndsWithItsStep
<1>6. CASE LoadRun
  <2>1. pc = "load" /\ UNCHANGED <<status, step, happened, full, excused>>
    BY <1>6 DEF LoadRun, runVars, history
  <2>2. CASE pc' = "start"
    BY <1>1, <1>3, <2>1, <2>2, EndsHeld DEF Held
  <2>3. CASE pc' # "start"
    <3>1. /\ \E c \in {"input", "state"} : row[c] # None /\ ~Readable(row[c], files)
          /\ Leave
      BY <1>6, <2>3, Loaded
    <3>2. PICK c \in Columns : row[c] # None /\ ~Readable(row[c], files) BY <3>1 DEF Columns
    <3>3. StoredAs(row[c], wrote[c], limit, files, excused) BY <1>1, <3>2 DEF Rows
    <3>4. excused BY <3>2, <3>3 DEF StoredAs
    <3>5. pc' = "idle" BY <3>1 DEF Leave
    <3> QED BY <1>1, <2>1, <3>4, <3>5, EndsIdle
  <2> QED BY <2>2, <2>3
<1>7. CASE CheckControl
  <2>1. pc = "control" /\ step' = step BY <1>7 DEF CheckControl
  <2>2. CASE status = "pause_requested"
    <3>1. status' = "paused" /\ pc' = "parked" BY <1>7, <2>2 DEF CheckControl
    <3> QED BY <1>1, <2>1, <3>1 DEF Ends, RunEndsWithItsStep
  <2>3. CASE status # "pause_requested"
    <3>1. status' = status /\ pc' = "begin" BY <1>7, <2>3 DEF CheckControl
    <3> QED BY <1>1, <1>3, <2>1, <3>1, EndsHeld DEF Held
  <2> QED BY <2>2, <2>3
<1>8. CASE PollResumed
  <2>1. pc = "parked" /\ status' = "running" /\ pc' = "begin" /\ step' = step
    BY <1>8 DEF PollResumed
  <2> QED BY <1>1, <2>1 DEF Ends, RunEndsWithItsStep
<1>9. CASE BeginNode \/ CallTool \/ Generate \/ Reflect \/ ApplyGuardrails \/ AttemptFails
  <2>1. \A t : Turn(t) \in {"call", "generate", "reflect"} BY TurnIs
  <2>2. pc \in Held /\ status' = status /\ (step' = step \/ step' = "running")
    BY <1>9 DEF BeginNode, CallTool, Generate, Reflect, ApplyGuardrails, AttemptFails, NodeStep,
                  Held
  <2>3. pc' \in {"call", "generate", "reflect", "guard", "fail", "output", "retry", "bury"}
    <3>1. CASE BeginNode BY <1>2, <2>1, <3>1 DEF BeginNode
    <3>2. CASE CallTool BY <3>2 DEF CallTool
    <3>3. CASE Generate BY <2>1, <3>3 DEF Generate
    <3>4. CASE Reflect BY <3>4 DEF Reflect
    <3>5. CASE ApplyGuardrails BY <3>5 DEF ApplyGuardrails
    <3>6. CASE AttemptFails BY <3>6 DEF AttemptFails
    <3> QED BY <1>9, <3>1, <3>2, <3>3, <3>4, <3>5, <3>6
  <2> QED BY <1>1, <1>3, <2>2, <2>3, EndsHeld DEF Held
<1>10. CASE WriteFiles
  <2>1. pc \in Saving /\ UNCHANGED <<status, step, happened>> BY <1>10 DEF WriteFiles
  <2>2. CASE UNCHANGED <<pc, nodeVars, full, excused>>
    BY <1>1, <2>1, <2>2, EndsKept
  <2>3. CASE full' = TRUE /\ StoringFails /\ excused' = (excused \/ pc = "start")
    <3>1. CASE pc = "start"
      <4>1. pc' = "idle" BY <2>3, <3>1 DEF StoringFails, FailedIn, Leave
      <4> QED BY <1>1, <2>1, <2>3, <3>1, <4>1, EndsIdle
    <3>2. CASE pc # "start"
      <4>1. pc' = "bury" BY <2>1, <2>3, <3>2 DEF StoringFails, FailedIn
      <4> QED BY <1>1, <2>1, <2>3, <4>1, EndsBuried
    <3> QED BY <3>1, <3>2
  <2> QED BY <1>10, <2>2, <2>3 DEF WriteFiles, DiskFull
<1>11. CASE RefuseRow
  <2>1. /\ pc \in Saving /\ writing # None /\ ~IsJson(writing) /\ StoringFails
        /\ UNCHANGED <<status, step, happened, full>>
    BY <1>11 DEF RefuseRow, history
  <2>2. ~IsJson(Tree(pc)) BY <1>1, <2>1 DEF Rows, StoredAs
  <2>3. pc # "start" /\ ~AllJson(happened) BY <1>1, <2>1, <2>2, TreeType
  <2>4. pc' = "bury" BY <2>1, <2>3 DEF StoringFails, FailedIn
  <2> QED BY <1>1, <2>1, <2>3, <2>4, EndsBuried
<1>12. CASE WriteRow BY <1>1, <1>12, EndsWrite
<1>13. CASE FailStep
  <2>1. pc = "bury" /\ pc' \in {"letter", "end"} /\ (step' = step \/ step' = "failed")
        /\ (step # "running" => step' = step) /\ UNCHANGED <<status, happened, full, excused>>
    BY <1>13 DEF FailStep, history
  <2>2. status # "succeeded" \/ step' = step BY <1>1, <2>1 DEF Ends, RunEndsWithItsStep
  <2> QED BY <1>1, <2>1, <2>2 DEF Ends, RunEndsWithItsStep
<1>14. CASE CreateDeadLetter
  <2>1. pc = "letter" /\ UNCHANGED <<status, step, happened>> /\ (full => full')
        /\ (pc' = "end" \/ (pc' = "idle" /\ excused'))
    BY <1>14 DEF CreateDeadLetter, Leave, DiskFull
  <2>2. CASE pc' = "end" BY <1>1, <2>1, <2>2 DEF Ends, RunEndsWithItsStep
  <2>3. CASE pc' = "idle" /\ excused' BY <1>1, <2>1, <2>3, EndsIdle
  <2> QED BY <2>1, <2>2, <2>3
<1>15. CASE FailRun
  <2>1. pc = "end" /\ pc' = "idle" /\ status' = "failed" /\ UNCHANGED <<step, happened, full>>
    BY <1>15 DEF FailRun, Leave, history
  <2>2. step = "succeeded" => full \/ ~AllJson(happened) BY <1>1, <2>1 DEF Ends
  <2>3. step' = "succeeded" => full' \/ \E i \in DOMAIN happened' : ~IsJson(happened'[i])
    BY <2>1, <2>2, NotAllJson
  <2> QED BY <2>1, <2>3 DEF Ends, RunEndsWithItsStep
<1>16. CASE RequestPause
  <2>1. /\ UNCHANGED <<pc, step, happened, full, excused>>
        /\ \/ status = "queued" /\ status' = "paused"
           \/ status = "running" /\ status' = "pause_requested"
    BY <1>16 DEF RequestPause
  <2> QED BY <1>1, <2>1 DEF Ends, RunEndsWithItsStep
<1>17. CASE ResumeRun
  <2>1. /\ UNCHANGED <<pc, step, happened, full, excused>>
        /\ status = "paused" /\ status' = "queued"
    BY <1>17 DEF ResumeRun, history
  <2> QED BY <1>1, <2>1 DEF Ends, RunEndsWithItsStep
<1>18. CASE Die
  <2>1. pc # "idle" /\ pc' = "idle" /\ UNCHANGED <<status, step, happened, full>>
        /\ excused' = (excused \/ pc # "parked")
    BY <1>18 DEF Die, Leave, runVars
  <2>2. status \in {"running", "pause_requested"} => excused' BY <1>1, <2>1 DEF Ends
  <2> QED BY <1>1, <2>1, <2>2, EndsIdle
<1>19. CASE LoseFiles BY <1>1, <1>19, EndsKept DEF LoseFiles
<1> QED BY <1>4, <1>5, <1>6, <1>7, <1>8, <1>9, <1>10, <1>11, <1>12, <1>13, <1>14, <1>15, <1>16,
           <1>17, <1>18, <1>19 DEF Next

-----------------------------------------------------------------------------
(* The theorems                                                            *)

\* Of all configurations, inputs, tools, drafts and limits: the invariant holds
\* of every execution of the node.
THEOREM InvIsInductive == Spec => []Inv
<1>1. Inv /\ [Next]_vars => Inv'
  BY TypeStep, RowsStep, HeardStep, CountedStep, SavedStep, AnsweredStep, EndsStep DEF Inv
<1> QED BY InitInv, <1>1, PTL DEF Spec

\* Every variable keeps its type, and a node is not attempted more often than
\* its retry policy says.
THEOREM NodeTypeCorrect == Spec => []TypeOK
<1>1. Inv => TypeOK
  <2> SUFFICES ASSUME Inv PROVE TypeOK OBVIOUS
  <2>1. NodeTypeOK BY DEF Inv
  <2>2. local.attempts \in 0..config.attempts BY <2>1 DEF NodeTypeOK
  <2> QED BY <2>1, <2>2 DEF NodeTypeOK, TypeOK
<1> QED BY InvIsInductive, <1>1, PTL

\* An agent that is repeated, paused or taken up by another worker remembers all
\* that its tools and models said, in order: the memory is in the execution state
\* that is stored before every attempt, and is read from it.
THEOREM MemoryKept == Spec => []MemoryIsKept
<1>1. Inv => MemoryIsKept
  <2> SUFFICES ASSUME Inv, config.kind = "agent", pc \notin {"idle", "load"}
               PROVE  Written(Branch(local.memory)) = Written(Branch(happened))
    BY DEF MemoryIsKept
  <2> DEFINE m == local.memory
             f == [i \in DOMAIN m |-> Written(m[i])]
             g == [i \in DOMAIN happened |-> Written(happened[i])]
  <2>1. m \in Seq(Plain(Depth)) /\ happened \in Seq(Plain(Depth)) BY DEF Inv, NodeTypeOK
  <2>2. Depth \in Nat /\ Depth + 1 <= MaxDepth BY Depths
  <2>3. pc \in Working BY DEF Inv, NodeTypeOK, Working
  <2>4. Len(m) = Len(happened) /\ \A i \in DOMAIN happened : Written(m[i]) = Written(happened[i])
    BY <2>3 DEF Inv, Heard, Known
  <2>5. Written(Branch(m)) = Branch(f) /\ Written(Branch(happened)) = Branch(g)
    BY <2>1, <2>2, PlainBranch
  <2>6. DOMAIN m = DOMAIN happened
    <3> DEFINE P == Plain(Depth)
    <3>1. m \in Seq(P) /\ happened \in Seq(P) BY <2>1
    <3> HIDE DEF m, P
    <3> QED BY <2>4, <3>1
  <2> HIDE DEF m
  <2>7. f = g BY <2>4, <2>6
  <2> QED BY <2>5, <2>7 DEF m
<1> QED BY InvIsInductive, <1>1, PTL

\* No step succeeds with a response that the guardrails object to, whatever
\* reflections, repeated attempts, pauses and restarts there are in between.
THEOREM ResponsesGuarded == Spec => []ResponseIsGuarded
<1>1. Inv => ResponseIsGuarded BY DEF Inv, Answered
<1> QED BY InvIsInductive, <1>1, PTL

\* Each tool of an agent is called at most once in every attempt, after those
\* before it: a pause or a restart repeats no attempt that had begun.
THEOREM CallsCounted == Spec => []CallsAreCounted
<1>1. Inv => CallsAreCounted BY DEF Inv, Counted, Descending, CallsAreCounted
<1> QED BY InvIsInductive, <1>1, PTL

\* Whatever the limit, and although the disk fills up, processes die and files
\* are lost: a row fits or refers to a file, and what is read from it is what was
\* stored, as JSON has it.
THEOREM StoredWhole == Spec => []StoredIsWhole
<1>1. Inv => StoredIsWhole
  <2> SUFFICES ASSUME Inv, NEW c \in Columns, row[c] # None
               PROVE  /\ Fits(row[c], limit) \/ IsReference(row[c])
                      /\ Readable(row[c], files) =>
                             Written(Materialised(row[c], files)) = Written(wrote[c])
                      /\ ~excused => Readable(row[c], files)
    BY DEF StoredIsWhole
  <2>1. StoredAs(row[c], wrote[c], limit, files, excused) /\ IsJson(row[c]) BY DEF Inv, Rows
  <2>2. wrote[c] \in Payload BY <2>1, MaxDepthAssumption DEF StoredAs, Plain, Payload
  <2>3. ASSUME Readable(row[c], files)
        PROVE  Written(Materialised(row[c], files)) = Written(wrote[c])
    <3>1. Materialised(row[c], files) = Written(wrote[c]) BY <2>1, <2>3, StoredIsRead
    <3> QED BY <2>2, <3>1, WrittenTwice
  <2> QED BY <2>1, <2>3 DEF StoredAs
<1> QED BY InvIsInductive, <1>1, PTL

\* A run that no worker executes has not been left as running, and does not end
\* otherwise than its step, but for the faults that RunEndsWithItsStep names.
THEOREM RunEnds == Spec => []RunEndsWithItsStep
<1>1. Inv => RunEndsWithItsStep BY DEF Inv, Ends
<1> QED BY InvIsInductive, <1>1, PTL
=============================================================================
