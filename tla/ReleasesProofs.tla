--------------------------- MODULE ReleasesProofs ---------------------------
(***************************************************************************)
(* Theorems about Releases, and with it about Versions, for any number of  *)
(* requests, versions and environments, any contents and any policies.     *)
(*                                                                         *)
(* That few versions are published gives every published version a request *)
(* of its own, which will not publish another one without having seen it.  *)
(* That what is released is ready rests on what a request has read: it is  *)
(* still so, unless the request is stale.                                  *)
(***************************************************************************)
EXTENDS Releases, FiniteSetTheorems, SequenceTheorems, TLAPS

\* What a request has read was there, and stays; a number that is about to be
\* saved follows one that is there.
Numbered ==
    /\ rows[1] # None
    /\ VersionsAreContiguous
    /\ \A a \in Actors :
        /\ \A v \in Version : seen[a][v] # "absent" => rows[v] # None
        /\ pc[a] \in {"select", "write"} /\ target[a] # 1 => rows[target[a] - 1] # None
        /\ todo[a] = << >> => pc[a] = "begin"

\* While requests come one at a time, what a request has read is still so.
Undisturbed(a) ==
    /\ pc[a] = "write" => seen[a][target[a]] = StateOf(target[a])
    /\ pc[a] = "commit" => \A v \in Version : seen[a][v] = StateOf(v)
    /\ pc[a] \in {"read", "commit"} /\ rows[target[a]] # None =>
           rows[target[a]].content \in Valid

Alone ==
    /\ \A a, b \in Actors : todo[a] # << >> /\ todo[b] # << >> => a = b
    /\ \A a \in Actors : todo[a] # << >> => Undisturbed(a)
    /\ \A v, w \in Published : v = w
    /\ \A v \in Published : rows[v].content \in Valid

\* Every published version is owed to a request of its own; a request
\* that is about to publish another one has seen that it is published.
Owned ==
    \E owner \in [Version -> Actors \union {None}] :
        /\ \A v \in Published :
            /\ owner[v] \in Actors
            /\ pc[owner[v]] = "commit" => seen[owner[v]][v] = "published"
        /\ \A v, w \in Published : owner[v] = owner[w] => v = w

VersionsInv ==
    /\ TypeOK
    /\ Numbered
    /\ raced \/ Alone
    /\ Owned

\* Where a request has a version.
Selected(a) ==
    work[a].op \notin {"environment", "ensure"} /\ work[a].place \notin {"release", "list"}

\* The versions that are released, queued or selected exist.
WorkOK(a) ==
    /\ work[a].op \in {"environment", "ensure"} =>
           work[a].policy \in Policies /\ work[a].place \in {"select", "write"}
    /\ Selected(a) => work[a].version \in Existing
    /\ work[a].place = "list" => work[a].version = None

ReferencesOK ==
    /\ \A e \in Environments :
        /\ release[e] # None => release[e] \in Existing
        /\ run[e] # None => run[e].version \in Existing
    /\ \A a \in Actors : work[a] # None => todo[a] = << >> /\ WorkOK(a)

\* What a request that is not stale has read is still so.
Fresh(a) ==
    /\ work[a].place = "policy" \/ Checked(a) =>
           work[a].content = rows[work[a].version].content
    /\ Checked(a) => IsReady(work[a].content, policy[work[a].env])
    /\ work[a].op = "run" /\ work[a].place # "release" /\ release[work[a].env] # None =>
           work[a].version = release[work[a].env]

ReleasesInv ==
    /\ ReleasesTypeOK
    /\ VersionsInv
    /\ ReferencesOK
    /\ \A a \in Actors \ stale : work[a] # None => Fresh(a)
    /\ ReleasedIsReady

-----------------------------------------------------------------------------
(* Sets and sequences                                                      *)

LEMMA SetMin ==
    ASSUME NEW S, IsFiniteSet(S), NEW T \in SUBSET (SUBSET S), T # {}
    PROVE  \E x \in T : \A y \in T : y \subseteq x => y = x
<1> DEFINE R == StrictSubsetOrdering(S)
<1>1. IsWellFoundedOn(R, SUBSET S)
  BY FS_StrictSubsetOrderingWellFounded, FS_FiniteSubsetsOfFinite
<1>2. \A x, y \in SUBSET S : <<x, y>> \in R <=> x \subseteq y /\ x # y
  BY DEF StrictSubsetOrdering
<1> HIDE DEF R
<1>3. PICK x \in T : \A y \in T : <<y, x>> \notin R BY <1>1, WFMin
<1> QED BY <1>2, <1>3

LEMMA NatMax ==
    ASSUME NEW n \in Nat, NEW T \in SUBSET (0..n), T # {}
    PROVE  \E x \in T : \A y \in T : y <= x
<1> DEFINE U == {x..n : x \in T}
<1>1. U \in SUBSET (SUBSET (0..n)) OBVIOUS
<1>2. U # {} OBVIOUS
<1>3. IsFiniteSet(0..n) BY FS_Interval
<1>4. \A x \in T : x..n \in U OBVIOUS
<1>5. \A u \in U : \E x \in T : u = x..n OBVIOUS
<1> HIDE DEF U
<1>6. PICK u \in U : \A v \in U : v \subseteq u => v = u
  <2> DEFINE S == 0..n
  <2>1. IsFiniteSet(S) /\ U \in SUBSET (SUBSET S) BY <1>1, <1>3
  <2> HIDE DEF S
  <2> QED BY <2>1, <1>2, SetMin
<1>7. PICK x \in T : u = x..n BY <1>5
<1>8. ASSUME NEW y \in T, ~(y <= x) PROVE FALSE
  <2>1. y..n \subseteq x..n /\ y..n \in U BY <1>4, <1>8
  <2>2. y..n = x..n BY <2>1, <1>6, <1>7
  <2>3. x \in x..n /\ x \notin y..n BY <1>8
  <2> QED BY <2>2, <2>3
<1> QED BY <1>8

LEMMA AVersionExists == 1 \in Version /\ Version \subseteq Nat
BY ContentsAssumption DEF Version

LEMMA LatestExists == TypeOK /\ Numbered => Latest \in Existing
<1> SUFFICES ASSUME TypeOK, Numbered PROVE Latest \in Existing OBVIOUS
<1>1. Existing \in SUBSET (0..MaxVersions) BY ContentsAssumption DEF Existing, Version
<1>2. Existing # {} BY AVersionExists DEF Numbered, Existing
<1>3. \E v \in Existing : \A w \in Existing : w <= v
  <2>1. MaxVersions \in Nat BY ContentsAssumption
  <2> QED BY <1>1, <1>2, <2>1, NatMax
<1> QED BY <1>3 DEF Latest

LEMMA JobsAtHand ==
    ASSUME TypeOK, NEW a \in Actors, todo[a] # << >>
    PROVE  Head(todo[a]) \in Job /\ Tail(todo[a]) \in Seq(Job)
BY HeadTailProperties DEF TypeOK

LEMMA OneJob == ASSUME NEW job \in Job PROVE <<job>> \in Seq(Job)
OBVIOUS

LEMMA BundleType ==
    ASSUME NEW first \in Contents, NEW more \in Contents \union {None},
           NEW p \in BOOLEAN, NEW q \in BOOLEAN
    PROVE  Bundle(first, more, p, q) \in Seq(Job)
<1>1. << >> \in Seq(Job) BY EmptySeq
<1>2. [op |-> "overwrite", content |-> first] \in Job BY DEF Job
<1>3. [op |-> "publish_created"] \in Job BY DEF Job
<1>4. [op |-> "publish", version |-> 1] \in Job BY AVersionExists DEF Job
<1>5. \A yes \in BOOLEAN, job \in Job : Publishing(yes, job) \in Seq(Job)
  BY <1>1, OneJob DEF Publishing
<1> DEFINE Second == IF more = None THEN << >>
                     ELSE <<[op |-> "create", content |-> more]>>
                          \o Publishing(q, [op |-> "publish_created"])
<1>6. Second \in Seq(Job)
  <2>1. CASE more = None BY <2>1, <1>1
  <2>2. CASE more # None
    <3>1. [op |-> "create", content |-> more] \in Job BY <2>2 DEF Job
    <3>2. <<[op |-> "create", content |-> more]>> \in Seq(Job) BY <3>1, OneJob
    <3>3. Publishing(q, [op |-> "publish_created"]) \in Seq(Job) BY <1>3, <1>5
    <3> QED BY <2>2, <3>2, <3>3, ConcatProperties
  <2> QED BY <2>1, <2>2
<1>7. Publishing(p, [op |-> "publish", version |-> 1]) \in Seq(Job) BY <1>4, <1>5
<1>8. <<[op |-> "overwrite", content |-> first]>> \in Seq(Job) BY <1>2, OneJob
<1>9. Bundle(first, more, p, q)
        = <<[op |-> "overwrite", content |-> first]>> \o Second
          \o Publishing(p, [op |-> "publish", version |-> 1])
  BY DEF Bundle
<1> HIDE DEF Second
<1>10. <<[op |-> "overwrite", content |-> first]>> \o Second \in Seq(Job)
  BY <1>6, <1>8, ConcatProperties
<1> QED BY <1>7, <1>9, <1>10, ConcatProperties

-----------------------------------------------------------------------------
(* The steps of Versions                                                   *)

RequestStep(a) == Request(a) \/ Save(a) \/ Publish(a)

\* A step of a request leaves the others where they are.
LEMMA OthersStay ==
    ASSUME TypeOK, NEW a \in Actors, RequestStep(a), NEW b \in Actors \ {a}
    PROVE  todo'[b] = todo[b] /\ pc'[b] = pc[b] /\ target'[b] = target[b] /\ seen'[b] = seen[b]
<1> USE DEF TypeOK
<1>1. CASE Request(a) BY <1>1 DEF Request, CreateVersion, PublishVersion, ImportVersions
<1>2. CASE ReadNext(a) \/ ReplaceFirst(a) BY <1>2 DEF ReadNext, ReplaceFirst, Goto
<1>3. CASE SelectRow(a) BY <1>3 DEF SelectRow, Goto
<1>4. CASE InsertRow(a) BY <1>4 DEF InsertRow, FinishJob, Abort, Goto
<1>5. CASE OverwriteRow(a) BY <1>5 DEF OverwriteRow, FinishJob, Goto
<1>6. CASE CheckVersion(a) BY <1>6 DEF CheckVersion, Abort, Goto
<1>7. CASE ReadVersions(a) BY <1>7 DEF ReadVersions, Goto
<1>8. CASE CommitPublish(a) BY <1>8 DEF CommitPublish, FinishJob, Goto
<1> QED BY <1>1, <1>2, <1>3, <1>4, <1>5, <1>6, <1>7, <1>8 DEF RequestStep, Save, Publish

LEMMA Requesting ==
    ASSUME TypeOK, Numbered, NEW a \in Actors, Request(a)
    PROVE  /\ todo[a] = << >> /\ pc[a] = "begin"
           /\ rows' = rows /\ pc' = pc /\ target' = target /\ seen' = seen
           /\ todo' \in [Actors -> Seq(Job)]
           /\ raced' = (raced \/ \E b \in Actors \ {a} : todo[b] # << >>)
<1>1. ASSUME NEW jobs \in Seq(Job), todo' = [todo EXCEPT ![a] = jobs]
      PROVE  todo' \in [Actors -> Seq(Job)]
  BY <1>1 DEF TypeOK
<1>2. CASE CreateVersion(a)
  <2>1. PICK c \in Contents : todo' = [todo EXCEPT ![a] = <<[op |-> "create", content |-> c]>>]
    BY <1>2 DEF CreateVersion
  <2>2. [op |-> "create", content |-> c] \in Job BY DEF Job
  <2> HIDE DEF Job
  <2>3. todo' \in [Actors -> Seq(Job)] BY <1>1, <2>1, <2>2, OneJob
  <2> QED BY <1>2, <2>3 DEF CreateVersion, NoteTheRace, Numbered
<1>3. CASE PublishVersion(a)
  <2>1. PICK v \in Existing : todo' = [todo EXCEPT ![a] = <<[op |-> "publish", version |-> v]>>]
    BY <1>3 DEF PublishVersion
  <2>2. [op |-> "publish", version |-> v] \in Job BY DEF Job, Existing
  <2>3. todo' \in [Actors -> Seq(Job)] BY <1>1, <2>1, <2>2, OneJob
  <2> QED BY <1>3, <2>3 DEF PublishVersion, NoteTheRace, Numbered
<1>4. CASE ImportVersions(a)
  <2>1. PICK first \in Contents, more \in Contents \union {None}, p \in BOOLEAN, q \in BOOLEAN :
            todo' = [todo EXCEPT ![a] = Bundle(first, more, p, q)]
    BY <1>4 DEF ImportVersions
  <2>2. todo' \in [Actors -> Seq(Job)] BY <1>1, <2>1, BundleType
  <2> QED BY <1>4, <2>2 DEF ImportVersions, NoteTheRace, Numbered
<1> QED BY <1>2, <1>3, <1>4 DEF Request

\* A job ends, or the whole request.
LEMMA JobEnds ==
    ASSUME TypeOK, NEW a \in Actors, todo[a] # << >>, FinishJob(a) \/ Abort(a)
    PROVE  /\ pc' = [pc EXCEPT ![a] = "begin"] /\ pc' \in [Actors -> {"begin", "select", "write", "read", "commit"}]
           /\ todo' \in [Actors -> Seq(Job)]
           /\ seen' = [seen EXCEPT ![a] = Unread] /\ seen' \in [Actors -> Seen]
<1>1. Unread \in Seen BY DEF Unread, Seen
<1>2. Tail(todo[a]) \in Seq(Job) /\ << >> \in Seq(Job) BY JobsAtHand, EmptySeq
<1>3. \A jobs \in Seq(Job) : [todo EXCEPT ![a] = jobs] \in [Actors -> Seq(Job)] BY DEF TypeOK
<1>4. todo' \in [Actors -> Seq(Job)] BY <1>2, <1>3 DEF FinishJob, Abort
<1> QED BY <1>1, <1>4 DEF FinishJob, Abort, Goto, TypeOK

\* The rows that a save writes: at most its own, with the content of the job.
LEMMA SavedRow ==
    ASSUME TypeOK, Numbered, NEW a \in Actors, InsertRow(a) \/ OverwriteRow(a)
    PROVE  /\ todo[a] # << >> /\ pc[a] = "write" /\ (FinishJob(a) \/ Abort(a))
           /\ rows' \in [Version -> Row \union {None}]
           /\ \A v \in Version : v # target[a] => rows'[v] = rows[v]
           /\ \/ rows' = rows
              \/ /\ rows'[target[a]] # None
                 /\ rows'[target[a]].state = "published" =>
                        /\ rows[target[a]] # None
                        /\ rows[target[a]].state = "published"
                        /\ seen[a][target[a]] = "draft"
           /\ rows[target[a]] # None => rows'[target[a]] # None
           /\ target' = target /\ raced' = raced
<1> DEFINE v == target[a]
<1>1. v \in Version /\ rows \in [Version -> Row \union {None}] BY DEF TypeOK
<1>2. Head(todo[a]).content \in Contents
  BY JobsAtHand DEF InsertRow, OverwriteRow, At, Job
<1>3. CASE InsertRow(a)
  <2>1. CASE rows[v] = None
    <3>1. [content |-> Head(todo[a]).content, state |-> "draft"] \in Row BY <1>2 DEF Row
    <3> QED BY <1>1, <1>3, <2>1, <3>1, NoRowAssumption DEF InsertRow, At
  <2>2. CASE rows[v] # None BY <1>1, <1>3, <2>2 DEF InsertRow, At
  <2> QED BY <2>1, <2>2
<1>4. CASE OverwriteRow(a)
  <2>1. rows[v] # None /\ rows[v] \in Row BY <1>1, <1>4 DEF OverwriteRow, Numbered
  <2>2. seen[a][v] \in {"draft", "published"} BY <1>1, <1>4 DEF OverwriteRow, TypeOK, Seen
  <2>3. /\ rows'[v].state = IF seen[a][v] = "published" THEN "draft" ELSE rows[v].state
        /\ rows'[v] \in Row
        /\ rows' \in [Version -> Row \union {None}]
        /\ \A w \in Version : w # v => rows'[w] = rows[w]
    BY <1>1, <1>2, <1>4, <2>1 DEF OverwriteRow, Row
  <2> QED BY <1>4, <2>1, <2>2, <2>3, NoRowAssumption DEF OverwriteRow, At
<1> QED BY <1>3, <1>4

\* The states that a publication commits.
LEMMA PublishedRows ==
    ASSUME TypeOK, Numbered, NEW a \in Actors, CommitPublish(a)
    PROVE  /\ todo[a] # << >> /\ pc[a] = "commit" /\ FinishJob(a)
           /\ rows' \in [Version -> Row \union {None}]
           /\ \A v \in Version :
                  /\ seen[a][v] = "absent" => rows'[v] = rows[v]
                  /\ rows[v] # None => rows'[v] # None /\ rows'[v].content = rows[v].content
                  /\ rows[v] = None => rows'[v] = None
                  /\ seen[a][v] = "draft" /\ v # target[a] => rows'[v] = rows[v]
                  /\ seen[a][v] = "draft" /\ v = target[a] => rows'[v].state = "published"
                  /\ seen[a][v] = "published" /\ v # target[a] => rows'[v].state = "draft"
                  /\ seen[a][v] = "published" /\ v = target[a] => rows'[v] = rows[v]
           /\ target' = target /\ raced' = raced
<1>1. rows \in [Version -> Row \union {None}] BY DEF TypeOK
<1>2. ASSUME NEW v \in Version
      PROVE  /\ rows'[v] = IF seen[a][v] # "absent"
                                /\ (IF v = target[a] THEN "published" ELSE "draft") # seen[a][v]
                           THEN [rows[v] EXCEPT !.state = IF v = target[a] THEN "published" ELSE "draft"]
                           ELSE rows[v]
  BY DEF CommitPublish, NewState
<1>3. \A v \in Version : seen[a][v] # "absent" => rows[v] \in Row BY <1>1 DEF Numbered
<1>4. ASSUME NEW r \in Row, NEW s \in {"draft", "published"}
      PROVE  /\ [r EXCEPT !.state = s] \in Row
             /\ [r EXCEPT !.state = s].content = r.content
             /\ [r EXCEPT !.state = s].state = s
  BY DEF Row
<1>5. rows' \in [Version -> Row \union {None}]
  <2>1. \A v \in Version : rows'[v] \in Row \union {None} BY <1>1, <1>2, <1>3, <1>4
  <2>2. rows' = [v \in Version |-> rows'[v]] BY DEF CommitPublish
  <2> QED BY <2>1, <2>2
<1>6. ASSUME NEW v \in Version
      PROVE  /\ seen[a][v] = "absent" => rows'[v] = rows[v]
             /\ rows[v] # None => rows'[v] # None /\ rows'[v].content = rows[v].content
             /\ rows[v] = None => rows'[v] = None
             /\ seen[a][v] = "draft" /\ v # target[a] => rows'[v] = rows[v]
             /\ seen[a][v] = "draft" /\ v = target[a] => rows'[v].state = "published"
             /\ seen[a][v] = "published" /\ v # target[a] => rows'[v].state = "draft"
             /\ seen[a][v] = "published" /\ v = target[a] => rows'[v] = rows[v]
  <2>1. seen[a][v] = "absent" \/ rows[v] \in Row BY <1>3
  <2>2. rows[v] \in Row \union {None} BY <1>1
  <2> DEFINE new == IF v = target[a] THEN "published" ELSE "draft"
  <2>3. new \in {"draft", "published"} OBVIOUS
  <2>4. rows'[v] = IF seen[a][v] # "absent" /\ new # seen[a][v]
                   THEN [rows[v] EXCEPT !.state = new] ELSE rows[v]
    BY <1>2
  <2>5. v = target[a] <=> new = "published" OBVIOUS
  <2> HIDE DEF new
  <2>6. CASE seen[a][v] # "absent" /\ new # seen[a][v]
    <3>1. rows[v] \in Row /\ rows'[v] = [rows[v] EXCEPT !.state = new] BY <2>1, <2>4, <2>6
    <3> DEFINE r == rows[v]
    <3>2. [r EXCEPT !.state = new] \in Row /\ [r EXCEPT !.state = new].content = r.content
          /\ [r EXCEPT !.state = new].state = new
      BY <1>4, <2>3, <3>1
    <3>3. /\ rows'[v] \in Row
          /\ rows'[v].content = rows[v].content /\ rows'[v].state = new
      BY <3>1, <3>2
    <3> QED BY <2>3, <2>5, <2>6, <3>1, <3>3, NoRowAssumption
  <2>7. CASE ~(seen[a][v] # "absent" /\ new # seen[a][v])
    BY <2>3, <2>4, <2>5, <2>7
  <2> QED BY <2>6, <2>7
<1>7. todo[a] # << >> /\ pc[a] = "commit" /\ FinishJob(a) /\ target' = target /\ raced' = raced
  BY DEF CommitPublish, At
<1> QED BY <1>5, <1>6, <1>7

\* What the other steps change.
LEMMA Saving ==
    ASSUME TypeOK, Numbered, NEW a \in Actors, ReadNext(a) \/ ReplaceFirst(a)
    PROVE  /\ todo[a] # << >> /\ pc' = [pc EXCEPT ![a] = "select"]
           /\ rows' = rows /\ todo' = todo /\ seen' = seen /\ raced' = raced
           /\ target' \in [Actors -> Version]
           /\ target'[a] # 1 => rows[target'[a] - 1] # None
<1>1. CASE ReadNext(a)
  <2>1. Latest \in Version /\ rows[Latest] # None BY LatestExists DEF Existing
  <2>2. target'[a] = Latest + 1 /\ target' \in [Actors -> Version]
    BY <1>1 DEF ReadNext, NumberAfter, TypeOK
  <2>3. target'[a] - 1 = Latest BY <2>1, <2>2, AVersionExists
  <2> QED BY <1>1, <2>1, <2>2, <2>3 DEF ReadNext, At, Goto
<1>2. CASE ReplaceFirst(a) BY <1>2, AVersionExists DEF ReplaceFirst, At, Goto, TypeOK
<1> QED BY <1>1, <1>2

LEMMA Selecting ==
    ASSUME TypeOK, NEW a \in Actors, SelectRow(a)
    PROVE  /\ todo[a] # << >> /\ pc[a] = "select" /\ pc' = [pc EXCEPT ![a] = "write"]
           /\ rows' = rows /\ todo' = todo /\ target' = target /\ raced' = raced
           /\ seen' \in [Actors -> Seen]
           /\ seen'[a][target[a]] = StateOf(target[a])
           /\ \A v \in Version \ {target[a]} : seen'[a][v] = seen[a][v]
<1>1. target[a] \in Version BY DEF TypeOK
<1>2. StateOf(target[a]) \in {"draft", "published", "absent"} BY <1>1 DEF StateOf, TypeOK, Row
<1>3. seen[a] \in Seen BY DEF TypeOK
<1> QED BY <1>1, <1>2, <1>3 DEF SelectRow, At, Goto, TypeOK, Seen

LEMMA Checking ==
    ASSUME TypeOK, NEW a \in Actors, CheckVersion(a)
    PROVE  /\ todo[a] # << >> /\ pc[a] = "begin"
           /\ rows' = rows /\ raced' = raced
           /\ target' \in [Actors -> Version]
           /\ \/ /\ pc' = [pc EXCEPT ![a] = "read"] /\ todo' = todo /\ seen' = seen
                 /\ rows[target'[a]].content \in Valid
              \/ Abort(a)
<1> DEFINE job == Head(todo[a])
           v   == IF job.op = "publish" THEN job.version ELSE target[a]
<1>1. job \in Job /\ target[a] \in Version BY JobsAtHand DEF CheckVersion, At, TypeOK
<1>2. v \in Version BY <1>1 DEF Job
<1>3. target' = [target EXCEPT ![a] = v] /\ target' \in [Actors -> Version] /\ target'[a] = v
  BY <1>2 DEF CheckVersion, TypeOK
<1>4. IF Publishable(v) THEN Goto(a, "read") /\ UNCHANGED <<todo, seen>> ELSE Abort(a)
  BY DEF CheckVersion
<1> HIDE DEF v
<1> QED BY <1>3, <1>4 DEF CheckVersion, At, Goto, Publishable

LEMMA ReadingVersions ==
    ASSUME TypeOK, NEW a \in Actors, ReadVersions(a)
    PROVE  /\ todo[a] # << >> /\ pc[a] = "read" /\ pc' = [pc EXCEPT ![a] = "commit"]
           /\ rows' = rows /\ todo' = todo /\ target' = target /\ raced' = raced
           /\ seen' \in [Actors -> Seen]
           /\ \A v \in Version : seen'[a][v] = StateOf(v)
<1>1. \A v \in Version : StateOf(v) \in {"draft", "published", "absent"}
  BY DEF StateOf, TypeOK, Row
<1>2. [v \in Version |-> StateOf(v)] \in Seen BY <1>1 DEF Seen
<1>3. seen' = [seen EXCEPT ![a] = [v \in Version |-> StateOf(v)]] BY DEF ReadVersions
<1> QED BY <1>2, <1>3 DEF ReadVersions, At, Goto, TypeOK

LEMMA StepsOfVersions ==
    ASSUME NEW a, RequestStep(a)
    PROVE  \/ Request(a) \/ ReadNext(a) \/ ReplaceFirst(a) \/ SelectRow(a) \/ InsertRow(a)
           \/ OverwriteRow(a) \/ CheckVersion(a) \/ ReadVersions(a) \/ CommitPublish(a)
BY DEF RequestStep, Save, Publish

-----------------------------------------------------------------------------
(* The invariant of Versions                                               *)

LEMMA TypedStep ==
    ASSUME TypeOK, Numbered, NEW a \in Actors, RequestStep(a)
    PROVE  TypeOK'
<1>1. /\ \A p \in {"begin", "select", "write", "read", "commit"} :
            [pc EXCEPT ![a] = p] \in [Actors -> {"begin", "select", "write", "read", "commit"}]
      /\ rows \in [Version -> Row \union {None}]
      /\ todo \in [Actors -> Seq(Job)]
      /\ pc \in [Actors -> {"begin", "select", "write", "read", "commit"}]
      /\ target \in [Actors -> Version]
      /\ seen \in [Actors -> Seen]
      /\ raced \in BOOLEAN
  BY DEF TypeOK
<1>2. CASE Request(a)
  <2>1. raced' \in BOOLEAN BY <1>2, <1>1, Requesting
  <2> QED BY <1>2, <1>1, <2>1, Requesting DEF TypeOK
<1>3. CASE ReadNext(a) \/ ReplaceFirst(a) BY <1>3, <1>1, Saving DEF TypeOK
<1>4. CASE SelectRow(a) BY <1>4, <1>1, Selecting DEF TypeOK
<1>5. CASE InsertRow(a) \/ OverwriteRow(a) BY <1>5, <1>1, SavedRow, JobEnds DEF TypeOK
<1>6. CASE CheckVersion(a) BY <1>6, <1>1, Checking, JobEnds DEF TypeOK
<1>7. CASE ReadVersions(a) BY <1>7, <1>1, ReadingVersions DEF TypeOK
<1>8. CASE CommitPublish(a) BY <1>8, <1>1, PublishedRows, JobEnds DEF TypeOK
<1> QED BY <1>2, <1>3, <1>4, <1>5, <1>6, <1>7, <1>8, StepsOfVersions

LEMMA RowsStay ==
    ASSUME TypeOK, Numbered, NEW a \in Actors, RequestStep(a)
    PROVE  \A v \in Version : rows[v] # None => rows'[v] # None
<1>1. CASE rows' = rows BY <1>1
<1>2. CASE InsertRow(a) \/ OverwriteRow(a) BY <1>2, SavedRow
<1>3. CASE CommitPublish(a) BY <1>3, PublishedRows
<1> QED BY <1>1, <1>2, <1>3, StepsOfVersions, Requesting, Saving, Selecting, Checking, ReadingVersions

LEMMA NumberedStep ==
    ASSUME TypeOK, Numbered, NEW a \in Actors, RequestStep(a)
    PROVE  Numbered'
<1>1. TypeOK' BY TypedStep
<1>2. \A v \in Version : rows[v] # None => rows'[v] # None BY RowsStay
<1>3. \A v \in Version : v # 1 => v - 1 \in Version BY ContentsAssumption DEF Version
<1>4. rows'[1] # None BY <1>2, AVersionExists DEF Numbered
<1>5. VersionsAreContiguous'
  <2>1. CASE \A v \in Version : rows'[v] # None => rows[v] # None
    BY <1>2, <1>3, <2>1, AVersionExists DEF Numbered, VersionsAreContiguous
  <2>2. CASE InsertRow(a) \/ OverwriteRow(a)
    <3>1. target[a] # 1 => rows[target[a] - 1] # None BY <2>2, SavedRow DEF Numbered
    <3>2. target[a] \in Version BY DEF TypeOK
    <3> QED BY <1>2, <1>3, <2>2, <3>1, <3>2, SavedRow, AVersionExists
            DEF Numbered, VersionsAreContiguous
  <2>3. CASE CommitPublish(a) BY <2>1, <2>3, PublishedRows
  <2> QED BY <2>1, <2>2, <2>3, StepsOfVersions, Requesting, Saving, Selecting, Checking, ReadingVersions
<1>6. ASSUME NEW b \in Actors
      PROVE  /\ \A v \in Version : seen'[b][v] # "absent" => rows'[v] # None
             /\ pc'[b] \in {"select", "write"} /\ target'[b] # 1 => rows'[target'[b] - 1] # None
             /\ todo'[b] = << >> => pc'[b] = "begin"
  <2>1. target[b] \in Version /\ target'[b] \in Version BY <1>1 DEF TypeOK
  <2>2. CASE b # a BY <1>2, <1>3, <2>1, <2>2, OthersStay DEF Numbered
  <2>3. CASE b = a /\ (FinishJob(a) \/ Abort(a)) /\ todo[a] # << >>
    <3>1. pc'[a] = "begin" /\ \A v \in Version : seen'[a][v] = "absent"
      BY <2>3, JobEnds DEF Unread, TypeOK
    <3> QED BY <2>3, <3>1
  <2>4. CASE b = a /\ Request(a)
    BY <1>2, <2>4, Requesting DEF Numbered
  <2>5. CASE b = a /\ (ReadNext(a) \/ ReplaceFirst(a))
    BY <1>2, <1>3, <2>1, <2>5, Saving DEF Numbered, TypeOK
  <2>6. CASE b = a /\ SelectRow(a)
    <3>1. \A v \in Version : seen'[a][v] # "absent" => rows[v] # None
      BY <2>6, Selecting DEF Numbered, StateOf
    <3> QED BY <1>2, <1>3, <2>1, <2>6, <3>1, Selecting DEF Numbered, TypeOK
  <2>7. CASE b = a /\ CheckVersion(a)
    <3>1. CASE FinishJob(a) \/ Abort(a) BY <2>3, <2>7, <3>1, Checking
    <3>2. CASE ~Abort(a) BY <2>7, <3>2, Checking DEF Numbered, TypeOK
    <3> QED BY <3>1, <3>2
  <2>8. CASE b = a /\ ReadVersions(a)
    BY <2>8, ReadingVersions DEF Numbered, StateOf, TypeOK
  <2>9. CASE b = a /\ (InsertRow(a) \/ OverwriteRow(a)) BY <2>3, <2>9, SavedRow
  <2>10. CASE b = a /\ CommitPublish(a) BY <2>3, <2>10, PublishedRows
  <2> QED BY <2>2, <2>4, <2>5, <2>6, <2>7, <2>8, <2>9, <2>10, StepsOfVersions
<1> QED BY <1>4, <1>5, <1>6 DEF Numbered

LEMMA AloneStep ==
    ASSUME TypeOK, Numbered, raced \/ Alone, NEW a \in Actors, RequestStep(a)
    PROVE  (raced \/ Alone)'
<1> SUFFICES ASSUME ~raced' PROVE Alone' OBVIOUS
<1>1. ~raced
  BY StepsOfVersions, Requesting, Saving, Selecting, SavedRow, Checking, ReadingVersions, PublishedRows
<1>2. Alone BY <1>1
<1>3. \A b \in Actors \ {a} : todo[b] = << >> /\ todo'[b] = << >>
  <2>1. CASE Request(a) BY <2>1, <1>1, Requesting, OthersStay
  <2>2. CASE ~Request(a)
    <3>1. todo[a] # << >>
      BY <2>2, StepsOfVersions, Saving, Selecting, SavedRow, Checking, ReadingVersions, PublishedRows
    <3> QED BY <3>1, <1>2, OthersStay DEF Alone
  <2> QED BY <2>1, <2>2
<1>4. /\ \A v, w \in Published : v = w
      /\ \A v \in Published : rows[v].content \in Valid
      /\ todo[a] # << >> => Undisturbed(a)
  BY <1>2 DEF Alone
<1>5. /\ \A v, w \in Published' : v = w
      /\ \A v \in Published' : rows'[v].content \in Valid
      /\ todo'[a] # << >> => Undisturbed(a)'
  <2>1. CASE Request(a)
    BY <1>4, <2>1, Requesting DEF Published, Existing, Undisturbed
  <2>2. CASE ReadNext(a) \/ ReplaceFirst(a)
    BY <1>4, <2>2, Saving DEF Published, Existing, Undisturbed, TypeOK
  <2>3. CASE SelectRow(a)
    BY <1>4, <2>3, Selecting DEF Published, Existing, Undisturbed, StateOf, TypeOK
  <2>4. CASE InsertRow(a) \/ OverwriteRow(a)
    <3>1. Undisturbed(a) /\ pc[a] = "write" BY <1>4, <2>4, SavedRow
    <3>2. Published' \subseteq Published
          /\ \A v \in Published' : rows'[v].content = rows[v].content
      <4> SUFFICES ASSUME NEW v \in Version, rows'[v] # None, rows'[v].state = "published"
                   PROVE  /\ rows[v] # None /\ rows[v].state = "published"
                          /\ rows'[v].content = rows[v].content
        BY DEF Published, Existing
      <4>1. CASE rows'[v] = rows[v] BY <4>1
      <4>2. CASE rows'[v] # rows[v]
        <5>1. v = target[a] /\ rows[v] # None /\ rows[v].state = "published" /\ seen[a][v] = "draft"
          BY <2>4, <4>2, SavedRow
        <5>2. seen[a][v] = "published" BY <3>1, <5>1 DEF Undisturbed, StateOf
        <5> QED BY <5>1, <5>2
      <4> QED BY <4>1, <4>2
    <3>3. pc'[a] = "begin" BY <2>4, SavedRow, JobEnds DEF TypeOK
    <3> QED BY <1>4, <3>2, <3>3 DEF Undisturbed
  <2>5. CASE CheckVersion(a)
    <3>1. CASE Abort(a)
      <4>1. pc'[a] = "begin" BY <2>5, <3>1, Checking, JobEnds DEF TypeOK
      <4> QED BY <1>4, <2>5, <4>1, Checking DEF Published, Existing, Undisturbed
    <3>2. CASE ~Abort(a)
      BY <1>4, <2>5, <3>2, Checking DEF Published, Existing, Undisturbed, TypeOK
    <3> QED BY <3>1, <3>2
  <2>6. CASE ReadVersions(a)
    BY <1>4, <2>6, ReadingVersions DEF Published, Existing, Undisturbed, StateOf, TypeOK
  <2>7. CASE CommitPublish(a)
    <3>1. Undisturbed(a) /\ pc[a] = "commit" BY <1>4, <2>7, PublishedRows
    <3>2. \A v \in Version : seen[a][v] = StateOf(v) BY <3>1 DEF Undisturbed
    <3>3. rows[target[a]] # None => rows[target[a]].content \in Valid BY <3>1 DEF Undisturbed
    <3>4. ASSUME NEW v \in Version, rows'[v] # None, rows'[v].state = "published"
          PROVE  v = target[a] /\ rows'[v].content \in Valid
      <4>1. rows[v] # None /\ rows'[v].content = rows[v].content BY <2>7, <3>4, PublishedRows
      <4>2. seen[a][v] \in {"draft", "published"} BY <3>2, <4>1 DEF StateOf, TypeOK, Row
      <4>3. v # target[a] => rows'[v].state = "draft"
        BY <2>7, <3>2, <4>1, <4>2, PublishedRows DEF StateOf
      <4> QED BY <3>3, <3>4, <4>1, <4>3
    <3>5. pc'[a] = "begin" BY <2>7, PublishedRows, JobEnds DEF TypeOK
    <3> QED BY <3>4, <3>5 DEF Published, Existing, Undisturbed
  <2> QED BY <2>1, <2>2, <2>3, <2>4, <2>5, <2>6, <2>7, StepsOfVersions
<1> QED BY <1>3, <1>5 DEF Alone

LEMMA OwnedStep ==
    ASSUME TypeOK, Numbered, Owned, NEW a \in Actors, RequestStep(a)
    PROVE  Owned'
<1> PICK owner \in [Version -> Actors \union {None}] :
        /\ \A v \in Published :
            /\ owner[v] \in Actors
            /\ pc[owner[v]] = "commit" => seen[owner[v]][v] = "published"
        /\ \A v, w \in Published : owner[v] = owner[w] => v = w
  BY DEF Owned
\* Where no version is published that was not, the owners stay.
<1>1. ASSUME Published' \subseteq Published,
             \A v \in Published : pc'[a] = "commit" => seen'[a][v] = "published"
      PROVE  Owned'
  <2>1. \A v \in Published' : /\ owner[v] \in Actors
                              /\ pc'[owner[v]] = "commit" => seen'[owner[v]][v] = "published"
    BY <1>1, OthersStay
  <2>2. \A v, w \in Published' : owner[v] = owner[w] => v = w BY <1>1
  <2> QED BY <2>1, <2>2 DEF Owned
<1>2. ASSUME rows' = rows, pc'[a] # "commit" PROVE Owned'
  BY <1>1, <1>2 DEF Published, Existing
<1>3. CASE Request(a) BY <1>2, <1>3, Requesting
<1>4. CASE ReadNext(a) \/ ReplaceFirst(a) BY <1>2, <1>4, Saving DEF TypeOK
<1>5. CASE SelectRow(a) BY <1>2, <1>5, Selecting DEF TypeOK
<1>6. CASE CheckVersion(a) BY <1>2, <1>6, Checking, JobEnds DEF TypeOK
<1>7. CASE ReadVersions(a)
  BY <1>1, <1>7, ReadingVersions DEF Published, Existing, StateOf
<1>8. CASE InsertRow(a) \/ OverwriteRow(a)
  <2>1. pc'[a] = "begin" BY <1>8, SavedRow, JobEnds DEF TypeOK
  <2>2. Published' \subseteq Published BY <1>8, SavedRow DEF Published, Existing
  <2> QED BY <1>1, <2>1, <2>2
<1>9. CASE CommitPublish(a)
  <2>1. pc'[a] = "begin" BY <1>9, PublishedRows, JobEnds DEF TypeOK
  <2>2. pc[a] = "commit" BY <1>9, PublishedRows
  <2>3. seen \in [Actors -> Seen] /\ target[a] \in Version BY DEF TypeOK
  \* Another version stays published only if it was so and is another's.
  <2>4. \A v \in Published' : v # target[a] => v \in Published /\ owner[v] # a
    <3> SUFFICES ASSUME NEW v \in Version, rows'[v] # None, rows'[v].state = "published",
                        v # target[a]
                 PROVE  v \in Published /\ owner[v] # a
      BY DEF Published, Existing
    <3>1. seen[a][v] \in {"draft", "published", "absent"} BY <2>3 DEF Seen
    <3>2. seen[a][v] # "published" BY <1>9, PublishedRows
    <3>3. rows'[v] = rows[v] BY <1>9, <3>1, <3>2, PublishedRows
    <3>4. v \in Published BY <3>3 DEF Published, Existing
    <3> QED BY <2>2, <3>2, <3>4
  <2>5. CASE target[a] \in Published
    BY <1>1, <2>1, <2>4, <2>5
  <2>6. CASE target[a] \notin Published
    <3> DEFINE heir == [owner EXCEPT ![target[a]] = a]
    <3>1. heir \in [Version -> Actors \union {None}] /\ heir[target[a]] = a
          /\ \A v \in Version : v # target[a] => heir[v] = owner[v]
      BY <2>3
    <3> HIDE DEF heir
    <3>2. ASSUME NEW v \in Published'
          PROVE  /\ v \in Version
                 /\ heir[v] \in Actors
                 /\ pc'[heir[v]] = "commit" => seen'[heir[v]][v] = "published"
                 /\ v # target[a] => heir[v] # a /\ heir[v] = owner[v] /\ v \in Published
      <4>1. v \in Version BY DEF Published, Existing
      <4>2. CASE v = target[a] BY <2>1, <3>1, <4>1, <4>2
      <4>3. CASE v # target[a] BY <2>4, <3>1, <4>1, <4>3, OthersStay
      <4> QED BY <4>1, <4>2, <4>3
    <3>3. \A v, w \in Published' : heir[v] = heir[w] => v = w BY <3>1, <3>2
    <3> QED BY <3>1, <3>2, <3>3 DEF Owned
  <2> QED BY <2>5, <2>6
<1> QED BY <1>3, <1>4, <1>5, <1>6, <1>7, <1>8, <1>9, StepsOfVersions

\* A step of a request for a version keeps the invariant of Versions.
LEMMA VersionsStep ==
    ASSUME VersionsInv, NEW a \in Actors, RequestStep(a)
    PROVE  VersionsInv'
BY TypedStep, NumberedStep, AloneStep, OwnedStep DEF VersionsInv

LEMMA VersionsStart == Init => VersionsInv
<1> SUFFICES ASSUME Init PROVE VersionsInv OBVIOUS
<1>1. PICK c \in Contents :
          rows = [v \in Version |-> IF v = 1 THEN [content |-> c, state |-> "draft"] ELSE None]
  BY DEF Init
<1>2. [content |-> c, state |-> "draft"] \in Row BY DEF Row
<1>3. TypeOK
  <2>1. rows \in [Version -> Row \union {None}] BY <1>1, <1>2
  <2>2. << >> \in Seq(Job) BY EmptySeq
  <2> QED BY <2>1, <2>2, AVersionExists DEF Init, TypeOK, Unread, Seen
<1>4. Numbered
  BY <1>1, <1>2, NoRowAssumption, AVersionExists DEF Init, Numbered, VersionsAreContiguous, Unread
<1>5. Published = {} BY <1>1 DEF Published, Existing
<1>6. Alone BY <1>5 DEF Init, Alone
<1>7. Owned
  <2>1. [v \in Version |-> None] \in [Version -> Actors \union {None}] OBVIOUS
  <2> QED BY <1>5, <2>1 DEF Owned
<1> QED BY <1>3, <1>4, <1>6, <1>7 DEF VersionsInv

\* The properties of Versions follow.
LEMMA FewArePublished == VersionsInv => PublishedByRacesOnly
<1> SUFFICES ASSUME VersionsInv PROVE PublishedByRacesOnly OBVIOUS
<1>3. CASE raced
  <2>1. PICK owner \in [Version -> Actors \union {None}] :
            /\ \A v \in Published : owner[v] \in Actors
            /\ \A v, w \in Published : owner[v] = owner[w] => v = w
    BY DEF VersionsInv, Owned
  <2> DEFINE f == [v \in Published |-> owner[v]]
  <2>2. f \in Injection(Published, Actors) BY <2>1 DEF Injection, IsInjective
  <2>3. Cardinality(Published) <= Cardinality(Actors)
    BY <2>2, FS_Injection, ActorsAssumption
  <2> QED BY <1>3, <2>3 DEF PublishedByRacesOnly
<1>4. CASE ~raced
  <2>1. \A v, w \in Published : v = w BY <1>4 DEF VersionsInv, Alone
  <2>2. CASE Published = {} BY <1>4, <2>2, FS_EmptySet DEF PublishedByRacesOnly
  <2>3. CASE Published # {}
    <3>1. PICK v \in Published : Published = {v} BY <2>1, <2>3
    <3>2. Cardinality({v}) = 1 BY FS_Singleton
    <3>3. Cardinality(Published) = 1 BY <3>1, <3>2
    <3> QED BY <1>4, <3>3 DEF PublishedByRacesOnly
  <2> QED BY <2>2, <2>3
<1> QED BY <1>3, <1>4

LEMMA ValidArePublished == VersionsInv => PublishedIsValid
BY DEF VersionsInv, Alone, PublishedIsValid

-----------------------------------------------------------------------------
(* The steps of Releases                                                   *)

LEMMA VersionsStutter == ASSUME VersionsInv, UNCHANGED vars PROVE VersionsInv'
<1>1. TypeOK' BY DEF VersionsInv, TypeOK, vars
<1>2. Numbered' BY DEF VersionsInv, Numbered, VersionsAreContiguous, vars
<1>3. Published' = Published BY DEF Published, Existing, vars
<1>4. (raced \/ Alone)' BY <1>3 DEF VersionsInv, Alone, Undisturbed, StateOf, vars
<1>5. Owned' BY <1>3 DEF VersionsInv, Owned, vars
<1> QED BY <1>1, <1>2, <1>4, <1>5 DEF VersionsInv

\* The work of a request goes on or ends, and nothing else changes.
LEMMA Continuing ==
    ASSUME ReleasesInv, NEW a \in Actors, work[a] # None,
           NEW next \in Work \union {None}, Continue(a, next),
           next # None => WorkOK(a)' /\ (a \notin stale => Fresh(a)')
    PROVE  ReleasesInv'
<1>1. /\ rows' = rows /\ todo' = todo /\ pc' = pc /\ target' = target /\ seen' = seen
      /\ raced' = raced /\ policy' = policy /\ release' = release /\ run' = run
      /\ requests' = requests /\ stale' = stale /\ outdated' = outdated
  BY DEF Continue, vars
<1>2. work' = [work EXCEPT ![a] = next] BY DEF Continue
<1>3. work \in [Actors -> Work \union {None}] BY DEF ReleasesInv, ReleasesTypeOK
<1>4. work'[a] = next /\ \A b \in Actors : b # a => work'[b] = work[b] BY <1>2, <1>3
<1>5. VersionsInv' BY <1>1, VersionsStutter DEF ReleasesInv, vars
<1>6. ReleasesTypeOK'
  BY <1>1, <1>2, <1>3, <1>5 DEF VersionsInv, ReleasesInv, ReleasesTypeOK
<1>7. ReferencesOK'
  <2>1. \A e \in Environments : /\ release[e] # None => release[e] \in Existing
                                /\ run[e] # None => run[e].version \in Existing
    BY DEF ReleasesInv, ReferencesOK
  <2>2. Existing' = Existing BY <1>1 DEF Existing
  <2>3. ASSUME NEW b \in Actors, work'[b] # None PROVE todo'[b] = << >> /\ WorkOK(b)'
    <3>1. CASE b = a BY <1>1, <1>4, <2>3, <3>1 DEF ReleasesInv, ReferencesOK
    <3>2. CASE b # a
      BY <1>1, <1>4, <2>2, <2>3, <3>2 DEF ReleasesInv, ReferencesOK, WorkOK, Selected
    <3> QED BY <3>1, <3>2
  <2> QED BY <1>1, <2>1, <2>2, <2>3 DEF ReferencesOK
<1>8. ASSUME NEW b \in Actors \ stale', work'[b] # None PROVE Fresh(b)'
  <2>1. CASE b = a BY <1>1, <1>4, <1>8, <2>1
  <2>2. CASE b # a
    BY <1>1, <1>4, <1>8, <2>2 DEF ReleasesInv, Fresh, Checked
  <2> QED BY <2>1, <2>2
<1>9. ReleasedIsReady' BY <1>1 DEF ReleasesInv, ReleasedIsReady
<1> QED BY <1>5, <1>6, <1>7, <1>8, <1>9 DEF ReleasesInv

LEMMA Failing ==
    ASSUME ReleasesInv, NEW a \in Actors, work[a] # None, Fail(a)
    PROVE  ReleasesInv'
BY Continuing DEF Fail

\* The steps that read.
LEMMA Reading ==
    ASSUME ReleasesInv, NEW a \in Actors,
           SelectEnvironment(a) \/ ReadRelease(a) \/ ListVersions(a) \/ LoadVersion(a)
           \/ CheckEnvironment(a) \/ ReadContent(a) \/ ReadPolicy(a) \/ SelectRelease(a)
    PROVE  ReleasesInv'
<1> DEFINE w == work[a]
           e == w.env
<1>1. w # None /\ w \in Work
  BY DEF ReleasesInv, ReleasesTypeOK, Doing, SelectEnvironment, ReadRelease, ListVersions,
         LoadVersion, CheckEnvironment, ReadContent, ReadPolicy, SelectRelease
<1>2. WorkOK(a) /\ (a \notin stale => Fresh(a)) /\ e \in Environments
  BY <1>1 DEF ReleasesInv, ReferencesOK, Work
<1>3. ASSUME Fail(a) PROVE ReleasesInv' BY <1>1, <1>3, Failing
<1>4. \A v \in Version \union {None}, c \in Contents \union {None},
         p \in {"validate", "environment", "content", "policy", "select", "write", "release", "list", "version"},
         h \in {"insert", "update", "keep"} :
         /\ [w EXCEPT !.place = p, !.how = h] \in Work
         /\ [w EXCEPT !.place = p, !.version = v] \in Work
         /\ [w EXCEPT !.place = p, !.content = c] \in Work
         /\ [w EXCEPT !.place = p] \in Work
  <2> SUFFICES ASSUME NEW v \in Version \union {None}, NEW c \in Contents \union {None},
                      NEW p \in {"validate", "environment", "content", "policy", "select",
                                "write", "release", "list", "version"},
                      NEW h \in {"insert", "update", "keep"}
               PROVE  /\ [w EXCEPT !.place = p, !.how = h] \in Work
                      /\ [w EXCEPT !.place = p, !.version = v] \in Work
                      /\ [w EXCEPT !.place = p, !.content = c] \in Work
                      /\ [w EXCEPT !.place = p] \in Work
    OBVIOUS
  <2>1. w \in Work BY <1>1
  <2> HIDE DEF w
  <2>2. [w EXCEPT !.place = p, !.how = h] \in Work BY <2>1 DEF Work
  <2>3. [w EXCEPT !.place = p, !.version = v] \in Work BY <2>1 DEF Work
  <2>4. [w EXCEPT !.place = p, !.content = c] \in Work BY <2>1 DEF Work
  <2>5. [w EXCEPT !.place = p] \in Work BY <2>1 DEF Work
  <2> QED BY <2>2, <2>3, <2>4, <2>5
<1>5. \A old, new : How(old, new) \in {"insert", "update", "keep"} BY DEF How
<1>6. ASSUME NEW next \in Work, Continue(a, next)
      PROVE  /\ work'[a] = next
             /\ rows' = rows /\ policy' = policy /\ release' = release
  BY <1>6 DEF Continue, vars, ReleasesInv, ReleasesTypeOK
<1>7. CASE SelectEnvironment(a)
  <2> DEFINE next == [w EXCEPT !.place = "write", !.how = How(policy[e], w.policy)]
  <2>1. w.op \in {"environment", "ensure"} BY <1>7 DEF SelectEnvironment, Doing
  <2>4. next \in Work
    <3>1. w.version \in Version \union {None} /\ w.content \in Contents \union {None}
      BY <1>1 DEF Work
    <3> HIDE DEF w
    <3> QED BY <1>4, <1>5, <3>1
  <2>2. Fail(a) \/ Continue(a, next) BY <1>7 DEF SelectEnvironment
  <2>3. CASE Continue(a, next)
    <3>1. work'[a] = next BY <1>6, <2>4, <2>3
    <3>2. WorkOK(a)' /\ Fresh(a)'
      BY <1>1, <1>2, <2>1, <3>1 DEF WorkOK, Selected, Fresh, Checked, Work
    <3> QED BY <1>1, <2>4, <2>3, <3>2, Continuing
  <2> QED BY <1>3, <2>2, <2>3
<1>8. CASE ReadRelease(a)
  <2> DEFINE next == [w EXCEPT !.place = SelectedPlace(e), !.version = release[e]]
  <2>1. release[e] \in Version \union {None} /\ w.op = "run" /\ w.place = "release"
    BY <1>2, <1>8 DEF ReadRelease, Doing, ReleasesInv, ReleasesTypeOK
  <2>2. next \in Work /\ Continue(a, next)
    BY <1>4, <1>8, <2>1 DEF ReadRelease, SelectedPlace
  <2>3. work'[a] = next /\ rows' = rows /\ release' = release BY <1>6, <2>2
  <2>4. /\ next.op = "run" /\ next.env = e /\ next.version = release[e]
        /\ next.place = IF release[e] # None THEN "version" ELSE "list"
    BY <1>1, <2>1 DEF Work, SelectedPlace
  <2>5. WorkOK(a)' /\ Fresh(a)'
    BY <1>2, <2>3, <2>4 DEF WorkOK, Selected, Fresh, Checked, Existing, ReleasesInv, ReferencesOK
  <2> QED BY <1>1, <2>2, <2>5, Continuing
<1>9. CASE ListVersions(a)
  <2>1. PICK v \in Existing : Fail(a) \/ Continue(a, [w EXCEPT !.place = "content", !.version = v])
    BY <1>9 DEF ListVersions
  <2> DEFINE next == [w EXCEPT !.place = "content", !.version = v]
  <2>2. CASE Continue(a, next)
    <3>1. next \in Work BY <1>4 DEF Existing
    <3>2. work'[a] = next /\ rows' = rows /\ release' = release BY <1>6, <2>2, <3>1
    <3>3. next.op = "run" /\ next.env = e /\ next.version = v /\ next.place = "content"
          /\ w.op = "run" /\ w.place = "list" /\ w.version = None
      BY <1>1, <1>2, <1>9 DEF ListVersions, Doing, WorkOK, Work
    <3>4. a \notin stale => release[e] = None BY <1>2, <3>3 DEF Fresh
    <3>5. WorkOK(a)' /\ (a \notin stale => Fresh(a)')
      BY <3>2, <3>3, <3>4 DEF WorkOK, Selected, Fresh, Checked, Existing
    <3> QED BY <1>1, <2>2, <3>1, <3>5, Continuing
  <2> QED BY <1>3, <2>1, <2>2
<1>10. CASE LoadVersion(a)
  <2> DEFINE next == [w EXCEPT !.place = IF w.op = "promote" THEN "environment" ELSE "content"]
  <2>1. Fail(a) \/ Continue(a, next) BY <1>10 DEF LoadVersion
  <2>2. CASE Continue(a, next)
    <3>1. next \in Work BY <1>4
    <3>2. work'[a] = next /\ rows' = rows /\ release' = release BY <1>6, <2>2, <3>1
    <3>3. /\ w.op \in {"run", "run_version", "promote"} /\ w.place \in {"version", "validate"}
          /\ next.op = w.op /\ next.env = e /\ next.version = w.version
          /\ next.place \in {"environment", "content"}
      BY <1>1, <1>10 DEF LoadVersion, Doing, Work
    <3>4. WorkOK(a)' /\ (a \notin stale => Fresh(a)')
      BY <1>2, <3>2, <3>3 DEF WorkOK, Selected, Fresh, Checked, Existing
    <3> QED BY <1>1, <2>2, <3>1, <3>4, Continuing
  <2> QED BY <1>3, <2>1, <2>2
<1>11. CASE CheckEnvironment(a)
  <2> DEFINE next == [w EXCEPT !.place = "content"]
  <2>1. Fail(a) \/ Continue(a, next) BY <1>11 DEF CheckEnvironment
  <2>2. CASE Continue(a, next)
    <3>1. next \in Work BY <1>4
    <3>2. work'[a] = next /\ rows' = rows /\ release' = release BY <1>6, <2>2, <3>1
    <3>3. /\ w.op = "promote" /\ w.place = "environment" /\ next.op = "promote"
          /\ next.version = w.version /\ next.place = "content"
      BY <1>1, <1>11 DEF CheckEnvironment, Doing, Work
    <3>4. WorkOK(a)' /\ Fresh(a)'
      BY <1>2, <3>2, <3>3 DEF WorkOK, Selected, Fresh, Checked, Existing
    <3> QED BY <1>1, <2>2, <3>1, <3>4, Continuing
  <2> QED BY <1>3, <2>1, <2>2
<1>12. CASE ReadContent(a)
  <2> DEFINE next == [w EXCEPT !.place = "policy", !.content = rows[w.version].content]
  <2>1. /\ Continue(a, next) /\ w.place = "content"
        /\ w.op \in {"promote", "run", "run_version"}
    BY <1>12 DEF ReadContent, Doing
  <2>2. w.version \in Existing BY <1>2, <2>1 DEF WorkOK, Selected
  <2>3. rows[w.version].content \in Contents
    BY <2>2 DEF Existing, ReleasesInv, VersionsInv, TypeOK, Row
  <2>4. next \in Work BY <1>4, <2>3
  <2>5. work'[a] = next /\ rows' = rows /\ release' = release BY <1>6, <2>1, <2>4
  <2>6. /\ next.op = w.op /\ next.env = e /\ next.version = w.version
        /\ next.place = "policy" /\ next.content = rows[w.version].content
    BY <1>1 DEF Work
  <2>7. WorkOK(a)' /\ (a \notin stale => Fresh(a)')
    BY <1>2, <2>1, <2>2, <2>5, <2>6 DEF WorkOK, Selected, Fresh, Checked, Existing
  <2> QED BY <1>1, <2>1, <2>4, <2>7, Continuing
<1>13. CASE ReadPolicy(a)
  <2> DEFINE next == [w EXCEPT !.place = IF w.op = "promote" THEN "select" ELSE "write"]
  <2>1. \/ ~IsReady(w.content, policy[e]) /\ Fail(a)
        \/ IsReady(w.content, policy[e]) /\ Continue(a, next)
    <3>1. IF ~IsReady(w.content, policy[e]) THEN Fail(a) ELSE Continue(a, next)
      BY <1>13 DEF ReadPolicy
    <3> HIDE DEF next, w, e
    <3> QED BY <3>1, Zenon
  <2>2. CASE IsReady(w.content, policy[e]) /\ Continue(a, next)
    <3>1. next \in Work BY <1>4
    <3>2. work'[a] = next /\ rows' = rows /\ release' = release /\ policy' = policy
      BY <1>6, <2>2, <3>1
    <3>3. /\ w.op \in {"promote", "run", "run_version"} /\ w.place = "policy"
          /\ next.op = w.op /\ next.env = e /\ next.version = w.version
          /\ next.content = w.content /\ next.place \in {"select", "write"}
      BY <1>1, <1>13 DEF ReadPolicy, Doing, Work
    <3>4. WorkOK(a)' /\ (a \notin stale => Fresh(a)')
      BY <1>2, <2>2, <3>2, <3>3 DEF WorkOK, Selected, Fresh, Checked, Existing, IsReady
    <3> QED BY <1>1, <2>2, <3>1, <3>4, Continuing
  <2> QED BY <1>3, <2>1, <2>2
<1>14. CASE SelectRelease(a)
  <2> DEFINE next == [w EXCEPT !.place = "write", !.how = How(release[e], w.version)]
  <2>1. next \in Work /\ Continue(a, next) BY <1>4, <1>5, <1>14 DEF SelectRelease
  <2>2. work'[a] = next /\ rows' = rows /\ release' = release /\ policy' = policy BY <1>6, <2>1
  <2>3. /\ w.op = "promote" /\ w.place = "select"
        /\ next.op = "promote" /\ next.env = e /\ next.version = w.version
        /\ next.content = w.content /\ next.place = "write"
    BY <1>1, <1>14 DEF SelectRelease, Doing, Work
  <2>4. WorkOK(a)' /\ (a \notin stale => Fresh(a)')
    BY <1>2, <2>2, <2>3 DEF WorkOK, Selected, Fresh, Checked, Existing, IsReady
  <2> QED BY <1>1, <2>1, <2>4, Continuing
<1> QED BY <1>7, <1>8, <1>9, <1>10, <1>11, <1>12, <1>13, <1>14

\* A request begins; it has read nothing yet.
LEMMA Starting ==
    ASSUME ReleasesInv, NEW a \in Actors,
           NEW op \in {"environment", "ensure", "promote", "run", "run_version"},
           NEW place \in {"validate", "select", "release", "version"},
           NEW e \in Environments, NEW v \in Version \union {None}, NEW p \in Policies \union {None},
           Start(a, op, place, e, v, p),
           op \in {"environment", "ensure"} => p \in Policies /\ place = "select",
           op = "run" => place = "release",
           op \in {"promote", "run_version"} => v \in Existing /\ place \in {"validate", "version"}
    PROVE  ReleasesInv'
<1> DEFINE new == [op |-> op, place |-> place, env |-> e, version |-> v,
                   content |-> None, policy |-> p, how |-> "insert"]
<1>1. new \in Work BY DEF Work
<1>2. work \in [Actors -> Work \union {None}] BY DEF ReleasesInv, ReleasesTypeOK
<1>3. work'[a] = new /\ \A b \in Actors : b # a => work'[b] = work[b]
  BY <1>2 DEF Start
<1>4. /\ UNCHANGED vars /\ rows' = rows /\ todo' = todo
      /\ policy' = policy /\ release' = release /\ run' = run /\ outdated' = outdated
      /\ stale' = stale \ {a} /\ todo[a] = << >>
      /\ requests' \in 0..MaxRequests
  BY ReleasesAssumption DEF Start, vars, ReleasesInv, ReleasesTypeOK
<1>5. VersionsInv' BY <1>4, VersionsStutter DEF ReleasesInv
<1>6. ReleasesTypeOK'
  <2>1. work' \in [Actors -> Work \union {None}] BY <1>1, <1>2 DEF Start
  <2> QED BY <1>4, <1>5, <2>1 DEF VersionsInv, ReleasesInv, ReleasesTypeOK
<1>7. /\ new.op = op /\ new.place = place /\ new.env = e /\ new.version = v /\ new.policy = p
  OBVIOUS
<1> HIDE DEF new
<1>8. Existing' = Existing BY <1>4 DEF Existing
<1>9. ReferencesOK'
  <2>1. WorkOK(a)' BY <1>3, <1>7, <1>8 DEF WorkOK, Selected
  <2>2. ASSUME NEW b \in Actors, b # a, work'[b] # None PROVE todo'[b] = << >> /\ WorkOK(b)'
    BY <1>3, <1>4, <1>8, <2>2 DEF ReleasesInv, ReferencesOK, WorkOK, Selected
  <2> QED BY <1>4, <1>8, <2>1, <2>2 DEF ReleasesInv, ReferencesOK
<1>10. ASSUME NEW b \in Actors \ stale', work'[b] # None PROVE Fresh(b)'
  <2>1. CASE b = a BY <1>3, <1>7, <2>1 DEF Fresh, Checked
  <2>2. CASE b # a
    BY <1>3, <1>4, <1>10, <2>2 DEF ReleasesInv, Fresh, Checked
  <2> QED BY <2>1, <2>2
<1>11. ReleasedIsReady' BY <1>4 DEF ReleasesInv, ReleasedIsReady
<1> QED BY <1>5, <1>6, <1>9, <1>10, <1>11 DEF ReleasesInv

LEMMA RequestStarts ==
    ASSUME ReleasesInv, NEW a \in Actors,
           PutEnvironment(a) \/ PromoteVersion(a) \/ RunInEnvironment(a)
    PROVE  ReleasesInv'
<1>1. CASE PutEnvironment(a)
  <2>1. PICK e \in Environments :
          \/ \E p \in Policies : Start(a, "environment", "select", e, None, p)
          \/ Start(a, "ensure", "select", e, None, Default)
    BY <1>1 DEF PutEnvironment
  <2>2. ASSUME NEW p \in Policies, Start(a, "environment", "select", e, None, p) PROVE ReleasesInv'
    BY <2>2, Starting
  <2>3. CASE Start(a, "ensure", "select", e, None, Default)
    BY <2>3, Starting, ReleasesAssumption
  <2> QED BY <2>1, <2>2, <2>3
<1>2. CASE PromoteVersion(a)
  <2>1. PICK e \in Environments, v \in Existing : Start(a, "promote", "validate", e, v, None)
    BY <1>2 DEF PromoteVersion
  <2>2. v \in Version BY DEF Existing
  <2> QED BY <2>1, <2>2, Starting
<1>3. CASE RunInEnvironment(a)
  <2>1. PICK e \in Environments :
          \/ Start(a, "run", "release", e, None, None)
          \/ \E v \in Existing : Start(a, "run_version", "version", e, v, None)
    BY <1>3 DEF RunInEnvironment
  <2>2. CASE Start(a, "run", "release", e, None, None) BY <2>2, Starting
  <2>3. ASSUME NEW v \in Existing, Start(a, "run_version", "version", e, v, None) PROVE ReleasesInv'
    <3>1. v \in Version BY DEF Existing
    <3> QED BY <2>3, <3>1, Starting
  <2> QED BY <2>1, <2>2, <2>3
<1> QED BY <1>1, <1>2, <1>3

\* A request for a version begins, and changes no row.
LEMMA VersionRequested ==
    ASSUME ReleasesInv, NEW a \in Actors, RequestVersion(a)
    PROVE  ReleasesInv'
<1>1. /\ work[a] = None /\ Request(a) /\ requests' \in 0..MaxRequests
      /\ policy' = policy /\ release' = release /\ run' = run /\ work' = work
      /\ stale' = stale /\ outdated' = outdated
  BY ReleasesAssumption DEF RequestVersion, ReleasesInv, ReleasesTypeOK
<1>2. TypeOK /\ Numbered BY DEF ReleasesInv, VersionsInv
<1>3. RequestStep(a) BY <1>1 DEF RequestStep
<1>4. rows' = rows BY <1>1, <1>2, Requesting
<1>5. VersionsInv' BY <1>3, VersionsStep DEF ReleasesInv
<1>6. ReleasesTypeOK' BY <1>1, <1>5 DEF VersionsInv, ReleasesInv, ReleasesTypeOK
<1>7. Existing' = Existing BY <1>4 DEF Existing
<1>8. ASSUME NEW b \in Actors, work'[b] # None PROVE todo'[b] = << >> /\ WorkOK(b)'
  <2>1. b # a /\ work[b] # None BY <1>1, <1>8
  <2>2. todo'[b] = << >> BY <1>2, <1>3, <2>1, OthersStay DEF ReleasesInv, ReferencesOK
  <2> QED BY <1>1, <1>7, <2>1, <2>2 DEF ReleasesInv, ReferencesOK, WorkOK, Selected
<1>9. ReferencesOK' BY <1>1, <1>7, <1>8 DEF ReleasesInv, ReferencesOK
<1>10. ASSUME NEW b \in Actors \ stale', work'[b] # None PROVE Fresh(b)'
  BY <1>1, <1>4, <1>10 DEF ReleasesInv, Fresh, Checked
<1>11. ReleasedIsReady' BY <1>1, <1>4 DEF ReleasesInv, ReleasedIsReady
<1> QED BY <1>5, <1>6, <1>9, <1>10, <1>11 DEF ReleasesInv

\* What the requests that a step does not make stale have read is as it was.
LEMMA StaleNoted ==
    ASSUME ReleasesTypeOK, ReferencesOK, NEW a \in Actors, stale' = stale \union StaleNow(a),
           \A v \in Version : rows[v] # None => rows'[v] # None
    PROVE  /\ stale \subseteq stale' /\ stale' \subseteq Actors
           /\ \A b \in Actors \ (stale' \union {a}) : work[b] # None =>
                /\ Selected(b) /\ work[b].content # None =>
                       rows'[work[b].version].content = rows[work[b].version].content
                /\ Checked(b) => policy'[work[b].env] = policy[work[b].env]
                /\ work[b].op = "run" /\ work[b].place # "release" =>
                       release'[work[b].env] = release[work[b].env]
<1>1. stale \subseteq stale' /\ stale' \subseteq Actors
  BY DEF StaleNow, ReleasesTypeOK
<1>2. ASSUME NEW b \in Actors, b \notin stale', b # a, work[b] # None
      PROVE  /\ Selected(b) /\ work[b].content # None =>
                    rows'[work[b].version].content = rows[work[b].version].content
             /\ Checked(b) => policy'[work[b].env] = policy[work[b].env]
             /\ work[b].op = "run" /\ work[b].place # "release" =>
                    release'[work[b].env] = release[work[b].env]
  <2>1. /\ ~(work[b].version \in Overwritten /\ work[b].content # None)
        /\ ~(work[b].env \in Changed /\ Checked(b))
        /\ ~(work[b].env \in Moved /\ work[b].op = "run" /\ work[b].place # "release")
    BY <1>2 DEF StaleNow
  <2>2. work[b].env \in Environments BY <1>2 DEF ReleasesTypeOK, Work
  <2>3. Selected(b) => work[b].version \in Existing BY <1>2 DEF ReferencesOK, WorkOK
  <2> QED BY <2>1, <2>2, <2>3 DEF Overwritten, Changed, Moved
<1> QED BY <1>1, <1>2

\* And so are the releases and the runs that it does not mark as outdated.
LEMMA OutdatedNoted ==
    ASSUME ReleasesTypeOK, ReferencesOK, outdated' = outdated \union OutdatedNow
    PROVE  /\ outdated \subseteq outdated' /\ outdated' \subseteq {"release", "run"} \X Environments
           /\ \A e \in Environments :
                /\ release[e] # None /\ <<"release", e>> \notin outdated' =>
                       /\ rows'[release[e]].content = rows[release[e]].content
                       /\ policy'[e] = policy[e]
                /\ run[e] # None /\ <<"run", e>> \notin outdated' =>
                       /\ rows'[run[e].version].content = rows[run[e].version].content
                       /\ policy'[e] = policy[e]
<1>1. outdated \subseteq outdated' /\ outdated' \subseteq {"release", "run"} \X Environments
  BY DEF OutdatedNow, ReleasesTypeOK
<1>2. ASSUME NEW e \in Environments, release[e] # None, <<"release", e>> \notin outdated'
      PROVE  /\ rows'[release[e]].content = rows[release[e]].content
             /\ policy'[e] = policy[e]
  <2>1. release[e] \notin Overwritten /\ e \notin Changed BY <1>2 DEF OutdatedNow
  <2>2. release[e] \in Existing BY <1>2 DEF ReferencesOK
  <2> QED BY <2>1, <2>2 DEF Overwritten, Changed
<1>3. ASSUME NEW e \in Environments, run[e] # None, <<"run", e>> \notin outdated'
      PROVE  /\ rows'[run[e].version].content = rows[run[e].version].content
             /\ policy'[e] = policy[e]
  <2>1. run[e].version \notin Overwritten /\ e \notin Changed BY <1>3 DEF OutdatedNow
  <2>2. run[e].version \in Existing BY <1>3 DEF ReferencesOK
  <2> QED BY <2>1, <2>2 DEF Overwritten, Changed
<1> QED BY <1>1, <1>2, <1>3

\* What the request b, which goes on as it was, has read stays fresh.
LEMMA StaysFresh ==
    ASSUME ReleasesInv, NEW a \in Actors, NEW b \in Actors, b # a, b \notin stale',
           work[b] # None, work'[b] = work[b], stale' = stale \union StaleNow(a),
           \A v \in Version : rows[v] # None => rows'[v] # None
    PROVE  Fresh(b)'
<1>1. b \notin stale /\ Fresh(b) BY DEF ReleasesInv
<1>2. WorkOK(b) BY DEF ReleasesInv, ReferencesOK
<1>3. /\ Selected(b) /\ work[b].content # None =>
             rows'[work[b].version].content = rows[work[b].version].content
      /\ Checked(b) => policy'[work[b].env] = policy[work[b].env]
      /\ work[b].op = "run" /\ work[b].place # "release" =>
             release'[work[b].env] = release[work[b].env]
  BY StaleNoted DEF ReleasesInv
<1>4. work[b].place = "policy" \/ Checked(b) =>
          work[b].content # None /\ Selected(b)
  <2> SUFFICES ASSUME work[b].place = "policy" \/ Checked(b)
               PROVE  work[b].content # None /\ Selected(b)
    OBVIOUS
  <2>1. work[b].content = rows[work[b].version].content BY <1>1 DEF Fresh
  <2>2. Selected(b) BY <1>2 DEF WorkOK, Checked, Selected
  <2>3. rows[work[b].version] \in Row
    BY <1>2, <2>2 DEF WorkOK, Existing, ReleasesInv, VersionsInv, TypeOK
  <2> QED BY <2>1, <2>2, <2>3, NoRowAssumption DEF Row
<1> QED BY <1>1, <1>3, <1>4 DEF Fresh, Checked

LEMMA VersionStepKeeps ==
    ASSUME ReleasesInv, NEW a \in Actors, VersionStep(a)
    PROVE  ReleasesInv'
<1>1. /\ policy' = policy /\ release' = release /\ run' = run /\ work' = work
      /\ requests' = requests
      /\ stale' = stale \union StaleNow(a) /\ outdated' = outdated \union OutdatedNow
      /\ RequestStep(a) /\ ~(todo[a] = << >>)
  <2>1. TypeOK /\ Numbered BY DEF ReleasesInv, VersionsInv
  <2>2. todo[a] # << >>
    BY <2>1, Saving, Selecting, SavedRow, Checking, ReadingVersions, PublishedRows
       DEF VersionStep, Save, Publish
  <2> QED BY <2>2 DEF VersionStep, RequestStep
<1>2. TypeOK /\ Numbered BY DEF ReleasesInv, VersionsInv
<1>3. VersionsInv' BY <1>1, VersionsStep DEF ReleasesInv
<1>4. \A v \in Version : rows[v] # None => rows'[v] # None BY <1>1, <1>2, RowsStay
<1>5. Existing \subseteq Existing' BY <1>4 DEF Existing
<1>6. work[a] = None BY <1>1 DEF ReleasesInv, ReferencesOK
<1>7. ReleasesTypeOK /\ ReferencesOK BY DEF ReleasesInv
<1>8. ReleasesTypeOK'
  <2>1. stale' \subseteq Actors BY <1>1, <1>4, <1>7, StaleNoted
  <2>2. outdated' \subseteq {"release", "run"} \X Environments BY <1>1, <1>7, OutdatedNoted
  <2> QED BY <1>1, <1>3, <1>7, <2>1, <2>2 DEF VersionsInv, ReleasesTypeOK
<1>9. ReferencesOK'
  <2>1. ASSUME NEW b \in Actors, work'[b] # None PROVE todo'[b] = << >> /\ WorkOK(b)'
    <3>1. b # a /\ work[b] # None BY <1>1, <1>6, <2>1
    <3>2. todo'[b] = << >> BY <1>1, <1>2, <1>7, <3>1, OthersStay DEF ReferencesOK
    <3> QED BY <1>1, <1>5, <1>7, <3>1, <3>2 DEF ReferencesOK, WorkOK, Selected
  <2> QED BY <1>1, <1>5, <1>7, <2>1 DEF ReferencesOK
<1>10. ASSUME NEW b \in Actors \ stale', work'[b] # None PROVE Fresh(b)'
  BY <1>1, <1>4, <1>6, <1>10, StaysFresh
<1>11. ReleasedIsReady'
  <2>1. outdated \subseteq outdated' BY <1>1
  <2> QED BY <1>1, <1>7, <2>1, OutdatedNoted DEF ReleasesInv, ReleasedIsReady
<1> QED BY <1>3, <1>8, <1>9, <1>10, <1>11 DEF ReleasesInv

\* The request a has written and is done: what remains to be shown.
Finishes(a) ==
    /\ UNCHANGED vars /\ work' = [work EXCEPT ![a] = None] /\ requests' = requests
    /\ \/ stale' = stale \union StaleNow(a)
       \/ stale' = stale /\ policy' = policy /\ release' = release
    /\ policy' \in [Environments -> Policies \union {None}]
    /\ release' \in [Environments -> Version \union {None}]
    /\ run' \in [Environments -> Run \union {None}]
    /\ outdated' \subseteq {"release", "run"} \X Environments
    /\ \A e \in Environments : /\ release'[e] # None => release'[e] \in Existing
                               /\ run'[e] # None => run'[e].version \in Existing

LEMMA Done ==
    ASSUME ReleasesInv, NEW a \in Actors, work[a] # None, Finishes(a), ReleasedIsReady'
    PROVE  ReleasesInv'
<1> USE DEF Finishes
<1>1. rows' = rows /\ todo' = todo BY DEF vars
<1>2. VersionsInv' BY VersionsStutter DEF ReleasesInv
<1>3. work \in [Actors -> Work \union {None}] /\ ReleasesTypeOK /\ ReferencesOK
  BY DEF ReleasesInv, ReleasesTypeOK
<1>4. work'[a] = None /\ \A b \in Actors : b # a => work'[b] = work[b] BY <1>3
<1>5. stale' \subseteq Actors BY <1>1, <1>3, StaleNoted DEF ReleasesTypeOK
<1>6. ReleasesTypeOK'
  <2>1. work' \in [Actors -> Work \union {None}] BY <1>3
  <2> QED BY <1>2, <1>3, <1>5, <2>1 DEF VersionsInv, ReleasesTypeOK
<1>7. Existing' = Existing BY <1>1 DEF Existing
<1>8. ReferencesOK' BY <1>1, <1>3, <1>4, <1>7 DEF ReferencesOK, WorkOK, Selected
<1>9. ASSUME NEW b \in Actors \ stale', work'[b] # None PROVE Fresh(b)'
  <2>1. b # a /\ work[b] # None /\ work'[b] = work[b] BY <1>4, <1>9
  <2>2. CASE stale' = stale \union StaleNow(a) BY <1>1, <1>9, <2>1, <2>2, StaysFresh
  <2>3. CASE stale' = stale /\ policy' = policy /\ release' = release
    <3>1. Fresh(b) BY <1>9, <2>1, <2>3 DEF ReleasesInv
    <3> QED BY <1>1, <2>1, <2>3, <3>1 DEF Fresh, Checked
  <2> QED BY <2>2, <2>3
<1> QED BY <1>2, <1>6, <1>8, <1>9 DEF ReleasesInv

LEMMA EnvironmentWritten ==
    ASSUME ReleasesInv, NEW a \in Actors, WriteEnvironment(a)
    PROVE  ReleasesInv'
<1> DEFINE e == work[a].env
<1>1. /\ work[a] # None /\ work[a] \in Work /\ work[a].op \in {"environment", "ensure"}
      /\ work' = [work EXCEPT ![a] = None] /\ UNCHANGED vars
      /\ release' = release /\ run' = run /\ requests' = requests
      /\ stale' = stale \union StaleNow(a) /\ outdated' = outdated \union OutdatedNow
  BY DEF WriteEnvironment, Doing, ReleasesInv, ReleasesTypeOK
<1>2. e \in Environments /\ work[a].policy \in Policies
  BY <1>1 DEF Work, ReleasesInv, ReferencesOK, WorkOK
<1>3. policy' \in [Environments -> Policies \union {None}]
  BY <1>2 DEF WriteEnvironment, ReleasesInv, ReleasesTypeOK
<1>4. ReleasesTypeOK /\ ReferencesOK BY DEF ReleasesInv
<1>5. outdated' \subseteq {"release", "run"} \X Environments /\ outdated \subseteq outdated'
  BY <1>1, <1>4, OutdatedNoted
<1>6. ReleasedIsReady'
  BY <1>1, <1>4, <1>5, OutdatedNoted DEF ReleasesInv, ReleasedIsReady
<1>7. Finishes(a) BY <1>1, <1>3, <1>4, <1>5 DEF Finishes, ReleasesTypeOK, ReferencesOK
<1> QED BY <1>1, <1>6, <1>7, Done

\* What a promotion or a run that is not stale writes is ready.
LEMMA WritesWhatIsReady ==
    ASSUME ReleasesInv, NEW a \in Actors,
           Doing(a, "write", {"promote", "run", "run_version"})
    PROVE  /\ work[a].env \in Environments /\ work[a].version \in Existing
           /\ a \notin stale =>
                  /\ policy[work[a].env] # None
                  /\ <<rows[work[a].version].content, policy[work[a].env]>> \in Ready
<1>1. work[a] # None /\ work[a] \in Work /\ work[a].place = "write"
      /\ work[a].op \in {"promote", "run", "run_version"}
  BY DEF Doing, ReleasesInv, ReleasesTypeOK
<1>2. work[a].env \in Environments BY <1>1 DEF Work
<1>3. work[a].version \in Existing
  BY <1>1 DEF ReleasesInv, ReferencesOK, WorkOK, Selected
<1>4. a \notin stale => Fresh(a) BY <1>1 DEF ReleasesInv
<1>5. Checked(a) BY <1>1 DEF Checked
<1> QED BY <1>2, <1>3, <1>4, <1>5 DEF Fresh, IsReady

LEMMA ReleaseWritten ==
    ASSUME ReleasesInv, NEW a \in Actors, WriteRelease(a)
    PROVE  ReleasesInv'
<1> DEFINE e == work[a].env
           v == work[a].version
<1>1. Doing(a, "write", {"promote"}) /\ work[a] # None BY DEF WriteRelease, Doing
<1>2. /\ e \in Environments /\ v \in Existing
      /\ a \notin stale => policy[e] # None /\ <<rows[v].content, policy[e]>> \in Ready
  <2>1. Doing(a, "write", {"promote", "run", "run_version"}) BY <1>1 DEF Doing
  <2> QED BY <2>1, WritesWhatIsReady
<1>3. CASE Fail(a) BY <1>1, <1>3, Failing
<1>4. CASE ~Fail(a)
  <2>1. /\ release' = [release EXCEPT ![e] = IF work[a].how = "keep" THEN @ ELSE v]
        /\ IF release'[e] = v THEN Mark("release", a) ELSE UNCHANGED outdated
        /\ work' = [work EXCEPT ![a] = None]
        /\ UNCHANGED vars /\ policy' = policy /\ run' = run /\ requests' = requests
        /\ stale' = stale \union StaleNow(a)
    BY <1>4 DEF WriteRelease
  <2>2. /\ ReleasesTypeOK /\ ReferencesOK /\ ReleasedIsReady BY DEF ReleasesInv
  <2>3. v \in Version BY <1>2 DEF Existing
  <2>4. /\ release \in [Environments -> Version \union {None}]
        /\ release' \in [Environments -> Version \union {None}]
        /\ release'[e] = v \/ release' = release
        /\ \A f \in Environments \ {e} : release'[f] = release[f]
    BY <1>2, <2>1, <2>2, <2>3 DEF ReleasesTypeOK
  <2>5. rows' = rows BY <2>1 DEF vars
  <2>6. outdated \subseteq {"release", "run"} \X Environments BY <2>2 DEF ReleasesTypeOK
  <2> HIDE DEF v
  <2>7. outdated' \subseteq {"release", "run"} \X Environments
    BY <1>2, <2>1, <2>6 DEF Mark
  <2>8. ASSUME NEW f \in Environments, <<"run", f>> \notin outdated' PROVE <<"run", f>> \notin outdated
    BY <1>2, <2>1, <2>8 DEF Mark
  <2>9. ASSUME NEW f \in Environments, f # e, <<"release", f>> \notin outdated'
         PROVE  <<"release", f>> \notin outdated
    BY <1>2, <2>1, <2>9 DEF Mark
  <2>10. ASSUME <<"release", e>> \notin outdated'
         PROVE  IF release'[e] = v THEN a \notin stale ELSE <<"release", e>> \notin outdated
    BY <1>2, <2>1, <2>10 DEF Mark
  <2> HIDE DEF e
  <2>11. ReleasedIsReady'
    <3>1. ASSUME NEW f \in Environments, release'[f] # None, <<"release", f>> \notin outdated'
          PROVE  policy[f] # None /\ <<rows[release'[f]].content, policy[f]>> \in Ready
      <4>1. CASE f = e /\ release'[e] = v BY <1>2, <2>10, <3>1, <4>1
      <4>2. CASE f = e /\ release'[e] # v
        BY <2>2, <2>4, <2>10, <3>1, <4>2 DEF ReleasedIsReady
      <4>3. CASE f # e BY <2>2, <2>4, <2>9, <3>1, <4>3 DEF ReleasedIsReady
      <4> QED BY <4>1, <4>2, <4>3
    <3>2. ASSUME NEW f \in Environments, run[f] # None, <<"run", f>> \notin outdated'
          PROVE  policy[f] # None /\ <<rows[run[f].version].content, policy[f]>> \in Ready
      BY <2>2, <2>8, <3>2 DEF ReleasedIsReady
    <3> QED BY <2>1, <2>5, <3>1, <3>2 DEF ReleasedIsReady
  <2>12. policy' \in [Environments -> Policies \union {None}] /\ run' \in [Environments -> Run \union {None}]
    BY <2>1, <2>2 DEF ReleasesTypeOK
  <2>13. \A f \in Environments : /\ release'[f] # None => release'[f] \in Existing
                                 /\ run'[f] # None => run'[f].version \in Existing
    BY <1>2, <2>1, <2>2, <2>4 DEF ReferencesOK
  <2>14. Finishes(a) BY <2>1, <2>4, <2>7, <2>12, <2>13 DEF Finishes
  <2> QED BY <1>1, <2>11, <2>14, Done
<1> QED BY <1>3, <1>4

LEMMA RunCreated ==
    ASSUME ReleasesInv, NEW a \in Actors, CreateRun(a)
    PROVE  ReleasesInv'
<1> DEFINE e == work[a].env
           new == [version |-> work[a].version, asked |-> work[a].op = "run_version"]
<1>1. /\ work[a] # None /\ run' = [run EXCEPT ![e] = new] /\ Mark("run", a)
      /\ work' = [work EXCEPT ![a] = None]
      /\ UNCHANGED vars /\ policy' = policy /\ release' = release /\ requests' = requests
      /\ stale' = stale
  BY DEF CreateRun, Doing
<1>2. /\ e \in Environments /\ work[a].version \in Existing
      /\ a \notin stale =>
             policy[e] # None /\ <<rows[work[a].version].content, policy[e]>> \in Ready
  <2>1. Doing(a, "write", {"promote", "run", "run_version"}) BY DEF CreateRun, Doing
  <2> QED BY <2>1, WritesWhatIsReady
<1>3. ReleasesTypeOK /\ ReferencesOK /\ ReleasedIsReady BY DEF ReleasesInv
<1>4. new \in Run /\ new.version = work[a].version BY <1>2 DEF Run, Existing
<1> HIDE DEF new
<1>5. /\ run' \in [Environments -> Run \union {None}]
      /\ run'[e] = new /\ \A f \in Environments \ {e} : run'[f] = run[f]
  BY <1>1, <1>2, <1>3, <1>4 DEF ReleasesTypeOK
<1>6. rows' = rows BY <1>1 DEF vars
<1>7. /\ outdated' \subseteq {"release", "run"} \X Environments
      /\ \A f \in Environments : /\ <<"release", f>> \in outdated' <=> <<"release", f>> \in outdated
                                 /\ f # e => (<<"run", f>> \in outdated' <=> <<"run", f>> \in outdated)
      /\ <<"run", e>> \notin outdated' => a \notin stale
  <2>1. outdated \subseteq {"release", "run"} \X Environments BY <1>3 DEF ReleasesTypeOK
  <2> QED BY <1>1, <1>2, <2>1 DEF Mark
<1>8. ReleasedIsReady'
  <2>1. ASSUME NEW f \in Environments, run'[f] # None, <<"run", f>> \notin outdated'
        PROVE  policy[f] # None /\ <<rows[run'[f].version].content, policy[f]>> \in Ready
    <3>1. CASE f = e BY <1>2, <1>4, <1>5, <1>7, <2>1, <3>1
    <3>2. CASE f # e BY <1>3, <1>5, <1>7, <2>1, <3>2 DEF ReleasedIsReady
    <3> QED BY <3>1, <3>2
  <2>2. ASSUME NEW f \in Environments, release[f] # None, <<"release", f>> \notin outdated'
        PROVE  policy[f] # None /\ <<rows[release[f]].content, policy[f]>> \in Ready
    BY <1>3, <1>7, <2>2 DEF ReleasedIsReady
  <2> QED BY <1>1, <1>6, <2>1, <2>2 DEF ReleasedIsReady
<1>9. /\ policy' \in [Environments -> Policies \union {None}]
      /\ release' \in [Environments -> Version \union {None}]
  BY <1>1, <1>3 DEF ReleasesTypeOK
<1>10. \A f \in Environments : /\ release'[f] # None => release'[f] \in Existing
                               /\ run'[f] # None => run'[f].version \in Existing
  BY <1>1, <1>2, <1>3, <1>4, <1>5 DEF ReferencesOK
<1> HIDE DEF e
<1>11. Finishes(a) BY <1>1, <1>5, <1>7, <1>9, <1>10 DEF Finishes
<1> QED BY <1>1, <1>8, <1>11, Done

LEMMA RunStarted ==
    ASSUME ReleasesInv, NEW e \in Environments, StartRun(e)
    PROVE  ReleasesInv'
<1>1. /\ run' = [run EXCEPT ![e] = None] /\ outdated' = outdated \ {<<"run", e>>}
      /\ UNCHANGED vars /\ rows' = rows /\ todo' = todo /\ policy' = policy /\ release' = release
      /\ work' = work /\ requests' = requests /\ stale' = stale
  BY DEF StartRun, vars
<1>2. VersionsInv' BY <1>1, VersionsStutter DEF ReleasesInv
<1>3. ReleasesTypeOK' BY <1>1, <1>2 DEF VersionsInv, ReleasesInv, ReleasesTypeOK
<1>4. run'[e] = None /\ \A f \in Environments : f # e => run'[f] = run[f]
  BY <1>1 DEF ReleasesInv, ReleasesTypeOK
<1>5. ReferencesOK'
  BY <1>1, <1>4 DEF ReleasesInv, ReferencesOK, WorkOK, Selected, Existing
<1>6. \A a \in Actors \ stale' : work'[a] # None => Fresh(a)'
  BY <1>1 DEF ReleasesInv, Fresh, Checked
<1>7. ReleasedIsReady' BY <1>1, <1>4 DEF ReleasesInv, ReleasedIsReady
<1> QED BY <1>2, <1>3, <1>5, <1>6, <1>7 DEF ReleasesInv

-----------------------------------------------------------------------------
(* The theorems                                                            *)

LEMMA ReleasesStart == ReleasesInit => ReleasesInv
<1> SUFFICES ASSUME ReleasesInit PROVE ReleasesInv OBVIOUS
<1>1. VersionsInv BY VersionsStart DEF ReleasesInit
<1>2. ReleasesTypeOK
  BY <1>1, ReleasesAssumption DEF VersionsInv, ReleasesInit, ReleasesTypeOK
<1> QED BY <1>1, <1>2 DEF ReleasesInit, ReleasesInv, ReferencesOK, ReleasedIsReady

LEMMA ReleasesStep == ReleasesInv /\ [ReleasesNext]_allVars => ReleasesInv'
<1> SUFFICES ASSUME ReleasesInv, [ReleasesNext]_allVars PROVE ReleasesInv' OBVIOUS
<1>1. ASSUME NEW a \in Actors, RequestVersion(a) PROVE ReleasesInv'
  BY <1>1, VersionRequested
<1>2. ASSUME NEW a \in Actors, PutEnvironment(a) \/ PromoteVersion(a) \/ RunInEnvironment(a)
      PROVE  ReleasesInv'
  BY <1>2, RequestStarts
<1>3. ASSUME NEW a \in Actors, VersionStep(a) PROVE ReleasesInv' BY <1>3, VersionStepKeeps
<1>4. ASSUME NEW a \in Actors, Environment(a) PROVE ReleasesInv'
  BY <1>4, Reading, EnvironmentWritten DEF Environment
<1>5. ASSUME NEW a \in Actors, Promote(a) PROVE ReleasesInv'
  BY <1>5, Reading, ReleaseWritten DEF Promote
<1>6. ASSUME NEW a \in Actors, Select(a) PROVE ReleasesInv' BY <1>6, Reading DEF Select
<1>7. ASSUME NEW a \in Actors, Readiness(a) PROVE ReleasesInv' BY <1>7, Reading DEF Readiness
<1>8. ASSUME NEW a \in Actors, CreateRun(a) PROVE ReleasesInv' BY <1>8, RunCreated
<1>9. ASSUME NEW e \in Environments, StartRun(e) PROVE ReleasesInv' BY <1>9, RunStarted
<1>10. CASE UNCHANGED allVars
  <2>1. /\ UNCHANGED vars /\ rows' = rows /\ todo' = todo /\ policy' = policy
        /\ release' = release /\ run' = run
        /\ work' = work /\ requests' = requests /\ stale' = stale /\ outdated' = outdated
    BY <1>10 DEF allVars, vars, releaseVars
  <2>2. VersionsInv' BY <2>1, VersionsStutter DEF ReleasesInv
  <2>3. ReleasesTypeOK' BY <2>1, <2>2 DEF VersionsInv, ReleasesInv, ReleasesTypeOK
  <2>4. ReferencesOK' BY <2>1 DEF ReleasesInv, ReferencesOK, WorkOK, Selected, Existing
  <2>5. \A a \in Actors \ stale' : work'[a] # None => Fresh(a)'
    BY <2>1 DEF ReleasesInv, Fresh, Checked
  <2>6. ReleasedIsReady' BY <2>1 DEF ReleasesInv, ReleasedIsReady
  <2> QED BY <2>2, <2>3, <2>4, <2>5, <2>6 DEF ReleasesInv
<1> QED BY <1>1, <1>2, <1>3, <1>4, <1>5, <1>6, <1>7, <1>8, <1>9, <1>10 DEF ReleasesNext

\* The variables keep their types: versions, environments and requests.
THEOREM TypeCorrect == ReleasesSpec => []ReleasesTypeOK
<1>1. ReleasesInv => ReleasesTypeOK BY DEF ReleasesInv
<1> QED BY <1>1, ReleasesStart, ReleasesStep, PTL DEF ReleasesSpec

\* However many saves of new versions and imports race, create_workflow_version
\* leaves no gap between the numbers.
THEOREM NumbersHaveNoGap == ReleasesSpec => []VersionsAreContiguous
<1>1. ReleasesInv => VersionsAreContiguous BY DEF ReleasesInv, VersionsInv, Numbered
<1> QED BY <1>1, ReleasesStart, ReleasesStep, PTL DEF ReleasesSpec

\* publish_workflow leaves at most one version published for every request
\* that raced, and one if none did.
THEOREM FewPublished == ReleasesSpec => []PublishedByRacesOnly
<1>1. ReleasesInv => PublishedByRacesOnly BY FewArePublished DEF ReleasesInv
<1> QED BY <1>1, ReleasesStart, ReleasesStep, PTL DEF ReleasesSpec

\* While requests come one at a time, every published version is valid.
THEOREM PublishedValid == ReleasesSpec => []PublishedIsValid
<1>1. ReleasesInv => PublishedIsValid BY ValidArePublished DEF ReleasesInv
<1> QED BY <1>1, ReleasesStart, ReleasesStep, PTL DEF ReleasesSpec

\* What promote_workflow releases and what is queued in an environment
\* is ready for it, unless it was changed after it was checked.
THEOREM ReleasedReady == ReleasesSpec => []ReleasedIsReady
<1>1. ReleasesInv => ReleasedIsReady BY DEF ReleasesInv
<1> QED BY <1>1, ReleasesStart, ReleasesStep, PTL DEF ReleasesSpec

\* A run is created of the released version where it asked for none: what it
\* selected is still the release when it is not stale.
LEMMA ReleaseIsRun ==
    ReleasesInv /\ [ReleasesNext]_allVars =>
        \A e \in Environments :
            run'[e] # None /\ run[e] = None /\ ~run'[e].asked /\ release[e] # None
              /\ <<"run", e>> \notin outdated' => run'[e].version = release[e]
<1> SUFFICES ASSUME ReleasesInv, [ReleasesNext]_allVars, NEW e \in Environments,
                    run'[e] # None, run[e] = None, ~run'[e].asked, release[e] # None,
                    <<"run", e>> \notin outdated'
             PROVE  run'[e].version = release[e]
  OBVIOUS
<1>1. PICK a \in Actors : CreateRun(a)
  <2>1. run' # run OBVIOUS
  <2>2. ASSUME NEW f \in Environments, StartRun(f) PROVE FALSE
    BY <2>2 DEF StartRun, ReleasesInv, ReleasesTypeOK
  <2>3. CASE UNCHANGED allVars BY <2>1, <2>3 DEF allVars, releaseVars
  <2>4. ASSUME NEW a \in Actors,
               RequestVersion(a) \/ PutEnvironment(a) \/ PromoteVersion(a)
               \/ RunInEnvironment(a) \/ VersionStep(a)
        PROVE FALSE
    BY <2>1, <2>4 DEF RequestVersion, PutEnvironment, PromoteVersion, RunInEnvironment, Start,
       VersionStep
  <2>5. ASSUME NEW a \in Actors, Environment(a) \/ Promote(a) \/ Select(a) \/ Readiness(a)
        PROVE FALSE
    BY <2>1, <2>5 DEF Environment, SelectEnvironment, WriteEnvironment, Promote, CheckEnvironment,
       SelectRelease, WriteRelease, Select, ReadRelease, ListVersions, LoadVersion, Readiness,
       ReadContent, ReadPolicy, Fail, Continue
  <2> QED BY <2>2, <2>3, <2>4, <2>5 DEF ReleasesNext
<1>2. /\ work[a] # None /\ work[a] \in Work /\ work[a].place = "write"
      /\ work[a].op \in {"run", "run_version"}
      /\ Mark("run", a)
      /\ run' = [run EXCEPT ![work[a].env] =
             [version |-> work[a].version, asked |-> work[a].op = "run_version"]]
  BY <1>1 DEF CreateRun, Doing, ReleasesInv, ReleasesTypeOK
<1>3. run \in [Environments -> Run \union {None}] BY DEF ReleasesInv, ReleasesTypeOK
<1>4. e = work[a].env BY <1>2, <1>3
<1>5. run'[e] = [version |-> work[a].version, asked |-> work[a].op = "run_version"]
  BY <1>2, <1>3, <1>4
<1>6. run'[e].version = work[a].version /\ run'[e].asked = (work[a].op = "run_version")
  BY <1>5
<1>7. work[a].op = "run" BY <1>2, <1>6, Zenon
<1>8. a \notin stale BY <1>2, <1>4 DEF Mark
<1>9. Fresh(a) BY <1>2, <1>8 DEF ReleasesInv
<1> QED BY <1>2, <1>4, <1>6, <1>7, <1>9 DEF Fresh

\* A run that asks for no version executes the release of its environment,
\* unless another promotion or publication intervened.
THEOREM RunsTheRelease == ReleasesSpec => EnvironmentRunsItsRelease
<1>1. ReleasesInv /\ [ReleasesNext]_allVars =>
        [\A e \in Environments :
            run'[e] # None /\ run[e] = None /\ ~run'[e].asked /\ release[e] # None
              /\ <<"run", e>> \notin outdated' => run'[e].version = release[e]]_allVars
  BY ReleaseIsRun
<1> QED BY <1>1, ReleasesStart, ReleasesStep, PTL DEF ReleasesSpec, EnvironmentRunsItsRelease
=============================================================================
