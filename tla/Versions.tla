------------------------------ MODULE Versions ------------------------------
(***************************************************************************)
(* The versions of one workflow.  Saving a new version takes the next      *)
(* number in one transaction, looks for its row in a second one and, at    *)
(* the end of that, inserts or overwrites the row.  Publishing reads the   *)
(* states of all versions and then commits those it changed.  An import    *)
(* saves and publishes one version after the other.  The steps of          *)
(* different requests interleave.                                          *)
(***************************************************************************)
EXTENDS Naturals, Sequences, FiniteSets

CONSTANTS
    Actors,       \* request threads
    Contents,     \* the nodes and edges of a version
    Valid,        \* those that WorkflowValidator accepts
    MaxVersions,  \* bound: versions
    None          \* no row

ASSUME ActorsAssumption == IsFiniteSet(Actors)
ASSUME ContentsAssumption ==
    /\ Valid \subseteq Contents /\ Valid # {}
    /\ MaxVersions \in Nat \ {0}

Version == 1..MaxVersions
Row     == [content : Contents, state : {"draft", "published"}]
Job     == [op : {"create", "overwrite"}, content : Contents]
           \union [op : {"publish"}, version : Version]
           \union [op : {"publish_created"}]

ASSUME NoRowAssumption == None \notin Row /\ None \notin Contents

VARIABLES
    rows,     \* the rows of the workflow, by version
    todo,     \* what each request has still to do
    pc,       \* where each request is in the first of these
    target,   \* the version it saves or publishes
    seen,     \* the states it read, "absent" where there was no row
    raced     \* history: a request began while another one was at work

vars == <<rows, todo, pc, target, seen, raced>>

Seen   == [Version -> {"draft", "published", "absent"}]
Unread == [v \in Version |-> "absent"]

TypeOK ==
    /\ rows \in [Version -> Row \union {None}]
    /\ todo \in [Actors -> Seq(Job)]
    /\ pc \in [Actors -> {"begin", "select", "write", "read", "commit"}]
    /\ target \in [Actors -> Version]
    /\ seen \in [Actors -> Seen]
    /\ raced \in BOOLEAN

Init ==
    /\ \E c \in Contents :
        rows = [v \in Version |-> IF v = 1 THEN [content |-> c, state |-> "draft"] ELSE None]
    /\ todo = [a \in Actors |-> << >>]
    /\ pc = [a \in Actors |-> "begin"]
    /\ target = [a \in Actors |-> 1]
    /\ seen = [a \in Actors |-> Unread]
    /\ raced = FALSE

Existing  == {v \in Version : rows[v] # None}
Latest    == CHOOSE v \in Existing : \A w \in Existing : w <= v
Published == {v \in Existing : rows[v].state = "published"}
StateOf(v) == IF rows[v] = None THEN "absent" ELSE rows[v].state

-----------------------------------------------------------------------------
(* Requests                                                                *)

\* The jobs of an import of a bundle of one or two versions, of which some
\* were published: the first is saved as version 1, and published last.
Publishing(yes, op) == IF yes THEN <<op>> ELSE << >>

Bundle(first, more, firstPublished, morePublished) ==
    <<[op |-> "overwrite", content |-> first]>>
    \o (IF more = None THEN << >>
        ELSE <<[op |-> "create", content |-> more]>>
             \o Publishing(morePublished, [op |-> "publish_created"]))
    \o Publishing(firstPublished, [op |-> "publish", version |-> 1])

NoteTheRace(a) == raced' = (raced \/ \E b \in Actors \ {a} : todo[b] # << >>)

CreateVersion(a) ==
    /\ todo[a] = << >>
    /\ NoteTheRace(a)
    /\ \E c \in Contents :
        todo' = [todo EXCEPT ![a] = <<[op |-> "create", content |-> c]>>]
    /\ UNCHANGED <<rows, pc, target, seen>>

PublishVersion(a) ==
    /\ todo[a] = << >>
    /\ NoteTheRace(a)
    /\ \E v \in Existing :
        todo' = [todo EXCEPT ![a] = <<[op |-> "publish", version |-> v]>>]
    /\ UNCHANGED <<rows, pc, target, seen>>

ImportVersions(a) ==
    /\ todo[a] = << >>
    /\ NoteTheRace(a)
    /\ \E first \in Contents, more \in Contents \union {None}, p, q \in BOOLEAN :
        todo' = [todo EXCEPT ![a] = Bundle(first, more, p, q)]
    /\ UNCHANGED <<rows, pc, target, seen>>

\* The request is at this point of a job of this kind.
At(a, place, ops) == todo[a] # << >> /\ pc[a] = place /\ Head(todo[a]).op \in ops

Goto(a, place) == pc' = [pc EXCEPT ![a] = place]

FinishJob(a) ==
    /\ Goto(a, "begin")
    /\ todo' = [todo EXCEPT ![a] = Tail(@)]
    /\ seen' = [seen EXCEPT ![a] = Unread]

\* An error ends the request, and what an import had still to do.
Abort(a) ==
    /\ Goto(a, "begin")
    /\ todo' = [todo EXCEPT ![a] = << >>]
    /\ seen' = [seen EXCEPT ![a] = Unread]

-----------------------------------------------------------------------------
(* Saving a version                                                        *)

\* Mutant: a number is left out.
NumberAfterNext(v) == v + 2

NumberAfter(v) == v + 1

\* get_next_version; the save that follows is a transaction of its own.
ReadNext(a) ==
    /\ At(a, "begin", {"create"})
    /\ NumberAfter(Latest) \in Version
    /\ target' = [target EXCEPT ![a] = NumberAfter(Latest)]
    /\ Goto(a, "select")
    /\ UNCHANGED <<rows, todo, seen, raced>>

\* An import saves its first version as the first of the workflow.
ReplaceFirst(a) ==
    /\ At(a, "begin", {"overwrite"})
    /\ target' = [target EXCEPT ![a] = 1]
    /\ Goto(a, "select")
    /\ UNCHANGED <<rows, todo, seen, raced>>

SelectRow(a) ==
    /\ At(a, "select", {"create", "overwrite"})
    /\ seen' = [seen EXCEPT ![a][target[a]] = StateOf(target[a])]
    /\ Goto(a, "write")
    /\ UNCHANGED <<rows, todo, target, raced>>

\* Inserting a row that somebody else has inserted violates uq_workflow_version.
InsertRow(a) ==
    LET v == target[a]
    IN  /\ At(a, "write", {"create", "overwrite"})
        /\ seen[a][v] = "absent"
        /\ IF rows[v] = None
           THEN /\ rows' = [rows EXCEPT ![v] =
                       [content |-> Head(todo[a]).content, state |-> "draft"]]
                /\ FinishJob(a)
           ELSE Abort(a) /\ UNCHANGED rows
        /\ UNCHANGED <<target, raced>>

\* The state is in the UPDATE only if it was not a draft when it was read.
OverwriteRow(a) ==
    LET v == target[a]
    IN  /\ At(a, "write", {"create", "overwrite"})
        /\ seen[a][v] # "absent"
        /\ rows' = [rows EXCEPT
               ![v].content = Head(todo[a]).content,
               ![v].state = IF seen[a][v] = "published" THEN "draft" ELSE @]
        /\ FinishJob(a)
        /\ UNCHANGED <<target, raced>>

-----------------------------------------------------------------------------
(* Publishing a version                                                    *)

\* Mutant: an invalid version is accepted.
PublishableAlways(v) == TRUE

Publishable(v) == rows[v].content \in Valid

\* The version is read and validated.
CheckVersion(a) ==
    /\ At(a, "begin", {"publish", "publish_created"})
    /\ LET job == Head(todo[a])
           v   == IF job.op = "publish" THEN job.version ELSE target[a]
       IN  /\ target' = [target EXCEPT ![a] = v]
           /\ IF Publishable(v) THEN Goto(a, "read") /\ UNCHANGED <<todo, seen>>
                                ELSE Abort(a)
    /\ UNCHANGED <<rows, raced>>

ReadVersions(a) ==
    /\ At(a, "read", {"publish", "publish_created"})
    /\ seen' = [seen EXCEPT ![a] = [v \in Version |-> StateOf(v)]]
    /\ Goto(a, "commit")
    /\ UNCHANGED <<rows, todo, target, raced>>

\* Mutant: the other versions keep their state.
NewStateOthersKept(v, published, old) == IF v = published THEN "published" ELSE old

NewState(v, published, old) == IF v = published THEN "published" ELSE "draft"

\* The states that changed are written, those that did not are left alone.
CommitPublish(a) ==
    /\ At(a, "commit", {"publish", "publish_created"})
    /\ rows' = [v \in Version |->
           LET old == seen[a][v]
               new == NewState(v, target[a], old)
           IN  IF old # "absent" /\ new # old THEN [rows[v] EXCEPT !.state = new]
                                              ELSE rows[v]]
    /\ FinishJob(a)
    /\ UNCHANGED <<target, raced>>

-----------------------------------------------------------------------------
Save(a)    == ReadNext(a) \/ ReplaceFirst(a) \/ SelectRow(a) \/ InsertRow(a) \/ OverwriteRow(a)
Publish(a) == CheckVersion(a) \/ ReadVersions(a) \/ CommitPublish(a)

Request(a) == CreateVersion(a) \/ PublishVersion(a) \/ ImportVersions(a)

Next == \E a \in Actors : Request(a) \/ Save(a) \/ Publish(a)

Spec == Init /\ [][Next]_vars

-----------------------------------------------------------------------------
(* Properties                                                              *)

\* However saves race, the versions are 1, 2, 3, ... without a gap: a number
\* that was read is never beyond the next one.
VersionsAreContiguous ==
    \A v \in Version : v > 1 /\ rows[v] # None => rows[v - 1] # None

\* Two versions are published only by requests that raced: at most one for
\* each of them.  Requests that come one at a time leave at most one.
PublishedByRacesOnly ==
    Cardinality(Published) <= (IF raced THEN Cardinality(Actors) ELSE 1)

\* While requests come one at a time, imports too, what is published is valid,
\* although versions are overwritten ("Cannot publish an invalid workflow
\* version").  A save that read the version as a draft, and overwrites it
\* after it was validated and published, breaks this.
PublishedIsValid == ~raced => \A v \in Published : rows[v].content \in Valid
=============================================================================
