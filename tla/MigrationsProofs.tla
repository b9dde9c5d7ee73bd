-------------------------- MODULE MigrationsProofs --------------------------
(***************************************************************************)
(* Proofs about Migrations, for any number of processes, crashes, tables,  *)
(* columns and indexes: a recorded migration has been applied, and what    *)
(* serves has the whole schema.                                            *)
(*                                                                         *)
(* The schema only grows, and with a table come all its columns (Grows).   *)
(* So what a process knows of the schema stays true whatever the others    *)
(* do, and the invariant says for every place what the process has done so *)
(* far of the migration that it executes (ProcessOK).                      *)
(***************************************************************************)
EXTENDS Migrations, TLAPS

-----------------------------------------------------------------------------
(* The invariant                                                           *)

\* The columns of the migration have been added.
Past == {"users", "indexes", "vectors", "record"}

\* What process q has done of the migrations before the one it executes ...
CourseOK(q) ==
    /\ q.done \subseteq recorded
    /\ q.at \notin {"down", "serving"} =>
           q.version \in Migration /\ \A v \in Migration : v < q.version => v \in recorded
    /\ q.at = "serving" => Migration \subseteq recorded

\* ... of the tables of that one ...
TablesMade(q) ==
    /\ q.at = "make" => Table \ tables \subseteq q.todo
    /\ q.version \in CreateAll /\ q.at \in Past \union {"columns", "look"} => tables = Table
    /\ q.version = ConvertAt /\ q.at = "record" => Users \in tables

\* ... of its columns ...
ColumnsAdded(q) ==
    /\ q.at = "look" => \A c \in Column :
           Columns[c].table \in tables /\ Columns[c].by = q.version =>
               c \in columns \union q.add \/ Columns[c].table \in q.todo
    /\ q.at \in Past => \A c \in Column :
           Columns[c].table \in tables /\ Columns[c].by = q.version => c \in columns

\* ... and of what else it does.
RestDone(q) ==
    /\ q.at \in Past /\ q.version = ConvertAt => ~plain
    /\ q.at = "users" => q.version = ConvertAt
    /\ q.at = "indexes" => q.version = IndexAt /\ Index \ q.index \subseteq indexes
    /\ q.at = "vectors" => q.version = VectorsAt
    /\ q.at = "record" /\ q.version = IndexAt => Index \subseteq indexes
    /\ q.at = "record" /\ q.version = VectorsAt => (vectors <=> dialect = "postgresql")

ProcessOK(q) == CourseOK(q) /\ TablesMade(q) /\ ColumnsAdded(q) /\ RestDone(q)

VectorsOK == vectors => dialect = "postgresql"

IInv == /\ TypeOK
        /\ RecordedIsApplied
        /\ VectorsOK
        /\ \A p \in Processes : ProcessOK(proc[p])

-----------------------------------------------------------------------------
(* Types                                                                   *)

\* What the constants range over.
LEMMA Domains ==
    /\ Table \subseteq Nat /\ Column \subseteq Nat /\ Index \subseteq Nat
    /\ \A t \in Table : Tables[t] \in 0..Last
    /\ \A c \in Column : Columns[c].table \in Table /\ Columns[c].by \in Migration
    /\ \A i \in Index : Indexes[i] \in Table
    /\ Last \in Nat /\ Last >= 8
<1>1. Table \subseteq Nat /\ \A t \in Table : Tables[t] \in 0..Last
  BY MigrationsAssumption DEF MigrationsAssumption, Table
<1>2. Column \subseteq Nat /\ \A c \in Column : Columns[c] \in [table : Table, by : Migration]
  <2> DEFINE R == [table : Table, by : Migration]
  <2>1. Columns \in Seq(R)
    BY MigrationsAssumption DEF MigrationsAssumption
  <2> HIDE DEF R
  <2>2. Column \subseteq Nat /\ \A c \in Column : Columns[c] \in R
    BY <2>1 DEF Column
  <2> QED BY <2>2 DEF R
<1>3. Index \subseteq Nat /\ \A i \in Index : Indexes[i] \in Table
  BY MigrationsAssumption DEF MigrationsAssumption, Index
<1>4. Last \in Nat /\ Last >= 8
  BY MigrationsAssumption DEF MigrationsAssumption, VectorsAt
<1> QED BY <1>1, <1>2, <1>3, <1>4

\* A process that goes on, to serve or to a migration, stays a process.
LEMMA GoOnType ==
    ASSUME TypeOK, NEW p \in Processes, NEW q \in Process, NEW v, GoOn(p, q, v)
    PROVE  proc' \in [Processes -> Process]
<1>1. Last \in Nat
  BY Domains
<1>2. CASE proc' = [proc EXCEPT ![p] = [q EXCEPT !.at = "serving", !.version = Last + 1]]
  <2>1. Last + 1 \in 0..Last + 1
    BY <1>1
  <2>2. [q EXCEPT !.at = "serving", !.version = Last + 1] \in Process
    BY <2>1 DEF Process, Place
  <2> QED BY <1>2, <2>2 DEF TypeOK
<1>3. CASE \E w \in Migration : proc' = [proc EXCEPT ![p] =
               [q EXCEPT !.version = w, !.at = IF w \in CreateAll THEN "create" ELSE "columns"]]
  <2>1. PICK w \in Migration : proc' = [proc EXCEPT ![p] =
               [q EXCEPT !.version = w, !.at = IF w \in CreateAll THEN "create" ELSE "columns"]]
    BY <1>3
  <2>2. w \in 0..Last + 1
    BY <1>1 DEF Migration
  <2>3. [q EXCEPT !.version = w, !.at = IF w \in CreateAll THEN "create" ELSE "columns"] \in Process
    BY <2>2 DEF Process, Place
  <2> QED BY <2>1, <2>3 DEF TypeOK
<1> QED BY <1>2, <1>3 DEF GoOn, Set, First

\* A process that is down is one.
LEMMA DownType == Down \in Process
<1>1. 0 \in 0..Last + 1
  BY Domains
<1> QED BY <1>1 DEF Down, Process, Place

\* A new database and one of every earlier release are well typed.
LEMMA TypeInit == Init => TypeOK
<1> SUFFICES ASSUME Init PROVE TypeOK
  OBVIOUS
<1>1. MaxCrashes \in Nat /\ Last \in Nat
  BY MigrationsAssumption DEF MigrationsAssumption
<1>2. proc \in [Processes -> Process]
  BY DownType DEF Init
<1>3. recorded \subseteq Migration /\ plain \in BOOLEAN /\ vectors \in BOOLEAN
  <2>1. \A s \in 0..Last : 1..s \subseteq Migration
    BY <1>1 DEF Migration
  <2>2. CASE Empty
    BY <2>2 DEF Empty
  <2>3. CASE \E s \in 0..Last : Released(s)
    <3>1. PICK s \in 0..Last : Released(s)
      BY <2>3
    <3>2. recorded \subseteq Migration
      BY <2>1, <3>1 DEF Released
    <3>3. plain = (s < ConvertAt) /\ vectors = (s >= VectorsAt /\ dialect = "postgresql")
      BY <3>1 DEF Released
    <3> QED BY <3>2, <3>3
  <2> QED BY <2>2, <2>3 DEF Init
<1>4. tables \subseteq Table /\ columns \subseteq Column /\ indexes \subseteq Index
  BY DEF Init, Empty, Released, ColumnsOf, IndexesOf
<1> QED BY <1>1, <1>2, <1>3, <1>4 DEF Init, TypeOK

\* What a process does keeps the types: its own record, and the schema.
LEMMA SetType ==
    ASSUME TypeOK, NEW p \in Processes, NEW q \in Process, Set(p, q)
    PROVE  proc' \in [Processes -> Process]
  BY DEF TypeOK, Set

\* A process that dies stays a process.
LEMMA DieType ==
    ASSUME TypeOK, NEW p \in Processes, Die(p)
    PROVE  proc' \in [Processes -> Process]
  BY DownType, SetType DEF Die

\* Types of create_all.
LEMMA TypeCreate ==
    ASSUME TypeOK, NEW p \in Processes,
           ListMissing(p) \/ MakeTable(p) \/ MakeIndex(p) \/ MakeTables(p) \/ AllMade(p)
    PROVE  TypeOK'
<1> DEFINE q == proc[p]
<1>1. q \in Process
  BY DEF TypeOK
<1>2. ASSUME NEW ts \in SUBSET Table
      PROVE  ColumnsOf(ts) \subseteq Column /\ IndexesOf(ts) \subseteq Index
  BY DEF ColumnsOf, IndexesOf
<1>3. q.todo \subseteq Table /\ q.index \subseteq Index
  BY <1>1 DEF Process
<1>4. CASE ListMissing(p)
  <2>1. [q EXCEPT !.at = "make", !.todo = Table \ tables] \in Process
    BY <1>1 DEF Process, Place
  <2> QED BY <1>4, <2>1, SetType DEF ListMissing, TypeOK, schema
<1>5. CASE MakeTable(p)
  <2>1. PICK t \in q.todo :
            \/ Die(p) /\ UNCHANGED schema
            \/ /\ tables' = tables \union {t}
               /\ columns' = columns \union ColumnsOf({t})
               /\ Set(p, [q EXCEPT !.todo = @ \ {t}, !.index = IndexesOf({t})])
               /\ UNCHANGED <<recorded, indexes, plain, vectors>>
    BY <1>5 DEF MakeTable, First
  <2>2. [q EXCEPT !.todo = @ \ {t}, !.index = IndexesOf({t})] \in Process
    BY <1>1, <1>2, <1>3 DEF Process
  <2>3. proc' \in [Processes -> Process]
    BY <2>1, <2>2, SetType, DieType
  <2>4. tables' \subseteq Table /\ columns' \subseteq Column
    BY <1>2, <1>3, <2>1 DEF TypeOK, schema
  <2> QED BY <1>5, <2>1, <2>3, <2>4 DEF MakeTable, TypeOK, schema
<1>6. CASE MakeIndex(p)
  <2>1. PICK i \in q.index :
            \/ Die(p) /\ UNCHANGED schema
            \/ /\ indexes' = indexes \union {i}
               /\ Set(p, [q EXCEPT !.index = @ \ {i}])
               /\ UNCHANGED <<recorded, tables, columns, plain, vectors>>
    BY <1>6 DEF MakeIndex, First
  <2>2. [q EXCEPT !.index = @ \ {i}] \in Process
    BY <1>1, <1>3 DEF Process
  <2>3. proc' \in [Processes -> Process]
    BY <2>1, <2>2, SetType, DieType
  <2> QED BY <1>3, <1>6, <2>1, <2>3 DEF MakeIndex, TypeOK, schema
<1>7. CASE MakeTables(p)
  <2>1. \/ Die(p) /\ UNCHANGED schema
        \/ /\ tables' = tables \union q.todo
           /\ columns' = columns \union ColumnsOf(q.todo)
           /\ indexes' = indexes \union IndexesOf(q.todo)
           /\ Set(p, [q EXCEPT !.todo = {}])
           /\ UNCHANGED <<recorded, plain, vectors>>
    BY <1>7 DEF MakeTables
  <2>2. [q EXCEPT !.todo = {}] \in Process
    BY <1>1 DEF Process
  <2>3. proc' \in [Processes -> Process]
    BY <2>1, <2>2, SetType, DieType
  <2>4. tables' \subseteq Table /\ columns' \subseteq Column /\ indexes' \subseteq Index
    BY <1>2, <1>3, <2>1 DEF TypeOK, schema
  <2> QED BY <1>7, <2>1, <2>3, <2>4 DEF MakeTables, TypeOK, schema
<1>8. CASE AllMade(p)
  <2>1. [q EXCEPT !.at = "columns"] \in Process
    BY <1>1 DEF Process, Place
  <2> QED BY <1>8, <2>1, SetType DEF AllMade, TypeOK, schema
<1> QED BY <1>4, <1>5, <1>6, <1>7, <1>8

\* Types of the columns.
LEMMA TypeColumns ==
    ASSUME TypeOK, NEW p \in Processes,
           ListTables(p) \/ LookAtTable(p) \/ AddColumn(p) \/ AllAdded(p)
    PROVE  TypeOK'
<1> DEFINE q == proc[p]
<1>1. q \in Process
  BY DEF TypeOK
<1>2. q.todo \subseteq Table /\ q.add \subseteq Column /\ q.index \subseteq Index
  BY <1>1 DEF Process
<1>3. CASE ListTables(p)
  <2> DEFINE todo == {t \in tables : \E c \in ColumnsOf({t}) : Columns[c].by = q.version}
  <2>1. todo \subseteq Table /\ tables \subseteq Table
    BY DEF TypeOK
  <2>2. [q EXCEPT !.at = "look", !.seen = tables, !.todo = todo] \in Process
    BY <1>1, <2>1 DEF Process, Place
  <2> QED BY <1>3, <2>2, SetType DEF ListTables, TypeOK, schema
<1>4. CASE LookAtTable(p)
  <2>1. PICK t \in q.todo : Set(p, [q EXCEPT !.todo = @ \ {t}, !.add = Absent(q.version, t)])
    BY <1>4 DEF LookAtTable, First
  <2>2. Absent(q.version, t) \subseteq Column
    BY DEF Absent, ColumnsOf
  <2>3. [q EXCEPT !.todo = @ \ {t}, !.add = Absent(q.version, t)] \in Process
    BY <1>1, <1>2, <2>2 DEF Process
  <2> QED BY <1>4, <2>1, <2>3, SetType DEF LookAtTable, TypeOK, schema
<1>5. CASE AddColumn(p)
  <2>1. PICK c \in q.add :
            \/ Die(p) /\ UNCHANGED schema
            \/ /\ columns' = columns \union {c}
               /\ Set(p, [q EXCEPT !.add = @ \ {c}])
               /\ UNCHANGED <<recorded, tables, indexes, plain, vectors>>
    BY <1>5 DEF AddColumn, First
  <2>2. [q EXCEPT !.add = @ \ {c}] \in Process
    BY <1>1, <1>2 DEF Process
  <2>3. proc' \in [Processes -> Process]
    BY <2>1, <2>2, SetType, DieType
  <2> QED BY <1>2, <1>5, <2>1, <2>3 DEF AddColumn, TypeOK, schema
<1>6. CASE AllAdded(p)
  <2>1. PICK next \in Place, left \in SUBSET Index :
            Set(p, [q EXCEPT !.at = next, !.index = left])
    <3>1. CASE q.version = ConvertAt
      BY <1>6, <3>1 DEF AllAdded, Place, ConvertAt, IndexAt
    <3>2. CASE q.version = IndexAt
      BY <1>6, <3>2 DEF AllAdded, Place, ConvertAt, IndexAt, VectorsAt
    <3>3. CASE q.version = VectorsAt
      BY <1>6, <3>3 DEF AllAdded, Place, ConvertAt, IndexAt, VectorsAt
    <3>4. CASE q.version \notin {ConvertAt, IndexAt, VectorsAt}
      BY <1>6, <3>4 DEF AllAdded, Place
    <3> QED BY <3>1, <3>2, <3>3, <3>4
  <2>2. [q EXCEPT !.at = next, !.index = left] \in Process
    BY <1>1 DEF Process
  <2>3. proc' \in [Processes -> Process]
    BY <2>1, <2>2, SetType
  <2>4. plain' \in BOOLEAN
    BY <1>6 DEF AllAdded
  <2> QED BY <1>6, <2>3, <2>4 DEF AllAdded, TypeOK
<1> QED BY <1>3, <1>4, <1>5, <1>6

\* Types of the start, of what else migrations do, and of the record.
LEMMA TypeRest ==
    ASSUME TypeOK, NEW p \in Processes, CourseOK(proc[p]),
           Boot(p) \/ MakeUsers(p) \/ EnsureIndex(p) \/ MakeVectors(p) \/ RecordMigration(p)
             \/ Crash(p)
    PROVE  TypeOK'
<1> DEFINE q == proc[p]
<1>1. q \in Process /\ q.index \subseteq Index
  BY DEF TypeOK, Process
<1>2. CASE Boot(p)
  <2>1. [Down EXCEPT !.done = recorded] \in Process
    BY DownType DEF Process, TypeOK
  <2>2. proc' \in [Processes -> Process]
    BY <1>2, <2>1, GoOnType DEF Boot
  <2> QED BY <1>2, <2>2 DEF Boot, TypeOK, schema
<1>3. CASE MakeUsers(p)
  <2>1. [q EXCEPT !.at = "record"] \in Process
    BY <1>1 DEF Process, Place
  <2>2. proc' \in [Processes -> Process]
    BY <1>3, <2>1, SetType, DieType DEF MakeUsers
  <2>3. tables' \subseteq Table
    BY <1>3, TablesAssumption DEF MakeUsers, TypeOK, TablesAssumption
  <2> QED BY <1>3, <2>2, <2>3 DEF MakeUsers, TypeOK
<1>4. CASE EnsureIndex(p)
  <2>1. CASE q.index = {}
    <3>1. [q EXCEPT !.at = "record"] \in Process
      BY <1>1 DEF Process, Place
    <3> QED BY <1>4, <2>1, <3>1, SetType DEF EnsureIndex, TypeOK
  <2>2. CASE q.index # {}
    <3>1. PICK i \in q.index : /\ indexes' = indexes \union Ensured(i)
                               /\ Set(p, [q EXCEPT !.index = @ \ {i}])
      BY <1>4, <2>2 DEF EnsureIndex, First
    <3>2. [q EXCEPT !.index = @ \ {i}] \in Process
      BY <1>1 DEF Process
    <3>3. proc' \in [Processes -> Process]
      BY <3>1, <3>2, SetType
    <3>4. indexes' \subseteq Index
      BY <1>1, <3>1 DEF TypeOK, Ensured
    <3> QED BY <1>4, <3>3, <3>4 DEF EnsureIndex, TypeOK
  <2> QED BY <2>1, <2>2
<1>5. CASE MakeVectors(p)
  <2>1. [q EXCEPT !.at = "record"] \in Process
    BY <1>1 DEF Process, Place
  <2>2. proc' \in [Processes -> Process]
    BY <1>5, <2>1, SetType DEF MakeVectors
  <2>3. vectors' \in BOOLEAN
    BY <1>5 DEF MakeVectors
  <2> QED BY <1>5, <2>2, <2>3 DEF MakeVectors, TypeOK
<1>6. CASE RecordMigration(p)
  <2>1. CASE q.version \in recorded
    BY <1>6, <2>1, DieType DEF RecordMigration, TypeOK
  <2>2. CASE q.version \notin recorded
    <3>1. proc' \in [Processes -> Process]
      BY <1>1, <1>6, <2>2, GoOnType DEF RecordMigration
    <3>2. q.version \in Migration
      BY <1>6 DEF RecordMigration, At, CourseOK
    <3> QED BY <1>6, <2>2, <3>1, <3>2 DEF RecordMigration, TypeOK
  <2> QED BY <2>1, <2>2
<1>7. CASE Crash(p)
  <2>1. MaxCrashes \in Nat
    BY MigrationsAssumption DEF MigrationsAssumption
  <2> QED BY <1>7, <2>1, DieType DEF Crash, TypeOK, schema
<1> QED BY <1>2, <1>3, <1>4, <1>5, <1>6, <1>7

\* A process that executes a migration that there is keeps all types.
LEMMA TypeStep ==
    ASSUME TypeOK, NEW p \in Processes, CourseOK(proc[p]), Step(p) \/ Crash(p)
    PROVE  TypeOK'
  BY TypeCreate, TypeColumns, TypeRest DEF Step

-----------------------------------------------------------------------------
(* The schema only grows                                                   *)

Grows ==
    /\ dialect' = dialect
    /\ recorded \subseteq recorded' /\ tables \subseteq tables'
    /\ columns \subseteq columns' /\ indexes \subseteq indexes'
    /\ \A c \in Column : Columns[c].table \in tables' \ tables => c \in columns'
    /\ (plain' => plain) /\ (vectors => vectors')
    /\ vectors' => vectors \/ dialect = "postgresql"

\* No process takes back what another has made.
LEMMA SchemaGrows ==
    ASSUME TypeOK, NEW p \in Processes, Step(p) \/ Crash(p)
    PROVE  Grows
<1>1. CASE Boot(p) \/ ListMissing(p) \/ AllMade(p) \/ ListTables(p) \/ LookAtTable(p) \/ Crash(p)
  <2>1. UNCHANGED <<dialect, schema>>
    BY <1>1 DEF Boot, ListMissing, AllMade, ListTables, LookAtTable, Crash
  <2> QED BY <2>1 DEF schema, Grows
<1>2. CASE MakeTable(p)
  BY <1>2 DEF MakeTable, First, ColumnsOf, schema, Grows, TypeOK
<1>3. CASE MakeIndex(p) \/ AddColumn(p)
  BY <1>3 DEF MakeIndex, AddColumn, schema, Grows, TypeOK
<1>4. CASE MakeTables(p)
  BY <1>4 DEF MakeTables, ColumnsOf, schema, Grows, TypeOK
<1>5. CASE AllAdded(p)
  BY <1>5 DEF AllAdded, Grows, TypeOK
<1>6. CASE MakeUsers(p)
  BY <1>6, TablesAssumption DEF MakeUsers, Grows, TypeOK, TablesAssumption
<1>7. CASE EnsureIndex(p)
  BY <1>7 DEF EnsureIndex, Grows, TypeOK
<1>8. CASE MakeVectors(p)
  BY <1>8 DEF MakeVectors, Grows, TypeOK
<1>9. CASE RecordMigration(p)
  BY <1>9 DEF RecordMigration, Grows, TypeOK
<1> QED BY <1>1, <1>2, <1>3, <1>4, <1>5, <1>6, <1>7, <1>8, <1>9 DEF Step

\* What is true of a process stays true while it does nothing.
LEMMA OthersStay ==
    ASSUME TypeOK, TypeOK', Grows, VectorsOK,
           NEW r \in Processes, ProcessOK(proc[r]), proc'[r] = proc[r]
    PROVE  ProcessOK(proc[r])'
<1>1. CourseOK(proc[r])'
  BY DEF ProcessOK, CourseOK, Grows
<1>2. TablesMade(proc[r])'
  BY DEF ProcessOK, TablesMade, Grows, TypeOK
<1>3. ColumnsAdded(proc[r])'
  BY DEF ProcessOK, ColumnsAdded, Grows
<1>4. RestDone(proc[r])'
  BY DEF ProcessOK, RestDone, Grows, VectorsOK, TypeOK
<1> QED BY <1>1, <1>2, <1>3, <1>4 DEF ProcessOK

\* What is recorded stays applied while nothing is recorded.
LEMMA AppliedStays ==
    ASSUME TypeOK, TypeOK', Grows, VectorsOK, RecordedIsApplied, recorded' = recorded
    PROVE  RecordedIsApplied'
  BY DEF RecordedIsApplied, Grows, VectorsOK, ColumnsOf, TypeOK

\* SQLite never gets the table of vectors.
LEMMA VectorsStay ==
    ASSUME Grows, VectorsOK
    PROVE  VectorsOK'
  BY DEF Grows, VectorsOK

-----------------------------------------------------------------------------
(* What the process that acts has done                                     *)

\* A process that is down has nothing to keep.
LEMMA DeadIsOK ==
    ASSUME TypeOK, NEW p \in Processes, Die(p)
    PROVE  ProcessOK(proc[p])'
<1>1. proc'[p] = Down
  BY DEF Die, Set, TypeOK
<1> QED BY <1>1 DEF Down, Past, ProcessOK, CourseOK, TablesMade, ColumnsAdded, RestDone, CreateAll,
           ConvertAt

\* A process that stays at its migration keeps its course.
LEMMA KeepsCourse ==
    ASSUME Grows, NEW p \in Processes, CourseOK(proc[p]),
           proc'[p].done = proc[p].done, proc'[p].version = proc[p].version,
           proc[p].at \notin {"down", "serving"}, proc'[p].at \notin {"down", "serving"}
    PROVE  CourseOK(proc[p])'
  BY DEF CourseOK, Grows

\* The first migration that was not found recorded has all others before it.
LEMMA GoesOn ==
    ASSUME TypeOK, NEW p \in Processes, NEW q \in Process, NEW v \in Nat, GoOn(p, q, v),
           q.done \subseteq recorded', \A w \in Migration : w <= v => w \in recorded'
    PROVE  ProcessOK(proc[p])'
<1> DEFINE left == {w \in Migration : w > v /\ w \notin q.done}
<1>1. Migration \subseteq Nat
  BY DEF Migration
<1>2. CASE left = {} /\ Set(p, [q EXCEPT !.at = "serving", !.version = Last + 1])
  <2>1. proc'[p].at = "serving" /\ proc'[p].done = q.done
    BY <1>2 DEF Set, TypeOK, Process
  <2>2. Migration \subseteq recorded'
    BY <1>1, <1>2
  <2> QED BY <2>1, <2>2 DEF Past, ProcessOK, CourseOK, TablesMade, ColumnsAdded, RestDone
<1>3. CASE \E w \in First(left) : Set(p, [q EXCEPT !.version = w,
               !.at = IF w \in CreateAll THEN "create" ELSE "columns"])
  <2>1. PICK w \in First(left) : Set(p, [q EXCEPT !.version = w,
               !.at = IF w \in CreateAll THEN "create" ELSE "columns"])
    BY <1>3
  <2>2. /\ proc'[p].at = IF w \in CreateAll THEN "create" ELSE "columns"
        /\ proc'[p].version = w /\ proc'[p].done = q.done
    BY <2>1 DEF Set, TypeOK, Process
  <2>3. w \in Migration /\ \A u \in Migration : u < w => u \in recorded'
    <3>1. w \in left /\ \A u \in left : w <= u
      BY DEF First
    <3> SUFFICES ASSUME NEW u \in Migration, u < w PROVE u \in recorded'
      BY <3>1
    <3>2. w \in Nat /\ u \in Nat
      BY <1>1, <3>1
    <3>3. u \notin left
      BY <3>1, <3>2
    <3>4. u <= v \/ u \in q.done
      BY <3>2, <3>3
    <3> QED BY <3>4
  <2>4. CASE w \in CreateAll
    BY <2>2, <2>3, <2>4 DEF Past, ProcessOK, CourseOK, TablesMade, ColumnsAdded, RestDone
  <2>5. CASE w \notin CreateAll
    BY <2>2, <2>3, <2>5 DEF Past, ProcessOK, CourseOK, TablesMade, ColumnsAdded, RestDone
  <2> QED BY <2>4, <2>5
<1> QED BY <1>2, <1>3 DEF GoOn

\* What is recorded when a process starts stays recorded.
LEMMA BootIsOK ==
    ASSUME TypeOK, NEW p \in Processes, Boot(p)
    PROVE  ProcessOK(proc[p])'
<1>1. recorded' = recorded /\ GoOn(p, [Down EXCEPT !.done = recorded], 0)
  BY DEF Boot, schema
<1>2. [Down EXCEPT !.done = recorded] \in Process
  BY DownType DEF Process, TypeOK
<1>3. [Down EXCEPT !.done = recorded].done \subseteq recorded'
  BY <1>1 DEF Down
<1>4. \A w \in Migration : w <= 0 => w \in recorded'
  BY DEF Migration
<1> QED BY <1>1, <1>2, <1>3, <1>4, GoesOn

\* create_all leaves out no table: those that it did not list were there.
LEMMA CreateIsOK ==
    ASSUME TypeOK, TypeOK', Grows, NEW p \in Processes, ProcessOK(proc[p]),
           ListMissing(p) \/ MakeTable(p) \/ MakeIndex(p) \/ MakeTables(p) \/ AllMade(p)
    PROVE  ProcessOK(proc[p])'
<1> DEFINE q == proc[p]
<1>1. q \in Process
  BY DEF TypeOK
<1> USE DEF ProcessOK
<1>2. CASE Die(p)
  BY <1>2, DeadIsOK
<1>3. CASE ListMissing(p)
  <2>1. q.at = "create" /\ proc'[p] = [q EXCEPT !.at = "make", !.todo = Table \ tables]
    BY <1>3 DEF ListMissing, At, Set, TypeOK
  <2>2. /\ proc'[p].at = "make" /\ proc'[p].todo = Table \ tables
        /\ proc'[p].version = q.version /\ proc'[p].done = q.done
    BY <1>1, <2>1 DEF Process
  <2>3. CourseOK(q)'
    BY <2>1, <2>2, KeepsCourse
  <2>4. tables' = tables
    BY <1>3 DEF ListMissing, schema
  <2> QED BY <2>2, <2>3, <2>4 DEF TablesMade, ColumnsAdded, RestDone, Past
<1>4. CASE ~Die(p) /\ (MakeTable(p) \/ MakeIndex(p) \/ MakeTables(p))
  <2>1. q.at = "make" /\ Table \ tables' \subseteq proc'[p].todo /\
        \E todo, index : proc'[p] = [q EXCEPT !.todo = todo, !.index = index]
    <3>1. CASE MakeTable(p)
      <4>1. PICK t \in q.todo : /\ tables' = tables \union {t}
                                /\ Set(p, [q EXCEPT !.todo = @ \ {t}, !.index = IndexesOf({t})])
        BY <1>4, <3>1 DEF MakeTable, First
      <4>2. proc'[p] = [q EXCEPT !.todo = @ \ {t}, !.index = IndexesOf({t})]
        BY <4>1 DEF Set, TypeOK
      <4>3. proc'[p].todo = q.todo \ {t}
        BY <1>1, <4>2 DEF Process
      <4>4. q.at = "make" /\ Table \ tables \subseteq q.todo
        BY <3>1 DEF MakeTable, At, TablesMade
      <4> QED BY <1>1, <4>1, <4>2, <4>3, <4>4 DEF Process
    <3>2. CASE MakeIndex(p)
      <4>1. PICK i \in q.index : tables' = tables /\ Set(p, [q EXCEPT !.index = @ \ {i}])
        BY <1>4, <3>2 DEF MakeIndex, First
      <4>2. proc'[p] = [q EXCEPT !.index = @ \ {i}]
        BY <4>1 DEF Set, TypeOK
      <4>3. q.at = "make" /\ Table \ tables \subseteq q.todo
        BY <3>2 DEF MakeIndex, At, TablesMade
      <4>4. proc'[p] = [q EXCEPT !.todo = q.todo, !.index = q.index \ {i}]
        BY <1>1, <4>2 DEF Process
      <4> QED BY <1>1, <4>1, <4>2, <4>3, <4>4 DEF Process
    <3>3. CASE MakeTables(p)
      <4>1. tables' = tables \union q.todo /\ Set(p, [q EXCEPT !.todo = {}])
        BY <1>4, <3>3 DEF MakeTables
      <4>2. proc'[p] = [q EXCEPT !.todo = {}]
        BY <4>1 DEF Set, TypeOK
      <4>3. q.at = "make" /\ Table \ tables \subseteq q.todo
        BY <3>3 DEF MakeTables, At, TablesMade
      <4>4. proc'[p] = [q EXCEPT !.todo = {}, !.index = q.index]
        BY <1>1, <4>2 DEF Process
      <4> QED BY <1>1, <4>1, <4>2, <4>3, <4>4 DEF Process
    <3> QED BY <1>4, <3>1, <3>2, <3>3
  <2>2. proc'[p].at = "make" /\ proc'[p].version = q.version /\ proc'[p].done = q.done
    BY <1>1, <2>1 DEF Process
  <2>3. CourseOK(q)'
    BY <2>1, <2>2, KeepsCourse
  <2> QED BY <2>1, <2>2, <2>3 DEF TablesMade, ColumnsAdded, RestDone, Past
<1>5. CASE AllMade(p)
  <2>1. q.at = "make" /\ q.todo = {} /\ proc'[p] = [q EXCEPT !.at = "columns"]
    BY <1>5 DEF AllMade, At, Set, TypeOK
  <2>2. proc'[p].at = "columns" /\ proc'[p].version = q.version /\ proc'[p].done = q.done
    BY <1>1, <2>1 DEF Process
  <2>3. CourseOK(q)'
    BY <2>1, <2>2, KeepsCourse
  <2>4. tables' = Table
    BY <1>5, <2>1 DEF AllMade, schema, TablesMade, TypeOK
  <2> QED BY <2>2, <2>3, <2>4 DEF TablesMade, ColumnsAdded, RestDone, Past
<1> QED BY <1>2, <1>3, <1>4, <1>5

\* No column is left out: a table that comes later brings its own.
LEMMA ColumnsIsOK ==
    ASSUME TypeOK, TypeOK', Grows, NEW p \in Processes, ProcessOK(proc[p]),
           ListTables(p) \/ LookAtTable(p) \/ AddColumn(p) \/ AllAdded(p)
    PROVE  ProcessOK(proc[p])'
<1> DEFINE q == proc[p]
<1>1. q \in Process
  BY DEF TypeOK
<1> USE DEF ProcessOK
<1>2. CASE Die(p)
  BY <1>2, DeadIsOK
<1>3. CASE ListTables(p)
  <2> DEFINE todo == {t \in tables : \E c \in ColumnsOf({t}) : Columns[c].by = q.version}
  <2>1. q.at = "columns" /\ proc'[p] = [q EXCEPT !.at = "look", !.seen = tables, !.todo = todo]
    BY <1>3 DEF ListTables, At, Set, TypeOK
  <2>2. /\ proc'[p].at = "look" /\ proc'[p].todo = todo
        /\ proc'[p].version = q.version /\ proc'[p].done = q.done
    BY <1>1, <2>1 DEF Process
  <2>3. CourseOK(q)'
    BY <2>1, <2>2, KeepsCourse
  <2>4. tables' = tables
    BY <1>3 DEF ListTables, schema
  <2>5. \A c \in Column : Columns[c].table \in tables /\ Columns[c].by = q.version =>
            Columns[c].table \in todo
    BY DEF ColumnsOf
  <2> QED BY <2>1, <2>2, <2>3, <2>4, <2>5 DEF TablesMade, ColumnsAdded, RestDone, Past
<1>4. CASE LookAtTable(p)
  <2>1. PICK t \in q.todo : Set(p, [q EXCEPT !.todo = @ \ {t}, !.add = Absent(q.version, t)])
    BY <1>4 DEF LookAtTable, First
  <2>2. q.at = "look" /\ q.add = {} /\ tables' = tables /\ columns' = columns
    BY <1>4 DEF LookAtTable, At, schema
  <2>3. /\ proc'[p].at = "look" /\ proc'[p].todo = q.todo \ {t} /\ proc'[p].add = Absent(q.version, t)
        /\ proc'[p].version = q.version /\ proc'[p].done = q.done
    BY <1>1, <2>1, <2>2 DEF Process, Set, TypeOK
  <2>4. CourseOK(q)'
    BY <2>2, <2>3, KeepsCourse
  <2>5. \A c \in Column : Columns[c].table = t /\ Columns[c].by = q.version =>
            c \in columns \union Absent(q.version, t)
    BY DEF Absent, ColumnsOf
  <2> QED BY <2>2, <2>3, <2>4, <2>5 DEF TablesMade, ColumnsAdded, RestDone, Past
<1>5. CASE AddColumn(p) /\ ~Die(p)
  <2>1. PICK c \in q.add : /\ columns' = columns \union {c} /\ tables' = tables
                           /\ Set(p, [q EXCEPT !.add = @ \ {c}])
    BY <1>5 DEF AddColumn, First
  <2>2. q.at = "look"
    BY <1>5 DEF AddColumn, At
  <2>3. /\ proc'[p].at = "look" /\ proc'[p].todo = q.todo /\ proc'[p].add = q.add \ {c}
        /\ proc'[p].version = q.version /\ proc'[p].done = q.done
    BY <1>1, <2>1, <2>2 DEF Process, Set, TypeOK
  <2>4. CourseOK(q)'
    BY <2>2, <2>3, KeepsCourse
  <2> QED BY <2>1, <2>2, <2>3, <2>4 DEF TablesMade, ColumnsAdded, RestDone, Past
<1>6. CASE AllAdded(p)
  <2>1. q.at = "look" /\ q.add = {} /\ q.todo = {} /\ tables' = tables /\ columns' = columns
    BY <1>6 DEF AllAdded, At
  <2>2. q.version = ConvertAt => ~plain'
    BY <1>6 DEF AllAdded
  <2>3. /\ proc'[p].version = q.version /\ proc'[p].done = q.done
        /\ q.version = ConvertAt => proc'[p].at = "users"
        /\ q.version = IndexAt => proc'[p].at = "indexes" /\ proc'[p].index = Index
        /\ q.version = VectorsAt => proc'[p].at = "vectors"
        /\ q.version \notin {ConvertAt, IndexAt, VectorsAt} => proc'[p].at = "record"
    <3>1. CASE q.version = ConvertAt
      <4>1. proc' = [proc EXCEPT ![p] = [q EXCEPT !.at = "users", !.index = {}]]
        BY <1>6, <3>1 DEF AllAdded, Set, ConvertAt, IndexAt, VectorsAt
      <4> QED BY <1>1, <3>1, <4>1 DEF Process, TypeOK, ConvertAt, IndexAt, VectorsAt
    <3>2. CASE q.version = IndexAt
      <4>1. proc' = [proc EXCEPT ![p] = [q EXCEPT !.at = "indexes", !.index = Index]]
        BY <1>6, <3>2 DEF AllAdded, Set, ConvertAt, IndexAt, VectorsAt
      <4> QED BY <1>1, <3>2, <4>1 DEF Process, TypeOK, ConvertAt, IndexAt, VectorsAt
    <3>3. CASE q.version = VectorsAt
      <4>1. proc' = [proc EXCEPT ![p] = [q EXCEPT !.at = "vectors", !.index = {}]]
        BY <1>6, <3>3 DEF AllAdded, Set, ConvertAt, IndexAt, VectorsAt
      <4> QED BY <1>1, <3>3, <4>1 DEF Process, TypeOK, ConvertAt, IndexAt, VectorsAt
    <3>4. CASE q.version \notin {ConvertAt, IndexAt, VectorsAt}
      <4>1. proc' = [proc EXCEPT ![p] = [q EXCEPT !.at = "record", !.index = {}]]
        BY <1>6, <3>4 DEF AllAdded, Set
      <4> QED BY <1>1, <3>4, <4>1 DEF Process, TypeOK
    <3> QED BY <3>1, <3>2, <3>3, <3>4
  <2>4. CourseOK(q)'
    BY <2>1, <2>3, KeepsCourse
  <2>5. TablesMade(q)'
    BY <2>1, <2>3 DEF TablesMade, Past, ConvertAt
  <2>6. ColumnsAdded(q)'
    BY <2>1, <2>3 DEF ColumnsAdded, Past
  <2>7. RestDone(q)'
    BY <2>2, <2>3 DEF RestDone, Past, ConvertAt, IndexAt, VectorsAt
  <2> QED BY <2>4, <2>5, <2>6, <2>7
<1> QED BY <1>2, <1>3, <1>4, <1>5, <1>6

\* The users, the indexes and the vectors are there when it is recorded.
LEMMA RestIsOK ==
    ASSUME TypeOK, TypeOK', Grows, VectorsOK, NEW p \in Processes, ProcessOK(proc[p]),
           MakeUsers(p) \/ EnsureIndex(p) \/ MakeVectors(p)
    PROVE  ProcessOK(proc[p])'
<1> DEFINE q == proc[p]
<1>1. q \in Process
  BY DEF TypeOK
<1> USE DEF ProcessOK
<1>2. CASE Die(p)
  BY <1>2, DeadIsOK
<1>3. CASE MakeUsers(p) /\ ~Die(p)
  <2>1. q.at = "users" /\ q.version = ConvertAt /\ ~plain
    BY <1>3 DEF MakeUsers, At, RestDone, Past
  <2>2. proc'[p] = [q EXCEPT !.at = "record"] /\ Users \in tables'
    BY <1>3 DEF MakeUsers, Set, TypeOK
  <2>3. proc'[p].at = "record" /\ proc'[p].version = ConvertAt /\ proc'[p].done = q.done
    BY <1>1, <2>1, <2>2 DEF Process
  <2>4. CourseOK(q)'
    BY <2>1, <2>3, KeepsCourse
  <2>5. TablesMade(q)'
    BY <2>2, <2>3 DEF TablesMade, Past, CreateAll, ConvertAt
  <2>6. ColumnsAdded(q)'
    BY <2>1, <2>3 DEF ColumnsAdded, Past, Grows
  <2>7. RestDone(q)'
    BY <2>1, <2>3 DEF RestDone, Past, ConvertAt, IndexAt, VectorsAt, Grows
  <2> QED BY <2>4, <2>5, <2>6, <2>7
<1>4. CASE EnsureIndex(p)
  <2>1. q.at = "indexes" /\ q.version = IndexAt /\ tables = Table /\ tables' = tables
    BY <1>4 DEF EnsureIndex, At, RestDone, TablesMade, Past, CreateAll, IndexAt
  <2>2. /\ proc'[p].at \in {"indexes", "record"} /\ proc'[p].version = IndexAt
        /\ proc'[p].done = q.done
        /\ proc'[p].at = "indexes" => Index \ proc'[p].index \subseteq indexes'
        /\ proc'[p].at = "record" => Index \subseteq indexes'
    <3>1. Index \ q.index \subseteq indexes
      BY <2>1 DEF RestDone
    <3>2. CASE q.index = {}
      <4>1. proc'[p] = [q EXCEPT !.at = "record"] /\ indexes' = indexes
        BY <1>4, <3>2 DEF EnsureIndex, Set, TypeOK
      <4>2. proc'[p].at = "record" /\ proc'[p].version = IndexAt /\ proc'[p].done = q.done
        BY <1>1, <2>1, <4>1 DEF Process
      <4> QED BY <3>1, <3>2, <4>1, <4>2
    <3>3. CASE q.index # {}
      <4>1. PICK i \in q.index : /\ indexes' = indexes \union Ensured(i)
                                 /\ Set(p, [q EXCEPT !.index = @ \ {i}])
        BY <1>4, <3>3 DEF EnsureIndex, First
      <4>2. Ensured(i) = {i}
        BY <1>1, <2>1, Domains DEF Ensured, Process
      <4>3. /\ proc'[p].at = "indexes" /\ proc'[p].version = IndexAt /\ proc'[p].done = q.done
            /\ proc'[p].index = q.index \ {i}
        BY <1>1, <2>1, <4>1 DEF Process, Set, TypeOK
      <4> QED BY <3>1, <4>1, <4>2, <4>3
    <3> QED BY <3>2, <3>3
  <2>3. CourseOK(q)'
    BY <2>1, <2>2, KeepsCourse
  <2>4. TablesMade(q)' /\ RestDone(q)'
    BY <2>1, <2>2 DEF TablesMade, RestDone, Past, ConvertAt, IndexAt, VectorsAt
  <2>5. ColumnsAdded(q)'
    BY <2>1, <2>2 DEF ColumnsAdded, Past, Grows
  <2> QED BY <2>3, <2>4, <2>5
<1>5. CASE MakeVectors(p)
  <2>1. q.at = "vectors" /\ q.version = VectorsAt
    BY <1>5 DEF MakeVectors, At, RestDone
  <2>2. /\ proc'[p].at = "record" /\ proc'[p].version = VectorsAt /\ proc'[p].done = q.done
        /\ tables' = tables /\ columns' = columns /\ dialect' = dialect
    BY <1>1, <1>5, <2>1 DEF MakeVectors, Set, TypeOK, Process
  <2>3. CourseOK(q)'
    BY <2>1, <2>2, KeepsCourse
  <2>4. vectors' <=> dialect = "postgresql"
    BY <1>5 DEF MakeVectors, VectorsOK
  <2>5. TablesMade(q)' /\ RestDone(q)'
    BY <2>1, <2>2, <2>4 DEF TablesMade, RestDone, Past, CreateAll, ConvertAt, IndexAt, VectorsAt
  <2>6. ColumnsAdded(q)'
    BY <2>1, <2>2 DEF ColumnsAdded, Past
  <2> QED BY <2>3, <2>5, <2>6
<1> QED BY <1>2, <1>3, <1>4, <1>5

\* When a migration is recorded, it has been applied.
LEMMA RecordsApplied ==
    ASSUME TypeOK, TypeOK', Grows, NEW p \in Processes, ProcessOK(proc[p]), RecordedIsApplied,
           RecordMigration(p), proc[p].version \notin recorded
    PROVE  RecordedIsApplied'
<1> DEFINE v == proc[p].version
<1>1. /\ recorded' = recorded \union {v} /\ dialect' = dialect /\ tables' = tables
      /\ columns' = columns /\ indexes' = indexes /\ plain' = plain /\ vectors' = vectors
  BY DEF RecordMigration
<1>2. v \in Migration /\ \A w \in Migration : w < v => w \in recorded
  BY DEF RecordMigration, At, ProcessOK, CourseOK
<1> HIDE DEF v
<1>0. Last \in Nat /\ Last >= 8 /\ v \in 1..Last
  BY <1>2, Domains DEF Migration
<1>3. /\ v \in CreateAll => tables = Table
      /\ v = ConvertAt => Users \in tables /\ ~plain
      /\ \A c \in Column : Columns[c].table \in tables /\ Columns[c].by = v => c \in columns
      /\ v = IndexAt => Index \subseteq indexes
      /\ v = VectorsAt => (vectors <=> dialect = "postgresql")
  BY DEF RecordMigration, At, ProcessOK, TablesMade, ColumnsAdded, RestDone, Past, v
<1>4. 1..v \subseteq recorded'
  BY <1>0, <1>1, <1>2 DEF Migration
<1>5. {t \in Table : Tables[t] <= v} \subseteq tables
  <2> SUFFICES ASSUME NEW t \in Table, Tables[t] <= v PROVE t \in tables
    OBVIOUS
  <2>1. Tables[t] \in 0..Last /\ Last \in Nat
    BY Domains
  <2>2. CASE \E w \in Migration : w < v /\ Tables[t] <= w
    BY <1>2, <2>2 DEF RecordedIsApplied
  <2>3. CASE v = 1
    BY <1>3, <2>3 DEF CreateAll
  <2>4. CASE Tables[t] = v
    BY <1>0, <1>3, <2>4, TablesAssumption DEF TablesAssumption, ConvertAt
  <2>5. CASE v # 1 /\ Tables[t] # v
    <3>1. v - 1 \in Migration /\ v - 1 < v /\ Tables[t] <= v - 1
      BY <1>0, <2>1, <2>5 DEF Migration
    <3> QED BY <2>2, <3>1
  <2> QED BY <2>3, <2>4, <2>5
<1>6. {c \in ColumnsOf(tables) : Columns[c].by <= v} \subseteq columns
  <2> SUFFICES ASSUME NEW c \in Column, Columns[c].table \in tables, Columns[c].by <= v
               PROVE  c \in columns
    BY DEF ColumnsOf
  <2>1. Columns[c].by \in Migration /\ Columns[c].by \in 1..Last
    BY Domains DEF Migration
  <2>2. CASE Columns[c].by = v
    BY <1>3, <2>2
  <2>3. CASE Columns[c].by < v
    <3>1. Columns[c].by \in recorded /\ Columns[c].by <= Columns[c].by
      BY <1>0, <1>2, <2>1, <2>3
    <3> QED BY <3>1 DEF RecordedIsApplied, ColumnsOf
  <2> QED BY <1>0, <2>1, <2>2, <2>3
<1>7. \A u \in 1..Last : v > u => u \in recorded
  BY <1>0, <1>2 DEF Migration
<1>8. v >= ConvertAt => ~plain
  <2>1. v > ConvertAt => ConvertAt \in recorded
    BY <1>0, <1>7 DEF ConvertAt
  <2> QED BY <1>0, <1>3, <2>1 DEF RecordedIsApplied, ConvertAt
<1>9. v >= IndexAt => Index \subseteq indexes
  <2>1. v > IndexAt => IndexAt \in recorded
    BY <1>0, <1>7 DEF IndexAt
  <2> QED BY <1>0, <1>3, <2>1 DEF RecordedIsApplied, IndexAt
<1>10. v >= VectorsAt => (vectors <=> dialect = "postgresql")
  <2>1. v > VectorsAt => VectorsAt \in recorded
    BY <1>0, <1>7 DEF VectorsAt
  <2> QED BY <1>0, <1>3, <2>1 DEF RecordedIsApplied, VectorsAt, TypeOK
<1>11. \A w \in recorded : 1..w \subseteq recorded'
  BY <1>1 DEF RecordedIsApplied
<1> QED BY <1>1, <1>4, <1>5, <1>6, <1>8, <1>9, <1>10, <1>11 DEF RecordedIsApplied, ColumnsOf

\* Whoever records a migration goes on with those before it recorded.
LEMMA RecordIsOK ==
    ASSUME TypeOK, TypeOK', Grows, NEW p \in Processes, ProcessOK(proc[p]), RecordMigration(p)
    PROVE  ProcessOK(proc[p])'
<1> DEFINE q == proc[p]  v == q.version
<1>1. CASE v \in recorded
  BY <1>1, DeadIsOK DEF RecordMigration
<1>2. CASE v \notin recorded
  <2>1. q \in Process /\ Migration \subseteq Nat
    BY DEF TypeOK, Migration
  <2>2. recorded' = recorded \union {v} /\ GoOn(p, q, v)
    BY <1>2 DEF RecordMigration
  <2>3. /\ v \in Migration /\ q.done \subseteq recorded
        /\ \A w \in Migration : w < v => w \in recorded
    BY DEF RecordMigration, At, ProcessOK, CourseOK
  <2> HIDE DEF v
  <2>4. \A w \in Migration : w <= v => w \in recorded'
    BY <2>2, <2>3, Domains DEF Migration
  <2>5. v \in Nat /\ q.done \subseteq recorded'
    BY <2>1, <2>2, <2>3
  <2> QED BY <2>1, <2>2, <2>4, <2>5, GoesOn
<1> QED BY <1>1, <1>2

-----------------------------------------------------------------------------
(* The invariant is inductive                                              *)

\* Every release left the database that its migrations make.
LEMMA InitIsOK == Init => IInv
<1> SUFFICES ASSUME Init PROVE IInv
  OBVIOUS
<1>1. TypeOK
  BY TypeInit
<1>2. \A p \in Processes : ProcessOK(proc[p])
  BY DEF Init, Down, Past, ProcessOK, CourseOK, TablesMade, ColumnsAdded, RestDone, CreateAll,
         ConvertAt
<1>3. RecordedIsApplied /\ VectorsOK
  <2>1. CASE Empty
    BY <2>1 DEF Empty, RecordedIsApplied, VectorsOK
  <2>2. CASE \E s \in 0..Last : Released(s)
    <3>1. PICK s \in 0..Last : Released(s)
      BY <2>2
    <3>2. /\ recorded = 1..s /\ s \in Nat
          /\ tables = {t \in Table : Tables[t] <= s}
          /\ columns = {c \in ColumnsOf(tables) : Columns[c].by <= s}
          /\ indexes = IF s >= IndexAt THEN IndexesOf(tables) ELSE {}
          /\ plain = (s < ConvertAt)
          /\ vectors = (s >= VectorsAt /\ dialect = "postgresql")
      BY <3>1, Domains DEF Released
    <3> SUFFICES ASSUME NEW v \in 1..s
                 PROVE  /\ 1..v \subseteq recorded
                        /\ {t \in Table : Tables[t] <= v} \subseteq tables
                        /\ {c \in ColumnsOf(tables) : Columns[c].by <= v} \subseteq columns
                        /\ v >= ConvertAt => ~plain
                        /\ v >= IndexAt => Index \subseteq indexes
                        /\ v >= VectorsAt => (vectors <=> dialect = "postgresql")
      BY <3>2 DEF RecordedIsApplied, VectorsOK
    <3>3. 1..v \subseteq recorded
      BY <3>2
    <3>4. {t \in Table : Tables[t] <= v} \subseteq tables
      <4>1. \A t \in Table : Tables[t] \in Nat /\ (Tables[t] <= v => Tables[t] <= s)
        BY <3>2, Domains
      <4> QED BY <3>2, <4>1
    <3>5. {c \in ColumnsOf(tables) : Columns[c].by <= v} \subseteq columns
      <4>1. \A c \in Column : Columns[c].by \in Nat /\ (Columns[c].by <= v => Columns[c].by <= s)
        BY <3>2, Domains DEF Migration
      <4> QED BY <3>2, <4>1 DEF ColumnsOf
    <3>6. v >= ConvertAt => ~plain
      <4>1. v >= ConvertAt => ~(s < ConvertAt)
        BY <3>2 DEF ConvertAt
      <4> QED BY <3>2, <4>1, Zenon
    <3>7. v >= IndexAt => Index \subseteq indexes
      <4> SUFFICES ASSUME v >= IndexAt PROVE Index \subseteq indexes
        OBVIOUS
      <4>1. s >= 7
        BY <3>2 DEF IndexAt
      <4>2. tables = Table
        BY <3>2, <4>1, TablesAssumption DEF TablesAssumption, CreateAll, ConvertAt
      <4> QED BY <3>2, <4>1, <4>2, Domains DEF IndexAt, IndexesOf
    <3>8. v >= VectorsAt => (vectors <=> dialect = "postgresql")
      <4>1. v >= VectorsAt => s >= VectorsAt
        BY <3>2 DEF VectorsAt
      <4>2. vectors = (s >= VectorsAt /\ dialect = "postgresql")
        BY <3>2
      <4> QED BY <4>1, <4>2, Zenon
    <3> QED BY <3>3, <3>4, <3>5, <3>6, <3>7, <3>8
  <2> QED BY <2>1, <2>2 DEF Init
<1> QED BY <1>1, <1>2, <1>3 DEF IInv

\* One process acts, and what all others have done stays true.
LEMMA StepIsOK ==
    ASSUME IInv, NEW p \in Processes, Step(p) \/ Crash(p)
    PROVE  IInv'
<1> USE DEF IInv
<1>1. TypeOK'
  BY TypeStep DEF ProcessOK
<1>2. Grows
  BY SchemaGrows
<1>3. VectorsOK'
  BY <1>2, VectorsStay
<1>4. RecordedIsApplied'
  <2>1. CASE recorded' = recorded
    BY <1>1, <1>2, <2>1, AppliedStays
  <2>2. CASE RecordMigration(p) /\ proc[p].version \notin recorded
    BY <1>1, <1>2, <2>2, RecordsApplied
  <2>3. CASE RecordMigration(p) /\ proc[p].version \in recorded
    BY <2>1, <2>3 DEF RecordMigration
  <2>4. CASE ~RecordMigration(p)
    <3>1. recorded' = recorded
      BY <2>4 DEF Step, Boot, ListMissing, MakeTable, MakeIndex, MakeTables, AllMade, ListTables,
                  LookAtTable, AddColumn, AllAdded, MakeUsers, EnsureIndex, MakeVectors, Crash,
                  schema
    <3> QED BY <2>1, <3>1
  <2> QED BY <2>2, <2>3, <2>4
<1>5. ProcessOK(proc[p])'
  <2>1. CASE Boot(p)
    BY <2>1, BootIsOK
  <2>2. CASE ListMissing(p) \/ MakeTable(p) \/ MakeIndex(p) \/ MakeTables(p) \/ AllMade(p)
    BY <1>1, <1>2, <2>2, CreateIsOK
  <2>3. CASE ListTables(p) \/ LookAtTable(p) \/ AddColumn(p) \/ AllAdded(p)
    BY <1>1, <1>2, <2>3, ColumnsIsOK
  <2>4. CASE MakeUsers(p) \/ EnsureIndex(p) \/ MakeVectors(p)
    BY <1>1, <1>2, <2>4, RestIsOK
  <2>5. CASE RecordMigration(p)
    BY <1>1, <1>2, <2>5, RecordIsOK
  <2>6. CASE Crash(p)
    BY <2>6, DeadIsOK DEF Crash
  <2> QED BY <2>1, <2>2, <2>3, <2>4, <2>5, <2>6 DEF Step
<1>6. \A r \in Processes \ {p} : proc'[r] = proc[r]
  BY DEF Step, Boot, ListMissing, MakeTable, MakeIndex, MakeTables, AllMade, ListTables,
         LookAtTable, AddColumn, AllAdded, MakeUsers, EnsureIndex, MakeVectors, RecordMigration,
         Crash, GoOn, Die, Set, TypeOK
<1>7. \A r \in Processes \ {p} : ProcessOK(proc[r])'
  BY <1>1, <1>2, <1>6, OthersStay
<1> QED BY <1>1, <1>3, <1>4, <1>5, <1>7

\* The invariant holds: every migration that is recorded has been applied, and
\* every process has done what its place says.
THEOREM Invariant == Spec => []IInv
<1>1. Init => IInv
  BY InitIsOK
<1>2. IInv /\ [Next]_vars => IInv'
  <2>1. ASSUME IInv, Next PROVE IInv'
    BY <2>1, StepIsOK DEF Next
  <2>2. ASSUME IInv, UNCHANGED vars PROVE IInv'
    BY <2>2 DEF vars, schema, IInv, TypeOK, RecordedIsApplied, VectorsOK, ProcessOK, CourseOK,
                TablesMade, ColumnsAdded, RestDone, ColumnsOf
  <2> QED BY <2>1, <2>2
<1> QED BY <1>1, <1>2, PTL DEF Spec

\* The records of the processes and the schema keep their types, among them
\* that a process executes no migration beyond the last.
THEOREM TypeCorrect == Spec => []TypeOK
<1>1. IInv => TypeOK
  BY DEF IInv
<1> QED BY <1>1, Invariant, PTL

\* Whatever processes migrate at once and whoever dies when, a recorded
\* migration has been applied, and those before it are recorded.
THEOREM RecordedApplied == Spec => []RecordedIsApplied
<1>1. IInv => RecordedIsApplied
  BY DEF IInv
<1> QED BY <1>1, Invariant, PTL

\* A process that serves has every table, column and index, and no plain
\* credentials: apply_migrations has not returned before.
THEOREM ServingComplete == Spec => []ServingIsComplete
<1>1. IInv => ServingIsComplete
  <2> SUFFICES ASSUME IInv, NEW p \in Processes, At(p, "serving")
               PROVE  /\ recorded = Migration
                      /\ tables = Table /\ columns = Column /\ indexes = Index
                      /\ ~plain
    BY DEF ServingIsComplete
  <2>1. recorded = Migration
    BY DEF IInv, TypeOK, ProcessOK, CourseOK, At
  <2>2. Last \in recorded /\ Last \in Nat /\ Last >= 8
    BY <2>1, Domains DEF Migration
  <2>3. /\ {t \in Table : Tables[t] <= Last} \subseteq tables
        /\ {c \in ColumnsOf(tables) : Columns[c].by <= Last} \subseteq columns
        /\ ~plain /\ Index \subseteq indexes
    BY <2>2 DEF IInv, RecordedIsApplied, ConvertAt, IndexAt
  <2>4. tables \subseteq Table /\ columns \subseteq Column /\ indexes \subseteq Index
    BY DEF IInv, TypeOK
  <2>5. tables = Table
    <3>1. \A t \in Table : Tables[t] <= Last
      BY <2>2, Domains
    <3> QED BY <2>3, <2>4, <3>1
  <2>6. columns = Column
    <3>1. \A c \in Column : Columns[c].table \in Table /\ Columns[c].by <= Last
      BY <2>2, Domains DEF Migration
    <3> QED BY <2>3, <2>4, <2>5, <3>1 DEF ColumnsOf
  <2> QED BY <2>1, <2>3, <2>4, <2>5, <2>6
<1> QED BY <1>1, Invariant, PTL
=============================================================================
