----------------------------- MODULE Migrations -----------------------------
(***************************************************************************)
(* apply_migrations, which every process runs as it starts: the API and    *)
(* each worker.  It reads which migrations are recorded, executes the      *)
(* others one by one and records each.  Nothing locks the schema: several  *)
(* processes can migrate at once, a process can die between a migration    *)
(* and its record, and an error ends the start of the process.             *)
(*                                                                         *)
(* A migration makes all missing tables, or adds columns to the tables     *)
(* that have been there before, or both, and some do more.  SQLite commits *)
(* every statement that changes the schema, PostgreSQL makes the tables of *)
(* one create_all in one transaction.                                      *)
(***************************************************************************)
EXTENDS Naturals, Sequences, FiniteSets

CONSTANTS
    Processes,
    Last,        \* the number of migrations
    Tables,      \* the migration that made each table, 0 for the first release
    Columns,     \* the table and the migration of each added column
    Indexes,     \* the table of each index that migration 7 ensures
    Users,       \* the table workflow_users
    MaxCrashes   \* bound: crashes

Migration == 1..Last
Table     == DOMAIN Tables
Column    == DOMAIN Columns
Index     == DOMAIN Indexes

\* What the migrations do, beside adding their columns.
CreateAll == {1, 3, 4, 5, 6, 7}
ConvertAt == 2
IndexAt   == 7
VectorsAt == 8

ASSUME MigrationsAssumption ==
    /\ IsFiniteSet(Processes) /\ MaxCrashes \in Nat
    /\ Last \in Nat /\ Last >= VectorsAt
    /\ Tables \in Seq(0..Last)
    /\ Columns \in Seq([table : Table, by : Migration])
    /\ Indexes \in Seq(Table)

\* New tables came with a migration that makes all tables, but for the users,
\* which migration 2 makes as they still are.
ASSUME TablesAssumption ==
    /\ \A t \in Table : Tables[t] \in CreateAll \union {0} \/ (Tables[t] = ConvertAt /\ t = Users)
    /\ \A c \in Column : Columns[c].table # Users
    /\ Users \in Table

VARIABLES
    dialect,   \* "sqlite" or "postgresql"
    recorded,  \* the rows of schema_migrations
    tables, columns, indexes,  \* what there is
    plain,     \* there are credentials without a ciphertext
    vectors,   \* the table knowledge_vectors is there, and filled
    proc,      \* the processes
    crashes    \* the number of crashes so far

schema == <<recorded, tables, columns, indexes, plain, vectors>>
vars == <<dialect, schema, proc, crashes>>

(***************************************************************************)
(* A process: where it is, the versions it found recorded, the migration   *)
(* it executes, and what it has read and still has to make: the tables     *)
(* that create_all or the inspector found missing or present, the columns  *)
(* to add, the indexes to make.                                            *)
(***************************************************************************)
Place == {"down", "create", "make", "columns", "look", "users", "indexes",
          "vectors", "record", "serving"}

Process == [at      : Place,
            done    : SUBSET Migration,
            version : 0..Last + 1,
            seen    : SUBSET Table,
            todo    : SUBSET Table,
            add     : SUBSET Column,
            index   : SUBSET Index]

Down == [at |-> "down", done |-> {}, version |-> 0, seen |-> {}, todo |-> {},
         add |-> {}, index |-> {}]

TypeOK ==
    /\ dialect \in {"sqlite", "postgresql"}
    /\ recorded \subseteq Migration
    /\ tables \subseteq Table /\ columns \subseteq Column /\ indexes \subseteq Index
    /\ plain \in BOOLEAN /\ vectors \in BOOLEAN
    /\ proc \in [Processes -> Process]
    /\ crashes \in 0..MaxCrashes

ColumnsOf(ts) == {c \in Column : Columns[c].table \in ts}
IndexesOf(ts) == {i \in Index : Indexes[i] \in ts}

\* A database of an earlier release, which had the first s migrations.
Released(s) ==
    LET ts == {t \in Table : Tables[t] <= s}
    IN  /\ recorded = 1..s
        /\ tables = ts
        /\ columns = {c \in ColumnsOf(ts) : Columns[c].by <= s}
        /\ indexes = IF s >= IndexAt THEN IndexesOf(ts) ELSE {}
        /\ plain = (s < ConvertAt)
        /\ vectors = (s >= VectorsAt /\ dialect = "postgresql")

Empty ==
    /\ recorded = {} /\ tables = {} /\ columns = {} /\ indexes = {}
    /\ plain = FALSE /\ vectors = FALSE

\* The column types of migration 2 are those of SQLite: no database on
\* PostgreSQL is older.
Init ==
    /\ dialect \in {"sqlite", "postgresql"}
    /\ \/ Empty
       \/ \E s \in 0..Last : Released(s) /\ (dialect = "postgresql" => s >= ConvertAt)
    /\ proc = [p \in Processes |-> Down]
    /\ crashes = 0

-----------------------------------------------------------------------------
(* The course of a process                                                 *)

At(p, place) == proc[p].at = place
Set(p, new)  == proc' = [proc EXCEPT ![p] = new]
Die(p)       == Set(p, Down)

\* The member of S that comes first.
First(S) == {x \in S : \A y \in S : x <= y}

\* The process p, now q, goes on to the first migration after v that it has not
\* found recorded, or else to serve.
GoOn(p, q, v) ==
    LET left == {w \in Migration : w > v /\ w \notin q.done}
    IN  \/ /\ left = {}
           /\ Set(p, [q EXCEPT !.at = "serving", !.version = Last + 1])
        \/ \E w \in First(left) :
               Set(p, [q EXCEPT !.version = w,
                                !.at = IF w \in CreateAll THEN "create" ELSE "columns"])

\* Reads schema_migrations, which it makes if it is not there.
Boot(p) ==
    /\ At(p, "down")
    /\ GoOn(p, [Down EXCEPT !.done = recorded], 0)
    /\ UNCHANGED <<dialect, schema, crashes>>

\* The tables are listed before the first is made.
ListMissing(p) ==
    /\ At(p, "create")
    /\ Set(p, [proc[p] EXCEPT !.at = "make", !.todo = Table \ tables])
    /\ UNCHANGED <<dialect, schema, crashes>>

MakeTable(p) ==
    /\ At(p, "make") /\ dialect = "sqlite"
    /\ proc[p].index = {} /\ proc[p].todo # {}
    /\ \E t \in First(proc[p].todo) :
           IF t \in tables THEN Die(p) /\ UNCHANGED schema
           ELSE /\ tables' = tables \union {t}
                /\ columns' = columns \union ColumnsOf({t})
                /\ Set(p, [proc[p] EXCEPT !.todo = @ \ {t}, !.index = IndexesOf({t})])
                /\ UNCHANGED <<recorded, indexes, plain, vectors>>
    /\ UNCHANGED <<dialect, crashes>>

\* The indexes of a new table follow it; they are not made IF NOT EXISTS.
MakeIndex(p) ==
    /\ At(p, "make") /\ proc[p].index # {}
    /\ \E i \in First(proc[p].index) :
           IF i \in indexes THEN Die(p) /\ UNCHANGED schema
           ELSE /\ indexes' = indexes \union {i}
                /\ Set(p, [proc[p] EXCEPT !.index = @ \ {i}])
                /\ UNCHANGED <<recorded, tables, columns, plain, vectors>>
    /\ UNCHANGED <<dialect, crashes>>

MakeTables(p) ==
    /\ At(p, "make") /\ dialect = "postgresql" /\ proc[p].todo # {}
    /\ LET ts == proc[p].todo
       IN  IF ts \intersect tables # {} THEN Die(p) /\ UNCHANGED schema
           ELSE /\ tables' = tables \union ts
                /\ columns' = columns \union ColumnsOf(ts)
                /\ indexes' = indexes \union IndexesOf(ts)
                /\ Set(p, [proc[p] EXCEPT !.todo = {}])
                /\ UNCHANGED <<recorded, plain, vectors>>
    /\ UNCHANGED <<dialect, crashes>>

AllMade(p) ==
    /\ At(p, "make") /\ proc[p].index = {} /\ proc[p].todo = {}
    /\ Set(p, [proc[p] EXCEPT !.at = "columns"])
    /\ UNCHANGED <<dialect, schema, crashes>>

\* Mutants: a column is added without a look; columns are not added at all.
AbsentUnseen(v, t) == {c \in ColumnsOf({t}) : Columns[c].by = v}
AbsentNever(v, t)  == {}

\* The columns of migration v that the inspector finds absent from table t.
Absent(v, t) == {c \in ColumnsOf({t}) : Columns[c].by = v /\ c \notin columns}

\* The inspector lists the tables, and the columns of each as it comes to it.
ListTables(p) ==
    /\ At(p, "columns")
    /\ Set(p, [proc[p] EXCEPT
                 !.at = "look", !.seen = tables,
                 !.todo = {t \in tables : \E c \in ColumnsOf({t}) :
                                              Columns[c].by = proc[p].version}])
    /\ UNCHANGED <<dialect, schema, crashes>>

LookAtTable(p) ==
    /\ At(p, "look") /\ proc[p].add = {} /\ proc[p].todo # {}
    /\ \E t \in First(proc[p].todo) :
           Set(p, [proc[p] EXCEPT !.todo = @ \ {t}, !.add = Absent(proc[p].version, t)])
    /\ UNCHANGED <<dialect, schema, crashes>>

AddColumn(p) ==
    /\ At(p, "look") /\ proc[p].add # {}
    /\ \E c \in First(proc[p].add) :
           IF c \in columns THEN Die(p) /\ UNCHANGED schema
           ELSE /\ columns' = columns \union {c}
                /\ Set(p, [proc[p] EXCEPT !.add = @ \ {c}])
                /\ UNCHANGED <<recorded, tables, indexes, plain, vectors>>
    /\ UNCHANGED <<dialect, crashes>>

\* What is left of each migration after its columns.  The credentials are
\* converted in one transaction.
AllAdded(p) ==
    /\ At(p, "look") /\ proc[p].add = {} /\ proc[p].todo = {}
    /\ LET v == proc[p].version
       IN  /\ plain' = (plain /\ v # ConvertAt)
           /\ Set(p, [proc[p] EXCEPT
                !.at = CASE v = ConvertAt -> "users"
                         [] v = IndexAt   -> "indexes"
                         [] v = VectorsAt -> "vectors"
                         [] OTHER         -> "record",
                !.index = IF v = IndexAt THEN Index ELSE {}])
    /\ UNCHANGED <<dialect, recorded, tables, columns, indexes, vectors, crashes>>

\* The inspector of the migration still has the tables it listed.
MakeUsers(p) ==
    /\ At(p, "users")
    /\ IF Users \notin proc[p].seen /\ Users \in tables THEN Die(p) /\ UNCHANGED tables
       ELSE /\ tables' = tables \union {Users}
            /\ Set(p, [proc[p] EXCEPT !.at = "record"])
    /\ UNCHANGED <<dialect, recorded, columns, indexes, plain, vectors, crashes>>

\* Mutant: the indexes of new tables only are made.
EnsuredNever(i) == {}

\* CREATE INDEX IF NOT EXISTS, on a table that exists.
Ensured(i) == IF Indexes[i] \in tables THEN {i} ELSE {}

EnsureIndex(p) ==
    /\ At(p, "indexes")
    /\ IF proc[p].index = {}
       THEN Set(p, [proc[p] EXCEPT !.at = "record"]) /\ UNCHANGED indexes
       ELSE \E i \in First(proc[p].index) :
                /\ indexes' = indexes \union Ensured(i)
                /\ Set(p, [proc[p] EXCEPT !.index = @ \ {i}])
    /\ UNCHANGED <<dialect, recorded, tables, columns, plain, vectors, crashes>>

\* On PostgreSQL only, and with IF NOT EXISTS and ON CONFLICT throughout.
MakeVectors(p) ==
    /\ At(p, "vectors")
    /\ vectors' = (vectors \/ dialect = "postgresql")
    /\ Set(p, [proc[p] EXCEPT !.at = "record"])
    /\ UNCHANGED <<dialect, recorded, tables, columns, indexes, plain, crashes>>

\* The version is a primary key: recording it twice is an error.
RecordMigration(p) ==
    /\ At(p, "record")
    /\ LET v == proc[p].version
       IN  IF v \in recorded THEN Die(p) /\ UNCHANGED recorded
           ELSE /\ recorded' = recorded \union {v}
                /\ GoOn(p, proc[p], v)
    /\ UNCHANGED <<dialect, tables, columns, indexes, plain, vectors, crashes>>

Crash(p) ==
    /\ ~At(p, "down")
    /\ crashes < MaxCrashes
    /\ crashes' = crashes + 1
    /\ Die(p)
    /\ UNCHANGED <<dialect, schema>>

-----------------------------------------------------------------------------
Step(p) ==
    \/ Boot(p) \/ ListMissing(p) \/ MakeTable(p) \/ MakeIndex(p) \/ MakeTables(p)
    \/ AllMade(p) \/ ListTables(p) \/ LookAtTable(p) \/ AddColumn(p) \/ AllAdded(p)
    \/ MakeUsers(p) \/ EnsureIndex(p) \/ MakeVectors(p) \/ RecordMigration(p)

Next == \E p \in Processes : Step(p) \/ Crash(p)

Spec == Init /\ [][Next]_vars

\* A process that has died is started again, and goes on.
FairSpec == Spec /\ \A p \in Processes : WF_vars(Step(p))

-----------------------------------------------------------------------------
(* Properties                                                              *)

\* A recorded migration has been applied, whoever died when: no migration is
\* recorded before those before it, and what it was to make is there.
RecordedIsApplied ==
    \A v \in recorded :
        /\ 1..v \subseteq recorded
        /\ {t \in Table : Tables[t] <= v} \subseteq tables
        /\ {c \in ColumnsOf(tables) : Columns[c].by <= v} \subseteq columns
        /\ v >= ConvertAt => ~plain
        /\ v >= IndexAt => Index \subseteq indexes
        /\ v >= VectorsAt => (vectors <=> dialect = "postgresql")

\* A process that serves has the whole schema, although it skips the
\* migrations that it found recorded, by an earlier release or by another
\* process ("the schema is created and migrated automatically at startup").
ServingIsComplete ==
    (\E p \in Processes : At(p, "serving")) =>
        /\ recorded = Migration
        /\ tables = Table /\ columns = Column /\ indexes = Index
        /\ ~plain

\* Processes that start together make each other fail, but never for good:
\* what one left half made, the next one completes, and all of them serve.
EverybodyServes == \A p \in Processes : <>[]At(p, "serving")
=============================================================================
