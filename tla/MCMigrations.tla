---------------------------- MODULE MCMigrations ----------------------------
(***************************************************************************)
(* An instance of Migrations for TLC: the runs and the credentials of the  *)
(* first release, the users of migration 2 (which migration 1 makes in a   *)
(* new database), the environments of migration 4, and some of their       *)
(* columns and indexes.                                                    *)
(***************************************************************************)
EXTENDS Migrations, TLC

CONSTANTS p1, p2

TwoProcesses == {p1, p2}

MCTables  == <<0, 0, 2, 4>>
MCColumns == <<[table |-> 1, by |-> 2], [table |-> 1, by |-> 2], [table |-> 2, by |-> 2],
               [table |-> 1, by |-> 4], [table |-> 4, by |-> 6]>>
MCIndexes == <<1, 4>>

Symmetry == Permutations(Processes)
=============================================================================
