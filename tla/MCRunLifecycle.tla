--------------------------- MODULE MCRunLifecycle ---------------------------
(* Instances of RunLifecycle for TLC. *)
EXTENDS RunLifecycle, TLC

CONSTANTS r1, r2, w1, w2, q1, q2

OneRun      == {r1}
TwoRuns     == {r1, r2}
OneWorker   == {w1}
TwoWorkers  == {w1, w2}
OneRequest  == {q1}
TwoRequests == {q1, q2}

AllOps == {"pause", "resume", "cancel"}

Nothing       == {}
ShutdownsOnly == {"shutdown"}
CrashesOnly   == {"crash"}

\* Runs are told apart by their order only, workers and requests not at all.
Symmetry == Permutations(Workers) \union Permutations(Requests)
=============================================================================
