--------------------------- MODULE MCRunAdmission ---------------------------
(* Instances of RunAdmission for TLC. *)
EXTENDS RunAdmission, TLC

CONSTANTS r1, r2, r3, r4, q1, q2, k1, k2

FourRuns    == {r1, r2, r3, r4}
TwoRequests == {q1, q2}
TwoKeys     == {k1, k2}

Symmetry == Permutations(Runs) \union Permutations(Requests) \union Permutations(Keys)
=============================================================================
