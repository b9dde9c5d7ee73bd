--------------------------- MODULE MCEventStream ---------------------------
(* Instances of EventStream for TLC. *)
EXTENDS EventStream

CONSTANTS q1, q2

TwoRequests == {q1, q2}
=============================================================================
