---------------------------- MODULE MCApprovals ----------------------------
(* Instances of Approvals for TLC. *)
EXTENDS Approvals

CONSTANTS w1, w2, o1

TwoWorkers  == {w1, w2}
OneOperator == {o1}
=============================================================================
