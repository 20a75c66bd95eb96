----------------------------- MODULE MCWsIngest -----------------------------
(* Instances of WsIngest for TLC. *)
EXTENDS WsIngest, TLC

CONSTANTS r1, r2, r3, r4, exit1, close1

(* Records are interchangeable except for the oversize one. *)
RecordSymmetry == Permutations(Records \ Oversize)
=============================================================================
