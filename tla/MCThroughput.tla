---------------------------- MODULE MCThroughput ----------------------------
(* Instances of Throughput for TLC. *)
EXTENDS Throughput

CONSTANTS w1, w2

OneWorker == {w1}
TwoWorkers == {w1, w2}
Anything == {"deadline", "shutdown"}
OnlyDeadline == {"deadline"}
Nothing == {}
=============================================================================
