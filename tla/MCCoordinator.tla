--------------------------- MODULE MCCoordinator ---------------------------
(* Instances of Coordinator for TLC. *)
EXTENDS Coordinator, TLC

CONSTANTS browser, agent, r1, r2, r3

MCCallers == {browser, agent}
MCDroppable == {browser}
ThreeRuns == {r1, r2, r3}
AllFaults == FaultKinds
DisconnectFault == {"disconnect"}
OneRun == {r1}

RunSymmetry == Permutations(ThreeRuns)
=============================================================================
