---------------------------- MODULE MCDashboard ----------------------------
(***************************************************************************)
(* A small instance of Dashboard: one page, which starts the runs, two     *)
(* ids, of which the first measures one metric more.                       *)
(***************************************************************************)
EXTENDS Dashboard, TLC

CONSTANTS browser

MCCallers == {browser}
MCRuns == {1, 2}
MCFaults == {"insert_error"}
MCMeasured == 1 :> {"download", "loss"} @@ 2 :> {"loss"}
=============================================================================
