------------------------------- MODULE MCEngine -------------------------------
(***************************************************************************)
(* An instance of the engine with its traceroute and its latency probes.   *)
(***************************************************************************)
EXTENDS Engine

\* All diagnostics, or none, as the adapter configures it.
MCConfigs == {{}, Optional}

\* A destination within reach, and one beyond the last hop.
MCDistances == {1, 3}

MCRtts == {1, 2, 4}
=============================================================================
