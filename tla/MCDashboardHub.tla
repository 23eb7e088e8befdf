--------------------------- MODULE MCDashboardHub ---------------------------
(* Instances of DashboardHub for TLC. *)
EXTENDS DashboardHub, TLC

CONSTANTS t1, t2, s1, s2, sim, http

\* One server reports to the simulator's ingest and over HTTP.
OneServer == [p \in Reporters |-> s1]
=============================================================================
