----------------------- MODULE MCShuttleRedirections -----------------------
(* Values for TLC: three gates, so that the best alternative changes, and  *)
(* two routes, of which one serves two gates.                              *)
EXTENDS ShuttleRedirections

CONSTANTS r1, r2

MCGates == {1, 2, 3}
MCRoutes == {r1, r2}
MCAssignedTo == <<{r1, r2}, {r1}, {}>>
MCScores == {10, 50, 95}
=============================================================================
