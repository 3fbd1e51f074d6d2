--------------------------- MODULE MCScorePipeline ---------------------------
(* Values for TLC: LOW, MODERATE and CRITICAL scores, two slots so that two *)
(* recomputes of one gate or of two gates can be in flight together.        *)
EXTENDS ScorePipeline

CONSTANTS j1, j2

MCGates == {1, 2}
OneGate == {1}
MCJobs == {j1, j2}
MCScores == {10, 50, 95}
=============================================================================
