----------------------------- MODULE MCFanNudges -----------------------------
(* Values for TLC: one gate, so that its handlers meet, and two fans, so    *)
(* that a handler loops with nudges of earlier fans already in the queue.   *)
EXTENDS FanNudges

CONSTANTS h1, h2, fan1, fan2

MCGates == {1}
MCHandlers == {h1, h2}
MCFans == {fan1, fan2}
MCScores == {10, 95}
=============================================================================
