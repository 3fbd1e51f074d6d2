---------------------------- MODULE MCLiveDashboard ----------------------------
(* Values for TLC: one gate, two scores of it in a row, which may overlap;  *)
(* staff whose key was given other roles in an earlier entry, an auditor,   *)
(* and a device whose key once was an auditor's.                           *)
EXTENDS LiveDashboard

CONSTANTS j1, j2

MCGates == {1}
MCJobs == {j1, j2}
MCScores == {10, 95}
MCEntries ==
    <<[key |-> "k1", roles |-> {"GATE_STAFF"}],
      [key |-> "k2", roles |-> {"AUDITOR"}],
      [key |-> "k1", roles |-> {"VENUE_OPS_MANAGER", "manager"}],
      [key |-> "k2", roles |-> {"INGESTION_SOURCE"}],
      [key |-> "k3", roles |-> {"AUDITOR"}],
      [key |-> "k1", roles |-> {"oprator"}]>>
MCKeyOf == [staff |-> "k1", auditor |-> "k3", device |-> "k2"]
=============================================================================
