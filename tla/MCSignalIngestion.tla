--------------------------- MODULE MCSignalIngestion ---------------------------
(* Values for TLC: signals that are fresh, stale, late, from the future, of *)
(* a gate, of a route or of neither, and one with two fields wrong.  The    *)
(* transit signals give a score of 60, where the impacts of two action      *)
(* types tie when two of them are in the window, or 100.                    *)
EXTENDS SignalIngestion

Assigned == {"signalId", "isStale", "lateArrivalFlag"}
Signal(source, absent, delay, count) ==
    [source |-> source, absent |-> Assigned \cup absent, malformed |-> {},
     delay |-> delay, transit |-> 0, count |-> count]

MCBodies ==
    {Signal("TRANSIT_FEED", {}, -1, 3),
     Signal("TRANSIT_FEED", {"routeId", "receivedAt"}, 2, 3),
     Signal("TICKET_SCANNER", {"routeId", "receivedAt"}, 1, 0),
     Signal("GATE_COUNTER", {"gateId", "receivedAt"}, 0, 3),
     Signal("GATE_COUNTER", {"gateId", "routeId", "receivedAt"}, 0, 3),
     [Signal("GATE_COUNTER", {"timestamp", "routeId"}, 0, 3) EXCEPT
        !.malformed = {"payload"}]}

MCSourceTimeout == [GATE_COUNTER |-> 1, TICKET_SCANNER |-> 1, TRANSIT_FEED |-> 2]
=============================================================================
