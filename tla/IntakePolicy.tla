---------------------------- MODULE IntakePolicy ----------------------------
(***************************************************************************)
(* What a bounded intake queue promises (the header and method comments of *)
(* signal-ingestion/priority-queue.ts): events of riskier gates first, in  *)
(* order of arrival within a level; when full, an event of a less risky    *)
(* gate makes room, or else the new event is refused.  The state is the    *)
(* plain set of waiting events, with no buffers and no counter.            *)
(***************************************************************************)
EXTENDS Naturals, Sequences, FiniteSets, RiskLevels

CONSTANTS Capacity, MaxArrivals

VARIABLES
    waiting,  \* events in the queue
    taken,    \* events handed to the consumer, in that order
    lost      \* events shed or refused

Event == [id : 1 .. MaxArrivals, level : RiskLevel]

(* x goes before y: higher level, then earlier arrival.                    *)
Before(x, y) ==
    \/ RiskOrder[x.level] > RiskOrder[y.level]
    \/ x.level = y.level /\ x.id < y.id

First(events) == CHOOSE x \in events : \A y \in events \ {x} : Before(x, y)

(* The event that makes room for one of a level: the oldest of the lowest. *)
Shed(events) == CHOOSE x \in events : \A y \in events \ {x} :
                    \/ RiskOrder[x.level] < RiskOrder[y.level]
                    \/ x.level = y.level /\ x.id < y.id

Init == waiting = {} /\ taken = <<>> /\ lost = {}

Admit(e) ==
    /\ Cardinality(waiting) < Capacity
    /\ waiting' = waiting \cup {e}
    /\ UNCHANGED <<taken, lost>>

MakeRoom(e) ==
    /\ Cardinality(waiting) >= Capacity
    /\ \E x \in waiting : RiskOrder[x.level] < RiskOrder[e.level]
    /\ waiting' = (waiting \ {Shed(waiting)}) \cup {e}
    /\ lost' = lost \cup {Shed(waiting)}
    /\ UNCHANGED taken

Refuse(e) ==
    /\ Cardinality(waiting) >= Capacity
    /\ \A x \in waiting : RiskOrder[x.level] >= RiskOrder[e.level]
    /\ lost' = lost \cup {e}
    /\ UNCHANGED <<waiting, taken>>

Take ==
    /\ waiting # {}
    /\ taken' = Append(taken, First(waiting))
    /\ waiting' = waiting \ {First(waiting)}
    /\ UNCHANGED lost

(* All of them at once, in order.                                          *)
TakeAll ==
    /\ \E s \in [1 .. Cardinality(waiting) -> waiting] :
          /\ \A i, j \in DOMAIN s : i < j => Before(s[i], s[j])
          /\ taken' = taken \o s
    /\ waiting' = {}
    /\ UNCHANGED lost

Next ==
    \/ \E e \in Event : Admit(e) \/ MakeRoom(e) \/ Refuse(e)
    \/ Take
    \/ TakeAll

Spec == Init /\ [][Next]_<<waiting, taken, lost>>
=============================================================================
