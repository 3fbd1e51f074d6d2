------------------------- MODULE PriorityIntakeQueue -------------------------
(***************************************************************************)
(* The bounded intake queue (signal-ingestion/priority-queue.ts): one FIFO *)
(* buffer per risk level, a size counter, shedding when full.  The class   *)
(* is synchronous, so each method is one step; nothing in the pipeline     *)
(* calls it yet, and any sequence of calls is possible.                    *)
(* An event stands for a QueuedSignalEvent: its arrival number and the     *)
(* level of its gate at that time.                                         *)
(***************************************************************************)
EXTENDS Naturals, Sequences, FiniteSets, RiskLevels

CONSTANTS
    Capacity,     \* the constructor's argument
    MaxArrivals   \* bound: calls of enqueue

ASSUME CapacityAssumption == Capacity \in Nat
ASSUME ArrivalsAssumption == MaxArrivals \in Nat

VARIABLES
    buffers,   \* per level, oldest first
    size,      \* the counter
    arrivals,  \* calls of enqueue so far
    taken,     \* what dequeue and drainInPriorityOrder returned, in order
    lost       \* history: per event shed or refused, the arrivals until then

vars == <<buffers, size, arrivals, taken, lost>>

Event == [id : 1 .. MaxArrivals, level : RiskLevel]
NotLost == 0

Init ==
    /\ buffers = [l \in RiskLevel |-> <<>>]
    /\ size = 0
    /\ arrivals = 0
    /\ taken = <<>>
    /\ lost = [e \in Event |-> NotLost]
-----------------------------------------------------------------------------
IsFullBeyond == size > Capacity
IsFull == size >= Capacity

(* shedLowestPriority goes up from LOW and stops at the incoming level.    *)
Sheddable(level) ==
    {l \in RiskLevel : RiskOrder[l] < RiskOrder[level] /\ buffers[l] # <<>>}

Highest(levels) == CHOOSE l \in levels : \A k \in levels : RiskOrder[l] >= RiskOrder[k]
Lowest(levels) == CHOOSE l \in levels : \A k \in levels : RiskOrder[l] <= RiskOrder[k]

(* The counter after one event made room for another.                      *)
SizeWithoutShedding == size + 1
SizeAfterShedding == size

EnqueueWithRoom(e) ==
    /\ ~IsFull
    /\ buffers' = [buffers EXCEPT ![e.level] = Append(@, e)]
    /\ size' = size + 1
    /\ UNCHANGED lost

(* The caller gets undefined, not the event that was shed.  (Only a refused *)
(* event is returned to it; what enqueue returns is not part of the state.) *)
EnqueueShedding(e) ==
    LET low == Lowest(Sheddable(e.level))
    IN  /\ IsFull
        /\ Sheddable(e.level) # {}
        /\ buffers' = [buffers EXCEPT ![low] = Tail(@), ![e.level] = Append(@, e)]
        /\ size' = SizeAfterShedding
        /\ lost' = [lost EXCEPT ![Head(buffers[low])] = arrivals']

EnqueueRefused(e) ==
    /\ IsFull
    /\ Sheddable(e.level) = {}
    /\ lost' = [lost EXCEPT ![e] = arrivals']
    /\ UNCHANGED <<buffers, size>>

Enqueue(level) ==
    LET e == [id |-> arrivals + 1, level |-> level]
    IN  /\ arrivals < MaxArrivals
        /\ arrivals' = arrivals + 1
        /\ EnqueueWithRoom(e) \/ EnqueueShedding(e) \/ EnqueueRefused(e)
        /\ UNCHANGED taken

Occupied(b) == {l \in RiskLevel : b[l] # <<>>}

(* One dequeue from a pair of buffers and list; bucket.shift() takes the   *)
(* oldest.                                                                 *)
Popped(q) ==
    LET l == Highest(Occupied(q.buffers))
        b == q.buffers[l]
    IN  [buffers |-> [q.buffers EXCEPT ![l] = SubSeq(b, 1, Len(b) - 1)],
         taken |-> Append(q.taken, b[Len(b)])]
Shifted(q) ==
    LET l == Highest(Occupied(q.buffers))
    IN  [buffers |-> [q.buffers EXCEPT ![l] = Tail(@)],
         taken |-> Append(q.taken, Head(q.buffers[l]))]

Dequeue ==
    /\ Occupied(buffers) # {}
    /\ LET q == Shifted([buffers |-> buffers, taken |-> taken])
       IN  buffers' = q.buffers /\ taken' = q.taken
    /\ size' = size - 1
    /\ UNCHANGED <<arrivals, lost>>

(* drainInPriorityOrder: dequeue until it returns undefined.               *)
DrainInPriorityOrder ==
    LET n == Len(buffers["LOW"]) + Len(buffers["MODERATE"])
             + Len(buffers["HIGH"]) + Len(buffers["CRITICAL"])
        after[k \in 0 .. n] ==
            IF k = 0 THEN [buffers |-> buffers, taken |-> taken] ELSE Shifted(after[k - 1])
    IN  /\ Occupied(buffers) # {}
        /\ buffers' = after[n].buffers
        /\ taken' = after[n].taken
        /\ size' = size - n
        /\ UNCHANGED <<arrivals, lost>>

Next ==
    \/ \E l \in RiskLevel : Enqueue(l)
    \/ Dequeue
    \/ DrainInPriorityOrder

Spec == Init /\ [][Next]_vars
-----------------------------------------------------------------------------
Elements(s) == {s[i] : i \in DOMAIN s}
Waiting == UNION {Elements(buffers[l]) : l \in RiskLevel}
Lost == {e \in Event : lost[e] # NotLost}

TypeOK ==
    /\ buffers \in [RiskLevel -> Seq(Event)]
    /\ size \in 0 .. Capacity
    /\ arrivals \in 0 .. MaxArrivals
    /\ taken \in Seq(Event)
    /\ lost \in [Event -> 0 .. MaxArrivals]

(***************************************************************************)
(* The counter that decides whether the queue is full agrees with the four *)
(* buffers, and each event is in one place of one of them: capacity is     *)
(* neither exceeded nor eaten up by events that have left.                 *)
(***************************************************************************)
SizeCountsWaiting ==
    /\ size = Cardinality(Waiting)
    /\ size = Len(buffers["LOW"]) + Len(buffers["MODERATE"])
              + Len(buffers["HIGH"]) + Len(buffers["CRITICAL"])

(***************************************************************************)
(* Overload is borne by the least risky gates: no event is shed or refused *)
(* while one of a less risky gate keeps its place.  So, at any later time, *)
(* a waiting event of lower level has arrived after the loss.              *)
(***************************************************************************)
LossesSpareRiskier ==
    \A x \in Lost, y \in Waiting :
        RiskOrder[y.level] < RiskOrder[x.level] => y.id > lost[x]

(***************************************************************************)
(* The four buffers and the counter implement the policy.                  *)
(***************************************************************************)
Policy == INSTANCE IntakePolicy WITH waiting <- Waiting, lost <- Lost
ImplementsPolicy == Policy!Spec

=============================================================================
