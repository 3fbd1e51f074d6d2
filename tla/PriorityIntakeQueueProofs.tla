---------------------- MODULE PriorityIntakeQueueProofs ----------------------
(***************************************************************************)
(* Theorems about PriorityIntakeQueue, for any capacity and any number of  *)
(* arrivals, and that it implements IntakePolicy.                          *)
(***************************************************************************)
EXTENDS PriorityIntakeQueue, SequenceTheorems, FiniteSetTheorems,
        WellFoundedInduction, TLAPS

Buffers == [RiskLevel -> Seq(Event)]

(* The events of four buffers, and how many there are.                     *)
Held(b) == UNION {Elements(b[l]) : l \in RiskLevel}
Count(b) == Len(b["LOW"]) + Len(b["MODERATE"]) + Len(b["HIGH"]) + Len(b["CRITICAL"])

(* A buffer holds events of its level in order of arrival.                 *)
Sorted(b) ==
    \A l \in RiskLevel : \A i \in 1 .. Len(b[l]) :
        /\ b[l][i].level = l
        /\ \A j \in 1 .. Len(b[l]) : i < j => b[l][i].id < b[l][j].id

SortedByArrival ==
    /\ Sorted(buffers)
    /\ \A x \in Waiting : x.id <= arrivals

LossesArePast == \A x \in Event : lost[x] <= arrivals

IInv ==
    /\ TypeOK
    /\ SortedByArrival
    /\ IsFiniteSet(Waiting)
    /\ SizeCountsWaiting
    /\ LossesArePast
    /\ LossesSpareRiskier

-----------------------------------------------------------------------------
(* The order of the risk levels.                                           *)
LEMMA LevelsAreOrdered ==
    /\ \A l \in RiskLevel : RiskOrder[l] \in 0 .. 3
    /\ \A k, l \in RiskLevel : RiskOrder[k] = RiskOrder[l] => k = l
    /\ Policy!RiskOrder = RiskOrder
    /\ Policy!Event = Event
  <1>1. /\ RiskOrder["LOW"] = 0 /\ RiskOrder["MODERATE"] = 1
        /\ RiskOrder["HIGH"] = 2 /\ RiskOrder["CRITICAL"] = 3
    BY DEF RiskOrder
  <1>2. Policy!RiskOrder = RiskOrder
    BY DEF Policy!RiskOrder, RiskOrder
  <1>3. Policy!Event = Event
    BY DEF Policy!Event, Event, Policy!RiskLevel, RiskLevel
  <1> QED
    BY <1>1, <1>2, <1>3 DEF RiskLevel

(* The policy counts as the queue does.                                    *)
LEMMA SameCardinality == \A S : Policy!Cardinality(S) = Cardinality(S)
  BY DEF Policy!Cardinality, Cardinality

(* Any set of levels has a highest and a lowest.                           *)
LEMMA HighestAndLowest ==
    ASSUME NEW levels \in SUBSET RiskLevel, levels # {}
    PROVE  /\ Highest(levels) \in levels
           /\ \A k \in levels : RiskOrder[Highest(levels)] >= RiskOrder[k]
           /\ Lowest(levels) \in levels
           /\ \A k \in levels : RiskOrder[Lowest(levels)] <= RiskOrder[k]
  <1>1. /\ RiskOrder["LOW"] = 0 /\ RiskOrder["MODERATE"] = 1
        /\ RiskOrder["HIGH"] = 2 /\ RiskOrder["CRITICAL"] = 3
    BY DEF RiskOrder
  <1>2. \E l \in levels : \A k \in levels : RiskOrder[l] >= RiskOrder[k]
    <2>1. CASE "CRITICAL" \in levels
      BY <1>1, <2>1 DEF RiskLevel
    <2>2. CASE "CRITICAL" \notin levels /\ "HIGH" \in levels
      BY <1>1, <2>2 DEF RiskLevel
    <2>3. CASE "CRITICAL" \notin levels /\ "HIGH" \notin levels /\ "MODERATE" \in levels
      BY <1>1, <2>3 DEF RiskLevel
    <2>4. CASE levels = {"LOW"}
      BY <1>1, <2>4
    <2> QED
      BY <2>1, <2>2, <2>3, <2>4 DEF RiskLevel
  <1>3. \E l \in levels : \A k \in levels : RiskOrder[l] <= RiskOrder[k]
    <2>1. CASE "LOW" \in levels
      BY <1>1, <2>1 DEF RiskLevel
    <2>2. CASE "LOW" \notin levels /\ "MODERATE" \in levels
      BY <1>1, <2>2 DEF RiskLevel
    <2>3. CASE "LOW" \notin levels /\ "MODERATE" \notin levels /\ "HIGH" \in levels
      BY <1>1, <2>3 DEF RiskLevel
    <2>4. CASE levels = {"CRITICAL"}
      BY <1>1, <2>4
    <2> QED
      BY <2>1, <2>2, <2>3, <2>4 DEF RiskLevel
  <1> QED
    BY <1>2, <1>3 DEF Highest, Lowest

-----------------------------------------------------------------------------
(* What is held is in the buffer of its level.                             *)
LEMMA HeldAreInBuffers ==
    ASSUME NEW b \in Buffers
    PROVE  /\ \A l \in RiskLevel : /\ b[l] \in Seq(Event)
                                   /\ Len(b[l]) \in Nat
                                   /\ \A i \in 1 .. Len(b[l]) : b[l][i] \in Event
           /\ \A x : x \in Held(b) <=> \E l \in RiskLevel : \E i \in 1 .. Len(b[l]) : x = b[l][i]
  <1>1. \A l \in RiskLevel : b[l] \in Seq(Event)
    BY DEF Buffers
  <1>2. \A l \in RiskLevel : DOMAIN b[l] = 1 .. Len(b[l])
    BY <1>1, LenProperties
  <1>3. \A l \in RiskLevel : /\ Len(b[l]) \in Nat
                             /\ \A i \in 1 .. Len(b[l]) : b[l][i] \in Event
    BY <1>1, LenProperties, ElementOfSeq
  <1>4. ASSUME NEW x
        PROVE  x \in Held(b) <=> \E l \in RiskLevel : \E i \in 1 .. Len(b[l]) : x = b[l][i]
    BY <1>2 DEF Held, Elements
  <1> QED
    BY <1>1, <1>3, <1>4

LEMMA HeldIsInBuffer ==
    ASSUME NEW b \in Buffers, NEW x \in Held(b)
    PROVE  \E l \in RiskLevel : \E i \in 1 .. Len(b[l]) : x = b[l][i]
  BY HeldAreInBuffers

LEMMA EventTypes == \A x \in Event : x.id \in Nat /\ x.id \in 1 .. MaxArrivals /\ x.level \in RiskLevel
  BY ArrivalsAssumption DEF Event

(* The number of events changes as one buffer does.                        *)
LEMMA CountChange ==
    ASSUME NEW b \in Buffers, NEW c \in Buffers, NEW l \in RiskLevel,
           \A k \in RiskLevel \ {l} : Len(c[k]) = Len(b[k])
    PROVE  /\ Count(b) \in Nat
           /\ Len(b[l]) > 0 => Count(b) > 0
           /\ Len(c[l]) = Len(b[l]) + 1 => Count(c) = Count(b) + 1
           /\ Len(c[l]) = Len(b[l]) - 1 => Count(c) = Count(b) - 1
  <1> DEFINE b1 == Len(b["LOW"])
             b2 == Len(b["MODERATE"])
             b3 == Len(b["HIGH"])
             b4 == Len(b["CRITICAL"])
             c1 == Len(c["LOW"])
             c2 == Len(c["MODERATE"])
             c3 == Len(c["HIGH"])
             c4 == Len(c["CRITICAL"])
             m == Len(b[l])
             n == Len(c[l])
  <1> SUFFICES /\ Count(b) \in Nat
               /\ m > 0 => Count(b) > 0
               /\ n = m + 1 => Count(c) = Count(b) + 1
               /\ n = m - 1 => Count(c) = Count(b) - 1
    OBVIOUS
  <1>1. /\ b1 \in Nat /\ b2 \in Nat /\ b3 \in Nat /\ b4 \in Nat
        /\ c1 \in Nat /\ c2 \in Nat /\ c3 \in Nat /\ c4 \in Nat
    BY HeldAreInBuffers DEF RiskLevel
  <1>2. Count(b) = b1 + b2 + b3 + b4 /\ Count(c) = c1 + c2 + c3 + c4
    BY Zenon DEF Count
  <1>3. CASE l = "LOW"
    <2>1. m = b1 /\ n = c1 /\ c2 = b2 /\ c3 = b3 /\ c4 = b4
      BY <1>3 DEF RiskLevel
    <2> HIDE DEF b1, b2, b3, b4, c1, c2, c3, c4, m, n
    <2> QED
      BY <1>1, <1>2, <2>1
  <1>4. CASE l = "MODERATE"
    <2>1. m = b2 /\ n = c2 /\ c1 = b1 /\ c3 = b3 /\ c4 = b4
      BY <1>4 DEF RiskLevel
    <2> HIDE DEF b1, b2, b3, b4, c1, c2, c3, c4, m, n
    <2> QED
      BY <1>1, <1>2, <2>1
  <1>5. CASE l = "HIGH"
    <2>1. m = b3 /\ n = c3 /\ c1 = b1 /\ c2 = b2 /\ c4 = b4
      BY <1>5 DEF RiskLevel
    <2> HIDE DEF b1, b2, b3, b4, c1, c2, c3, c4, m, n
    <2> QED
      BY <1>1, <1>2, <2>1
  <1>6. CASE l = "CRITICAL"
    <2>1. m = b4 /\ n = c4 /\ c1 = b1 /\ c2 = b2 /\ c3 = b3
      BY <1>6 DEF RiskLevel
    <2> HIDE DEF b1, b2, b3, b4, c1, c2, c3, c4, m, n
    <2> QED
      BY <1>1, <1>2, <2>1
  <1> QED
    BY <1>3, <1>4, <1>5, <1>6 DEF RiskLevel

(* Taking the oldest event of a level.                                     *)
LEMMA ShiftEffect ==
    ASSUME NEW b \in Buffers, Sorted(b), NEW l \in RiskLevel, b[l] # <<>>,
           NEW c, c = [b EXCEPT ![l] = Tail(b[l])]
    PROVE  /\ c \in Buffers
           /\ Sorted(c)
           /\ Head(b[l]) \in Held(b) /\ Head(b[l]) \in Event /\ Head(b[l]).level = l
           /\ Held(c) = Held(b) \ {Head(b[l])}
           /\ Count(b) \in Nat /\ Count(b) > 0 /\ Count(c) = Count(b) - 1
  <1> DEFINE s == b[l]
             t == Tail(s)
  <1>1. /\ s \in Seq(Event)
        /\ t \in Seq(Event)
        /\ Len(s) \in Nat /\ Len(s) > 0
        /\ Len(t) = Len(s) - 1
        /\ \A i \in 1 .. Len(t) : t[i] = s[i + 1]
        /\ Head(s) = s[1]
    BY HeadTailProperties, HeldAreInBuffers, EmptySeq
  <1> HIDE DEF t
  <1>2. /\ c \in Buffers
        /\ c[l] = t
        /\ \A k \in RiskLevel \ {l} : c[k] = b[k]
    BY <1>1 DEF Buffers, t
  <1>3. Sorted(c)
    <2> SUFFICES ASSUME NEW k \in RiskLevel, NEW i \in 1 .. Len(c[k])
                 PROVE  /\ c[k][i].level = k
                        /\ \A j \in 1 .. Len(c[k]) : i < j => c[k][i].id < c[k][j].id
      BY DEF Sorted
    <2>1. CASE k # l
      BY <1>2, <2>1 DEF Sorted
    <2>2. CASE k = l
      <3>1. \A j \in 1 .. Len(c[l]) : /\ j + 1 \in 1 .. Len(b[l])
                                      /\ c[l][j] = b[l][j + 1]
        BY <1>1, <1>2
      <3>2. i + 1 \in 1 .. Len(b[l]) /\ c[l][i] = b[l][i + 1]
        BY <2>2, <3>1
      <3>3. ASSUME NEW j \in 1 .. Len(c[l]), i < j
            PROVE  c[l][i].id < c[l][j].id
        <4>1. i + 1 < j + 1
          BY <3>3
        <4> QED
          BY <3>1, <3>2, <4>1 DEF Sorted
      <3> QED
        BY <2>2, <3>2, <3>3 DEF Sorted
    <2> QED
      BY <2>1, <2>2
  <1>4. 1 \in 1 .. Len(b[l])
    BY <1>1
  <1>5. Head(b[l]) \in Held(b) /\ Head(b[l]) \in Event /\ Head(b[l]).level = l
    BY <1>1, <1>4, HeldAreInBuffers DEF Sorted
  <1>6. ASSUME NEW x \in Held(c)
        PROVE  x \in Held(b) \ {Head(b[l])}
    <2>0. PICK k \in RiskLevel : \E i \in 1 .. Len(c[k]) : x = c[k][i]
      BY <1>2, <1>6, HeldIsInBuffer, Zenon
    <2>1. PICK i \in 1 .. Len(c[k]) : x = c[k][i]
      BY <2>0
    <2>2. CASE k # l
      <3>1. x = b[k][i] /\ i \in 1 .. Len(b[k])
        BY <1>2, <2>1, <2>2
      <3> QED
        BY <1>5, <2>2, <3>1, HeldAreInBuffers DEF Sorted
    <2>3. CASE k = l
      <3>1. i + 1 \in 1 .. Len(b[l]) /\ x = b[l][i + 1] /\ 1 < i + 1
        BY <1>1, <1>2, <2>1, <2>3
      <3>2. b[l][1].id < b[l][i + 1].id
        BY <1>4, <3>1 DEF Sorted
      <3>3. b[l][1].id \in Nat
        BY <1>4, HeldAreInBuffers, EventTypes
      <3>4. x # Head(b[l])
        BY <1>1, <3>1, <3>2, <3>3
      <3> QED
        BY <3>1, <3>4, HeldAreInBuffers
    <2> QED
      BY <2>2, <2>3
  <1>7. ASSUME NEW x \in Held(b), x # Head(b[l])
        PROVE  x \in Held(c)
    <2>0. PICK k \in RiskLevel : \E i \in 1 .. Len(b[k]) : x = b[k][i]
      BY HeldAreInBuffers
    <2>1. PICK i \in 1 .. Len(b[k]) : x = b[k][i]
      BY <2>0
    <2>2. CASE k # l
      BY <1>2, <2>1, <2>2, HeldAreInBuffers
    <2>3. CASE k = l
      <3>1. i - 1 \in 1 .. Len(c[l]) /\ x = c[l][i - 1]
        BY <1>1, <1>2, <1>7, <2>1, <2>3
      <3> QED
        BY <1>2, <3>1, HeldAreInBuffers
    <2> QED
      BY <2>2, <2>3
  <1>8. Count(b) \in Nat /\ Count(b) > 0 /\ Count(c) = Count(b) - 1
    <2>1. Len(c[l]) = Len(b[l]) - 1 /\ \A k \in RiskLevel \ {l} : Len(c[k]) = Len(b[k])
      BY <1>1, <1>2
    <2> QED
      BY <1>1, <1>2, <2>1, CountChange, Zenon
  <1> QED
    BY <1>2, <1>3, <1>5, <1>6, <1>7, <1>8

(* Adding the youngest event.                                              *)
LEMMA PushEffect ==
    ASSUME NEW b \in Buffers, Sorted(b), NEW e \in Event,
           \A x \in Held(b) : x.id < e.id,
           NEW c, c = [b EXCEPT ![e.level] = Append(b[e.level], e)]
    PROVE  /\ c \in Buffers
           /\ Sorted(c)
           /\ Held(c) = Held(b) \cup {e}
           /\ Count(b) \in Nat /\ Count(c) = Count(b) + 1
  <1> DEFINE l == e.level
  <1>1. l \in RiskLevel
    BY DEF Event
  <1>2. /\ b[l] \in Seq(Event)
        /\ Len(b[l]) \in Nat
        /\ Append(b[l], e) \in Seq(Event)
        /\ Len(Append(b[l], e)) = Len(b[l]) + 1
        /\ \A i \in 1 .. Len(b[l]) : Append(b[l], e)[i] = b[l][i]
        /\ Append(b[l], e)[Len(b[l]) + 1] = e
    BY <1>1, AppendProperties, HeldAreInBuffers
  <1>3. /\ c \in Buffers
        /\ c[l] = Append(b[l], e)
        /\ \A k \in RiskLevel \ {l} : c[k] = b[k]
    BY <1>1, <1>2 DEF Buffers
  <1>4. \A i \in 1 .. Len(c[l]) :
           \/ i \in 1 .. Len(b[l]) /\ c[l][i] = b[l][i]
           \/ i = Len(b[l]) + 1 /\ c[l][i] = e
    BY <1>2, <1>3
  <1>5. Sorted(c)
    <2> SUFFICES ASSUME NEW k \in RiskLevel, NEW i \in 1 .. Len(c[k])
                 PROVE  /\ c[k][i].level = k
                        /\ \A j \in 1 .. Len(c[k]) : i < j => c[k][i].id < c[k][j].id
      BY DEF Sorted
    <2>1. CASE k # l
      BY <1>3, <2>1 DEF Sorted
    <2>2. CASE k = l
      <3>1. c[l][i].level = l
        BY <1>1, <1>4, <2>2 DEF Sorted
      <3>2. ASSUME NEW j \in 1 .. Len(c[l]), i < j
            PROVE  c[l][i].id < c[l][j].id
        <4>1. i \in 1 .. Len(b[l]) /\ c[l][i] = b[l][i]
          BY <1>2, <1>3, <1>4, <2>2, <3>2
        <4>2. CASE j \in 1 .. Len(b[l]) /\ c[l][j] = b[l][j]
          BY <1>1, <3>2, <4>1, <4>2 DEF Sorted
        <4>3. CASE c[l][j] = e
          BY <1>1, <4>1, <4>3, HeldAreInBuffers
        <4> QED
          BY <1>4, <4>2, <4>3
      <3> QED
        BY <2>2, <3>1, <3>2
    <2> QED
      BY <2>1, <2>2
  <1>6. ASSUME NEW x \in Held(c)
        PROVE  x \in Held(b) \cup {e}
    <2>0. PICK k \in RiskLevel : \E i \in 1 .. Len(c[k]) : x = c[k][i]
      BY <1>3, <1>6, HeldIsInBuffer, Zenon
    <2>1. PICK i \in 1 .. Len(c[k]) : x = c[k][i]
      BY <2>0
    <2>2. CASE k # l
      BY <1>3, <2>1, <2>2, HeldAreInBuffers
    <2>3. CASE k = l
      BY <1>1, <1>4, <2>1, <2>3, HeldAreInBuffers
    <2> QED
      BY <2>2, <2>3
  <1>7. ASSUME NEW x \in Held(b)
        PROVE  x \in Held(c)
    <2>0. PICK k \in RiskLevel : \E i \in 1 .. Len(b[k]) : x = b[k][i]
      BY HeldAreInBuffers
    <2>1. PICK i \in 1 .. Len(b[k]) : x = b[k][i]
      BY <2>0
    <2>2. i \in 1 .. Len(c[k]) /\ x = c[k][i]
      BY <1>2, <1>3, <2>1
    <2> QED
      BY <1>3, <2>2, HeldAreInBuffers
  <1>8. e \in Held(c)
    <2>1. Len(b[l]) + 1 \in 1 .. Len(c[l]) /\ c[l][Len(b[l]) + 1] = e
      BY <1>2, <1>3
    <2> QED
      BY <1>1, <1>3, <2>1, HeldAreInBuffers
  <1>9. Count(b) \in Nat /\ Count(c) = Count(b) + 1
    <2>1. Len(c[l]) = Len(b[l]) + 1 /\ \A k \in RiskLevel \ {l} : Len(c[k]) = Len(b[k])
      BY <1>2, <1>3
    <2> QED
      BY <1>1, <1>3, <2>1, CountChange, Zenon
  <1> QED
    BY <1>3, <1>5, <1>6, <1>7, <1>8, <1>9


-----------------------------------------------------------------------------
(* The head of a buffer is the oldest of its level.                        *)
LEMMA HeadIsOldest ==
    ASSUME NEW b \in Buffers, Sorted(b), NEW l \in RiskLevel, b[l] # <<>>,
           NEW y \in Held(b), y.level = l, y # Head(b[l])
    PROVE  Head(b[l]).id < y.id
  <1>1. PICK k \in RiskLevel : \E i \in 1 .. Len(b[k]) : y = b[k][i]
    BY HeldIsInBuffer
  <1>2. PICK i \in 1 .. Len(b[k]) : y = b[k][i]
    BY <1>1
  <1>3. k = l
    BY <1>2 DEF Sorted
  <1>4. Head(b[l]) = b[l][1] /\ Len(b[l]) \in Nat /\ b[l][1].id \in Nat
    <2>1. b[l] \in Seq(Event)
      BY HeldAreInBuffers
    <2>2. Head(b[l]) = b[l][1] /\ Head(b[l]) \in Event
      BY <2>1, HeadTailProperties
    <2> QED
      BY <2>1, <2>2, EventTypes, HeldAreInBuffers
  <1>5. i # 1 /\ 1 \in 1 .. Len(b[l]) /\ i \in 1 .. Len(b[l]) /\ 1 < i
    BY <1>2, <1>3, <1>4
  <1> QED
    BY <1>2, <1>3, <1>4, <1>5 DEF Sorted

(* Nothing held: no level is occupied.                                     *)
LEMMA OccupiedIffHeld ==
    ASSUME NEW b \in Buffers
    PROVE  /\ Occupied(b) = {} => Held(b) = {}
           /\ \A y \in Held(b) : Sorted(b) => y.level \in Occupied(b)
           /\ Count(b) = 0 => Held(b) = {}
  <1>1. ASSUME NEW y \in Held(b)
        PROVE  /\ Occupied(b) # {} /\ Count(b) # 0
               /\ Sorted(b) => y.level \in Occupied(b)
    <2>1. PICK k \in RiskLevel : \E i \in 1 .. Len(b[k]) : y = b[k][i]
      BY <1>1, HeldIsInBuffer
    <2>2. PICK i \in 1 .. Len(b[k]) : y = b[k][i]
      BY <2>1
    <2>3. b[k] \in Seq(Event) /\ Len(b[k]) \in Nat /\ Len(b[k]) > 0
      BY HeldAreInBuffers
    <2>4. b[k] # <<>>
      BY <2>3, EmptySeq
    <2>5. Count(b) > 0 /\ Count(b) \in Nat
      BY <2>3, CountChange
    <2> QED
      BY <2>2, <2>4, <2>5 DEF Occupied, Sorted
  <1> QED
    BY <1>1

(* The policy's order has one first and one to shed.                       *)
LEMMA FirstIs ==
    ASSUME NEW S \in SUBSET Event, NEW x \in S,
           \A y \in S \ {x} : Policy!Before(x, y)
    PROVE  Policy!First(S) = x
  <1>1. ASSUME NEW z \in S, z # x, \A y \in S \ {z} : Policy!Before(z, y)
        PROVE  FALSE
    <2>1. Policy!Before(x, z) /\ Policy!Before(z, x)
      BY <1>1
    <2>2. /\ RiskOrder[x.level] \in Nat /\ RiskOrder[z.level] \in Nat
          /\ x.id \in Nat /\ z.id \in Nat
      BY EventTypes, LevelsAreOrdered
    <2> QED
      BY <2>1, <2>2, LevelsAreOrdered DEF Policy!Before
  <1>2. \E z \in S : \A y \in S \ {z} : Policy!Before(z, y)
    OBVIOUS
  <1> QED
    BY <1>1, <1>2 DEF Policy!First

LEMMA ShedIs ==
    ASSUME NEW S \in SUBSET Event, NEW x \in S,
           \A y \in S \ {x} : \/ RiskOrder[x.level] < RiskOrder[y.level]
                              \/ x.level = y.level /\ x.id < y.id
    PROVE  Policy!Shed(S) = x
  <1> DEFINE sheds(u, y) == \/ RiskOrder[u.level] < RiskOrder[y.level]
                            \/ u.level = y.level /\ u.id < y.id
  <1>1. ASSUME NEW z \in S, z # x, \A y \in S \ {z} : sheds(z, y)
        PROVE  FALSE
    <2>1. sheds(x, z) /\ sheds(z, x)
      BY <1>1
    <2>2. /\ RiskOrder[x.level] \in Nat /\ RiskOrder[z.level] \in Nat
          /\ x.id \in Nat /\ z.id \in Nat
      BY EventTypes, LevelsAreOrdered
    <2> QED
      BY <2>1, <2>2
  <1>2. Policy!Shed(S) = CHOOSE u \in S : \A y \in S \ {u} : sheds(u, y)
    BY LevelsAreOrdered DEF Policy!Shed
  <1>3. \A y \in S \ {x} : sheds(x, y)
    OBVIOUS
  <1> HIDE DEF sheds
  <1> QED
    BY <1>1, <1>2, <1>3

(* dequeue takes what the policy takes.                                    *)
LEMMA HighestHeadIsFirst ==
    ASSUME NEW b \in Buffers, Sorted(b), Occupied(b) # {},
           NEW l, l = Highest(Occupied(b))
    PROVE  /\ l \in RiskLevel /\ b[l] # <<>>
           /\ \A y \in Held(b) \ {Head(b[l])} : Policy!Before(Head(b[l]), y)
           /\ Policy!First(Held(b)) = Head(b[l])
  <1>1. Occupied(b) \in SUBSET RiskLevel
    BY DEF Occupied
  <1>2. l \in Occupied(b) /\ \A k \in Occupied(b) : RiskOrder[l] >= RiskOrder[k]
    BY <1>1, HighestAndLowest
  <1>3. l \in RiskLevel /\ b[l] # <<>>
    BY <1>2 DEF Occupied
  <1>4. Head(b[l]) \in Held(b) /\ Head(b[l]).level = l
    BY <1>3, ShiftEffect
  <1>5. Held(b) \in SUBSET Event
    BY HeldAreInBuffers
  <1>6. ASSUME NEW y \in Held(b), y # Head(b[l])
        PROVE  Policy!Before(Head(b[l]), y)
    <2>1. y.level \in Occupied(b) /\ y.level \in RiskLevel
      BY <1>1, OccupiedIffHeld
    <2>2. RiskOrder[l] >= RiskOrder[y.level] /\ RiskOrder[l] \in Nat /\ RiskOrder[y.level] \in Nat
      BY <1>2, <1>3, <2>1, LevelsAreOrdered
    <2>3. CASE y.level = l
      <3>1. Head(b[l]).id < y.id
        BY <1>3, <1>6, <2>3, HeadIsOldest
      <3> QED
        BY <1>4, <2>3, <3>1 DEF Policy!Before
    <2>4. CASE y.level # l
      <3>1. RiskOrder[l] > RiskOrder[y.level]
        BY <1>3, <2>1, <2>2, <2>4, LevelsAreOrdered
      <3> QED
        BY <1>4, <3>1, LevelsAreOrdered DEF Policy!Before
    <2> QED
      BY <2>3, <2>4
  <1> QED
    BY <1>3, <1>4, <1>5, <1>6, FirstIs


-----------------------------------------------------------------------------
(* The counter, the set and the four buffers.                              *)
LEMMA SizeIs ==
    ASSUME TypeOK, SizeCountsWaiting
    PROVE  /\ buffers \in Buffers
           /\ Waiting = Held(buffers)
           /\ Waiting \subseteq Event
           /\ size = Cardinality(Waiting) /\ size = Count(buffers)
           /\ size \in Nat /\ arrivals \in Nat /\ Capacity \in Nat
  <1>1. buffers \in Buffers
    BY DEF TypeOK, Buffers
  <1>2. Waiting = Held(buffers)
    BY DEF Waiting, Held
  <1>3. Waiting \subseteq Event
    BY <1>1, <1>2, HeldAreInBuffers
  <1>4. size = Cardinality(Waiting) /\ size = Count(buffers)
    BY Zenon DEF SizeCountsWaiting, Count
  <1>5. size \in Nat /\ arrivals \in Nat /\ Capacity \in Nat
    BY CapacityAssumption, ArrivalsAssumption DEF TypeOK
  <1> QED
    BY <1>1, <1>2, <1>3, <1>4, <1>5

LEMMA SizeIsNext ==
    ASSUME buffers' \in Buffers, size' = Cardinality(Held(buffers')), size' = Count(buffers')
    PROVE  Waiting' = Held(buffers') /\ SizeCountsWaiting'
  <1>1. Waiting' = Held(buffers')
    BY DEF Waiting, Held
  <1> QED
    BY <1>1, Zenon DEF SizeCountsWaiting, Count

(* The event of the next arrival is none of those that wait.               *)
LEMMA NewEvent ==
    ASSUME IInv, arrivals < MaxArrivals, NEW level \in RiskLevel,
           NEW e, e = [id |-> arrivals + 1, level |-> level]
    PROVE  /\ e \in Event /\ e.id = arrivals + 1 /\ e.level = level
           /\ e \notin Waiting
           /\ \A x \in Waiting : x.id < e.id
           /\ \A x \in Event : lost[x] \in Nat /\ lost[x] < e.id
  <1>1. arrivals \in Nat /\ MaxArrivals \in Nat /\ Waiting \subseteq Event
    BY SizeIs, ArrivalsAssumption DEF IInv
  <1>2. e.id = arrivals + 1 /\ e.level = level
    OBVIOUS
  <1>3. e \in Event
    BY <1>1 DEF Event
  <1>4. ASSUME NEW x \in Waiting
        PROVE  x.id < e.id
    BY <1>1, <1>2, EventTypes DEF IInv, SortedByArrival
  <1>5. ASSUME NEW x \in Event
        PROVE  lost[x] \in Nat /\ lost[x] < e.id
    <2>1. lost[x] \in Nat /\ lost[x] <= arrivals
      BY ArrivalsAssumption DEF IInv, TypeOK, LossesArePast
    <2> QED
      BY <1>1, <1>2, <2>1
  <1>6. e \notin Waiting
    BY <1>1, <1>2, <1>4
  <1> QED
    BY <1>2, <1>3, <1>4, <1>5, <1>6

(* Room for one more: the event waits in the buffer of its level.          *)
LEMMA EnqueueWithRoomStep ==
    ASSUME IInv, arrivals < MaxArrivals, arrivals' = arrivals + 1, UNCHANGED taken,
           NEW level \in RiskLevel,
           NEW e, e = [id |-> arrivals + 1, level |-> level],
           EnqueueWithRoom(e)
    PROVE  IInv' /\ Policy!Admit(e)
  <1>1. /\ e \in Event /\ e.id = arrivals + 1 /\ e.level = level
        /\ e \notin Waiting
        /\ \A x \in Waiting : x.id < e.id
        /\ \A x \in Event : lost[x] \in Nat /\ lost[x] < e.id
    BY NewEvent
  <1>2. /\ buffers \in Buffers
        /\ Waiting = Held(buffers)
        /\ Waiting \subseteq Event
        /\ size = Cardinality(Waiting) /\ size = Count(buffers)
        /\ size \in Nat /\ arrivals \in Nat /\ Capacity \in Nat
    BY SizeIs DEF IInv
  <1>3. /\ size < Capacity
        /\ buffers' = [buffers EXCEPT ![e.level] = Append(buffers[e.level], e)]
        /\ size' = size + 1
        /\ lost' = lost
    BY <1>2 DEF EnqueueWithRoom, IsFull
  <1>4. Sorted(buffers) /\ IsFiniteSet(Waiting)
    BY DEF IInv, SortedByArrival
  <1>5. /\ buffers' \in Buffers
        /\ Sorted(buffers')
        /\ Held(buffers') = Held(buffers) \cup {e}
        /\ Count(buffers') = Count(buffers) + 1
    BY <1>1, <1>2, <1>3, <1>4, PushEffect
  <1>6. IsFiniteSet(Waiting \cup {e}) /\ Cardinality(Waiting \cup {e}) = Cardinality(Waiting) + 1
    BY <1>1, <1>4, FS_AddElement
  <1>7. Waiting' = Waiting \cup {e} /\ SizeCountsWaiting'
    BY <1>2, <1>3, <1>5, <1>6, SizeIsNext
  <1>8. TypeOK'
    BY <1>2, <1>3, <1>5, ArrivalsAssumption DEF IInv, TypeOK, Buffers
  <1>9. SortedByArrival'
    BY <1>1, <1>2, <1>5, <1>7, EventTypes DEF IInv, SortedByArrival
  <1>10. LossesArePast' /\ IsFiniteSet(Waiting')
    BY <1>1, <1>2, <1>3, <1>6, <1>7 DEF IInv, LossesArePast
  <1>11. LossesSpareRiskier'
    BY <1>1, <1>3, <1>7 DEF IInv, LossesSpareRiskier, Lost
  <1>12. Policy!Admit(e)
    <2>1. Cardinality(Waiting) < Capacity
      BY <1>2, <1>3
    <2>2. Lost' = Lost
      BY <1>3 DEF Lost
    <2> QED
      BY <1>7, <2>1, <2>2, SameCardinality DEF Policy!Admit
  <1> QED
    BY <1>7, <1>8, <1>9, <1>10, <1>11, <1>12 DEF IInv

(* No room and nothing to shed: the event is refused.                      *)
LEMMA EnqueueRefusedStep ==
    ASSUME IInv, arrivals < MaxArrivals, arrivals' = arrivals + 1, UNCHANGED taken,
           NEW level \in RiskLevel,
           NEW e, e = [id |-> arrivals + 1, level |-> level],
           EnqueueRefused(e)
    PROVE  IInv' /\ Policy!Refuse(e)
  <1>1. /\ e \in Event /\ e.id = arrivals + 1 /\ e.level = level
        /\ \A x \in Event : lost[x] \in Nat /\ lost[x] < e.id
    BY NewEvent
  <1>2. /\ buffers \in Buffers
        /\ Waiting = Held(buffers)
        /\ Waiting \subseteq Event
        /\ size = Cardinality(Waiting) /\ size = Count(buffers)
        /\ size \in Nat /\ arrivals \in Nat /\ Capacity \in Nat
    BY SizeIs DEF IInv
  <1>3. /\ size >= Capacity
        /\ Sheddable(e.level) = {}
        /\ lost' = [lost EXCEPT ![e] = arrivals + 1]
        /\ UNCHANGED <<buffers, size>>
    BY DEF EnqueueRefused, IsFull
  <1>4. Waiting' = Waiting
    BY <1>3 DEF Waiting
  <1>5. /\ lost' \in [Event -> 0 .. MaxArrivals]
        /\ lost'[e] = arrivals + 1
        /\ \A x \in Event \ {e} : lost'[x] = lost[x]
    BY <1>1, <1>2, <1>3, ArrivalsAssumption DEF IInv, TypeOK
  <1>6. TypeOK'
    BY <1>2, <1>3, <1>5, ArrivalsAssumption DEF IInv, TypeOK
  <1>7. SortedByArrival'
    BY <1>2, <1>3, <1>4, EventTypes DEF IInv, SortedByArrival
  <1>8. LossesArePast' /\ IsFiniteSet(Waiting') /\ SizeCountsWaiting'
    <2>1. SizeCountsWaiting'
      BY <1>3, <1>4, Zenon DEF IInv, SizeCountsWaiting
    <2>2. LossesArePast'
      BY <1>1, <1>2, <1>5 DEF LossesArePast
    <2> QED
      BY <1>4, <2>1, <2>2 DEF IInv
  <1>9. \A y \in Waiting : RiskOrder[y.level] >= RiskOrder[e.level]
    <2> SUFFICES ASSUME NEW y \in Waiting
                 PROVE  ~(RiskOrder[y.level] < RiskOrder[e.level])
      BY <1>1, <1>2, EventTypes, LevelsAreOrdered
    <2>1. y.level \in Occupied(buffers)
      BY <1>2, OccupiedIffHeld DEF IInv, SortedByArrival
    <2> QED
      BY <1>3, <2>1 DEF Sheddable, Occupied
  <1>10. Lost' = Lost \cup {e}
    BY <1>1, <1>2, <1>5 DEF Lost, NotLost
  <1>11. LossesSpareRiskier'
    <2> SUFFICES ASSUME NEW x \in Event, lost'[x] # NotLost, NEW y \in Waiting,
                        RiskOrder[y.level] < RiskOrder[x.level]
                 PROVE  y.id > lost'[x]
      BY <1>4 DEF LossesSpareRiskier, Lost
    <2>1. x # e
      BY <1>1, <1>2, <1>9, EventTypes, LevelsAreOrdered
    <2> QED
      BY <1>5, <2>1 DEF IInv, LossesSpareRiskier, Lost
  <1>12. Policy!Refuse(e)
    <2>1. Cardinality(Waiting) >= Capacity
      BY <1>2, <1>3
    <2>2. \A y \in Waiting : Policy!RiskOrder[y.level] >= Policy!RiskOrder[e.level]
      BY <1>9, LevelsAreOrdered
    <2> QED
      BY <1>4, <1>10, <2>1, <2>2, SameCardinality DEF Policy!Refuse
  <1> QED
    BY <1>4, <1>6, <1>7, <1>8, <1>11, <1>12 DEF IInv


(* No room: the oldest event of the lowest level below makes room.         *)
LEMMA EnqueueSheddingStep ==
    ASSUME IInv, arrivals < MaxArrivals, arrivals' = arrivals + 1, UNCHANGED taken,
           NEW level \in RiskLevel,
           NEW e, e = [id |-> arrivals + 1, level |-> level],
           EnqueueShedding(e)
    PROVE  IInv' /\ Policy!MakeRoom(e)
  <1> DEFINE levels == Sheddable(e.level)
             low == Lowest(levels)
             x == Head(buffers[low])
             rest == [buffers EXCEPT ![low] = Tail(buffers[low])]
  <1>1. /\ e \in Event /\ e.id = arrivals + 1 /\ e.level = level
        /\ e \notin Waiting
        /\ \A y \in Waiting : y.id < e.id
        /\ \A y \in Event : lost[y] \in Nat /\ lost[y] < e.id
    BY NewEvent
  <1>2. /\ buffers \in Buffers
        /\ Waiting = Held(buffers)
        /\ Waiting \subseteq Event
        /\ size = Cardinality(Waiting) /\ size = Count(buffers)
        /\ size \in Nat /\ arrivals \in Nat /\ Capacity \in Nat
    BY SizeIs DEF IInv
  <1>3. /\ size >= Capacity
        /\ levels # {}
        /\ buffers' = [buffers EXCEPT ![low] = Tail(buffers[low]),
                                      ![e.level] = Append(buffers[e.level], e)]
        /\ size' = size
        /\ lost' = [lost EXCEPT ![x] = arrivals + 1]
    BY <1>1 DEF EnqueueShedding, IsFull, SizeAfterShedding
  <1>4. Sorted(buffers) /\ IsFiniteSet(Waiting)
    BY DEF IInv, SortedByArrival
  <1>5. levels \in SUBSET RiskLevel
    BY DEF Sheddable
  <1>6. /\ low \in levels /\ \A k \in levels : RiskOrder[low] <= RiskOrder[k]
    BY <1>3, <1>5, HighestAndLowest
  <1>7. low \in RiskLevel /\ buffers[low] # <<>> /\ RiskOrder[low] < RiskOrder[e.level]
    BY <1>6 DEF Sheddable
  <1> HIDE DEF low, levels
  <1>8. low # e.level
    BY <1>1, <1>7, LevelsAreOrdered
  <1>9. /\ rest \in Buffers
        /\ Sorted(rest)
        /\ x \in Held(buffers) /\ x \in Event /\ x.level = low
        /\ Held(rest) = Held(buffers) \ {x}
        /\ Count(buffers) \in Nat /\ Count(buffers) > 0 /\ Count(rest) = Count(buffers) - 1
    BY <1>2, <1>4, <1>7, ShiftEffect
  <1>10. buffers' = [rest EXCEPT ![e.level] = Append(rest[e.level], e)]
    BY <1>1, <1>2, <1>3, <1>7, <1>8 DEF Buffers
  <1> HIDE DEF x, rest
  <1>11. \A y \in Held(rest) : y.id < e.id
    BY <1>1, <1>2, <1>9
  <1>12. /\ buffers' \in Buffers
         /\ Sorted(buffers')
         /\ Held(buffers') = Held(rest) \cup {e}
         /\ Count(buffers') = Count(rest) + 1
    BY <1>1, <1>9, <1>10, <1>11, PushEffect
  <1>13. /\ IsFiniteSet(Waiting \ {x})
         /\ Cardinality(Waiting \ {x}) = Cardinality(Waiting) - 1
    BY <1>2, <1>4, <1>9, FS_RemoveElement
  <1>14. /\ IsFiniteSet((Waiting \ {x}) \cup {e})
         /\ Cardinality((Waiting \ {x}) \cup {e}) = Cardinality(Waiting \ {x}) + 1
    BY <1>1, <1>13, FS_AddElement
  <1>15. Waiting' = (Waiting \ {x}) \cup {e} /\ SizeCountsWaiting'
    <2>1. Held(buffers') = (Waiting \ {x}) \cup {e}
      BY <1>2, <1>9, <1>12
    <2>2. size' = Cardinality(Held(buffers'))
      <3>1. Cardinality(Waiting \ {x}) = size - 1
        BY <1>2, <1>13
      <3>2. Cardinality(Held(buffers')) = size - 1 + 1
        BY <1>14, <2>1, <3>1
      <3>3. size - 1 + 1 = size
        BY <1>2
      <3> QED
        BY <1>3, <3>2, <3>3
    <2>3. size' = Count(buffers')
      BY <1>2, <1>3, <1>9, <1>12
    <2> QED
      BY <1>12, <2>1, <2>2, <2>3, SizeIsNext
  <1>16. /\ lost' \in [Event -> 0 .. MaxArrivals]
         /\ lost'[x] = arrivals + 1
         /\ \A y \in Event \ {x} : lost'[y] = lost[y]
    BY <1>2, <1>3, <1>9, ArrivalsAssumption DEF IInv, TypeOK
  <1>17. TypeOK'
    <2>1. buffers' \in [RiskLevel -> Seq(Event)]
      BY <1>12 DEF Buffers
    <2>2. size' \in 0 .. Capacity /\ taken' \in Seq(Event)
      BY <1>3 DEF IInv, TypeOK
    <2>3. arrivals' \in 0 .. MaxArrivals
      BY <1>2, ArrivalsAssumption
    <2> QED
      BY <1>16, <2>1, <2>2, <2>3 DEF TypeOK
  <1>18. SortedByArrival'
    BY <1>1, <1>2, <1>12, <1>15, EventTypes DEF IInv, SortedByArrival
  <1>19. LossesArePast' /\ IsFiniteSet(Waiting')
    BY <1>1, <1>2, <1>14, <1>15, <1>16 DEF LossesArePast
  <1>20. ASSUME NEW y \in Waiting, y # x
         PROVE  \/ RiskOrder[x.level] < RiskOrder[y.level]
                \/ x.level = y.level /\ x.id < y.id
    <2>1. y.level \in RiskLevel /\ buffers[y.level] # <<>>
      BY <1>2, <1>4, OccupiedIffHeld DEF Occupied
    <2>2. /\ RiskOrder[low] \in Nat /\ RiskOrder[y.level] \in Nat /\ RiskOrder[e.level] \in Nat
      BY <1>1, <1>7, <2>1, LevelsAreOrdered
    <2>3. CASE y.level = low
      BY <1>2, <1>4, <1>7, <1>9, <1>20, <2>3, HeadIsOldest DEF x
    <2>4. CASE y.level # low
      <3>1. RiskOrder[low] # RiskOrder[y.level]
        BY <1>7, <2>1, <2>4, LevelsAreOrdered
      <3>2. CASE y.level \in levels
        BY <1>6, <1>9, <2>2, <3>1, <3>2
      <3>3. CASE y.level \notin levels
        <4>1. ~(RiskOrder[y.level] < RiskOrder[e.level])
          BY <2>1, <3>3 DEF levels, Sheddable
        <4> QED
          BY <1>7, <1>9, <2>2, <4>1
      <3> QED
        BY <3>2, <3>3
    <2> QED
      BY <2>3, <2>4
  <1>21. Policy!Shed(Waiting) = x
    BY <1>2, <1>9, <1>20, ShedIs
  <1>22. Lost' = Lost \cup {x}
    BY <1>2, <1>9, <1>16 DEF Lost, NotLost
  <1>23. LossesSpareRiskier'
    <2> SUFFICES ASSUME NEW z \in Event, lost'[z] # NotLost, NEW y \in Waiting',
                        RiskOrder[y.level] < RiskOrder[z.level]
                 PROVE  y.id > lost'[z]
      BY DEF LossesSpareRiskier, Lost
    <2>1. CASE z = x
      <3>1. y \in Waiting /\ y # x
        BY <1>1, <1>7, <1>9, <1>15, <2>1, LevelsAreOrdered
      <3> QED
        BY <1>2, <1>9, <1>20, <2>1, <3>1, EventTypes, LevelsAreOrdered
    <2>2. CASE z # x /\ y = e
      BY <1>1, <1>16, <2>2
    <2>3. CASE z # x /\ y # e
      BY <1>15, <1>16, <2>3 DEF IInv, LossesSpareRiskier, Lost
    <2> QED
      BY <2>1, <2>2, <2>3
  <1>24. Policy!MakeRoom(e)
    <2>1. Cardinality(Waiting) >= Capacity
      BY <1>2, <1>3
    <2>2. \E y \in Waiting : Policy!RiskOrder[y.level] < Policy!RiskOrder[e.level]
      BY <1>2, <1>7, <1>9, LevelsAreOrdered
    <2> QED
      BY <1>15, <1>21, <1>22, <2>1, <2>2, SameCardinality DEF Policy!MakeRoom
  <1> QED
    BY <1>15, <1>17, <1>18, <1>19, <1>23, <1>24 DEF IInv

(* dequeue: the policy's first event leaves.                               *)
LEMMA DequeueStep ==
    ASSUME IInv, Dequeue
    PROVE  IInv' /\ Policy!Take
  <1> DEFINE l == Highest(Occupied(buffers))
             x == Head(buffers[l])
  <1>1. /\ buffers \in Buffers
        /\ Waiting = Held(buffers)
        /\ Waiting \subseteq Event
        /\ size = Cardinality(Waiting) /\ size = Count(buffers)
        /\ size \in Nat /\ arrivals \in Nat /\ Capacity \in Nat
    BY SizeIs DEF IInv
  <1>2. Sorted(buffers) /\ IsFiniteSet(Waiting)
    BY DEF IInv, SortedByArrival
  <1>3. /\ Occupied(buffers) # {}
        /\ buffers' = [buffers EXCEPT ![l] = Tail(buffers[l])]
        /\ taken' = Append(taken, x)
        /\ size' = size - 1
        /\ UNCHANGED <<arrivals, lost>>
    BY DEF Dequeue, Shifted
  <1>4. l \in RiskLevel /\ buffers[l] # <<>> /\ Policy!First(Waiting) = x
    BY <1>1, <1>2, <1>3, HighestHeadIsFirst
  <1> HIDE DEF l
  <1>5. /\ buffers' \in Buffers
        /\ Sorted(buffers')
        /\ x \in Held(buffers) /\ x \in Event
        /\ Held(buffers') = Held(buffers) \ {x}
        /\ Count(buffers) > 0 /\ Count(buffers') = Count(buffers) - 1
    BY <1>1, <1>2, <1>3, <1>4, ShiftEffect
  <1> HIDE DEF x
  <1>6. /\ IsFiniteSet(Waiting \ {x})
        /\ Cardinality(Waiting \ {x}) = Cardinality(Waiting) - 1
    BY <1>1, <1>2, <1>5, FS_RemoveElement
  <1>7. Waiting' = Waiting \ {x} /\ SizeCountsWaiting'
    BY <1>1, <1>3, <1>5, <1>6, SizeIsNext
  <1>8. taken' \in Seq(Event)
    BY <1>3, <1>5, AppendProperties DEF IInv, TypeOK
  <1>9. TypeOK'
    BY <1>1, <1>3, <1>5, <1>8 DEF IInv, TypeOK, Buffers
  <1>10. SortedByArrival' /\ IsFiniteSet(Waiting')
    BY <1>3, <1>5, <1>6, <1>7 DEF IInv, SortedByArrival
  <1>11. LossesArePast' /\ LossesSpareRiskier'
    BY <1>3, <1>7 DEF IInv, LossesArePast, LossesSpareRiskier, Lost
  <1>12. Policy!Take
    <2>1. Waiting # {} /\ Lost' = Lost
      BY <1>1, <1>3, <1>5 DEF Lost
    <2> QED
      BY <1>3, <1>4, <1>7, <2>1 DEF Policy!Take
  <1> QED
    BY <1>7, <1>9, <1>10, <1>11, <1>12 DEF IInv


-----------------------------------------------------------------------------
LEMMA LeastElement ==
    ASSUME NEW T \in SUBSET Nat, T # {}
    PROVE  \E m \in T : \A k \in T : m <= k
  <1>1. \E m \in T : \A k \in T : <<k, m>> \notin OpToRel(<, Nat)
    BY NatLessThanWellFounded, WFMin, Zenon
  <1> QED
    <2>1. PICK m \in T : \A k \in T : <<k, m>> \notin OpToRel(<, Nat)
      BY <1>1
    <2>2. \A k \in T : ~(k < m)
      BY <2>1 DEF OpToRel
    <2> QED
      BY <2>2

(* The loop of dequeues: after k of them, the state of the (k-1)th shifted *)
(* once more.  (A smallest number of steps without such a sequence would   *)
(* have one for the step before.)                                          *)
LEMMA ShiftsExist ==
    ASSUME NEW q, NEW n \in Nat
    PROVE  \E f : f = [k \in 0 .. n |-> IF k = 0 THEN q ELSE Shifted(f[k - 1])]
  <1> DEFINE shifts(f, m) == f = [k \in 0 .. m |-> IF k = 0 THEN q ELSE Shifted(f[k - 1])]
             T == {m \in Nat : ~ \E f : shifts(f, m)}
  <1>1. ASSUME T # {}
        PROVE  FALSE
    <2>1. PICK m \in T : \A k \in T : m <= k
      BY <1>1, LeastElement
    <2>2. m \in Nat /\ ~ \E f : shifts(f, m)
      BY <2>1
    <2>3. CASE m = 0
      <3> DEFINE f == [k \in 0 .. 0 |-> q]
      <3>1. shifts(f, 0)
        OBVIOUS
      <3> QED
        BY <2>2, <2>3, <3>1
    <2>4. CASE m # 0
      <3>1. m - 1 \in Nat /\ m - 1 \notin T
        BY <2>1, <2>2, <2>4
      <3>2. PICK f : shifts(f, m - 1)
        BY <3>1
      <3> DEFINE g == [k \in 0 .. m |-> IF k = m THEN Shifted(f[m - 1]) ELSE f[k]]
      <3>3. \A k \in 0 .. m : g[k] = IF k = 0 THEN q ELSE Shifted(g[k - 1])
        <4> TAKE k \in 0 .. m
        <4>1. CASE k = m
          <5>1. g[m] = Shifted(f[m - 1]) /\ g[m - 1] = f[m - 1]
            BY <2>2, <2>4
          <5> QED
            BY <2>4, <4>1, <5>1
        <4>2. CASE k # m
          <5>1. k \in 0 .. m - 1 /\ g[k] = f[k]
            BY <2>2, <4>2
          <5>2. f[k] = IF k = 0 THEN q ELSE Shifted(f[k - 1])
            BY <3>2, <5>1
          <5>3. k # 0 => g[k - 1] = f[k - 1]
            BY <2>2, <4>2
          <5> QED
            BY <5>1, <5>2, <5>3
        <4> QED
          BY <4>1, <4>2
      <3>4. g = [k \in 0 .. m |-> g[k]]
        OBVIOUS
      <3> HIDE DEF g
      <3>5. shifts(g, m)
        BY <3>3, <3>4
      <3> QED
        BY <2>2, <3>5
    <2> QED
      BY <2>3, <2>4
  <1> QED
    BY <1>1

Shifts(q, n) ==
    CHOOSE f : f = [k \in 0 .. n |-> IF k = 0 THEN q ELSE Shifted(f[k - 1])]

LEMMA ShiftsChosen ==
    ASSUME NEW q, NEW n \in Nat
    PROVE  Shifts(q, n) = [k \in 0 .. n |-> IF k = 0 THEN q ELSE Shifted(Shifts(q, n)[k - 1])]
  <1> DEFINE shifts(f) == f = [k \in 0 .. n |-> IF k = 0 THEN q ELSE Shifted(f[k - 1])]
  <1>1. \E f : shifts(f)
    BY ShiftsExist
  <1>2. Shifts(q, n) = CHOOSE f : shifts(f)
    BY DEF Shifts
  <1> HIDE DEF shifts
  <1>3. shifts(Shifts(q, n))
    BY <1>1, <1>2, Zenon
  <1> QED
    BY <1>3, Zenon DEF shifts

(* Something held: a level is occupied.                                    *)
LEMMA CountedIsOccupied ==
    ASSUME NEW b \in Buffers, Count(b) > 0
    PROVE  Occupied(b) # {}
  <1> SUFFICES ASSUME Occupied(b) = {}
               PROVE  Count(b) = 0
    OBVIOUS
  <1>1. \A l \in RiskLevel : Len(b[l]) = 0
    BY EmptySeq DEF Occupied
  <1>2. /\ Len(b["LOW"]) = 0 /\ Len(b["MODERATE"]) = 0
        /\ Len(b["HIGH"]) = 0 /\ Len(b["CRITICAL"]) = 0
    BY <1>1 DEF RiskLevel
  <1>3. Count(b) = 0 + 0 + 0 + 0
    BY <1>2, Zenon DEF Count
  <1> QED
    BY <1>3

(* After k dequeues from b: what is left, and what was taken after t, in   *)
(* the policy's order and before all that is left.                         *)
Drained(b, t, q, k) ==
    /\ q.buffers \in Buffers /\ Sorted(q.buffers) /\ Count(q.buffers) = Count(b) - k
    /\ Held(q.buffers) \subseteq Held(b)
    /\ q.taken \in Seq(Event) /\ Len(q.taken) = Len(t) + k
    /\ \A i \in 1 .. Len(t) : q.taken[i] = t[i]
    /\ \A i \in Len(t) + 1 .. Len(t) + k :
          /\ q.taken[i] \in Held(b)
          /\ \A y \in Held(q.buffers) : Policy!Before(q.taken[i], y)
          /\ \A j \in i + 1 .. Len(t) + k : Policy!Before(q.taken[i], q.taken[j])

LEMMA OneMoreDrained ==
    ASSUME NEW b \in Buffers, NEW t \in Seq(Event), NEW q, NEW k \in Nat,
           Drained(b, t, q, k), Count(q.buffers) > 0
    PROVE  Drained(b, t, Shifted(q), k + 1)
  <1> DEFINE l == Highest(Occupied(q.buffers))
             x == Head(q.buffers[l])
             rest == [q.buffers EXCEPT ![l] = Tail(q.buffers[l])]
             all == Append(q.taken, x)
  <1>1. /\ q.buffers \in Buffers /\ Sorted(q.buffers)
        /\ Count(q.buffers) = Count(b) - k
        /\ Held(q.buffers) \subseteq Held(b)
        /\ q.taken \in Seq(Event) /\ Len(q.taken) = Len(t) + k
        /\ \A i \in 1 .. Len(t) : q.taken[i] = t[i]
    BY DEF Drained
  <1>2. Len(t) \in Nat /\ Count(b) \in Nat
    <2>1. Count(b) \in Nat
      BY CountChange DEF RiskLevel
    <2> QED
      BY <2>1, LenProperties
  <1>3. Occupied(q.buffers) # {}
    BY <1>1, CountedIsOccupied
  <1>4. /\ l \in RiskLevel /\ q.buffers[l] # <<>>
        /\ \A y \in Held(q.buffers) \ {x} : Policy!Before(x, y)
    BY <1>1, <1>3, HighestHeadIsFirst
  <1>5. /\ rest \in Buffers
        /\ Sorted(rest)
        /\ x \in Held(q.buffers) /\ x \in Event
        /\ Held(rest) = Held(q.buffers) \ {x}
        /\ Count(rest) = Count(q.buffers) - 1
    <2>1. /\ q.buffers \in Buffers /\ Sorted(q.buffers)
          /\ l \in RiskLevel /\ q.buffers[l] # <<>>
      BY <1>1, <1>4
    <2> HIDE DEF l
    <2>2. PICK b0 : b0 = q.buffers
      OBVIOUS
    <2>3. PICK c : c = [b0 EXCEPT ![l] = Tail(b0[l])]
      OBVIOUS
    <2>4. b0 \in Buffers /\ Sorted(b0) /\ l \in RiskLevel /\ b0[l] # <<>>
      BY <2>1, <2>2
    <2>5. /\ c \in Buffers /\ Sorted(c)
          /\ Head(b0[l]) \in Held(b0) /\ Head(b0[l]) \in Event
          /\ Held(c) = Held(b0) \ {Head(b0[l])}
          /\ Count(c) = Count(b0) - 1
      BY <2>3, <2>4, ShiftEffect
    <2>6. c = rest /\ Head(b0[l]) = x
      BY <2>2, <2>3
    <2> QED
      BY <2>2, <2>5, <2>6
  <1>6. Shifted(q).buffers = rest /\ Shifted(q).taken = all
    BY DEF Shifted
  <1> HIDE DEF l, x, rest
  <1>7. /\ all \in Seq(Event)
        /\ Len(all) = Len(q.taken) + 1
        /\ \A i \in 1 .. Len(q.taken) : all[i] = q.taken[i]
        /\ all[Len(q.taken) + 1] = x
    BY <1>1, <1>5, AppendProperties
  <1> HIDE DEF all
  <1>8. Len(all) = Len(t) + (k + 1) /\ Count(rest) = Count(b) - (k + 1)
    BY <1>1, <1>2, <1>5, <1>7
  <1>9. /\ \A i \in 1 .. Len(t) + k : all[i] = q.taken[i]
        /\ all[Len(t) + (k + 1)] = x
    BY <1>1, <1>2, <1>7
  <1>10. \A i \in 1 .. Len(t) : all[i] = t[i]
    BY <1>1, <1>2, <1>9
  <1>11. ASSUME NEW i \in Len(t) + 1 .. Len(t) + (k + 1)
         PROVE  /\ all[i] \in Held(b)
                /\ \A y \in Held(rest) : Policy!Before(all[i], y)
                /\ \A j \in i + 1 .. Len(t) + (k + 1) : Policy!Before(all[i], all[j])
    <2>1. CASE i = Len(t) + (k + 1)
      <3>1. i + 1 .. Len(t) + (k + 1) = {}
        BY <1>2, <2>1
      <3> QED
        BY <1>1, <1>4, <1>5, <1>9, <2>1, <3>1
    <2>2. CASE i # Len(t) + (k + 1)
      <3>1. i \in Len(t) + 1 .. Len(t) + k /\ all[i] = q.taken[i]
        BY <1>2, <1>9, <2>2
      <3>2. /\ q.taken[i] \in Held(b)
            /\ \A y \in Held(q.buffers) : Policy!Before(q.taken[i], y)
            /\ \A j \in i + 1 .. Len(t) + k : Policy!Before(q.taken[i], q.taken[j])
        BY <3>1 DEF Drained
      <3>3. ASSUME NEW j \in i + 1 .. Len(t) + (k + 1)
            PROVE  Policy!Before(all[i], all[j])
        <4>1. CASE j = Len(t) + (k + 1)
          BY <1>5, <1>9, <3>1, <3>2, <4>1
        <4>2. CASE j # Len(t) + (k + 1)
          <5>1. j \in i + 1 .. Len(t) + k /\ all[j] = q.taken[j]
            BY <1>2, <1>9, <4>2
          <5> QED
            BY <3>1, <3>2, <5>1
        <4> QED
          BY <4>1, <4>2
      <3> QED
        BY <1>5, <3>1, <3>2, <3>3
    <2> QED
      BY <2>1, <2>2
  <1> QED
    BY <1>1, <1>5, <1>6, <1>7, <1>8, <1>10, <1>11 DEF Drained


(* However many dequeues: as many events in order.                         *)
LEMMA AllDrained ==
    ASSUME NEW b \in Buffers, Sorted(b), NEW t \in Seq(Event),
           NEW f, f = [k \in 0 .. Count(b) |->
                          IF k = 0 THEN [buffers |-> b, taken |-> t] ELSE Shifted(f[k - 1])]
    PROVE  \A k \in 0 .. Count(b) : Drained(b, t, f[k], k)
  <1> DEFINE n == Count(b)
             T == {k \in 0 .. n : ~ Drained(b, t, f[k], k)}
  <1>1. n \in Nat /\ Len(t) \in Nat
    <2>1. Count(b) \in Nat
      BY CountChange DEF RiskLevel
    <2> QED
      BY <2>1, LenProperties
  <1> HIDE DEF n
  <1>2. \A k \in 0 .. n : f[k] = IF k = 0 THEN [buffers |-> b, taken |-> t] ELSE Shifted(f[k - 1])
    BY DEF n
  <1>3. ASSUME T # {}
        PROVE  FALSE
    <2>1. T \in SUBSET Nat
      BY <1>1
    <2>2. PICK m \in T : \A k \in T : m <= k
      BY <1>3, <2>1, LeastElement
    <2>3. m \in 0 .. n /\ ~ Drained(b, t, f[m], m)
      BY <2>2
    <2>4. CASE m = 0
      <3>1. f[0].buffers = b /\ f[0].taken = t
        BY <1>1, <1>2
      <3>2. Count(f[0].buffers) = Count(b) - 0 /\ Len(f[0].taken) = Len(t) + 0
        BY <1>1, <3>1 DEF n
      <3>3. Len(t) + 1 .. Len(t) + 0 = {}
        BY <1>1
      <3>4. Drained(b, t, f[0], 0)
        BY <3>1, <3>2, <3>3 DEF Drained
      <3> QED
        BY <2>3, <2>4, <3>4
    <2>5. CASE m # 0
      <3>1. m - 1 \in Nat /\ m - 1 \in 0 .. n /\ m - 1 \notin T /\ n - (m - 1) > 0 /\ m - 1 + 1 = m
        <4>1. m \in Nat /\ m > 0 /\ m <= n
          BY <1>1, <2>3, <2>5
        <4>2. ~(m <= m - 1)
          BY <4>1
        <4>3. m - 1 \notin T
          BY <2>2, <4>2
        <4> HIDE DEF T
        <4> QED
          BY <1>1, <4>1, <4>3
      <3>2. Drained(b, t, f[m - 1], m - 1)
        BY <3>1
      <3>3. Count(f[m - 1].buffers) > 0
        BY <3>1, <3>2 DEF Drained, n
      <3>4. Drained(b, t, Shifted(f[m - 1]), m - 1 + 1)
        BY <3>1, <3>2, <3>3, OneMoreDrained
      <3>5. f[m] = Shifted(f[m - 1])
        BY <1>2, <2>3, <2>5
      <3> QED
        BY <2>3, <3>1, <3>4, <3>5
    <2> QED
      BY <2>4, <2>5
  <1> QED
    BY <1>3 DEF n

(* drainInPriorityOrder: all events leave, in the policy's order.          *)
LEMMA DrainStep ==
    ASSUME IInv, DrainInPriorityOrder
    PROVE  IInv' /\ Policy!TakeAll
  <1> DEFINE n == Count(buffers)
             after == Shifts([buffers |-> buffers, taken |-> taken], n)
             m == Len(taken)
  <1>1. /\ buffers' = after[n].buffers
        /\ taken' = after[n].taken
        /\ size' = size - n
        /\ UNCHANGED <<arrivals, lost>>
    BY Zenon DEF DrainInPriorityOrder, Shifts, Count
  <1>2. /\ buffers \in Buffers
        /\ Waiting = Held(buffers)
        /\ Waiting \subseteq Event
        /\ size = Cardinality(Waiting) /\ size = n
        /\ size \in Nat /\ Capacity \in Nat
    BY SizeIs DEF IInv
  <1>3. Sorted(buffers) /\ taken \in Seq(Event)
    BY DEF IInv, SortedByArrival, TypeOK
  <1>4. n \in Nat /\ m \in Nat
    BY <1>2, <1>3, LenProperties
  <1>5. after = [k \in 0 .. n |-> IF k = 0 THEN [buffers |-> buffers, taken |-> taken]
                                          ELSE Shifted(after[k - 1])]
    BY <1>4, ShiftsChosen, Zenon
  <1> HIDE DEF after
  <1>6. Drained(buffers, taken, after[n], n)
    <2>1. \A k \in 0 .. n : Drained(buffers, taken, after[k], k)
      BY <1>2, <1>3, <1>5, AllDrained, Zenon
    <2>2. n \in 0 .. n
      BY <1>4
    <2> QED
      BY <2>1, <2>2
  <1>7. /\ buffers' \in Buffers /\ Count(buffers') = n - n
        /\ taken' \in Seq(Event) /\ Len(taken') = m + n
        /\ \A i \in 1 .. m : taken'[i] = taken[i]
        /\ \A i \in m + 1 .. m + n :
              /\ taken'[i] \in Waiting
              /\ \A j \in i + 1 .. m + n : Policy!Before(taken'[i], taken'[j])
    BY <1>1, <1>2, <1>6 DEF Drained
  <1> HIDE DEF n, m
  <1>8. Count(buffers') = 0 /\ size' = 0
    BY <1>1, <1>2, <1>4, <1>7
  <1>9. Held(buffers') = {}
    BY <1>7, <1>8, OccupiedIffHeld
  <1>10. Waiting' = {} /\ SizeCountsWaiting' /\ IsFiniteSet(Waiting')
    <2>1. Cardinality({}) = 0 /\ IsFiniteSet({})
      BY FS_EmptySet
    <2> QED
      BY <1>7, <1>8, <1>9, <2>1, SizeIsNext
  <1>11. TypeOK'
    BY <1>1, <1>2, <1>7, <1>8 DEF IInv, TypeOK, Buffers
  <1>12. SortedByArrival'
    <2>1. Sorted(buffers')
      <3> SUFFICES ASSUME NEW l \in RiskLevel, NEW i \in 1 .. Len(buffers'[l])
                   PROVE  FALSE
        BY DEF Sorted
      <3>1. buffers'[l][i] \in Held(buffers')
        BY <1>7, HeldAreInBuffers
      <3> QED
        BY <1>9, <3>1
    <2> QED
      BY <1>10, <2>1 DEF SortedByArrival
  <1>13. LossesArePast' /\ LossesSpareRiskier'
    BY <1>1, <1>10 DEF IInv, LossesArePast, LossesSpareRiskier
  <1>14. Policy!TakeAll
    <2> DEFINE s == [i \in 1 .. n |-> taken'[m + i]]
    <2>1. \A i \in 1 .. n : m + i \in m + 1 .. m + n
      BY <1>4
    <2>2. s \in [1 .. n -> Waiting]
      BY <1>7, <2>1
    <2>3. \A i, j \in 1 .. n : i < j => Policy!Before(s[i], s[j])
      <3> TAKE i, j \in 1 .. n
      <3>1. i < j => m + j \in (m + i) + 1 .. m + n
        BY <1>4
      <3> QED
        BY <1>7, <2>1, <3>1
    <2>4. s \in Seq(Event) /\ Len(s) = n
      BY <1>2, <1>4, <2>2
    <2>5. taken' = taken \o s
      <3>1. /\ taken \o s \in Seq(Event)
            /\ Len(taken \o s) = m + n
            /\ \A i \in 1 .. m + n : (taken \o s)[i] = IF i <= m THEN taken[i] ELSE s[i - m]
        <4> HIDE DEF s
        <4>1. /\ taken \o s \in Seq(Event)
              /\ Len(taken \o s) = Len(taken) + Len(s)
              /\ \A i \in 1 .. Len(taken) + Len(s) :
                    (taken \o s)[i] = IF i <= Len(taken) THEN taken[i] ELSE s[i - Len(taken)]
          BY <1>3, <2>4, ConcatProperties
        <4> QED
          BY <2>4, <4>1 DEF m
      <3>2. ASSUME NEW i \in 1 .. m + n
            PROVE  taken'[i] = (taken \o s)[i]
        <4>1. CASE i <= m
          BY <1>4, <1>7, <3>1, <4>1
        <4>2. CASE ~(i <= m)
          <5>1. i - m \in 1 .. n /\ m + (i - m) = i
            BY <1>4, <4>2
          <5>2. s[i - m] = taken'[m + (i - m)]
            BY <5>1
          <5> QED
            BY <3>1, <4>2, <5>1, <5>2
        <4> QED
          BY <4>1, <4>2
      <3> HIDE DEF s
      <3> QED
        BY <1>7, <3>1, <3>2, SeqEqual
    <2>6. Policy!Cardinality(Waiting) = n
      BY <1>2, SameCardinality
    <2>7. DOMAIN s = 1 .. n
      OBVIOUS
    <2>8. Lost' = Lost
      BY <1>1 DEF Lost
    <2> HIDE DEF s
    <2> QED
      BY <1>10, <2>2, <2>3, <2>5, <2>6, <2>7, <2>8 DEF Policy!TakeAll
  <1> QED
    BY <1>10, <1>11, <1>12, <1>13, <1>14 DEF IInv


-----------------------------------------------------------------------------
LEMMA InitStep == Init => IInv /\ Policy!Init
  <1> SUFFICES ASSUME Init PROVE IInv /\ Policy!Init
    OBVIOUS
  <1>1. buffers \in Buffers /\ \A l \in RiskLevel : buffers[l] = <<>>
    BY EmptySeq DEF Init, Buffers
  <1>2. Occupied(buffers) = {}
    BY <1>1 DEF Occupied
  <1>3. Held(buffers) = {} /\ Waiting = {}
    <2>1. Held(buffers) = {}
      BY <1>1, <1>2, OccupiedIffHeld
    <2> QED
      BY <2>1 DEF Waiting, Held
  <1>4. Sorted(buffers)
    <2> SUFFICES ASSUME NEW l \in RiskLevel, NEW i \in 1 .. Len(buffers[l])
                 PROVE  FALSE
      BY DEF Sorted
    <2>1. Len(buffers[l]) = 0
      BY <1>1, EmptySeq
    <2> QED
      BY <2>1
  <1>5. TypeOK
    <2>1. size \in 0 .. Capacity /\ arrivals \in 0 .. MaxArrivals /\ taken \in Seq(Event)
      BY CapacityAssumption, ArrivalsAssumption, EmptySeq DEF Init
    <2>2. lost \in [Event -> 0 .. MaxArrivals]
      BY ArrivalsAssumption DEF Init, NotLost
    <2> QED
      BY <1>1, <2>1, <2>2 DEF TypeOK, Buffers
  <1>6. SizeCountsWaiting /\ IsFiniteSet(Waiting)
    <2>1. Cardinality({}) = 0 /\ IsFiniteSet({})
      BY FS_EmptySet
    <2>2. /\ Len(buffers["LOW"]) = 0 /\ Len(buffers["MODERATE"]) = 0
          /\ Len(buffers["HIGH"]) = 0 /\ Len(buffers["CRITICAL"]) = 0
      BY <1>1, EmptySeq DEF RiskLevel
    <2>3. size = 0 /\ 0 = 0 + 0 + 0 + 0
      BY DEF Init
    <2> QED
      BY <1>3, <2>1, <2>2, <2>3, Zenon DEF SizeCountsWaiting
  <1>7. Lost = {} /\ LossesArePast
    BY DEF Init, Lost, LossesArePast, NotLost
  <1>8. SortedByArrival /\ LossesSpareRiskier
    BY <1>3, <1>4 DEF SortedByArrival, LossesSpareRiskier
  <1>9. Policy!Init
    BY <1>3, <1>7 DEF Init, Policy!Init
  <1> QED
    BY <1>5, <1>6, <1>7, <1>8, <1>9 DEF IInv

(* One call of enqueue is an admission, a shedding or a refusal.           *)
LEMMA EnqueueStep ==
    ASSUME IInv, NEW level \in RiskLevel, Enqueue(level)
    PROVE  IInv' /\ Policy!Next
  <1>1. PICK e : e = [id |-> arrivals + 1, level |-> level]
    OBVIOUS
  <1>2. /\ arrivals < MaxArrivals
        /\ arrivals' = arrivals + 1
        /\ EnqueueWithRoom(e) \/ EnqueueShedding(e) \/ EnqueueRefused(e)
        /\ UNCHANGED taken
    BY <1>1 DEF Enqueue
  <1>3. e \in Policy!Event
    BY <1>1, <1>2, NewEvent, LevelsAreOrdered
  <1>4. CASE EnqueueWithRoom(e)
    <2>1. IInv' /\ Policy!Admit(e)
      BY <1>1, <1>2, <1>4, EnqueueWithRoomStep
    <2> QED
      BY <1>3, <2>1 DEF Policy!Next
  <1>5. CASE EnqueueShedding(e)
    <2>1. IInv' /\ Policy!MakeRoom(e)
      BY <1>1, <1>2, <1>5, EnqueueSheddingStep
    <2> QED
      BY <1>3, <2>1 DEF Policy!Next
  <1>6. CASE EnqueueRefused(e)
    <2>1. IInv' /\ Policy!Refuse(e)
      BY <1>1, <1>2, <1>6, EnqueueRefusedStep
    <2> QED
      BY <1>3, <2>1 DEF Policy!Next
  <1> QED
    BY <1>2, <1>4, <1>5, <1>6

LEMMA QueueStep ==
    ASSUME IInv, [Next]_vars
    PROVE  IInv' /\ [Policy!Next]_<<Waiting, taken, Lost>>
  <1>1. ASSUME NEW l \in RiskLevel, Enqueue(l)
        PROVE  IInv' /\ Policy!Next
    BY <1>1, EnqueueStep
  <1>2. CASE Dequeue
    <2>1. IInv' /\ Policy!Take
      BY <1>2, DequeueStep
    <2> QED
      BY <2>1 DEF Policy!Next
  <1>3. CASE DrainInPriorityOrder
    <2>1. IInv' /\ Policy!TakeAll
      BY <1>3, DrainStep
    <2> QED
      BY <2>1 DEF Policy!Next
  <1>4. CASE UNCHANGED vars
    <2>1. UNCHANGED <<buffers, size, arrivals, taken, lost>>
      BY <1>4 DEF vars
    <2>2. Waiting' = Waiting /\ Lost' = Lost
      BY <2>1 DEF Waiting, Lost
    <2>3. TypeOK' /\ LossesArePast' /\ LossesSpareRiskier'
      BY <2>1, <2>2 DEF IInv, TypeOK, LossesArePast, LossesSpareRiskier
    <2>4. SortedByArrival' /\ IsFiniteSet(Waiting')
      BY <2>1, <2>2 DEF IInv, SortedByArrival
    <2>5. SizeCountsWaiting'
      BY <2>1, <2>2, Zenon DEF IInv, SizeCountsWaiting
    <2> QED
      BY <2>1, <2>2, <2>3, <2>4, <2>5 DEF IInv
  <1> QED
    BY <1>1, <1>2, <1>3, <1>4 DEF Next

(***************************************************************************)
(* The inductive invariant: each buffer holds events of its level in order *)
(* of arrival, the counter counts them, and losses are of the past.        *)
(***************************************************************************)
THEOREM QueueInductive == Spec => []IInv
  <1>1. Init => IInv
    BY InitStep
  <1>2. IInv /\ [Next]_vars => IInv'
    BY QueueStep
  <1> QED
    BY <1>1, <1>2, PTL DEF Spec

(***************************************************************************)
(* Every variable keeps its type: the size stays within 0 .. Capacity.     *)
(***************************************************************************)
THEOREM QueueTypes == Spec => []TypeOK
  <1>1. IInv => TypeOK
    BY DEF IInv
  <1> QED
    BY <1>1, QueueInductive, PTL

(***************************************************************************)
(* The counter of PriorityQueue is the number of events in its buffers,    *)
(* after any sequence of enqueue, dequeue and drainInPriorityOrder.        *)
(***************************************************************************)
THEOREM CounterIsExact == Spec => []SizeCountsWaiting
  <1>1. IInv => SizeCountsWaiting
    BY DEF IInv
  <1> QED
    BY <1>1, QueueInductive, PTL

(***************************************************************************)
(* shedLowestPriority and the refusal of enqueue never lose an event while *)
(* one of a less risky gate keeps its place.                               *)
(***************************************************************************)
THEOREM LessRiskyIsLost == Spec => []LossesSpareRiskier
  <1>1. IInv => LossesSpareRiskier
    BY DEF IInv
  <1> QED
    BY <1>1, QueueInductive, PTL

(***************************************************************************)
(* The four buffers and the counter implement IntakePolicy: each enqueue   *)
(* is an admission, a shedding or a refusal of the policy, dequeue takes   *)
(* the policy's first event and drainInPriorityOrder all of them in order. *)
(***************************************************************************)
THEOREM PolicyIsImplemented == Spec => ImplementsPolicy
  <1>1. Init => Policy!Init
    BY InitStep
  <1>2. IInv /\ [Next]_vars => [Policy!Next]_<<Waiting, taken, Lost>>
    BY QueueStep
  <1> QED
    BY <1>1, <1>2, QueueInductive, PTL DEF Spec, ImplementsPolicy, Policy!Spec
=============================================================================
