--------------------------- MODULE ScoreOrderProofs ---------------------------
(***************************************************************************)
(* Theorems about ScorePipeline that rest on the order of its two queues,  *)
(* for any constants: the forecast of a gate never goes back, and the two  *)
(* lists of actions end alike although handlers overtake one another.      *)
(*                                                                         *)
(* Both follow from one observation.  Put the microtasks in front of the   *)
(* Redis commands, and every job in flight has one place in that Queue.    *)
(* A reply changes nothing in it, a recompute joins at the end, and a      *)
(* continuation leaves the front, at most to rejoin behind the microtasks. *)
(* So jobs that wait for Redis keep the order in which they read the       *)
(* window, and handlers that have stored their list keep the order in      *)
(* which they stored it.                                                   *)
(***************************************************************************)
EXTENDS ScorePipelineProofs

(* The jobs in flight, in the order in which they will run next.           *)
Queue == microtasks \o commands

(* Every job in flight has one place, and only jobs in flight have one.    *)
PlacesInv ==
    /\ \A i \in DOMAIN Queue : pc[Queue[i]] \notin {"idle", "rejected"}
    /\ \A i, k \in DOMAIN Queue : Queue[i] = Queue[k] => i = k

(* The job in place i is of gate g, and its forecast is yet to be stored.  *)
UnstoredAt(i, g) == /\ pc[Queue[i]] \in {"saving", "saved"}
                    /\ job[Queue[i]].gate = g

(* Forecasts still to be stored are in the order of their windows.         *)
OrderInv(g) ==
    /\ forecastStore[g].used <= window[g]
    /\ \A i \in DOMAIN Queue : UnstoredAt(i, g) =>
          /\ forecastStore[g].used <= job[Queue[i]].used
          /\ job[Queue[i]].used <= window[g]
    /\ \A i, k \in DOMAIN Queue : UnstoredAt(i, g) /\ UnstoredAt(k, g) /\ i < k =>
          job[Queue[i]].used <= job[Queue[k]].used

(* The job in place i is of gate g, and its list is yet to be published.   *)
UnpublishedAt(i, g) == pc[Queue[i]] = "stored" /\ job[Queue[i]].gate = g
LastUnpublished(i, g) ==
    /\ UnpublishedAt(i, g)
    /\ \A k \in DOMAIN Queue : UnpublishedAt(k, g) => k <= i

ListOf(j) == GenerateRecommendations(job[j].row, job[j].score)
SameActions(a, b) == a.of = b.of /\ a.offered = b.offered

(* The list in the store is that of the last job still to publish its own, *)
(* and is published if there is no such job.                               *)
ListsInv(g) ==
    /\ \A i \in DOMAIN Queue : LastUnpublished(i, g) =>
          SameActions(activeActions[g], ListOf(Queue[i]))
    /\ (\A i \in DOMAIN Queue : ~UnpublishedAt(i, g)) =>
          SameActions(activeActions[g], dashboardActions[g])

QueueInv == PlacesInv /\ \A g \in Gates : OrderInv(g) /\ ListsInv(g)


-----------------------------------------------------------------------------
(* Two sequences one behind the other, place by place.                     *)
LEMMA Joined ==
    ASSUME NEW S, NEW a \in Seq(S), NEW b \in Seq(S)
    PROVE  /\ a \o b \in Seq(S)
           /\ Len(a \o b) = Len(a) + Len(b)
           /\ DOMAIN (a \o b) = 1 .. Len(a) + Len(b)
           /\ \A i \in 1 .. Len(a) : (a \o b)[i] = a[i]
           /\ \A i \in 1 .. Len(b) : (a \o b)[Len(a) + i] = b[i]
<1>1. /\ a \o b \in Seq(S)
      /\ Len(a \o b) = Len(a) + Len(b)
      /\ \A i \in 1 .. Len(a) + Len(b) :
            (a \o b)[i] = IF i <= Len(a) THEN a[i] ELSE b[i - Len(a)]
  BY ConcatProperties
<1>2. DOMAIN (a \o b) = 1 .. Len(a) + Len(b)
  BY <1>1
<1>3. PICK m \in Nat, n \in Nat : m = Len(a) /\ n = Len(b)
  OBVIOUS
<1>4. ASSUME NEW i \in 1 .. n
      PROVE  (a \o b)[m + i] = b[i]
  <2>1. m + i \in 1 .. m + n /\ ~(m + i <= m) /\ (m + i) - m = i
    OBVIOUS
  <2>2. (a \o b)[m + i] = IF m + i <= m THEN a[m + i] ELSE b[(m + i) - m]
    BY <1>1, <1>3, <2>1
  <2> QED  BY <2>1, <2>2
<1>5. ASSUME NEW i \in 1 .. m
      PROVE  (a \o b)[i] = a[i]
  <2>1. i \in 1 .. m + n /\ i <= m
    OBVIOUS
  <2> QED  BY <1>1, <1>3, <2>1
<1> QED  BY <1>1, <1>2, <1>3, <1>4, <1>5

LEMMA QueueType ==
    ASSUME TypeOK
    PROVE  Queue \in Seq(Jobs) /\ DOMAIN Queue = 1 .. Len(Queue) /\ Len(Queue) \in Nat
BY Joined DEF TypeOK, Queue

LEMMA PlacesAreNumbers ==
    ASSUME TypeOK'
    PROVE  \A i \in DOMAIN Queue' : i \in Nat
<1>1. microtasks' \in Seq(Jobs) /\ commands' \in Seq(Jobs)
  BY DEF TypeOK
<1>2. DOMAIN (microtasks' \o commands') = 1 .. Len(microtasks') + Len(commands')
  BY <1>1, Joined
<1> QED  BY <1>2 DEF Queue

(* A chunk of replies turns the first commands into the microtasks.        *)
LEMMA RepliesKeepQueue ==
    ASSUME TypeOK, NEW n \in 1 .. Len(commands), NEW failed, SaveReplies(n, failed)
    PROVE  Queue' = Queue
<1> DEFINE c == commands
           m == Len(commands)
<1>1. c \in Seq(Jobs) /\ m \in Nat /\ m = Len(c)
  BY DEF TypeOK
<1>2. /\ microtasks = <<>> /\ commands' = SubSeq(c, n + 1, m)
      /\ microtasks' = SubSeq(c, 1, n)
  BY DEF SaveReplies, Turn
<1>3. Queue = c
  BY <1>1, <1>2 DEF Queue
<1>4. SubSeq(c, 1, n) \o SubSeq(c, n + 1, m) = c
  <2>1. n \in 1 .. m
    OBVIOUS
  <2> HIDE DEF c, m
  <2>2. /\ SubSeq(c, 1, n) \in Seq(Jobs) /\ Len(SubSeq(c, 1, n)) = n
        /\ \A i \in 1 .. n : SubSeq(c, 1, n)[i] = c[i]
    BY <1>1, <2>1
  <2>3. /\ SubSeq(c, n + 1, m) \in Seq(Jobs) /\ Len(SubSeq(c, n + 1, m)) = m - n
        /\ \A i \in 1 .. m - n : SubSeq(c, n + 1, m)[i] = c[n + i]
    BY <1>1, <2>1
  <2> DEFINE q == SubSeq(c, 1, n) \o SubSeq(c, n + 1, m)
  <2>4. q \in Seq(Jobs) /\ Len(q) = m
    BY <1>1, <2>1, <2>2, <2>3, ConcatProperties
  <2>5. \A i \in 1 .. m : q[i] = c[i]
    BY <1>1, <2>1, <2>2, <2>3, ConcatProperties
  <2> HIDE DEF q
  <2>6. q = c
    BY <1>1, <2>4, <2>5, SeqEqual
  <2> QED  BY <2>6 DEF q
<1> QED  BY <1>2, <1>3, <1>4 DEF Queue

(* A recompute joins at the end.                                           *)
LEMMA RecomputeJoins ==
    ASSUME TypeOK, NEW j \in Jobs, commands' = Append(commands, j), UNCHANGED microtasks
    PROVE  /\ Queue' = Append(Queue, j)
           /\ DOMAIN Queue' = DOMAIN Queue \cup {Len(Queue) + 1}
           /\ \A i \in DOMAIN Queue : Queue'[i] = Queue[i] /\ i < Len(Queue) + 1
           /\ Queue'[Len(Queue) + 1] = j
<1>1. microtasks \in Seq(Jobs) /\ commands \in Seq(Jobs)
  BY DEF TypeOK
<1>2. Queue' = Append(Queue, j)
  BY <1>1 DEF Queue
<1>3. Queue \in Seq(Jobs) /\ DOMAIN Queue = 1 .. Len(Queue) /\ Len(Queue) \in Nat
  BY QueueType
<1> QED  BY <1>2, <1>3, AppendProperties


(* How a continuation of the first job moves the others: f[i] is the place *)
(* held before by the job now in place i.  All but the first keep their    *)
(* order, and the first is now gone or just ahead of the commands.         *)
Moves(f, j) ==
    /\ \A i \in DOMAIN Queue' : f[i] \in DOMAIN Queue /\ Queue'[i] = Queue[f[i]]
    /\ \A i, k \in DOMAIN Queue' : i < k /\ f[i] # 1 /\ f[k] # 1 => f[i] < f[k]
    /\ \A i, k \in DOMAIN Queue' : f[i] = f[k] => i = k
    /\ \A k \in DOMAIN Queue \ {1} : \E i \in DOMAIN Queue' : f[i] = k
    /\ microtasks' = Tail(microtasks) => \A i \in DOMAIN Queue' : f[i] # 1
    /\ microtasks' = Append(Tail(microtasks), j) =>
          \E i \in DOMAIN Queue' : /\ f[i] = 1
                                   /\ \A k \in DOMAIN Queue' : k > i =>
                                         \E x \in DOMAIN commands : Queue'[k] = commands[x]

LEMMA ContinuationMoves ==
    ASSUME TypeOK, NEW j \in Jobs, NEW from, Running(j, from), UNCHANGED commands,
           microtasks' \in {Tail(microtasks), Append(Tail(microtasks), j)}
    PROVE  /\ 1 \in DOMAIN Queue /\ Queue[1] = j
           /\ \E f : Moves(f, j)
<1>1. /\ microtasks \in Seq(Jobs) /\ commands \in Seq(Jobs)
      /\ microtasks # <<>> /\ j = Head(microtasks)
  BY DEF TypeOK, Running
<1>2. PICK t \in Seq(Jobs) : t = Tail(microtasks)
  <2>1. Tail(microtasks) \in Seq(Jobs)
    BY <1>1
  <2> QED  BY <2>1
<1>3. PICK m \in Nat : m = Len(t)
  <2>1. Len(t) \in Nat
    OBVIOUS
  <2> QED  BY <2>1
<1>4. PICK n \in Nat : n = Len(commands)
  BY <1>1
<1>5. Len(microtasks) = m + 1 /\ microtasks[1] = j
      /\ \A i \in 1 .. m : t[i] = microtasks[i + 1]
  BY <1>1, <1>2, <1>3, HeadTailProperties
<1>6. /\ DOMAIN Queue = 1 .. m + 1 + n
      /\ \A i \in 1 .. m + 1 : Queue[i] = microtasks[i]
      /\ \A i \in 1 .. n : Queue[m + 1 + i] = commands[i]
  <2>1. /\ DOMAIN (microtasks \o commands) = 1 .. Len(microtasks) + Len(commands)
        /\ \A i \in 1 .. Len(microtasks) : (microtasks \o commands)[i] = microtasks[i]
        /\ \A i \in 1 .. Len(commands) :
              (microtasks \o commands)[Len(microtasks) + i] = commands[i]
    BY <1>1, Joined
  <2> QED  BY <1>4, <1>5, <2>1 DEF Queue
<1>7. DOMAIN commands = 1 .. n
  BY <1>1, <1>4
<1>8. 1 \in 1 .. m + 1 + n /\ 1 \in 1 .. m + 1
  OBVIOUS
<1>9. CASE microtasks' = t /\ t # Append(t, j)
  <2>1. /\ DOMAIN Queue' = 1 .. m + n
        /\ \A i \in 1 .. m : Queue'[i] = t[i]
        /\ \A i \in 1 .. n : Queue'[m + i] = commands[i]
    <3>1. Queue' = t \o commands
      BY <1>9 DEF Queue
    <3>2. /\ DOMAIN (t \o commands) = 1 .. Len(t) + Len(commands)
          /\ \A i \in 1 .. Len(t) : (t \o commands)[i] = t[i]
          /\ \A i \in 1 .. Len(commands) : (t \o commands)[Len(t) + i] = commands[i]
      BY <1>1, Joined
    <3> QED  BY <1>3, <1>4, <3>1, <3>2
  <2> DEFINE f == [i \in 1 .. m + n |-> i + 1]
  <2>2. ASSUME NEW i \in 1 .. m + n
        PROVE  i + 1 \in 1 .. m + 1 + n /\ Queue'[i] = Queue[i + 1]
    <3>1. CASE i <= m
      <4>1. i \in 1 .. m /\ i + 1 \in 1 .. m + 1 /\ i + 1 \in 1 .. m + 1 + n
        BY <3>1
      <4> QED  BY <4>1, <1>5, <1>6, <2>1
    <3>2. CASE i > m
      <4>1. PICK x \in 1 .. n : i = m + x
        <5>1. i - m \in 1 .. n /\ i = m + (i - m)
          BY <3>2
        <5> QED  BY <5>1
      <4>2. Queue'[m + x] = commands[x] /\ Queue[m + 1 + x] = commands[x]
        BY <1>6, <2>1
      <4>3. i + 1 = m + 1 + x /\ i + 1 \in 1 .. m + 1 + n
        BY <4>1
      <4> QED  BY <4>1, <4>2, <4>3
    <3> QED  BY <3>1, <3>2
  <2>3. ASSUME NEW k \in (1 .. m + 1 + n) \ {1}
        PROVE  k - 1 \in 1 .. m + n /\ f[k - 1] = k
    OBVIOUS
  <2>4. \A i \in 1 .. m + n : f[i] = i + 1 /\ f[i] # 1
    OBVIOUS
  <2> HIDE DEF f
  <2>5. \A i, k \in 1 .. m + n : /\ i < k => f[i] < f[k]
                                 /\ f[i] = f[k] => i = k
    BY <2>4
  <2>6. \A k \in DOMAIN Queue \ {1} : \E i \in DOMAIN Queue' : f[i] = k
    BY <1>6, <2>1, <2>3
  <2>7. \A i \in DOMAIN Queue' : f[i] \in DOMAIN Queue /\ Queue'[i] = Queue[f[i]]
    BY <1>6, <2>1, <2>2, <2>4
  <2>8. microtasks' # Append(Tail(microtasks), j)
    BY <1>2, <1>9
  <2>9. Moves(f, j)
    BY <2>1, <2>4, <2>5, <2>6, <2>7, <2>8 DEF Moves
  <2> QED  BY <1>5, <1>6, <1>8, <2>9
<1>10. CASE microtasks' = Append(t, j)
  <2>0. PICK u \in Seq(Jobs) : u = Append(t, j)
    <3>1. Append(t, j) \in Seq(Jobs)
      OBVIOUS
    <3> QED  BY <3>1
  <2>1. /\ Len(u) = m + 1 /\ u[m + 1] = j
        /\ \A i \in 1 .. m : u[i] = t[i]
    BY <1>2, <1>3, <2>0, AppendProperties
  <2>2. /\ DOMAIN Queue' = 1 .. m + 1 + n
        /\ \A i \in 1 .. m + 1 : Queue'[i] = u[i]
        /\ \A i \in 1 .. n : Queue'[m + 1 + i] = commands[i]
    <3>1. Queue' = u \o commands
      BY <1>10, <2>0 DEF Queue
    <3>2. /\ DOMAIN (u \o commands) = 1 .. Len(u) + Len(commands)
          /\ \A i \in 1 .. Len(u) : (u \o commands)[i] = u[i]
          /\ \A i \in 1 .. Len(commands) : (u \o commands)[Len(u) + i] = commands[i]
      BY <1>1, Joined
    <3> QED  BY <1>4, <2>1, <3>1, <3>2
  <2> DEFINE f == [i \in 1 .. m + 1 + n |-> IF i <= m THEN i + 1
                                            ELSE IF i = m + 1 THEN 1 ELSE i]
  <2>3. \A i \in 1 .. m + 1 + n : /\ f[i] \in 1 .. m + 1 + n
                                  /\ i <= m => f[i] = i + 1
                                  /\ i = m + 1 => f[i] = 1
                                  /\ i > m + 1 => f[i] = i
    OBVIOUS
  <2> HIDE DEF f
  <2>4. ASSUME NEW i \in 1 .. m + 1 + n
        PROVE  Queue'[i] = Queue[f[i]]
    <3>1. CASE i <= m
      <4>1. i \in 1 .. m /\ i + 1 \in 1 .. m + 1 /\ i \in 1 .. m + 1
        BY <3>1
      <4>2. Queue'[i] = t[i] /\ Queue[i + 1] = t[i]
        BY <4>1, <1>5, <1>6, <2>1, <2>2
      <4>3. f[i] = i + 1
        BY <2>3, <3>1
      <4> QED  BY <4>2, <4>3
    <3>2. CASE i = m + 1
      <4>1. Queue'[m + 1] = j /\ Queue[1] = j
        BY <1>5, <1>6, <1>8, <2>1, <2>2
      <4>2. f[i] = 1
        BY <2>3, <3>2
      <4> QED  BY <3>2, <4>1, <4>2
    <3>3. CASE i > m + 1
      <4>1. PICK x \in 1 .. n : i = m + 1 + x
        <5>1. i - (m + 1) \in 1 .. n /\ i = m + 1 + (i - (m + 1))
          BY <3>3
        <5> QED  BY <5>1
      <4>2. Queue'[m + 1 + x] = commands[x] /\ Queue[m + 1 + x] = commands[x]
        BY <1>6, <2>2
      <4>3. f[i] = i
        BY <2>3, <3>3
      <4> QED  BY <4>1, <4>2, <4>3
    <3> QED  BY <3>1, <3>2, <3>3
  <2>5. \A i, k \in 1 .. m + 1 + n : /\ i < k /\ f[i] # 1 /\ f[k] # 1 => f[i] < f[k]
                                     /\ f[i] = f[k] => i = k
    BY <2>3
  <2>6. ASSUME NEW k \in (1 .. m + 1 + n) \ {1}
        PROVE  \E i \in 1 .. m + 1 + n : f[i] = k
    <3>1. CASE k <= m + 1
      <4>1. k - 1 \in 1 .. m + 1 + n /\ k - 1 <= m /\ (k - 1) + 1 = k
        BY <3>1
      <4>2. f[k - 1] = k
        BY <2>3, <4>1
      <4> QED  BY <4>1, <4>2
    <3>2. CASE k > m + 1
      BY <2>3, <3>2
    <3> QED  BY <3>1, <3>2
  <2>7. ASSUME NEW k \in 1 .. m + 1 + n, k > m + 1
        PROVE  \E x \in 1 .. n : Queue'[k] = commands[x]
    <3>1. PICK x \in 1 .. n : k = m + 1 + x
      <4>1. k - (m + 1) \in 1 .. n /\ k = m + 1 + (k - (m + 1))
        BY <2>7
      <4> QED  BY <4>1
    <3> QED  BY <3>1, <2>2
  <2>8. m + 1 \in 1 .. m + 1 + n /\ f[m + 1] = 1
    BY <2>3
  <2>9. t # Append(t, j)
    BY <2>0, <2>1, <1>3
  <2>10. microtasks' # Tail(microtasks)
    BY <1>2, <1>10, <2>9
  <2>11. \A k \in DOMAIN Queue' : k > m + 1 =>
            \E x \in DOMAIN commands : Queue'[k] = commands[x]
    BY <1>7, <2>2, <2>7
  <2>12. \A k \in DOMAIN Queue \ {1} : \E i \in DOMAIN Queue' : f[i] = k
    BY <1>6, <2>2, <2>6
  <2>13. \A i \in DOMAIN Queue' : f[i] \in DOMAIN Queue /\ Queue'[i] = Queue[f[i]]
    BY <1>6, <2>2, <2>3, <2>4
  <2>14. m + 1 \in DOMAIN Queue'
    BY <2>2, <2>8
  <2>15. Moves(f, j)
    BY <2>2, <2>5, <2>8, <2>10, <2>11, <2>12, <2>13, <2>14 DEF Moves
  <2> QED  BY <1>5, <1>6, <1>8, <2>15
<1>11. t # Append(t, j)
  BY <1>2, <1>3, AppendProperties
<1> QED  BY <1>2, <1>9, <1>10, <1>11


-----------------------------------------------------------------------------
(* What the counts of signals are, and that job j alone is moved when its  *)
(* continuation runs.                                                      *)
LEMMA UsedType ==
    ASSUME TypeOK
    PROVE  /\ \A k \in Jobs : job[k].used \in Nat
           /\ \A g \in Gates : forecastStore[g].used \in Nat /\ window[g] \in Nat
<1>1. \A x \in 0 .. MaxSignals : x \in Nat
  BY BoundsAssumption
<1>2. \A k \in Jobs : job[k].used \in 0 .. MaxSignals
  BY DEF TypeOK, JobRecord
<1>3. \A g \in Gates : window[g] \in 0 .. MaxSignals
  BY DEF TypeOK
<1>4. \A p \in Forecast \cup {NoForecast} : p.used \in Nat
  BY <1>1 DEF Forecast, NoForecast
<1>5. \A g \in Gates : forecastStore[g] \in Forecast \cup {NoForecast}
  BY DEF TypeOK
<1> QED  BY <1>1, <1>2, <1>3, <1>4, <1>5

(* The continuation of j, the first job: nobody else's state changes.      *)
Continues(j, f) ==
    /\ 1 \in DOMAIN Queue
    /\ Queue[1] = j
    /\ Moves(f, j)
    /\ \A k \in Jobs \ {j} : pc'[k] = pc[k] /\ job'[k] = job[k]

LEMMA OthersKept ==
    ASSUME TypeOK, PlacesInv, NEW j \in Jobs, NEW f, Continues(j, f),
           NEW i \in DOMAIN Queue'
    PROVE  /\ f[i] \in DOMAIN Queue
           /\ Queue'[i] = Queue[f[i]]
           /\ Queue'[i] \in Jobs
           /\ f[i] = 1 <=> Queue'[i] = j
           /\ f[i] # 1 => /\ pc'[Queue'[i]] = pc[Queue[f[i]]]
                          /\ job'[Queue'[i]] = job[Queue[f[i]]]
<1>1. f[i] \in DOMAIN Queue /\ Queue'[i] = Queue[f[i]]
  BY DEF Continues, Moves
<1>2. Queue'[i] \in Jobs
  BY <1>1, QueueType
<1>3. f[i] = 1 <=> Queue'[i] = j
  BY <1>1 DEF PlacesInv, Continues
<1> QED  BY <1>1, <1>2, <1>3 DEF Continues

-----------------------------------------------------------------------------
LEMMA PlacesRecompute ==
    ASSUME TypeOK, PlacesInv, NEW j \in Jobs, pc[j] = "idle",
           commands' = Append(commands, j), UNCHANGED microtasks,
           pc' = [pc EXCEPT ![j] = "saving"]
    PROVE  PlacesInv' /\ \A i \in DOMAIN Queue : Queue[i] # j
<1>1. /\ DOMAIN Queue' = DOMAIN Queue \cup {Len(Queue) + 1}
      /\ \A i \in DOMAIN Queue : Queue'[i] = Queue[i]
      /\ Queue'[Len(Queue) + 1] = j
  BY RecomputeJoins
<1>2. \A i \in DOMAIN Queue : Queue[i] # j /\ Queue[i] \in Jobs
  BY QueueType DEF PlacesInv
<1>3. pc'[j] = "saving" /\ \A i \in DOMAIN Queue : pc'[Queue[i]] = pc[Queue[i]]
  BY <1>2 DEF TypeOK
<1>4. \A i \in DOMAIN Queue' : pc'[Queue'[i]] \notin {"idle", "rejected"}
  BY <1>1, <1>3 DEF PlacesInv
<1>5. \A i, k \in DOMAIN Queue' : Queue'[i] = Queue'[k] => i = k
  BY <1>1, <1>2 DEF PlacesInv
<1> QED  BY <1>2, <1>4, <1>5 DEF PlacesInv

LEMMA PlacesContinue ==
    ASSUME TypeOK, PlacesInv, NEW j \in Jobs, NEW f, Continues(j, f),
           microtasks' = Tail(microtasks) \/ pc'[j] \notin {"idle", "rejected"}
    PROVE  PlacesInv'
<1>1. ASSUME NEW i \in DOMAIN Queue'
      PROVE  pc'[Queue'[i]] \notin {"idle", "rejected"}
  <2>1. CASE f[i] = 1
    <3>1. microtasks' # Tail(microtasks) /\ Queue'[i] = j
      BY <2>1, OthersKept DEF Continues, Moves
    <3> QED  BY <3>1
  <2>2. CASE f[i] # 1
    BY <2>2, OthersKept DEF PlacesInv
  <2> QED  BY <2>1, <2>2
<1>2. ASSUME NEW i \in DOMAIN Queue', NEW k \in DOMAIN Queue', Queue'[i] = Queue'[k]
      PROVE  i = k
  <2>1. f[i] \in DOMAIN Queue /\ f[k] \in DOMAIN Queue /\ Queue[f[i]] = Queue[f[k]]
    BY <1>2, OthersKept
  <2>2. f[i] = f[k]
    BY <2>1 DEF PlacesInv
  <2> QED  BY <2>2 DEF Continues, Moves
<1> QED  BY <1>1, <1>2 DEF PlacesInv

-----------------------------------------------------------------------------
(* The order is kept when no job that waits for Redis moves or changes.    *)
LEMMA OrderKept ==
    ASSUME TypeOK, TypeOK', NEW g \in Gates, OrderInv(g), Queue' = Queue,
           window'[g] = window[g], forecastStore'[g] = forecastStore[g],
           \A i \in DOMAIN Queue : UnstoredAt(i, g)' =>
              UnstoredAt(i, g) /\ job'[Queue[i]] = job[Queue[i]]
    PROVE  OrderInv(g)'
<1>1. \A i \in DOMAIN Queue : UnstoredAt(i, g)' =>
          /\ forecastStore'[g].used <= job'[Queue[i]].used
          /\ job'[Queue[i]].used <= window'[g]
  BY DEF OrderInv
<1>2. \A i, k \in DOMAIN Queue : UnstoredAt(i, g)' /\ UnstoredAt(k, g)' /\ i < k =>
          job'[Queue[i]].used <= job'[Queue[k]].used
  BY DEF OrderInv
<1>3. forecastStore'[g].used <= window'[g]
  BY DEF OrderInv
<1> QED  BY <1>1, <1>2, <1>3 DEF OrderInv

(* A recompute reads a window no smaller than any read before.             *)
LEMMA OrderRecompute ==
    ASSUME TypeOK, PlacesInv, NEW g \in Gates, OrderInv(g),
           NEW j \in Jobs, pc[j] = "idle", commands' = Append(commands, j),
           UNCHANGED <<microtasks, forecastStore>>,
           pc' = [pc EXCEPT ![j] = "saving"],
           \A k \in Jobs \ {j} : job'[k] = job[k],
           window'[g] \in Nat, window[g] <= window'[g],
           job'[j].gate = g => job'[j].used = window'[g]
    PROVE  OrderInv(g)'
<1>0. PICK n \in Nat : n = Len(Queue) + 1
  <2>1. Len(Queue) + 1 \in Nat
    BY QueueType
  <2> QED  BY <2>1
<1>1. /\ DOMAIN Queue' = DOMAIN Queue \cup {n}
      /\ \A i \in DOMAIN Queue : Queue'[i] = Queue[i] /\ i < n
      /\ Queue'[n] = j
      /\ \A i \in DOMAIN Queue : i \in Nat
  <2>1. \A i \in DOMAIN Queue : i \in Nat
    BY QueueType
  <2> QED  BY <1>0, <2>1, RecomputeJoins
<1>2. \A i \in DOMAIN Queue : Queue[i] # j /\ Queue[i] \in Jobs
  BY QueueType DEF PlacesInv
<1>3. \A i \in DOMAIN Queue : /\ job'[Queue'[i]] = job[Queue[i]]
                              /\ UnstoredAt(i, g)' <=> UnstoredAt(i, g)
  BY <1>1, <1>2 DEF UnstoredAt, TypeOK
<1>4. \A k \in Jobs : job[k].used \in Nat
  BY UsedType
<1>5. forecastStore[g].used \in Nat /\ window[g] \in Nat
  BY UsedType
<1>6. PICK v \in Nat, w \in Nat, p \in Nat :
          v = window[g] /\ w = window'[g] /\ p = forecastStore[g].used
  BY <1>5
<1>7. v <= w /\ p <= v
  BY <1>6 DEF OrderInv
<1>8. \A i \in DOMAIN Queue : UnstoredAt(i, g) =>
          p <= job[Queue[i]].used /\ job[Queue[i]].used <= v
  BY <1>6 DEF OrderInv
<1>9. p <= w /\ \A x \in Nat : x <= v => x <= w
  BY <1>7
<1>10. \A i \in DOMAIN Queue : UnstoredAt(i, g) =>
          p <= job[Queue[i]].used /\ job[Queue[i]].used <= w
  BY <1>2, <1>4, <1>8, <1>9
<1>11. UnstoredAt(n, g)' => job'[Queue'[n]].used = w
  BY <1>1, <1>6 DEF UnstoredAt
<1>12. ASSUME NEW i \in DOMAIN Queue', UnstoredAt(i, g)'
       PROVE  p <= job'[Queue'[i]].used /\ job'[Queue'[i]].used <= w
  <2>1. CASE i = n
    BY <1>9, <1>11, <1>12, <2>1
  <2>2. CASE i \in DOMAIN Queue
    BY <1>3, <1>10, <1>12, <2>2
  <2> QED  BY <1>1, <2>1, <2>2
<1>13. ASSUME NEW i \in DOMAIN Queue', NEW k \in DOMAIN Queue',
              UnstoredAt(i, g)', UnstoredAt(k, g)', i < k
       PROVE  job'[Queue'[i]].used <= job'[Queue'[k]].used
  <2>1. i \in DOMAIN Queue
    BY <1>1, <1>13
  <2>2. CASE k = n
    BY <1>3, <1>10, <1>11, <1>13, <2>1, <2>2
  <2>3. CASE k \in DOMAIN Queue
    BY <1>3, <1>13, <2>1, <2>3 DEF OrderInv
  <2> QED  BY <1>1, <2>2, <2>3
<1> QED  BY <1>6, <1>9, <1>12, <1>13 DEF OrderInv

(* The first job stores its forecast or has none to store: what is stored  *)
(* then is no newer than what is still to be stored.                       *)
LEMMA OrderContinue ==
    ASSUME TypeOK, PlacesInv, NEW g \in Gates, OrderInv(g),
           NEW j \in Jobs, NEW f, Continues(j, f),
           pc'[j] \notin {"saving", "saved"}, window' = window,
           \/ forecastStore'[g] = forecastStore[g]
           \/ UnstoredAt(1, g) /\ forecastStore'[g].used = job[j].used
    PROVE  OrderInv(g)' /\ forecastStore[g].used <= forecastStore'[g].used
<1>1. /\ \A k \in Jobs : job[k].used \in Nat
      /\ forecastStore[g].used \in Nat /\ window[g] \in Nat
  BY UsedType
<1>2. /\ \A i \in DOMAIN Queue : i \in Nat /\ i >= 1 /\ Queue[i] \in Jobs
      /\ 1 \in DOMAIN Queue /\ Queue[1] = j
  BY QueueType DEF Continues
<1>3. ASSUME NEW i \in DOMAIN Queue', UnstoredAt(i, g)'
      PROVE  /\ f[i] \in DOMAIN Queue /\ f[i] # 1 /\ UnstoredAt(f[i], g)
             /\ job'[Queue'[i]] = job[Queue[f[i]]]
  <2>1. f[i] # 1
    BY <1>3, OthersKept DEF UnstoredAt
  <2> QED  BY <1>3, <2>1, OthersKept DEF UnstoredAt
<1>4. /\ forecastStore'[g].used \in Nat
      /\ forecastStore[g].used <= forecastStore'[g].used
      /\ forecastStore'[g].used <= window[g]
      /\ \A k \in DOMAIN Queue : UnstoredAt(k, g) /\ k # 1 =>
             forecastStore'[g].used <= job[Queue[k]].used
  <2>1. CASE forecastStore'[g] = forecastStore[g]
    BY <1>1, <2>1 DEF OrderInv
  <2>2. CASE UnstoredAt(1, g) /\ forecastStore'[g].used = job[j].used
    <3>1. forecastStore[g].used <= job[j].used /\ job[j].used <= window[g]
      BY <1>2, <2>2 DEF OrderInv
    <3>2. \A k \in DOMAIN Queue : k # 1 => 1 < k
      BY <1>2
    <3>3. \A k \in DOMAIN Queue : UnstoredAt(k, g) /\ k # 1 => job[j].used <= job[Queue[k]].used
      BY <1>2, <2>2, <3>2 DEF OrderInv
    <3> QED  BY <1>1, <2>2, <3>1, <3>3
  <2> QED  BY <2>1, <2>2
<1>5. ASSUME NEW i \in DOMAIN Queue', UnstoredAt(i, g)'
      PROVE  /\ forecastStore'[g].used <= job'[Queue'[i]].used
             /\ job'[Queue'[i]].used <= window'[g]
  BY <1>3, <1>4, <1>5 DEF OrderInv
<1>6. ASSUME NEW i \in DOMAIN Queue', NEW k \in DOMAIN Queue',
             UnstoredAt(i, g)', UnstoredAt(k, g)', i < k
      PROVE  job'[Queue'[i]].used <= job'[Queue'[k]].used
  <2>1. f[i] < f[k]
    BY <1>3, <1>6 DEF Continues, Moves
  <2> QED  BY <1>3, <1>6, <2>1 DEF OrderInv
<1> QED  BY <1>4, <1>5, <1>6 DEF OrderInv


-----------------------------------------------------------------------------
(* The lists are untouched by a step that moves no handler about to        *)
(* publish and writes neither list of the gate.                            *)
SameLists(g) ==
    /\ SameActions(activeActions'[g], activeActions[g])
    /\ SameActions(dashboardActions'[g], dashboardActions[g])

LEMMA ListsKept ==
    ASSUME NEW g \in Gates, ListsInv(g), Queue' = Queue, SameLists(g),
           \A i \in DOMAIN Queue :
              /\ UnpublishedAt(i, g)' <=> UnpublishedAt(i, g)
              /\ UnpublishedAt(i, g) => job'[Queue[i]] = job[Queue[i]]
    PROVE  ListsInv(g)'
<1>1. ASSUME NEW i \in DOMAIN Queue, LastUnpublished(i, g)'
      PROVE  SameActions(activeActions'[g], ListOf(Queue[i])')
  <2>1. LastUnpublished(i, g)
    BY <1>1 DEF LastUnpublished
  <2>2. ListOf(Queue[i])' = ListOf(Queue[i])
    BY <2>1 DEF LastUnpublished, ListOf
  <2>3. SameActions(activeActions[g], ListOf(Queue[i]))
    BY <2>1 DEF ListsInv
  <2> QED  BY <2>2, <2>3 DEF SameLists, SameActions
<1>2. ASSUME \A i \in DOMAIN Queue : ~UnpublishedAt(i, g)'
      PROVE  SameActions(activeActions'[g], dashboardActions'[g])
  BY <1>2 DEF ListsInv, SameLists, SameActions
<1>3. Queue' = Queue
  OBVIOUS
<1> HIDE DEF Queue
<1> QED  BY <1>1, <1>2, <1>3 DEF ListsInv, ListOf

LEMMA ListsRecompute ==
    ASSUME TypeOK, PlacesInv, NEW g \in Gates, ListsInv(g),
           NEW j \in Jobs, pc[j] = "idle", commands' = Append(commands, j),
           UNCHANGED <<microtasks, activeActions, dashboardActions>>,
           pc' = [pc EXCEPT ![j] = "saving"],
           \A k \in Jobs \ {j} : job'[k] = job[k]
    PROVE  ListsInv(g)'
<1>0. PICK n \in Nat : n = Len(Queue) + 1
  <2>1. Len(Queue) + 1 \in Nat
    BY QueueType
  <2> QED  BY <2>1
<1>1. /\ DOMAIN Queue' = DOMAIN Queue \cup {n}
      /\ \A i \in DOMAIN Queue : Queue'[i] = Queue[i]
      /\ Queue'[n] = j
  BY <1>0, RecomputeJoins
<1>2. \A i \in DOMAIN Queue : Queue[i] # j /\ Queue[i] \in Jobs
  BY QueueType DEF PlacesInv
<1>3. \A i \in DOMAIN Queue : /\ job'[Queue'[i]] = job[Queue[i]]
                              /\ UnpublishedAt(i, g)' <=> UnpublishedAt(i, g)
  BY <1>1, <1>2 DEF UnpublishedAt, TypeOK
<1>4. ~UnpublishedAt(n, g)'
  BY <1>1 DEF UnpublishedAt, TypeOK
<1>5. ASSUME NEW i \in DOMAIN Queue', LastUnpublished(i, g)'
      PROVE  SameActions(activeActions'[g], ListOf(Queue[i])')
  <2>1. i \in DOMAIN Queue /\ LastUnpublished(i, g)
    BY <1>1, <1>3, <1>4, <1>5 DEF LastUnpublished
  <2>2. ListOf(Queue[i])' = ListOf(Queue[i])
    BY <1>3, <2>1 DEF ListOf
  <2> QED  BY <2>1, <2>2 DEF ListsInv
<1>6. ASSUME \A i \in DOMAIN Queue' : ~UnpublishedAt(i, g)'
      PROVE  SameActions(activeActions'[g], dashboardActions'[g])
  BY <1>1, <1>3, <1>6 DEF ListsInv
<1> QED  BY <1>5, <1>6 DEF ListsInv, ListOf

(* Another gate's handler, or one not about to publish, runs.              *)
LEMMA ListsContinue ==
    ASSUME TypeOK, TypeOK', PlacesInv, NEW g \in Gates, ListsInv(g),
           NEW j \in Jobs, NEW f, Continues(j, f), SameLists(g),
           ~UnpublishedAt(1, g), ~(pc'[j] = "stored" /\ job'[j].gate = g)
    PROVE  ListsInv(g)'
<1>1. ASSUME NEW i \in DOMAIN Queue'
      PROVE  /\ UnpublishedAt(i, g)' <=> UnpublishedAt(f[i], g)
             /\ UnpublishedAt(i, g)' => f[i] # 1 /\ job'[Queue'[i]] = job[Queue[f[i]]]
  <2>1. CASE f[i] = 1
    BY <2>1, OthersKept DEF UnpublishedAt
  <2>2. CASE f[i] # 1
    BY <2>2, OthersKept DEF UnpublishedAt
  <2> QED  BY <2>1, <2>2
<1>2. ASSUME NEW i \in DOMAIN Queue', LastUnpublished(i, g)'
      PROVE  SameActions(activeActions'[g], ListOf(Queue[i])')
  <2>1. f[i] \in DOMAIN Queue /\ UnpublishedAt(f[i], g)
    BY <1>1, <1>2, OthersKept DEF LastUnpublished
  <2>2. ASSUME NEW k \in DOMAIN Queue, UnpublishedAt(k, g)
        PROVE  k <= f[i]
    <3>1. k # 1
      BY <2>2
    <3>2. PICK x \in DOMAIN Queue' : f[x] = k
      BY <3>1 DEF Continues, Moves
    <3>3. UnpublishedAt(x, g)'
      BY <1>1, <2>2, <3>2
    <3>4. x <= i
      BY <1>2, <3>3 DEF LastUnpublished
    <3>5. f[i] # 1 /\ f[x] # 1
      BY <1>1, <1>2, <3>1, <3>2 DEF LastUnpublished
    <3>6. x \in Nat /\ i \in Nat
      BY PlacesAreNumbers
    <3>7. x = i \/ x < i
      BY <3>4, <3>6
    <3>8. x < i => f[x] < f[i]
      BY <3>5 DEF Continues, Moves
    <3>9. k \in Nat /\ f[i] \in Nat
      BY <2>1, QueueType
    <3> QED  BY <3>2, <3>7, <3>8, <3>9
  <2>3. SameActions(activeActions[g], ListOf(Queue[f[i]]))
    BY <2>1, <2>2 DEF ListsInv, LastUnpublished
  <2>4. ListOf(Queue[i])' = ListOf(Queue[f[i]])
    BY <1>1, <1>2 DEF ListOf, LastUnpublished
  <2> QED  BY <2>3, <2>4 DEF SameLists, SameActions
<1>3. ASSUME \A i \in DOMAIN Queue' : ~UnpublishedAt(i, g)'
      PROVE  SameActions(activeActions'[g], dashboardActions'[g])
  <2>1. ASSUME NEW k \in DOMAIN Queue
        PROVE  ~UnpublishedAt(k, g)
    <3>1. CASE k = 1
      BY <3>1
    <3>2. CASE k # 1
      <4>1. PICK x \in DOMAIN Queue' : f[x] = k
        BY <3>2 DEF Continues, Moves
      <4> QED  BY <1>1, <1>3, <4>1
    <3> QED  BY <3>1, <3>2
  <2> QED  BY <2>1 DEF ListsInv, SameLists, SameActions
<1> QED  BY <1>2, <1>3 DEF ListsInv, ListOf


(* The handler stores its list, and every list stored before it will be    *)
(* published before its own.                                               *)
LEMMA ListsStore ==
    ASSUME TypeOK, TypeOK', PlacesInv, CommandsInv', NEW j \in Jobs, NEW g, g = job[j].gate,
           NEW f, Continues(j, f), microtasks' = Append(Tail(microtasks), j),
           commands' = commands, pc'[j] = "stored", job' = job,
           SameActions(activeActions'[g], ListOf(j))
    PROVE  ListsInv(g)'
<1>1. PICK p \in DOMAIN Queue' :
          /\ f[p] = 1
          /\ \A k \in DOMAIN Queue' : k > p => \E x \in DOMAIN commands : Queue'[k] = commands[x]
  BY DEF Continues, Moves
<1>2. Queue'[p] = j
  BY <1>1, OthersKept
<1>3. UnpublishedAt(p, g)'
  BY <1>2 DEF UnpublishedAt
<1>4. \A x \in DOMAIN commands : pc'[commands[x]] = "saving"
  <2>1. DOMAIN commands = 1 .. Len(commands)
    BY DEF TypeOK
  <2> QED  BY <2>1 DEF CommandsInv
<1>5. ASSUME NEW i \in DOMAIN Queue', LastUnpublished(i, g)'
      PROVE  i = p
  <2>1. p <= i
    BY <1>3, <1>5 DEF LastUnpublished
  <2>2. ~(i > p)
    BY <1>1, <1>4, <1>5 DEF LastUnpublished, UnpublishedAt
  <2> QED  BY <2>1, <2>2, PlacesAreNumbers
<1>6. ListOf(j)' = ListOf(j)
  BY DEF ListOf
<1>7. \A i \in DOMAIN Queue' : LastUnpublished(i, g)' =>
          SameActions(activeActions'[g], ListOf(Queue[i])')
  BY <1>2, <1>5, <1>6 DEF ListOf
<1> QED  BY <1>3, <1>7 DEF ListsInv, ListOf

(* The handler publishes its list.  If it was the last to have stored one, *)
(* what it publishes is what is stored.                                    *)
LEMMA ListsPublish ==
    ASSUME TypeOK, TypeOK', PlacesInv, NEW g \in Gates, ListsInv(g),
           NEW j \in Jobs, NEW f, Continues(j, f), UnpublishedAt(1, g),
           pc'[j] # "stored", activeActions' = activeActions,
           SameActions(dashboardActions'[g], ListOf(j))
    PROVE  ListsInv(g)'
<1>1. ASSUME NEW i \in DOMAIN Queue'
      PROVE  /\ UnpublishedAt(i, g)' <=> f[i] # 1 /\ UnpublishedAt(f[i], g)
             /\ UnpublishedAt(i, g)' => job'[Queue'[i]] = job[Queue[f[i]]]
  <2>1. CASE f[i] = 1
    BY <2>1, OthersKept DEF UnpublishedAt
  <2>2. CASE f[i] # 1
    BY <2>2, OthersKept DEF UnpublishedAt
  <2> QED  BY <2>1, <2>2
<1>2. \A k \in DOMAIN Queue : k \in Nat /\ k >= 1
  BY QueueType
<1>3. ASSUME NEW i \in DOMAIN Queue', LastUnpublished(i, g)'
      PROVE  SameActions(activeActions'[g], ListOf(Queue[i])')
  <2>1. f[i] \in DOMAIN Queue /\ UnpublishedAt(f[i], g) /\ f[i] # 1
    BY <1>1, <1>3, OthersKept DEF LastUnpublished
  <2>2. ASSUME NEW k \in DOMAIN Queue, UnpublishedAt(k, g)
        PROVE  k <= f[i]
    <3>1. CASE k = 1
      BY <1>2, <2>1, <3>1
    <3>2. CASE k # 1
      <4>1. PICK x \in DOMAIN Queue' : f[x] = k
        BY <3>2 DEF Continues, Moves
      <4>2. x <= i
        BY <1>1, <1>3, <2>2, <3>2, <4>1 DEF LastUnpublished
      <4>3. x = i \/ x < i
        BY <4>2, PlacesAreNumbers
      <4>4. x < i => f[x] < f[i]
        BY <2>1, <3>2, <4>1 DEF Continues, Moves
      <4> QED  BY <1>2, <2>1, <4>1, <4>3, <4>4
    <3> QED  BY <3>1, <3>2
  <2>3. SameActions(activeActions[g], ListOf(Queue[f[i]]))
    BY <2>1, <2>2 DEF ListsInv, LastUnpublished
  <2>4. ListOf(Queue[i])' = ListOf(Queue[f[i]])
    BY <1>1, <1>3 DEF ListOf, LastUnpublished
  <2> QED  BY <2>3, <2>4
<1>4. ASSUME \A i \in DOMAIN Queue' : ~UnpublishedAt(i, g)'
      PROVE  SameActions(activeActions'[g], dashboardActions'[g])
  <2>1. ASSUME NEW k \in DOMAIN Queue, UnpublishedAt(k, g)
        PROVE  k = 1
    <3> SUFFICES ASSUME k # 1 PROVE FALSE
      OBVIOUS
    <3>1. PICK x \in DOMAIN Queue' : f[x] = k
      BY DEF Continues, Moves
    <3> QED  BY <1>1, <1>4, <2>1, <3>1
  <2>2. LastUnpublished(1, g) /\ 1 \in DOMAIN Queue /\ Queue[1] = j
    BY <2>1 DEF LastUnpublished, Continues
  <2>3. SameActions(activeActions[g], ListOf(j))
    BY <2>2 DEF ListsInv
  <2> QED  BY <2>3 DEF SameActions
<1> QED  BY <1>3, <1>4 DEF ListsInv, ListOf


-----------------------------------------------------------------------------
LEMMA QueueInit == Init => QueueInv
<1> SUFFICES ASSUME Init PROVE QueueInv
  OBVIOUS
<1>1. Queue = <<>> /\ DOMAIN Queue = {}
  BY DEF Init, Queue
<1>2. \A g \in Gates : forecastStore[g].used <= window[g]
  BY DEF Init, NoForecast
<1>3. \A g \in Gates : SameActions(activeActions[g], dashboardActions[g])
  BY DEF Init, SameActions
<1> HIDE DEF Queue
<1> QED  BY <1>1, <1>2, <1>3 DEF QueueInv, PlacesInv, OrderInv, ListsInv

(* Steps that move nobody: at most, waiting jobs get their reply.          *)
LEMMA QueueKept ==
    ASSUME TypeOK, TypeOK', QueueInv, Queue' = Queue,
           UNCHANGED <<window, forecastStore>>, \A g \in Gates : SameLists(g),
           \A i \in DOMAIN Queue :
              /\ job'[Queue[i]] = job[Queue[i]]
              /\ \/ pc'[Queue[i]] = pc[Queue[i]]
                 \/ pc[Queue[i]] = "saving" /\ pc'[Queue[i]] \in {"saved", "failed"}
    PROVE  QueueInv'
<1>1. PlacesInv'
  <2>1. \A i \in DOMAIN Queue : pc'[Queue[i]] \notin {"idle", "rejected"}
    BY DEF QueueInv, PlacesInv
  <2>2. \A i, k \in DOMAIN Queue : Queue[i] = Queue[k] => i = k
    BY DEF QueueInv, PlacesInv
  <2> HIDE DEF Queue
  <2> QED  BY <2>1, <2>2 DEF PlacesInv
<1>2. ASSUME NEW g \in Gates
      PROVE  OrderInv(g)'
  <2>1. \A i \in DOMAIN Queue : UnstoredAt(i, g)' =>
            UnstoredAt(i, g) /\ job'[Queue[i]] = job[Queue[i]]
    BY DEF UnstoredAt
  <2>2. OrderInv(g) /\ window'[g] = window[g] /\ forecastStore'[g] = forecastStore[g]
    BY DEF QueueInv
  <2> QED  BY <2>1, <2>2, OrderKept
<1>3. ASSUME NEW g \in Gates
      PROVE  ListsInv(g)'
  <2>1. \A i \in DOMAIN Queue : UnpublishedAt(i, g)' <=> UnpublishedAt(i, g)
    BY DEF UnpublishedAt
  <2> QED  BY <2>1, ListsKept DEF QueueInv
<1> QED  BY <1>1, <1>2, <1>3 DEF QueueInv

(* A signal or a tick.                                                     *)
LEMMA QueueRecompute ==
    ASSUME TypeOK, TypeOK', QueueInv, NEW j \in Jobs, NEW g \in Gates,
           OnSignalEvent(j, g) \/ ScheduledTick(j, g)
    PROVE  QueueInv'
<1>1. /\ pc[j] = "idle" /\ commands' = Append(commands, j)
      /\ UNCHANGED <<microtasks, forecastStore, activeActions, dashboardActions>>
      /\ pc' = [pc EXCEPT ![j] = "saving"]
      /\ \A k \in Jobs \ {j} : job'[k] = job[k]
  BY DEF OnSignalEvent, ScheduledTick, Recompute, published, actionLists, TypeOK
<1>2. job'[j].gate = g /\ job'[j].used = window'[g]
  BY DEF OnSignalEvent, ScheduledTick, Recompute, TypeOK
<1>3. ASSUME NEW h \in Gates
      PROVE  window'[h] \in Nat /\ window[h] <= window'[h]
  <2>1. window[h] \in Nat
    BY UsedType
  <2>2. window'[h] \in {window[h], window[h] + 1}
    BY DEF OnSignalEvent, ScheduledTick, TypeOK
  <2> QED  BY <2>1, <2>2
<1>4. PlacesInv'
  BY <1>1, PlacesRecompute DEF QueueInv
<1>5. ASSUME NEW h \in Gates
      PROVE  OrderInv(h)'
  BY <1>1, <1>2, <1>3, OrderRecompute DEF QueueInv
<1>6. ASSUME NEW h \in Gates
      PROVE  ListsInv(h)'
  BY <1>1, ListsRecompute DEF QueueInv
<1> QED  BY <1>4, <1>5, <1>6 DEF QueueInv

(* What a continuation does to the queues and to other jobs.               *)
LEMMA ContinueShape ==
    ASSUME TypeOK, NEW j \in Jobs, Continue(j)
    PROVE  /\ UNCHANGED <<commands, window>>
           /\ \/ microtasks' = Tail(microtasks) /\ pc'[j] \in {"idle", "rejected"}
              \/ /\ microtasks' = Append(Tail(microtasks), j)
                 /\ pc'[j] \in Handling
           /\ \E f : Continues(j, f)
<1>1. /\ UNCHANGED <<commands, window>>
      /\ \/ microtasks' = Tail(microtasks) /\ pc'[j] \in {"idle", "rejected"}
         \/ microtasks' = Append(Tail(microtasks), j) /\ pc'[j] \in Handling
      /\ \A k \in Jobs \ {j} : pc'[k] = pc[k] /\ job'[k] = job[k]
  BY DEF Continue, SaveFailed, PublishForecast, PublishToNobody, AlertPublished,
     RecordRiskLevel, StoreActions, PublishActions, Await, Return, Handling, TypeOK
<1>2. \E from : Running(j, from)
  BY DEF Continue, SaveFailed, PublishForecast, PublishToNobody, AlertPublished,
     RecordRiskLevel, StoreActions, PublishActions
<1>3. /\ 1 \in DOMAIN Queue /\ Queue[1] = j
      /\ \E f : Moves(f, j)
  BY <1>1, <1>2, ContinuationMoves
<1> QED  BY <1>1, <1>3 DEF Continues

LEMMA QueueContinue ==
    ASSUME TypeOK, TypeOK', CommandsInv', QueueInv, NEW j \in Jobs, Continue(j)
    PROVE  /\ QueueInv'
           /\ \A g \in Gates : forecastStore[g].used <= forecastStore'[g].used
<1>1. PICK f : Continues(j, f)
  BY ContinueShape
<1>2. /\ UNCHANGED <<commands, window>>
      /\ \/ microtasks' = Tail(microtasks) /\ pc'[j] \in {"idle", "rejected"}
         \/ microtasks' = Append(Tail(microtasks), j) /\ pc'[j] \in Handling
  BY ContinueShape
<1>3. Queue[1] = j /\ microtasks # <<>> /\ j = Head(microtasks)
  BY <1>1 DEF Continues, Continue, SaveFailed, PublishForecast, PublishToNobody,
     AlertPublished, RecordRiskLevel, StoreActions, PublishActions, Running
<1>4. PlacesInv'
  BY <1>1, <1>2, PlacesContinue DEF QueueInv, Handling
<1>5. ASSUME NEW g \in Gates
      PROVE  OrderInv(g)' /\ forecastStore[g].used <= forecastStore'[g].used
  <2>1. pc'[j] \notin {"saving", "saved"}
    BY <1>2 DEF Handling
  <2>2. \/ forecastStore'[g] = forecastStore[g]
        \/ UnstoredAt(1, g) /\ forecastStore'[g].used = job[j].used
    <3>1. CASE PublishForecast(j) \/ PublishToNobody(j)
      <4>1. PICK point : point = [score |-> job[j].score, used |-> job[j].used]
        OBVIOUS
      <4>2. pc[j] = "saved" /\ forecastStore' = [forecastStore EXCEPT ![job[j].gate] = point]
        BY <3>1, <4>1 DEF PublishForecast, PublishToNobody, Running
      <4>3. g = job[j].gate => forecastStore'[g] = point
        BY <4>2 DEF TypeOK
      <4>4. g # job[j].gate => forecastStore'[g] = forecastStore[g]
        BY <4>2 DEF TypeOK
      <4>5. point.used = job[j].used
        BY <4>1
      <4> QED  BY <1>3, <4>2, <4>3, <4>4, <4>5 DEF UnstoredAt
    <3>2. CASE ~(PublishForecast(j) \/ PublishToNobody(j))
      BY <3>2 DEF Continue, SaveFailed, AlertPublished, RecordRiskLevel, StoreActions,
         PublishActions, published
    <3> QED  BY <3>1, <3>2
  <2> QED  BY <1>1, <1>2, <2>1, <2>2, OrderContinue DEF QueueInv
<1>6. ASSUME NEW g \in Gates
      PROVE  ListsInv(g)'
  <2>1. CASE StoreActions(j)
    <3>1. /\ pc'[j] = "stored" /\ job' = job /\ commands' = commands
          /\ microtasks' = Append(Tail(microtasks), j)
          /\ pc[j] = "windowed" /\ dashboardActions' = dashboardActions
          /\ activeActions' = [activeActions EXCEPT ![job[j].gate] = ListOf(j)]
      BY <2>1 DEF StoreActions, Running, Await, ListOf, TypeOK
    <3>2. CASE g = job[j].gate
      <4>1. SameActions(activeActions'[g], ListOf(j))
        BY <3>1, <3>2 DEF TypeOK, SameActions
      <4> QED  BY <1>1, <3>1, <3>2, <4>1, ListsStore DEF QueueInv
    <3>3. CASE g # job[j].gate
      <4>1. SameLists(g) /\ ~UnpublishedAt(1, g) /\ job'[j].gate # g
        BY <1>3, <3>1, <3>3 DEF TypeOK, SameLists, SameActions, UnpublishedAt
      <4> QED  BY <1>1, <4>1, ListsContinue DEF QueueInv
    <3> QED  BY <3>2, <3>3
  <2>2. CASE PublishActions(j)
    <3>1. /\ pc'[j] = "idle" /\ activeActions' = activeActions
          /\ pc[j] = "stored"
          /\ dashboardActions' = [dashboardActions EXCEPT ![job[j].gate] = ListOf(j)]
      BY <2>2 DEF PublishActions, Running, Return, ListOf, TypeOK
    <3>2. CASE g = job[j].gate
      <4>1. SameActions(dashboardActions'[g], ListOf(j)) /\ UnpublishedAt(1, g)
        BY <1>3, <3>1, <3>2 DEF TypeOK, SameActions, UnpublishedAt
      <4> QED  BY <1>1, <3>1, <4>1, ListsPublish DEF QueueInv
    <3>3. CASE g # job[j].gate
      <4>1. SameLists(g) /\ ~UnpublishedAt(1, g) /\ pc'[j] # "stored"
        BY <1>3, <3>1, <3>3 DEF TypeOK, SameLists, SameActions, UnpublishedAt
      <4> QED  BY <1>1, <4>1, ListsContinue DEF QueueInv
    <3> QED  BY <3>2, <3>3
  <2>3. CASE ~StoreActions(j) /\ ~PublishActions(j)
    <3>1. /\ UNCHANGED <<activeActions, dashboardActions>>
          /\ pc[j] # "stored" /\ pc'[j] # "stored"
      BY <2>3 DEF Continue, SaveFailed, PublishForecast, PublishToNobody, AlertPublished,
         RecordRiskLevel, Running, Await, Return, actionLists, TypeOK
    <3>2. SameLists(g) /\ ~UnpublishedAt(1, g)
      BY <1>3, <3>1 DEF SameLists, SameActions, UnpublishedAt
    <3> QED  BY <1>1, <3>1, <3>2, ListsContinue DEF QueueInv
  <2> QED  BY <2>1, <2>2, <2>3
<1> QED  BY <1>4, <1>5, <1>6 DEF QueueInv

(* Every step keeps the invariant, and no step takes a forecast back.      *)
LEMMA QueueStep ==
    ASSUME TypeOK, TypeOK', CommandsInv, CommandsInv', QueueInv, [Next]_vars
    PROVE  /\ QueueInv'
           /\ \A g \in Gates : forecastStore[g].used <= forecastStore'[g].used
<1>0. \A g \in Gates : forecastStore[g].used <= forecastStore[g].used
  BY UsedType
<1>1. ASSUME NEW j \in Jobs, NEW g \in Gates, OnSignalEvent(j, g) \/ ScheduledTick(j, g)
      PROVE  QueueInv' /\ forecastStore' = forecastStore
  BY <1>1, QueueRecompute DEF OnSignalEvent, ScheduledTick, published
<1>2. ASSUME NEW n \in 1 .. Len(commands), NEW failed \in SUBSET Jobs,
             SaveReplies(n, failed)
      PROVE  QueueInv' /\ forecastStore' = forecastStore
  <2>1. Queue' = Queue
    BY <1>2, RepliesKeepQueue
  <2>2. /\ UNCHANGED <<window, job, forecastStore>>
        /\ \A g \in Gates : SameLists(g)
    BY <1>2 DEF SaveReplies, published, actionLists, SameLists, SameActions
  <2>3. \A i \in 1 .. n : pc[commands[i]] = "saving"
    <3>1. \A i \in 1 .. n : i \in 1 .. Len(commands)
      BY DEF TypeOK
    <3> QED  BY <3>1 DEF CommandsInv
  <2>4. ASSUME NEW k \in Jobs
        PROVE  \/ pc'[k] = pc[k]
               \/ pc[k] = "saving" /\ pc'[k] \in {"saved", "failed"}
    <3> DEFINE answered == {commands[i] : i \in 1 .. n}
    <3>1. /\ failed \subseteq answered
          /\ pc'[k] = IF k \in failed THEN "failed"
                      ELSE IF k \in answered THEN "saved" ELSE pc[k]
      BY <1>2 DEF SaveReplies
    <3>2. \A i \in answered : pc[i] = "saving"
      BY <2>3
    <3> HIDE DEF answered
    <3> QED  BY <3>1, <3>2
  <2>5. \A i \in DOMAIN Queue : Queue[i] \in Jobs
    BY QueueType
  <2> QED  BY <2>1, <2>2, <2>4, <2>5, QueueKept
<1>3. ASSUME NEW j \in Jobs, UnhandledRejection(j)
      PROVE  QueueInv' /\ forecastStore' = forecastStore
  <2>1. /\ UNCHANGED <<window, forecastStore, microtasks, commands>>
        /\ \A g \in Gates : SameLists(g)
        /\ pc[j] = "rejected"
        /\ \A k \in Jobs \ {j} : pc'[k] = pc[k] /\ job'[k] = job[k]
    BY <1>3 DEF UnhandledRejection, published, actionLists, SameLists, SameActions, TypeOK
  <2>2. \A i \in DOMAIN Queue : Queue[i] \in Jobs /\ Queue[i] # j
    BY <2>1, QueueType DEF QueueInv, PlacesInv
  <2>3. Queue' = Queue
    BY <2>1 DEF Queue
  <2> QED  BY <2>1, <2>2, <2>3, QueueKept
<1>4. ASSUME UNCHANGED <<microtasks, commands, window, forecastStore, pc, job>>,
             \A g \in Gates : SameLists(g)
      PROVE  QueueInv' /\ forecastStore' = forecastStore
  <2>1. Queue' = Queue
    BY <1>4 DEF Queue
  <2> QED  BY <1>4, <2>1, QueueKept
<1>5. ASSUME NEW g \in Gates, NEW t \in ActionTypes, ExecuteAction(g, t)
      PROVE  QueueInv' /\ forecastStore' = forecastStore
  <2>1. \A h \in Gates : /\ activeActions'[h].of = activeActions[h].of
                         /\ activeActions'[h].offered = activeActions[h].offered
    BY <1>5 DEF ExecuteAction, TypeOK, ActionList
  <2>2. /\ UNCHANGED <<microtasks, commands, window, forecastStore, pc, job, dashboardActions>>
    BY <1>5 DEF ExecuteAction, published, eventLoop
  <2>3. \A h \in Gates : SameLists(h)
    BY <2>1, <2>2 DEF SameLists, SameActions
  <2> QED  BY <1>4, <2>2, <2>3
<1>6. CASE Stop \/ UNCHANGED vars
  <2>1. UNCHANGED <<microtasks, commands, window, forecastStore, pc, job,
                    activeActions, dashboardActions>>
    BY <1>6 DEF Stop, vars, published, eventLoop, actionLists
  <2>2. \A g \in Gates : SameLists(g)
    BY <2>1 DEF SameLists, SameActions
  <2>3. QueueInv' /\ forecastStore' = forecastStore
    BY <1>4, <2>1, <2>2
  <2> QED  BY <1>0, <2>3
<1>7. ASSUME NEW j \in Jobs, Continue(j)
      PROVE  /\ QueueInv'
             /\ \A g \in Gates : forecastStore[g].used <= forecastStore'[g].used
  BY <1>7, QueueContinue
<1> QED
  BY <1>0, <1>1, <1>2, <1>3, <1>5, <1>6, <1>7 DEF Next, RedisAnswers

(* Every job in flight keeps its place: forecasts are stored in the order  *)
(* in which their windows were read, lists published in the order in which *)
(* they were stored (fallback.ts:46, recommendation-engine/service.ts:45). *)
THEOREM QueuesKeepOrder == Spec => []QueueInv
BY QueueInit, QueueStep, TypeStep, CommandsStep, HandlersFollowScores, PTL DEF Spec

(* Whenever the event loop turns, the dashboard offers the actions staff   *)
(* can execute, also after handlers have overlapped and overtaken one      *)
(* another (recommendation-engine/service.ts:45-46, pipeline.ts:190-202).  *)
THEOREM DashboardShowsOffers == Spec => []DashboardOffersActiveActions
<1>1. TypeOK /\ CommandsInv /\ QueueInv => DashboardOffersActiveActions
  <2> SUFFICES ASSUME TypeOK, CommandsInv, QueueInv, Turn, NEW g \in Gates
               PROVE  SameActions(activeActions[g], dashboardActions[g])
    BY DEF DashboardOffersActiveActions, SameActions
  <2>1. Queue = commands /\ DOMAIN commands = 1 .. Len(commands)
    BY DEF Turn, Queue, TypeOK
  <2>2. \A i \in DOMAIN Queue : ~UnpublishedAt(i, g)
    BY <2>1 DEF UnpublishedAt, CommandsInv
  <2> QED  BY <2>2 DEF QueueInv, ListsInv
<1> QED  BY <1>1, QueuesKeepOrder, HandlersFollowScores, PTL

(* No step replaces the forecast of a gate by one computed from fewer      *)
(* signals, although recomputes run concurrently and some of them fail     *)
(* (scheduler.ts:61-74, fallback.ts:46).                                   *)
THEOREM ForecastsOnlyAdvance == Spec => ForecastNeverGoesBack
<1>1. TypeOK /\ TypeOK' /\ CommandsInv /\ CommandsInv' /\ QueueInv /\ [Next]_vars
        => [\A g \in Gates : forecastStore[g].used <= forecastStore'[g].used]_vars
  BY QueueStep
<1> QED
  BY <1>1, QueuesKeepOrder, HandlersFollowScores, PTL DEF Spec, ForecastNeverGoesBack
=============================================================================
