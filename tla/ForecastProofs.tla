---------------------------- MODULE ForecastProofs ----------------------------
(***************************************************************************)
(* Theorems about the values that SignalIngestion computes, for any        *)
(* bodies, thresholds and bounds: the score of a forecast stays in bounds, *)
(* a signal never lowers it, and the actions are ranked without ties or    *)
(* gaps.                                                                   *)
(*                                                                         *)
(* The score comes from a sum over the window, a fold of FiniteSetsExt,    *)
(* which takes the elements of the set in an order of its own.  The first  *)
(* part shows that the fold exists, and that any element may be taken      *)
(* first.  Where an induction is needed, a smallest set for which the      *)
(* claim fails is shown to be impossible (SmallestSet).                    *)
(***************************************************************************)
EXTENDS SignalIngestionProofs, WellFoundedInduction

(* Among finite sets there is one none of whose elements can be removed.   *)
LEMMA SmallestSet ==
    ASSUME NEW S, IsFiniteSet(S), NEW Bad \in SUBSET (SUBSET S), Bad # {}
    PROVE  \E s \in Bad : \A x \in s : s \ {x} \notin Bad
<1>1. \A s \in SUBSET S : IsFiniteSet(s) /\ Cardinality(s) \in Nat
  BY FS_Subset, FS_CardinalityType
<1> DEFINE Sizes == {Cardinality(s) : s \in Bad}
<1>2. Sizes \in SUBSET Nat /\ Sizes # {}
  BY <1>1
<1>3. \E m \in Sizes : \A k \in Sizes : <<k, m>> \notin OpToRel(<, Nat)
  <2> HIDE DEF Sizes
  <2> QED  BY <1>2, NatLessThanWellFounded, WFMin, Zenon
<1>4. PICK m \in Sizes : \A k \in Sizes : ~(k < m)
  BY <1>2, <1>3 DEF OpToRel
<1>5. PICK s \in Bad : Cardinality(s) = m
  BY <1>4
<1>6. ASSUME NEW x \in s, s \ {x} \in Bad
      PROVE  FALSE
  <2>1. Cardinality(s \ {x}) = Cardinality(s) - 1
    BY <1>1, FS_RemoveElement
  <2>2. Cardinality(s \ {x}) \in Sizes
    BY <1>6
  <2>3. Cardinality(s) \in Nat
    BY <1>1
  <2> HIDE DEF Sizes
  <2> QED  BY <1>4, <1>5, <2>1, <2>2, <2>3
<1> QED  BY <1>6

-----------------------------------------------------------------------------
(* The element taken first, and the fold over the subsets of S.            *)
First(s) == CHOOSE x \in s : TRUE
Sums(v, S, f) ==
    f = [s \in SUBSET S |-> IF s = {} THEN 0 ELSE v[First(s)] + f[s \ {First(s)}]]

SumRule(v, S, f) ==
    /\ f[{}] = 0
    /\ \A s \in SUBSET S : s # {} => f[s] = v[First(s)] + f[s \ {First(s)}]

LEMMA FirstIsElement ==
    ASSUME NEW s, s # {}
    PROVE  First(s) \in s
BY DEF First

LEMMA SumOf ==
    ASSUME NEW v, NEW S, NEW f, Sums(v, S, f)
    PROVE  SumRule(v, S, f)
<1>1. \A s \in SUBSET S : f[s] = IF s = {} THEN 0 ELSE v[First(s)] + f[s \ {First(s)}]
  BY DEF Sums
<1> QED  BY <1>1 DEF SumRule

(* The sum of a set depends on the values of its elements only.            *)
LEMMA SumsAgree ==
    ASSUME NEW v, NEW w, NEW S, NEW T, NEW f, NEW g, Sums(v, S, f), Sums(w, T, g),
           NEW U, IsFiniteSet(U), U \subseteq S, U \subseteq T,
           \A x \in U : v[x] = w[x]
    PROVE  f[U] = g[U]
<1>8. /\ f[{}] = 0
      /\ \A s \in SUBSET S : s # {} => f[s] = v[First(s)] + f[s \ {First(s)}]
  <2>1. SumRule(v, S, f)
    BY SumOf
  <2> QED  BY <2>1 DEF SumRule
<1>9. /\ g[{}] = 0
      /\ \A s \in SUBSET T : s # {} => g[s] = w[First(s)] + g[s \ {First(s)}]
  <2>1. SumRule(w, T, g)
    BY SumOf
  <2> QED  BY <2>1 DEF SumRule
<1> DEFINE Bad == {s \in SUBSET U : f[s] # g[s]}
<1>1. ASSUME NEW s \in Bad, \A x \in s : s \ {x} \notin Bad
      PROVE  FALSE
  <2>1. s # {}
    BY <1>1, SumOf DEF SumRule
  <2>2. PICK x \in s : x = First(s)
    BY <2>1, FirstIsElement
  <2>3. f[s \ {x}] = g[s \ {x}]
    BY <1>1
  <2>4. f[s] = v[x] + f[s \ {x}] /\ g[s] = w[x] + g[s \ {x}]
    <3>1. s \in SUBSET S /\ s \in SUBSET T
      OBVIOUS
    <3> HIDE DEF Bad
    <3> QED  BY <1>8, <1>9, <2>1, <2>2, <3>1
  <2>5. v[x] = w[x]
    OBVIOUS
  <2> QED  BY <1>1, <2>3, <2>4, <2>5
<1>2. Bad \in SUBSET (SUBSET U)
  OBVIOUS
<1>3. U \in Bad => Bad # {}
  OBVIOUS
<1>4. U \notin Bad
  <2> HIDE DEF Bad
  <2> QED  BY <1>1, <1>2, <1>3, SmallestSet
<1> QED  BY <1>4

(* It is a number.                                                         *)
LEMMA SumIsNat ==
    ASSUME NEW v, NEW S, NEW f, Sums(v, S, f), IsFiniteSet(S), \A x \in S : v[x] \in Nat
    PROVE  \A s \in SUBSET S : f[s] \in Nat
<1>8. \A s \in SUBSET S : s # {} => f[s] = v[First(s)] + f[s \ {First(s)}]
  <2>1. SumRule(v, S, f)
    BY SumOf
  <2> QED  BY <2>1 DEF SumRule
<1> DEFINE Bad == {s \in SUBSET S : f[s] \notin Nat}
<1>1. ASSUME NEW s \in Bad, \A x \in s : s \ {x} \notin Bad
      PROVE  FALSE
  <2>1. s # {}
    BY <1>1, SumOf DEF SumRule
  <2>2. PICK x \in s : x = First(s)
    BY <2>1, FirstIsElement
  <2>3. f[s \ {x}] \in Nat /\ v[x] \in Nat
    BY <1>1
  <2>4. f[s] = v[x] + f[s \ {x}]
    <3>1. s \in SUBSET S
      OBVIOUS
    <3> HIDE DEF Bad
    <3> QED  BY <1>8, <2>1, <2>2, <3>1
  <2> QED  BY <1>1, <2>3, <2>4
<1>2. Bad \in SUBSET (SUBSET S)
  OBVIOUS
<1>3. Bad = {}
  <2> HIDE DEF Bad
  <2> QED  BY <1>1, <1>2, SmallestSet
<1> QED  BY <1>3

(* Any element may be taken first.                                         *)
Weights(v, S) == \A x \in S : v[x] \in Nat
AnyFirst(v, S, f) == \A s \in SUBSET S : \A x \in s : f[s] = v[x] + f[s \ {x}]

LEMMA SumTakesAny ==
    ASSUME NEW v, NEW S, NEW f, Sums(v, S, f), IsFiniteSet(S), Weights(v, S)
    PROVE  AnyFirst(v, S, f)
<1>0. \A x \in S : v[x] \in Nat
  BY DEF Weights
<1>8. \A s \in SUBSET S : s # {} => f[s] = v[First(s)] + f[s \ {First(s)}]
  <2>1. SumRule(v, S, f)
    BY SumOf
  <2> QED  BY <2>1 DEF SumRule
<1> DEFINE Bad == {s \in SUBSET S : \E x \in s : f[s] # v[x] + f[s \ {x}]}
<1>1. ASSUME NEW s \in Bad, \A x \in s : s \ {x} \notin Bad
      PROVE  FALSE
  <2>1. PICK x \in s : f[s] # v[x] + f[s \ {x}]
    BY <1>1
  <2>2. PICK y \in s : y = First(s)
    BY <2>1, FirstIsElement
  <2>3. f[s] = v[y] + f[s \ {y}]
    <3>0. s # {}
      OBVIOUS
    <3>1. s \in SUBSET S
      OBVIOUS
    <3> HIDE DEF Bad
    <3> QED  BY <1>8, <2>2, <3>0, <3>1
  <2>4. x # y
    BY <2>1, <2>3
  <2>5. f[s \ {y}] = v[x] + f[(s \ {y}) \ {x}]
    BY <1>1, <2>4
  <2>6. f[s \ {x}] = v[y] + f[(s \ {x}) \ {y}]
    BY <1>1, <2>4
  <2>7. (s \ {y}) \ {x} = (s \ {x}) \ {y}
    OBVIOUS
  <2>8. PICK rest \in Nat : rest = f[(s \ {x}) \ {y}]
    <3>1. (s \ {x}) \ {y} \in SUBSET S
      OBVIOUS
    <3> QED  BY <1>0, <3>1, SumIsNat
  <2>9. v[x] \in Nat /\ v[y] \in Nat
    BY <1>0
  <2>10. v[y] + (v[x] + rest) = v[x] + (v[y] + rest)
    BY <2>9
  <2> QED  BY <2>1, <2>3, <2>5, <2>6, <2>7, <2>8, <2>10
<1>2. Bad \in SUBSET (SUBSET S)
  OBVIOUS
<1>3. Bad = {}
  <2> HIDE DEF Bad
  <2> QED  BY <1>1, <1>2, SmallestSet
<1> QED  BY <1>3 DEF AnyFirst

(* The fold is defined: the sums over the subsets of S without its first   *)
(* element, whichever that is, are joined to those over the subsets of S.  *)
LEMMA SumsExist ==
    ASSUME NEW v, NEW S, IsFiniteSet(S)
    PROVE  \E f : Sums(v, S, f)
<1> DEFINE Bad == {s \in SUBSET S : ~ \E f : Sums(v, s, f)}
<1>1. ASSUME NEW s \in Bad, \A x \in s : s \ {x} \notin Bad
      PROVE  FALSE
  <2> DEFINE h == [x \in s |-> CHOOSE f : Sums(v, s \ {x}, f)]
  <2>1. ASSUME NEW x \in s
        PROVE  Sums(v, s \ {x}, h[x])
    <3>1. \E f : Sums(v, s \ {x}, f)
      BY <1>1
    <3>2. h[x] = CHOOSE f : Sums(v, s \ {x}, f)
      OBVIOUS
    <3> HIDE DEF h
    <3> QED  BY <3>1, <3>2, Zenon
  <2> HIDE DEF h
  <2> DEFINE g == [t \in SUBSET s |->
                     IF t = {} THEN 0 ELSE v[First(t)] + h[First(t)][t \ {First(t)}]]
  <2>2. g[{}] = 0
    OBVIOUS
  <2>3. \A t \in SUBSET s : t # {} => g[t] = v[First(t)] + h[First(t)][t \ {First(t)}]
    OBVIOUS
  <2>4. ASSUME NEW t \in SUBSET s, t # {}
        PROVE  g[t] = v[First(t)] + g[t \ {First(t)}]
    <3>1. PICK x \in t : x = First(t)
      BY <2>4, FirstIsElement
    <3>2. PICK u \in SUBSET s : u = t \ {x}
      OBVIOUS
    <3>3. g[t] = v[x] + h[x][u]
      BY <2>3, <2>4, <3>1, <3>2
    <3>4. x \in s /\ Sums(v, s \ {x}, h[x]) /\ u \subseteq s \ {x}
      BY <2>1, <3>2
    <3>5. h[x][u] = g[u]
      <4>1. CASE u = {}
        BY <2>2, <3>4, <4>1, SumOf DEF SumRule
      <4>2. CASE u # {}
        <5>1. PICK y \in u : y = First(u)
          BY <4>2, FirstIsElement
        <5>2. PICK r \in SUBSET s : r = u \ {y}
          OBVIOUS
        <5>3. g[u] = v[y] + h[y][r]
          BY <2>3, <4>2, <5>1, <5>2
        <5>4. h[x][u] = v[y] + h[x][r]
          <6>1. h[x][u] = v[First(u)] + h[x][u \ {First(u)}]
            BY <3>4, <4>2, SumOf DEF SumRule
          <6> QED  BY <5>1, <5>2, <6>1
        <5>5. y \in s /\ Sums(v, s \ {y}, h[y]) /\ r \subseteq s \ {y} /\ r \subseteq s \ {x}
          BY <2>1, <3>4, <5>2
        <5>6. IsFiniteSet(r)
          BY FS_Subset
        <5>7. h[x][r] = h[y][r]
          BY <3>4, <5>5, <5>6, SumsAgree
        <5> QED  BY <5>3, <5>4, <5>7
      <4> QED  BY <4>1, <4>2
    <3> QED  BY <3>1, <3>2, <3>3, <3>5
  <2>5. g = [t \in SUBSET s |-> g[t]]
    OBVIOUS
  <2> HIDE DEF g
  <2>6. \A t \in SUBSET s :
            g[t] = IF t = {} THEN 0 ELSE v[First(t)] + g[t \ {First(t)}]
    BY <2>2, <2>4
  <2>7. Sums(v, s, g)
    BY <2>5, <2>6 DEF Sums
  <2> QED  BY <1>1, <2>7
<1>2. Bad \in SUBSET (SUBSET S)
  OBVIOUS
<1>3. Bad = {}
  <2> HIDE DEF Bad
  <2> QED  BY <1>1, <1>2, SmallestSet
<1> QED  BY <1>3

-----------------------------------------------------------------------------
(* The people of a set of events: the fold of the code's Array.reduce.     *)
People(log, S) == [x \in S |-> IncomingCount(log[x])]

LEMMA TotalIsSum ==
    ASSUME NEW log, NEW S, IsFiniteSet(S)
    PROVE  \E f : Sums(People(log, S), S, f) /\ TotalIncoming(log, S) = f[S]
<1> DEFINE sums(f) == f = [s \in SUBSET S |->
              IF s = {} THEN 0 ELSE LET x == CHOOSE x \in s : TRUE
                                    IN  IncomingCount(log[x]) + f[s \ {x}]]
<1>1. ASSUME NEW f
      PROVE  sums(f) <=> Sums(People(log, S), S, f)
  <2>1. ASSUME NEW s \in SUBSET S, s # {}
        PROVE  People(log, S)[First(s)] = IncomingCount(log[First(s)])
    <3>1. First(s) \in S
      BY <2>1, FirstIsElement
    <3> QED  BY <3>1 DEF People
  <2> DEFINE a == [s \in SUBSET S |-> IF s = {} THEN 0
                                      ELSE IncomingCount(log[First(s)]) + f[s \ {First(s)}]]
             b == [s \in SUBSET S |-> IF s = {} THEN 0
                                      ELSE People(log, S)[First(s)] + f[s \ {First(s)}]]
  <2>2. a = b
    BY <2>1
  <2>3. sums(f) <=> f = a
    BY DEF First
  <2>4. Sums(People(log, S), S, f) <=> f = b
    BY DEF Sums
  <2> HIDE DEF a, b, sums
  <2> QED  BY <2>2, <2>3, <2>4
<1>2. TotalIncoming(log, S) = (CHOOSE f : sums(f))[S]
  BY DEF TotalIncoming, MapThenSumSet, MapThenFoldSet
<1>3. \E f : sums(f)
  <2>1. \E f : Sums(People(log, S), S, f)
    BY SumsExist
  <2> HIDE DEF sums
  <2> QED  BY <1>1, <2>1
<1> HIDE DEF sums
<1>4. sums(CHOOSE f : sums(f))
  BY <1>3, Zenon
<1> QED  BY <1>1, <1>2, <1>4

(* The fans an event brings are counted.                                   *)
LEMMA IncomingIsNat ==
    ASSUME NEW event \in Event
    PROVE  IncomingCount(event) \in Nat
BY DEF Event, IncomingCount

LEMMA TotalIsNat ==
    ASSUME NEW log \in Seq(Event), NEW S \in SUBSET DOMAIN log, IsFiniteSet(S)
    PROVE  TotalIncoming(log, S) \in Nat
<1>1. PICK f : Sums(People(log, S), S, f) /\ TotalIncoming(log, S) = f[S]
  BY TotalIsSum
<1>2. \A x \in S : People(log, S)[x] \in Nat
  <2>1. \A x \in S : log[x] \in Event
    OBVIOUS
  <2> QED  BY <2>1, IncomingIsNat DEF People
<1>3. \A s \in SUBSET S : f[s] \in Nat
  BY <1>1, <1>2, SumIsNat
<1> QED  BY <1>1, <1>3

(* The total depends on the events of the set alone, and one more event    *)
(* adds its people.                                                        *)
LEMMA TotalOfSame ==
    ASSUME NEW log, NEW longer, NEW S, IsFiniteSet(S), \A x \in S : longer[x] = log[x]
    PROVE  TotalIncoming(longer, S) = TotalIncoming(log, S)
<1>1. PICK f : Sums(People(log, S), S, f) /\ TotalIncoming(log, S) = f[S]
  BY TotalIsSum
<1>2. PICK g : Sums(People(longer, S), S, g) /\ TotalIncoming(longer, S) = g[S]
  BY TotalIsSum
<1>3. \A x \in S : People(longer, S)[x] = People(log, S)[x]
  BY DEF People
<1>4. g[S] = f[S]
  BY <1>1, <1>2, <1>3, SumsAgree
<1> QED  BY <1>1, <1>2, <1>4

LEMMA TotalOfMore ==
    ASSUME NEW log \in Seq(Event), NEW S \in SUBSET DOMAIN log, IsFiniteSet(S),
           NEW x \in DOMAIN log, x \notin S
    PROVE  TotalIncoming(log, S \cup {x}) = IncomingCount(log[x]) + TotalIncoming(log, S)
<1>0. PICK T : T = S \cup {x}
  OBVIOUS
<1>1. IsFiniteSet(T) /\ T \in SUBSET DOMAIN log /\ T \ {x} = S /\ x \in T
  BY <1>0, FS_AddElement
<1>2. PICK f : Sums(People(log, T), T, f) /\ TotalIncoming(log, T) = f[T]
  BY <1>1, TotalIsSum
<1>3. PICK g : Sums(People(log, S), S, g) /\ TotalIncoming(log, S) = g[S]
  BY TotalIsSum
<1>4. \A y \in T : People(log, T)[y] = IncomingCount(log[y]) /\ People(log, T)[y] \in Nat
  <2>1. \A y \in T : log[y] \in Event
    BY <1>1
  <2> QED  BY <2>1, IncomingIsNat DEF People
<1>5. f[T] = People(log, T)[x] + f[T \ {x}]
  <2>1. PICK v : v = People(log, T)
    OBVIOUS
  <2>2. Sums(v, T, f) /\ IsFiniteSet(T) /\ \A y \in T : v[y] \in Nat
    BY <1>1, <1>2, <1>4, <2>1
  <2>3. Sums(v, T, f) /\ IsFiniteSet(T)
    BY <2>2
  <2>4. Weights(v, T)
    BY <2>2 DEF Weights
  <2>5. AnyFirst(v, T, f)
    BY <2>3, <2>4, SumTakesAny
  <2> QED  BY <1>1, <2>1, <2>5 DEF AnyFirst
<1>6. S \subseteq T /\ \A y \in S : People(log, T)[y] = People(log, S)[y]
  <2>1. S \subseteq T
    BY <1>1
  <2> QED  BY <2>1 DEF People
<1>7. f[S] = g[S]
  BY <1>2, <1>3, <1>6, SumsAgree
<1> QED  BY <1>1, <1>2, <1>3, <1>4, <1>5, <1>7, <1>0

-----------------------------------------------------------------------------
(* The score of a total: rounding, growth and both clamps keep it in       *)
(* bounds and never turn more people into a lower score.                   *)
LEMMA RoundedGrows ==
    ASSUME NEW a \in Nat, NEW b \in Nat, NEW d \in Nat \ {0}, a <= b
    PROVE  Rounded(a, d) \in Nat /\ Rounded(a, d) <= Rounded(b, d)
BY DEF Rounded

LEMMA ThresholdIsPositive == Threshold \in Nat \ {0}
BY CapacityAssumption DEF Threshold

LEMMA PredictedGrows ==
    ASSUME NEW a \in Nat, NEW b \in Nat, NEW o \in Offsets, a <= b
    PROVE  /\ PredictedScore(a, o) \in Score
           /\ PredictedScore(a, o) <= PredictedScore(b, o)
<1>1. PICK t \in Nat \ {0} : t = Threshold
  BY ThresholdIsPositive
<1>2. PICK k \in Nat : k = GrowthFactor(o)
  BY DEF GrowthFactor, Offsets
<1> DEFINE base(x) == IF x > t THEN t ELSE x
<1>3. PICK x \in Nat, y \in Nat : x = base(a) /\ y = base(b)
  OBVIOUS
<1>4. x <= y
  BY <1>3
<1>5. 100 * x * k \in Nat /\ 100 * y * k \in Nat /\ 100 * x * k <= 100 * y * k
  BY <1>4
<1>6. 100 * t \in Nat \ {0}
  OBVIOUS
<1>7. PICK p \in Nat, q \in Nat :
          p = Rounded(100 * x * k, 100 * t) /\ q = Rounded(100 * y * k, 100 * t)
  BY <1>5, <1>6, RoundedGrows
<1>8. p <= q
  BY <1>5, <1>6, <1>7, RoundedGrows
<1>9. PredictedScore(a, o) = Clamp(p) /\ PredictedScore(b, o) = Clamp(q)
  BY <1>1, <1>2, <1>3, <1>7 DEF PredictedScore
<1> QED  BY <1>8, <1>9 DEF Clamp, Score

-----------------------------------------------------------------------------
(* A body with an issue has a first one: the error names a field.          *)
LEMMA FirstIssue ==
    ASSUME NEW body \in Bodies, Issues(body) # {}
    PROVE  ParseError(body) \in ValidationError
<1>1. /\ body.source \in Source
      /\ body.malformed \subseteq Field
      /\ body.absent \subseteq Field
  BY BodiesAssumption DEF Body
<1>2. Issues(body) \subseteq Field
  BY <1>1 DEF Issues
<1>3. \A f \in Field : FieldOrder[f] \in Nat
  BY DEF Field, FieldOrder
<1> DEFINE Orders == {FieldOrder[f] : f \in Issues(body)}
<1>4. Orders \in SUBSET Nat /\ Orders # {}
  BY <1>2, <1>3
<1>5. \E m \in Orders : \A k \in Orders : <<k, m>> \notin OpToRel(<, Nat)
  <2> HIDE DEF Orders
  <2> QED  BY <1>4, NatLessThanWellFounded, WFMin, Zenon
<1>6. PICK m \in Orders : \A k \in Orders : m <= k
  <2>1. PICK m \in Orders : \A k \in Orders : <<k, m>> \notin OpToRel(<, Nat)
    BY <1>5
  <2>2. \A k \in Orders : m \in Nat /\ k \in Nat
    BY <1>4
  <2>3. \A k \in Orders : ~(k < m)
    BY <2>1, <2>2 DEF OpToRel
  <2> HIDE DEF Orders
  <2> QED  BY <2>2, <2>3
<1>7. PICK f \in Issues(body) : FieldOrder[f] = m
  BY <1>6
<1>8. \A g \in Issues(body) : FieldOrder[f] <= FieldOrder[g]
  BY <1>6, <1>7
<1>9. OffendingField(body) \in Field
  <2> DEFINE first(x) == \A g \in Issues(body) : FieldOrder[x] <= FieldOrder[g]
  <2>1. (CHOOSE x \in Issues(body) : first(x)) \in Issues(body)
    <3>1. first(f)
      BY <1>8
    <3> HIDE DEF first
    <3> QED  BY <1>7, <3>1, Zenon
  <2>2. \/ OffendingField(body) = "source"
        \/ OffendingField(body) = CHOOSE x \in Issues(body) : first(x)
    BY DEF OffendingField
  <2> HIDE DEF first
  <2>3. "source" \in Field
    BY DEF Field
  <2> QED  BY <1>2, <2>1, <2>2, <2>3
<1>10. (IF "source" \in Issues(body) THEN "UNKNOWN" ELSE body.source)
          \in Source \cup {"UNKNOWN"}
  BY <1>1
<1> QED  BY <1>9, <1>10 DEF ParseError, ValidationError

LEMMA ForecastIsTyped ==
    ASSUME NEW log \in Seq(Event), NEW S \in SUBSET DOMAIN log, NEW time
    PROVE  ComputeForecast(log, S, time) \in [score : Score, lowConfidence : BOOLEAN]
<1>1. PICK T : T = Counted(log, S, time)
  OBVIOUS
<1>2. T \in SUBSET DOMAIN log
  BY <1>1 DEF Counted
<1>3. IsFiniteSet(T)
  <2>1. DOMAIN log = 1 .. Len(log) /\ Len(log) \in Nat
    OBVIOUS
  <2>2. IsFiniteSet(DOMAIN log)
    BY <2>1, FS_Interval
  <2> QED  BY <1>2, <2>2, FS_Subset
<1>4. PICK total \in Nat : total = TotalIncoming(log, T)
  BY <1>2, <1>3, TotalIsNat
<1>5. PredictedScore(total, 0) \in Score
  BY PredictedGrows DEF Offsets
<1>6. ComputeForecast(log, S, time)
         = [score |-> PredictedScore(total, 0), lowConfidence |-> T = {}]
  BY <1>1, <1>4 DEF ComputeForecast
<1> QED  BY <1>5, <1>6

(***************************************************************************)
(* The types of all variables.                                             *)
(***************************************************************************)
ForecastTypes ==
    /\ forecast \in [score : Score, lowConfidence : BOOLEAN]
    /\ dlq \in Seq(ValidationError)

LEMMA WindowInLog ==
    ASSUME IngestionInv
    PROVE  /\ window \subseteq DOMAIN received
           /\ received \in Seq(Event)
           /\ now \in Time
           /\ up \in BOOLEAN
BY DEF IngestionInv, Types, DroppedIsOld, OfGate

LEMMA ForecastTypesStep ==
    ASSUME IngestionInv, IngestionInv', ForecastTypes, [Next]_vars
    PROVE  ForecastTypes'
<1>1. /\ window \subseteq DOMAIN received
      /\ received \in Seq(Event)
  BY WindowInLog
<1>2. /\ window' \subseteq DOMAIN received'
      /\ received' \in Seq(Event)
  BY DEF IngestionInv, Types, DroppedIsOld, OfGate
<1>3. ASSUME NEW body \in Bodies, PostSignal(body)
      PROVE  ForecastTypes'
  <2>1. UNCHANGED dlq
    BY <1>3 DEF PostSignal
  <2>2. \/ UNCHANGED forecast
        \/ forecast' = ComputeForecast(received', window', now)
    BY <1>3 DEF PostSignal, OnSignalEvent, OnNobody
  <2>3. ComputeForecast(received', window', now)
           \in [score : Score, lowConfidence : BOOLEAN]
    BY <1>2, ForecastIsTyped
  <2> QED  BY <2>1, <2>2, <2>3 DEF ForecastTypes
<1>4. ASSUME NEW body \in Bodies, PostMalformed(body)
      PROVE  ForecastTypes'
  <2>1. UNCHANGED forecast /\ Issues(body) # {}
    BY <1>4 DEF PostMalformed
  <2>2. ParseError(body) \in ValidationError
    BY <2>1, FirstIssue
  <2>3. Append(dlq, ParseError(body)) \in Seq(ValidationError)
    BY <2>2, AppendProperties DEF ForecastTypes
  <2>4. dlq' = dlq \/ dlq' = Append(dlq, ParseError(body))
    BY <1>4 DEF PostMalformed
  <2> QED  BY <2>1, <2>3, <2>4 DEF ForecastTypes
<1>5. CASE ScheduledTick
  <2>1. UNCHANGED dlq /\ forecast' = ComputeForecast(received, window, now)
    BY <1>5 DEF ScheduledTick
  <2>2. ComputeForecast(received, window, now)
           \in [score : Score, lowConfidence : BOOLEAN]
    BY <1>1, ForecastIsTyped
  <2> QED  BY <2>1, <2>2 DEF ForecastTypes
<1>6. ASSUME UNCHANGED <<forecast, dlq>>
      PROVE  ForecastTypes'
  BY <1>6 DEF ForecastTypes
<1>7. CASE RedisAnswers
  BY <1>6, <1>7 DEF RedisAnswers, TouchServed, TouchFails, StatusesRead,
                    AllDegradedRead, StatusReadFails, intake
<1>8. CASE CheckDataQuality \/ Stop \/ Tick \/ UNCHANGED vars
  BY <1>6, <1>8 DEF CheckDataQuality, Stop, Tick, intake, vars
<1> QED  BY <1>3, <1>4, <1>5, <1>7, <1>8 DEF Next

LEMMA ForecastTypesHold == Spec => []ForecastTypes
<1>1. Init => ForecastTypes
  BY EmptySeq DEF Init, ForecastTypes, Score
<1>2. IngestionInv /\ IngestionInv' /\ ForecastTypes /\ [Next]_vars => ForecastTypes'
  BY ForecastTypesStep
<1> QED  BY <1>1, <1>2, IngestionInvHolds, PTL DEF Spec

(* Every variable keeps its type: the score of a forecast, rounded, grown  *)
(* and clamped, is within bounds (computeForecast), and the error recorded *)
(* of a malformed body names one of its fields (parseSignal).              *)
THEOREM IngestionTypes == Spec => []TypeOK
<1>1. IngestionInv /\ ForecastTypes => TypeOK
  BY WindowInLog DEF IngestionInv, Types, ForecastTypes, TypeOK
<1> QED  BY <1>1, IngestionInvHolds, ForecastTypesHold, PTL

(***************************************************************************)
(* A signal changes what is counted by itself at most: the window may be   *)
(* replaced by all events of the gate, before the signal and after it.     *)
(***************************************************************************)
CountedOfGate == Counted(received, OfGate, now)

LEMMA CountedStep ==
    ASSUME IngestionInv, NEW body \in Bodies, PostSignal(body), up,
           Classified(body).atGate
    PROVE  /\ DOMAIN received' = DOMAIN received \cup {Len(received')}
           /\ Len(received') \notin DOMAIN received
           /\ \A i \in DOMAIN received : received'[i] = received[i]
           /\ \/ CountedOfGate' = CountedOfGate
              \/ CountedOfGate' = CountedOfGate \cup {Len(received')}
<1>1. PICK event \in Event : event = Classified(body)
  BY WindowInLog, ClassifiedIsEvent
<1>2. /\ received' = Append(received, event)
      /\ now' = now
  BY <1>1 DEF PostSignal, OnSignalEvent
<1>3. received \in Seq(Event)
  BY WindowInLog
<1>4. PICK n : n = Len(received')
  OBVIOUS
<1>5. /\ DOMAIN received' = DOMAIN received \cup {n}
      /\ n \notin DOMAIN received
      /\ \A i \in DOMAIN received : received'[i] = received[i]
      /\ received'[n] = event
  BY <1>2, <1>3, <1>4, OneMoreRow
<1>6. OfGate' = OfGate \cup {n}
  <2>1. OfGate' = {i \in DOMAIN received' : received'[i].atGate}
    BY DEF OfGate
  <2> QED  BY <1>1, <1>5, <2>1 DEF OfGate
<1>7. \A i \in OfGate : Counts(received'[i], now') <=> Counts(received[i], now)
  BY <1>2, <1>5 DEF OfGate
<1>8. /\ CountedOfGate = {i \in OfGate : Counts(received[i], now)}
      /\ CountedOfGate' = {i \in OfGate' : Counts(received'[i], now')}
  BY DEF CountedOfGate, Counted
<1>9. CountedOfGate' = CountedOfGate \/ CountedOfGate' = CountedOfGate \cup {n}
  BY <1>6, <1>7, <1>8
<1> QED  BY <1>4, <1>5, <1>9

LEMMA NeverLowerStep ==
    ASSUME IngestionInv, IngestionInv', [Next]_vars, window' # window,
           NEW o \in Offsets
    PROVE  PredictedNow(o)' >= PredictedNow(o)
<1>1. PICK body \in Bodies : PostSignal(body) /\ up /\ Classified(body).atGate
  BY DEF Next, PostSignal, OnSignalEvent, OnNobody, PostMalformed, ScheduledTick,
         CheckDataQuality, RedisAnswers, TouchServed, TouchFails, StatusesRead,
         AllDegradedRead, StatusReadFails, Stop, Tick, intake, vars
<1>2. /\ Counted(received, window, now) = CountedOfGate
      /\ Counted(received, window, now)' = CountedOfGate'
  <2>1. WindowLosesNothing
    BY DroppedIsNotCounted DEF IngestionInv
  <2>2. WindowLosesNothing'
    BY DroppedIsNotCounted, PTL DEF IngestionInv
  <2> QED  BY <2>1, <2>2 DEF WindowLosesNothing, CountedOfGate
<1>3. PICK old \in Seq(Event), new \in Seq(Event) : old = received /\ new = received'
  BY WindowInLog DEF IngestionInv, Types
<1>4. PICK n : n = Len(new)
  OBVIOUS
<1>5. PICK S, T : S = CountedOfGate /\ T = CountedOfGate'
  OBVIOUS
<1>6. /\ DOMAIN new = DOMAIN old \cup {n}
      /\ n \notin DOMAIN old
      /\ \A i \in DOMAIN old : new[i] = old[i]
      /\ T = S \/ T = S \cup {n}
  BY <1>1, <1>3, <1>4, <1>5, CountedStep
<1>7. S \in SUBSET DOMAIN old /\ IsFiniteSet(S)
  <2>1. S \in SUBSET DOMAIN old
    BY <1>3, <1>5 DEF CountedOfGate, Counted, OfGate
  <2>2. DOMAIN old = 1 .. Len(old) /\ Len(old) \in Nat
    OBVIOUS
  <2>3. IsFiniteSet(DOMAIN old)
    BY <2>2, FS_Interval
  <2> QED  BY <2>1, <2>3, FS_Subset
<1>8. S \in SUBSET DOMAIN new /\ n \in DOMAIN new /\ n \notin S
  BY <1>6, <1>7
<1>9. PICK a \in Nat : a = TotalIncoming(old, S)
  BY <1>7, TotalIsNat
<1>10. a = TotalIncoming(new, S)
  <2>1. \A i \in S : new[i] = old[i]
    BY <1>6, <1>7
  <2> QED  BY <1>7, <1>9, <2>1, TotalOfSame
<1>11. PICK b \in Nat : b = TotalIncoming(new, T) /\ a <= b
  <2>1. CASE T = S
    BY <1>9, <1>10, <2>1
  <2>2. CASE T = S \cup {n}
    <3>1. TotalIncoming(new, T) = IncomingCount(new[n]) + a
      BY <1>7, <1>8, <1>10, <2>2, TotalOfMore
    <3>2. PICK c \in Nat : c = IncomingCount(new[n])
      <4>1. new[n] \in Event
        BY <1>8
      <4> QED  BY <4>1, IncomingIsNat
    <3> QED  BY <3>1, <3>2
  <2> QED  BY <1>6, <2>1, <2>2
<1>12. PredictedScore(a, o) \in Score /\ PredictedScore(a, o) <= PredictedScore(b, o)
  BY <1>11, PredictedGrows
<1>13. PredictedScore(b, o) \in Score
  BY <1>11, PredictedGrows
<1>14. /\ PredictedNow(o) = PredictedScore(a, o)
       /\ PredictedNow(o)' = PredictedScore(b, o)
  BY <1>2, <1>3, <1>5, <1>9, <1>11 DEF PredictedNow
<1> QED  BY <1>12, <1>13, <1>14 DEF Score

(* More signals never mean less congestion: when a signal comes, which     *)
(* prunes the window (appendToWindow), the score that computeForecast      *)
(* gives at any offset is no lower than just before.                       *)
THEOREM SignalsOnlyRaiseForecast == Spec => SignalsNeverLowerForecast
<1>1. IngestionInv /\ IngestionInv' /\ [Next]_vars
      => [window' # window => \A o \in Offsets : PredictedNow(o)' >= PredictedNow(o)]_vars
  BY NeverLowerStep
<1> QED  BY <1>1, IngestionInvHolds, PTL DEF Spec, SignalsNeverLowerForecast

-----------------------------------------------------------------------------
(***************************************************************************)
(* The ranking: the comparator of the sort is a strict total order of the  *)
(* four action types, so a type that outranks another has fewer above it.  *)
(***************************************************************************)
LEMMA SeenIsCounted ==
    ASSUME IngestionInv
    PROVE  Seen \in [Source -> Nat]
<1>1. IsFiniteSet(window)
  <2>1. window \in SUBSET DOMAIN received
    BY WindowInLog
  <2>2. DOMAIN received = 1 .. Len(received) /\ Len(received) \in Nat
    BY WindowInLog
  <2>3. IsFiniteSet(DOMAIN received)
    BY <2>2, FS_Interval
  <2> QED  BY <2>1, <2>3, FS_Subset
<1>2. \A s \in Source : Cardinality({i \in window : received[i].source = s}) \in Nat
  <2>1. \A T \in SUBSET window : Cardinality(T) \in Nat
    BY <1>1, FS_Subset, FS_CardinalityType
  <2> QED  BY <2>1
<1> QED  BY <1>2 DEF Seen

LEMMA ImpactIsInt ==
    ASSUME NEW type \in CandidateActionTypes, NEW score \in Score,
           NEW seen \in [Source -> Nat]
    PROVE  Impact(type, score, seen) \in Int
<1>1. PICK a \in Nat, b \in Nat, c \in Nat :
          /\ a = seen["GATE_COUNTER"]
          /\ b = seen["TICKET_SCANNER"]
          /\ c = seen["TRANSIT_FEED"]
  BY DEF Source
<1> QED  BY <1>1 DEF CandidateActionTypes, Impact, Score

LEMMA OutranksIsOrder ==
    ASSUME NEW score \in Score, NEW seen \in [Source -> Nat]
    PROVE  /\ \A a \in CandidateActionTypes : ~Outranks(a, a, score, seen)
           /\ \A a, b \in CandidateActionTypes :
                 a # b => Outranks(a, b, score, seen) \/ Outranks(b, a, score, seen)
           /\ \A a, b, c \in CandidateActionTypes :
                 Outranks(a, b, score, seen) /\ Outranks(b, c, score, seen)
                 => Outranks(a, c, score, seen)
<1>1. \A a \in CandidateActionTypes : Impact(a, score, seen) \in Int
  BY ImpactIsInt
<1>2. \A a \in CandidateActionTypes : NameOrder[a] \in Int
  BY DEF CandidateActionTypes, NameOrder
<1>3. \A a, b \in CandidateActionTypes : a # b => NameOrder[a] # NameOrder[b]
  BY DEF CandidateActionTypes, NameOrder
<1>4. PICK f \in [CandidateActionTypes -> Int] :
          \A a \in CandidateActionTypes : f[a] = Impact(a, score, seen)
  <2>1. [a \in CandidateActionTypes |-> Impact(a, score, seen)]
           \in [CandidateActionTypes -> Int]
    BY <1>1
  <2> QED  BY <2>1
<1>5. \A a, b \in CandidateActionTypes :
          Outranks(a, b, score, seen)
          <=> f[a] > f[b] \/ (f[a] = f[b] /\ NameOrder[a] < NameOrder[b])
  BY <1>4 DEF Outranks
<1>6. \A a \in CandidateActionTypes : f[a] \in Int
  BY <1>4
<1>7. \A a \in CandidateActionTypes : ~Outranks(a, a, score, seen)
  BY <1>2, <1>5, <1>6
<1>8. \A a, b \in CandidateActionTypes :
          a # b => Outranks(a, b, score, seen) \/ Outranks(b, a, score, seen)
  BY <1>2, <1>3, <1>5, <1>6
<1>9. \A a, b, c \in CandidateActionTypes :
          Outranks(a, b, score, seen) /\ Outranks(b, c, score, seen)
          => Outranks(a, c, score, seen)
  BY <1>2, <1>5, <1>6
<1> QED  BY <1>7, <1>8, <1>9

(* Those that outrank a type, and its rank.                                *)
Above(type, score, seen) == {b \in CandidateActionTypes : Outranks(b, type, score, seen)}
RankOf(type, score, seen) == 1 + Cardinality(Above(type, score, seen))

LEMMA FourTypes ==
    /\ IsFiniteSet(CandidateActionTypes)
    /\ Cardinality(CandidateActionTypes) = 4
<1> DEFINE one == {} \cup {"OPEN_GATE_LANE"}
           two == one \cup {"REDIRECT_SHUTTLE_ROUTE"}
           three == two \cup {"HOLD_TRANSIT_ARRIVAL"}
           four == three \cup {"FAN_NUDGE_CAMPAIGN"}
<1>1. IsFiniteSet({}) /\ Cardinality({}) = 0
  BY FS_EmptySet
<1>2. IsFiniteSet(one) /\ Cardinality(one) = 1
  BY <1>1, FS_AddElement
<1>3. "REDIRECT_SHUTTLE_ROUTE" \notin one
  OBVIOUS
<1>4. IsFiniteSet(two) /\ Cardinality(two) = 2
  <2> HIDE DEF one
  <2> QED  BY <1>2, <1>3, FS_AddElement
<1>5. "HOLD_TRANSIT_ARRIVAL" \notin two
  OBVIOUS
<1>6. IsFiniteSet(three) /\ Cardinality(three) = 3
  <2> HIDE DEF one, two
  <2> QED  BY <1>4, <1>5, FS_AddElement
<1>7. "FAN_NUDGE_CAMPAIGN" \notin three
  OBVIOUS
<1>8. IsFiniteSet(four) /\ Cardinality(four) = 4
  <2> HIDE DEF one, two, three
  <2> QED  BY <1>6, <1>7, FS_AddElement
<1>9. four = CandidateActionTypes
  BY DEF CandidateActionTypes
<1> HIDE DEF four
<1> QED  BY <1>8, <1>9

LEMMA RanksAreBounded ==
    ASSUME NEW score \in Score, NEW seen \in [Source -> Nat],
           NEW type \in CandidateActionTypes
    PROVE  RankOf(type, score, seen) \in 1 .. 4
<1>1. PICK S : S = Above(type, score, seen)
  OBVIOUS
<1>2. S \in SUBSET CandidateActionTypes /\ type \notin S
  BY <1>1, OutranksIsOrder DEF Above
<1>3. IsFiniteSet(S) /\ Cardinality(S) <= 4 /\ Cardinality(S) # 4
  BY <1>2, FourTypes, FS_Subset
<1>4. Cardinality(S) \in Nat
  BY <1>3, FS_CardinalityType
<1>5. PICK k \in Nat : k = Cardinality(S)
  BY <1>4
<1>6. k <= 4 /\ k # 4
  BY <1>3, <1>5
<1>7. RankOf(type, score, seen) = 1 + k
  BY <1>1, <1>5 DEF RankOf
<1> QED  BY <1>6, <1>7

LEMMA OutranksIsLower ==
    ASSUME NEW score \in Score, NEW seen \in [Source -> Nat],
           NEW a \in CandidateActionTypes, NEW b \in CandidateActionTypes,
           Outranks(a, b, score, seen)
    PROVE  RankOf(a, score, seen) < RankOf(b, score, seen)
<1>1. PICK S, T : S = Above(a, score, seen) /\ T = Above(b, score, seen)
  OBVIOUS
<1>2. T \in SUBSET CandidateActionTypes
  BY <1>1 DEF Above
<1>3. S \in SUBSET T
  <2>1. \A c \in CandidateActionTypes :
            Outranks(c, a, score, seen) => Outranks(c, b, score, seen)
    BY OutranksIsOrder
  <2> QED  BY <1>1, <2>1 DEF Above
<1>4. a \in T /\ a \notin S
  BY <1>1, OutranksIsOrder DEF Above
<1>5. IsFiniteSet(T) /\ IsFiniteSet(S)
  BY <1>2, <1>3, FourTypes, FS_Subset
<1>6. Cardinality(S) <= Cardinality(T) /\ Cardinality(S) # Cardinality(T)
  <2>1. S # T
    BY <1>4
  <2> QED  BY <1>3, <1>5, <2>1, FS_Subset
<1>7. PICK k \in Nat, l \in Nat : k = Cardinality(S) /\ l = Cardinality(T)
  BY <1>5, FS_CardinalityType
<1>8. k < l
  BY <1>6, <1>7
<1>9. RankOf(a, score, seen) = 1 + k /\ RankOf(b, score, seen) = 1 + l
  BY <1>1, <1>7 DEF RankOf
<1> QED  BY <1>8, <1>9

(* Four different numbers from 1 to 4 are all of them.                     *)
LEMMA RanksFillUp ==
    ASSUME NEW score \in Score, NEW seen \in [Source -> Nat]
    PROVE  {RankOf(a, score, seen) : a \in CandidateActionTypes} = 1 .. 4
<1>1. \A a \in CandidateActionTypes : RankOf(a, score, seen) \in 1 .. 4
  BY RanksAreBounded
<1>2. \A a, b \in CandidateActionTypes :
          a # b => RankOf(a, score, seen) # RankOf(b, score, seen)
  <2>1. ASSUME NEW a \in CandidateActionTypes, NEW b \in CandidateActionTypes, a # b
        PROVE  RankOf(a, score, seen) # RankOf(b, score, seen)
    <3>1. RankOf(a, score, seen) < RankOf(b, score, seen)
             \/ RankOf(b, score, seen) < RankOf(a, score, seen)
      BY <2>1, OutranksIsOrder, OutranksIsLower
    <3>2. RankOf(a, score, seen) \in 1 .. 4 /\ RankOf(b, score, seen) \in 1 .. 4
      BY <1>1
    <3> QED  BY <3>1, <3>2
  <2> QED  BY <2>1
<1>3. PICK p \in 1 .. 4, q \in 1 .. 4, r \in 1 .. 4, s \in 1 .. 4 :
          /\ p = RankOf("OPEN_GATE_LANE", score, seen)
          /\ q = RankOf("REDIRECT_SHUTTLE_ROUTE", score, seen)
          /\ r = RankOf("HOLD_TRANSIT_ARRIVAL", score, seen)
          /\ s = RankOf("FAN_NUDGE_CAMPAIGN", score, seen)
  BY <1>1 DEF CandidateActionTypes
<1>4. p # q /\ p # r /\ p # s /\ q # r /\ q # s /\ r # s
  BY <1>2, <1>3 DEF CandidateActionTypes
<1>5. {p, q, r, s} = 1 .. 4
  BY <1>4
<1>6. {RankOf(a, score, seen) : a \in CandidateActionTypes} = {p, q, r, s}
  BY <1>3 DEF CandidateActionTypes
<1> QED  BY <1>5, <1>6

LEMMA RanksHold ==
    ASSUME IngestionInv, ForecastTypes
    PROVE  RanksArePermutation
<1>1. PICK score \in Score, seen \in [Source -> Nat] :
          score = forecast.score /\ seen = Seen
  BY SeenIsCounted DEF ForecastTypes
<1> DEFINE ranks == ActionRanks(score, seen)
<1>2. CASE DeriveRiskLevel(score) = "LOW"
  <2>1. DOMAIN ranks = {}
    BY <1>2 DEF ActionRanks
  <2>2. PICK types : types = DOMAIN ranks
    OBVIOUS
  <2>3. types = {} /\ Cardinality(types) = 0
    BY <2>1, <2>2, FS_EmptySet
  <2>4. {ranks[a] : a \in types} = 1 .. Cardinality(types)
    BY <2>3
  <2> HIDE DEF ranks
  <2> QED  BY <1>1, <2>2, <2>3, <2>4 DEF RanksArePermutation, ranks
<1>3. CASE DeriveRiskLevel(score) # "LOW"
  <2>1. DOMAIN ranks = CandidateActionTypes
    BY <1>3 DEF ActionRanks
  <2>2. \A a \in CandidateActionTypes : ranks[a] = RankOf(a, score, seen)
    BY <1>3 DEF ActionRanks, RankOf, Above
  <2>3. {ranks[a] : a \in CandidateActionTypes} = 1 .. 4
    BY <2>2, RanksFillUp
  <2>4. ASSUME NEW a \in CandidateActionTypes, NEW b \in CandidateActionTypes,
               ranks[a] < ranks[b]
        PROVE  Impact(a, score, seen) >= Impact(b, score, seen)
    <3>1. RankOf(a, score, seen) < RankOf(b, score, seen)
      BY <2>2, <2>4
    <3>2. RankOf(a, score, seen) \in 1 .. 4 /\ RankOf(b, score, seen) \in 1 .. 4
      BY RanksAreBounded
    <3>3. ~Outranks(b, a, score, seen)
      BY <3>1, <3>2, OutranksIsLower
    <3>4. Impact(a, score, seen) \in Int /\ Impact(b, score, seen) \in Int
      BY ImpactIsInt
    <3> QED  BY <3>3, <3>4 DEF Outranks
  <2> HIDE DEF ranks
  <2> QED  BY <1>1, <2>1, <2>3, <2>4, FourTypes DEF RanksArePermutation, ranks
<1> QED  BY <1>2, <1>3

(* The recommendations of any forecast are ranked 1, 2, 3, ... without     *)
(* ties or gaps, and never against their impact (generateRecommendations). *)
THEOREM RanksHaveNoGaps == Spec => []RanksArePermutation
<1>1. IngestionInv /\ ForecastTypes => RanksArePermutation
  BY RanksHold
<1> QED  BY <1>1, IngestionInvHolds, ForecastTypesHold, PTL
=============================================================================
