------------------------ MODULE SignalIngestionProofs ------------------------
(***************************************************************************)
(* Theorems about SignalIngestion, for any bodies, timeouts, thresholds    *)
(* and bounds.  The value of the forecast does not occur in them: it is    *)
(* the subject of ForecastProofs, which builds on them.                    *)
(***************************************************************************)
EXTENDS SignalIngestion, SequenceTheorems, FiniteSetTheorems, FunctionTheorems,
        TLAPS

(* The type of what the theorems are about.                                *)
Errors == {ParseError(b) : b \in Bodies}
Types ==
    /\ now \in Time
    /\ up \in BOOLEAN
    /\ received \in Seq(Event)
    /\ dlq \in Seq(Errors)
    /\ timers \in [Source -> Nat]
    /\ commands \in Seq(Command)
    /\ answers \in [accepted : Nat, rejected : Nat, unavailable : Nat]
    /\ degraded \in BOOLEAN
    /\ alert \subseteq [readAt : Time, raisedAt : Time]
    /\ unheard \in Nat
    /\ heard \subseteq [source : Source, at : Time]

(* What pruning has dropped is too old to count, now and later.            *)
DroppedIsOld ==
    /\ window \subseteq OfGate
    /\ \A i \in OfGate \ window : received[i].timestamp < now - Retention

(* Every timer outlasts what was heard of its source.                      *)
HeardKeepsTimer ==
    \A h \in heard : /\ h.at <= now
                     /\ h.at + SourceTimeout[h.source] <= timers[h.source]

(* A check whose statuses have been read: they were right at that time,    *)
(* and still are unless a signal has been heard since.                     *)
StatusesWereRight ==
    \A i \in DOMAIN commands : commands[i].kind = "allDegraded" =>
        /\ commands[i].readAt <= now
        /\ \A h \in heard :
              h.source \in commands[i].statuses /\ h.at < commands[i].readAt
              => h.at + SourceTimeout[h.source] <= commands[i].readAt
        /\ \/ \A s \in commands[i].statuses : timers[s] <= now
           \/ \E h \in heard : commands[i].readAt <= h.at

AlertIsPast == \A a \in alert : a.readAt <= a.raisedAt /\ a.raisedAt <= now

LEMMA InitTypes == Init => Types
  <1> SUFFICES ASSUME Init PROVE Types
    OBVIOUS
  <1>1. dlq \in Seq(Errors)
    BY EmptySeq DEF Init
  <1>2. received \in Seq(Event) /\ commands \in Seq(Command)
    BY EmptySeq DEF Init
  <1>3. timers \in [Source -> Nat] /\ now \in Time
    BY BoundsAssumption DEF Init, Time
  <1>4. answers \in [accepted : Nat, rejected : Nat, unavailable : Nat]
    BY DEF Init
  <1>5. up \in BOOLEAN /\ degraded \in BOOLEAN /\ unheard \in Nat
    BY DEF Init
  <1>6. /\ alert \subseteq [readAt : Time, raisedAt : Time]
        /\ heard \subseteq [source : Source, at : Time]
    BY DEF Init
  <1> QED
    BY <1>1, <1>2, <1>3, <1>4, <1>5, <1>6 DEF Types

(* What clients post becomes an event.                                     *)
LEMMA ClassifiedIsEvent ==
    ASSUME NEW body \in Bodies, now \in Time
    PROVE  Classified(body) \in Event
  <1>1. body \in Body
    BY BodiesAssumption
  <1>2. /\ body.source \in Source
        /\ body.delay \in Int
        /\ body.transit \in Int
        /\ body.count \in Nat
    BY <1>1 DEF Body
  <1> QED
    BY <1>2, ThresholdsAssumption DEF Classified, Event, Time

LEMMA TouchIsCommand ==
    ASSUME NEW body \in Bodies
    PROVE  Touch(body) \in Command
  <1>1. body \in Body
    BY BodiesAssumption
  <1> QED
    BY <1>1 DEF Body, Touch, Command

(* The command at the head of the queue, by its kind.                      *)
LEMMA HeadIsCommand ==
    ASSUME commands \in Seq(Command), commands # <<>>
    PROVE  /\ Head(commands) \in Command
           /\ Tail(commands) \in Seq(Command)
           /\ Head(commands) = commands[1]
           /\ 1 \in DOMAIN commands
  BY HeadTailProperties, EmptySeq

LEMMA ServedIsTyped ==
    ASSUME commands \in Seq(Command), NEW kind, Serving(kind)
    PROVE  /\ Tail(commands) \in Seq(Command)
           /\ kind = "touch" => Head(commands).source \in Source
           /\ kind = "allDegraded" => Head(commands).readAt \in Time
  <1>1. Head(commands) \in Command /\ Tail(commands) \in Seq(Command)
    BY HeadIsCommand DEF Serving
  <1>2. Head(commands).kind = kind
    BY DEF Serving
  <1> QED
    BY <1>1, <1>2 DEF Command

(* Serving a SET, applied or not.                                          *)
LEMMA RefreshedIsTyped ==
    ASSUME Types, NEW source \in Source, Refreshed(source)
    PROVE  /\ timers' \in [Source -> Nat]
           /\ heard' \subseteq [source : Source, at : Time]
  <1>1. now + SourceTimeout[source] \in Nat
    BY TimeoutAssumption DEF Types, Time
  <1>2. timers' \in [Source -> Nat]
    BY <1>1 DEF Types, Refreshed
  <1>3. [source |-> source, at |-> now] \in [source : Source, at : Time]
    BY DEF Types
  <1> QED
    BY <1>2, <1>3 DEF Types, Refreshed

(* One more answer of a kind.                                              *)
AnswerCounts == [accepted : Nat, rejected : Nat, unavailable : Nat]

LEMMA OneMoreAnswer ==
    ASSUME NEW counts \in AnswerCounts
    PROVE  /\ [counts EXCEPT !.accepted = @ + 1] \in AnswerCounts
           /\ [counts EXCEPT !.rejected = @ + 1] \in AnswerCounts
           /\ [counts EXCEPT !.unavailable = @ + 1] \in AnswerCounts
  <1>1. [counts EXCEPT !.accepted = @ + 1] \in AnswerCounts
    BY DEF AnswerCounts
  <1>2. [counts EXCEPT !.rejected = @ + 1] \in AnswerCounts
    BY DEF AnswerCounts
  <1>3. [counts EXCEPT !.unavailable = @ + 1] \in AnswerCounts
    BY DEF AnswerCounts
  <1> QED
    BY <1>1, <1>2, <1>3

LEMMA TypesStep == Types /\ [Next]_vars => Types'
  <1> SUFFICES ASSUME Types, [Next]_vars PROVE Types'
    OBVIOUS
  <1>1. ASSUME NEW body \in Bodies, PostSignal(body)
        PROVE  Types'
    <2>1. received' \in Seq(Event) /\ unheard' \in Nat
      <3>1. CASE up
        <4>1. received' = Append(received, Classified(body)) /\ unheard' = unheard
          BY <1>1, <3>1 DEF PostSignal, OnSignalEvent
        <4> QED
          BY <4>1, ClassifiedIsEvent, AppendProperties DEF Types
      <3>2. CASE ~up
        BY <1>1, <3>2 DEF PostSignal, OnNobody, Types
      <3> QED
        BY <3>1, <3>2
    <2>2. commands' \in Seq(Command)
      <3>1. Append(commands, Touch(body)) \in Seq(Command)
        BY TouchIsCommand, AppendProperties DEF Types
      <3> QED
        BY <1>1, <3>1 DEF PostSignal, Types
    <2>3. answers' \in [accepted : Nat, rejected : Nat, unavailable : Nat]
      <3>1. answers' = answers \/ answers' = [answers EXCEPT !.accepted = @ + 1]
        BY <1>1 DEF PostSignal
      <3>2. answers \in AnswerCounts
        BY DEF Types, AnswerCounts
      <3> QED
        BY <3>1, <3>2, OneMoreAnswer DEF AnswerCounts
    <2> QED
      BY <1>1, <2>1, <2>2, <2>3 DEF PostSignal, sourceHealth, Types
  <1>2. ASSUME NEW body \in Bodies, PostMalformed(body)
        PROVE  Types'
    <2>1. dlq' \in Seq(Errors)
      <3>1. ParseError(body) \in Errors
        BY DEF Errors
      <3> QED
        BY <1>2, <3>1, AppendProperties DEF PostMalformed, Types
    <2>2. answers' \in [accepted : Nat, rejected : Nat, unavailable : Nat]
      <3>1. answers' = [answers EXCEPT !.rejected = @ + 1]
        BY <1>2 DEF PostMalformed
      <3>2. answers \in AnswerCounts
        BY DEF Types, AnswerCounts
      <3> QED
        BY <3>1, <3>2, OneMoreAnswer DEF AnswerCounts
    <2> QED
      BY <1>2, <2>1, <2>2 DEF PostMalformed, sourceHealth, Types
  <1>3. CASE ScheduledTick
    BY <1>3 DEF ScheduledTick, sourceHealth, Types
  <1>4. CASE CheckDataQuality
    <2>1. [kind |-> "statuses"] \in Command
      BY DEF Command
    <2>2. commands' \in Seq(Command)
      BY <1>4, <2>1, AppendProperties DEF CheckDataQuality, Types
    <2> QED
      BY <1>4, <2>2 DEF CheckDataQuality, intake, sourceHealth, Types
  <1>5. CASE TouchServed
    <2>1. /\ Tail(commands) \in Seq(Command)
          /\ Head(commands).source \in Source
      BY <1>5, ServedIsTyped DEF TouchServed, Types
    <2>2. /\ timers' \in [Source -> Nat]
          /\ heard' \subseteq [source : Source, at : Time]
      BY <1>5, <2>1, RefreshedIsTyped DEF TouchServed, Types
    <2>3. answers' \in [accepted : Nat, rejected : Nat, unavailable : Nat]
      <3>1. answers' = [answers EXCEPT !.accepted = @ + 1]
        BY <1>5 DEF TouchServed
      <3>2. answers \in AnswerCounts
        BY DEF Types, AnswerCounts
      <3> QED
        BY <3>1, <3>2, OneMoreAnswer DEF AnswerCounts
    <2> QED
      BY <1>5, <2>1, <2>2, <2>3 DEF TouchServed, Types
  <1>6. CASE TouchFails
    <2>1. /\ Tail(commands) \in Seq(Command)
          /\ Head(commands).source \in Source
      BY <1>6, ServedIsTyped DEF TouchFails, Types
    <2>2. /\ timers' \in [Source -> Nat]
          /\ heard' \subseteq [source : Source, at : Time]
      BY <1>6, <2>1, RefreshedIsTyped DEF TouchFails, Types
    <2>3. answers' \in [accepted : Nat, rejected : Nat, unavailable : Nat]
      <3>1. answers' = [answers EXCEPT !.unavailable = @ + 1]
        BY <1>6 DEF TouchFails
      <3>2. answers \in AnswerCounts
        BY DEF Types, AnswerCounts
      <3> QED
        BY <3>1, <3>2, OneMoreAnswer DEF AnswerCounts
    <2> QED
      BY <1>6, <2>1, <2>2, <2>3 DEF TouchFails, Types
  <1>7. CASE StatusesRead
    <2> DEFINE check == [kind |-> "allDegraded", statuses |-> DegradedSources,
                         readAt |-> now]
    <2>1. Tail(commands) \in Seq(Command)
      BY <1>7, ServedIsTyped DEF StatusesRead, Types
    <2>2. check \in [kind : {"allDegraded"}, statuses : SUBSET Source, readAt : Time]
      BY DEF DegradedSources, Types
    <2>3. Append(Tail(commands), check) \in Seq(Command)
      BY <2>1, <2>2, AppendProperties DEF Command
    <2> QED
      BY <1>7, <2>3 DEF StatusesRead, intake, sourceHealth, Types
  <1>8. CASE AllDegradedRead
    <2>1. /\ Tail(commands) \in Seq(Command)
          /\ Head(commands).readAt \in Time
      BY <1>8, ServedIsTyped DEF AllDegradedRead, Types
    <2>2. degraded' \in BOOLEAN
      BY <1>8 DEF AllDegradedRead, FlagFrom
    <2>3. alert' \subseteq [readAt : Time, raisedAt : Time]
      BY <1>8, <2>1 DEF AllDegradedRead, Types
    <2> QED
      BY <1>8, <2>1, <2>2, <2>3 DEF AllDegradedRead, intake, Types
  <1>9. CASE StatusReadFails
    <2>1. Tail(commands) \in Seq(Command)
      BY <1>9, ServedIsTyped DEF StatusReadFails, Types
    <2> QED
      BY <1>9, <2>1 DEF StatusReadFails, intake, sourceHealth, Types
  <1>10. CASE Stop
    BY <1>10 DEF Stop, intake, sourceHealth, Types
  <1>11. CASE Tick
    BY <1>11, BoundsAssumption DEF Tick, intake, sourceHealth, Types, Time
  <1>12. CASE UNCHANGED vars
    BY <1>12 DEF vars, Types
  <1> QED
    BY <1>1, <1>2, <1>3, <1>4, <1>5, <1>6, <1>7, <1>8, <1>9, <1>10, <1>11, <1>12
    DEF Next, RedisAnswers

(***************************************************************************)
(* Pruning.                                                                *)
(***************************************************************************)
LEMMA RowHasTimestamp ==
    ASSUME Types, NEW i \in OfGate
    PROVE  i \in DOMAIN received /\ received[i].timestamp \in Int
  <1>1. i \in DOMAIN received
    BY DEF OfGate
  <1>2. received \in Seq(Event)
    BY DEF Types
  <1>3. received[i] \in Event
    BY <1>1, <1>2
  <1> QED
    BY <1>1, <1>3 DEF Event

(* The log after one more event.                                           *)
LEMMA OneMoreRow ==
    ASSUME NEW log \in Seq(Event), NEW event \in Event
    PROVE  LET longer == Append(log, event)
           IN  /\ DOMAIN longer = DOMAIN log \cup {Len(longer)}
               /\ Len(longer) \notin DOMAIN log
               /\ \A i \in DOMAIN log : longer[i] = log[i]
               /\ longer[Len(longer)] = event
  <1> DEFINE longer == Append(log, event)
  <1>1. longer \in Seq(Event) /\ Len(longer) = Len(log) + 1
    BY AppendProperties
  <1>2. /\ \A i \in 1 .. Len(log) : longer[i] = log[i]
        /\ longer[Len(log) + 1] = event
    BY AppendProperties
  <1> HIDE DEF longer
  <1>3. /\ DOMAIN longer = 1 .. Len(longer)
        /\ DOMAIN log = 1 .. Len(log)
        /\ Len(log) \in Nat
    BY <1>1
  <1>4. /\ DOMAIN longer = DOMAIN log \cup {Len(longer)}
        /\ Len(longer) \notin DOMAIN log
        /\ \A i \in DOMAIN log : longer[i] = log[i]
        /\ longer[Len(longer)] = event
    BY <1>1, <1>2, <1>3
  <1> QED
    BY <1>4 DEF longer

LEMMA DroppedStep == Types /\ DroppedIsOld /\ [Next]_vars => DroppedIsOld'
  <1> SUFFICES ASSUME Types, DroppedIsOld, [Next]_vars PROVE DroppedIsOld'
    OBVIOUS
  <1>1. ASSUME NEW body \in Bodies, PostSignal(body), up
        PROVE  DroppedIsOld'
    <2> DEFINE event == Classified(body)
    <2>1. /\ received' = Append(received, event)
          /\ now' = now
          /\ window' = IF event.atGate
                        THEN Pruned(received', window) \cup {Len(received')}
                        ELSE window
      BY <1>1 DEF PostSignal, OnSignalEvent
    <2>2. event \in Event
      BY ClassifiedIsEvent DEF Types
    <2>3. /\ DOMAIN received' = DOMAIN received \cup {Len(received')}
          /\ \A i \in DOMAIN received : received'[i] = received[i]
          /\ received'[Len(received')] = event
          /\ Len(received') \notin DOMAIN received
      <3>1. received \in Seq(Event)
        BY DEF Types
      <3> HIDE DEF event
      <3> QED
        BY <2>1, <2>2, <3>1, OneMoreRow
    <2>4. \A i \in OfGate : i \in DOMAIN received /\ received[i].timestamp \in Int
      BY RowHasTimestamp
    <2>5. OfGate' = IF event.atGate THEN OfGate \cup {Len(received')} ELSE OfGate
      <3>1. \A i \in DOMAIN received' : i \in OfGate' <=> received'[i].atGate
        BY DEF OfGate
      <3>2. OfGate' \subseteq DOMAIN received' /\ OfGate \subseteq DOMAIN received
        BY DEF OfGate
      <3>3. \A i \in DOMAIN received : i \in OfGate <=> received[i].atGate
        BY DEF OfGate
      <3> QED
        BY <2>3, <3>1, <3>2, <3>3
    <2>6. window' \subseteq OfGate'
      <3>1. Pruned(received', window) \subseteq window
        BY DEF Pruned
      <3> QED
        BY <2>1, <2>5, <3>1 DEF DroppedIsOld
    <2>7. ASSUME NEW i \in OfGate' \ window'
          PROVE  received'[i].timestamp < now' - Retention
      <3>1. i \in OfGate /\ i \in DOMAIN received
        BY <2>1, <2>5 DEF OfGate
      <3>2. CASE i \notin window
        BY <2>1, <2>3, <3>1, <3>2 DEF DroppedIsOld
      <3>3. CASE i \in window
        <4>1. i \notin Pruned(received', window)
          BY <2>1, <3>3
        <4>2. ~(received'[i].timestamp >= now - Retention)
          BY <4>1, <3>3 DEF Pruned
        <4> QED
          BY <4>2, <2>1, <2>3, <2>4, <3>1, RetentionAssumption DEF Types, Time
      <3> QED
        BY <3>2, <3>3
    <2> QED
      BY <2>6, <2>7 DEF DroppedIsOld
  <1>2. ASSUME NEW body \in Bodies, PostSignal(body), ~up
        PROVE  DroppedIsOld'
    <2>1. UNCHANGED <<now, received, window>>
      BY <1>2 DEF PostSignal, OnNobody
    <2> QED
      BY <2>1 DEF DroppedIsOld, OfGate
  <1>3. CASE Tick
    <2>1. /\ UNCHANGED <<received, window>>
          /\ now' = now + 1
      BY <1>3 DEF Tick, intake
    <2>2. \A i \in OfGate : received[i].timestamp \in Int
      BY RowHasTimestamp
    <2>3. OfGate' = OfGate
      BY <2>1 DEF OfGate
    <2>4. \A i \in OfGate \ window : received[i].timestamp < now' - Retention
      BY <2>1, <2>2, RetentionAssumption DEF DroppedIsOld, Types, Time
    <2> QED
      BY <2>1, <2>3, <2>4 DEF DroppedIsOld
  <1>4. ASSUME UNCHANGED <<now, received, window>>
        PROVE  DroppedIsOld'
    BY <1>4 DEF DroppedIsOld, OfGate
  <1>5. ASSUME NEW body \in Bodies, PostMalformed(body)
        PROVE  DroppedIsOld'
    BY <1>4, <1>5 DEF PostMalformed
  <1>6. CASE RedisAnswers
    BY <1>4, <1>6 DEF RedisAnswers, TouchServed, TouchFails, StatusesRead,
                      AllDegradedRead, StatusReadFails, intake
  <1>7. CASE ScheduledTick \/ CheckDataQuality \/ Stop \/ UNCHANGED vars
    BY <1>4, <1>7 DEF ScheduledTick, CheckDataQuality, Stop, intake, vars
  <1> QED
    BY <1>1, <1>2, <1>3, <1>5, <1>6, <1>7 DEF Next

(* What is dropped from the window would not be counted: the retention is  *)
(* no shorter than the span a forecast looks at.                           *)
LEMMA DroppedIsNotCounted == Types /\ DroppedIsOld => WindowLosesNothing
  <1> SUFFICES ASSUME Types, DroppedIsOld PROVE WindowLosesNothing
    OBVIOUS
  <1>1. ASSUME NEW i \in OfGate, Counts(received[i], now)
        PROVE  i \in window
    <2>1. received[i].timestamp \in Int
      BY RowHasTimestamp
    <2>2. now - received[i].timestamp <= RecentWindow
      BY <1>1 DEF Counts
    <2>3. ~(received[i].timestamp < now - Retention)
      BY <2>1, <2>2, RetentionAssumption, RecentWindowAssumption DEF Types, Time
    <2> QED
      BY <2>3 DEF DroppedIsOld
  <1>2. window \subseteq OfGate
    BY DEF DroppedIsOld
  <1> QED
    BY <1>1, <1>2 DEF WindowLosesNothing, Counted

(***************************************************************************)
(* The timers and the two reads of a check.                                *)
(***************************************************************************)
AlertInv == HeardKeepsTimer /\ StatusesWereRight /\ AlertIsPast

(* Neither the reads nor what they led to change while the clock stands    *)
(* still and nothing is heard.                                             *)
LEMMA SameCommandsKeepAlertInv ==
    ASSUME AlertInv, UNCHANGED <<now, timers, heard, alert>>,
           \A i \in DOMAIN commands' : commands'[i].kind = "allDegraded" =>
               \E j \in DOMAIN commands : commands'[i] = commands[j]
    PROVE  AlertInv'
  <1>1. HeardKeepsTimer' /\ AlertIsPast'
    BY DEF AlertInv, HeardKeepsTimer, AlertIsPast
  <1>2. StatusesWereRight'
    <2> SUFFICES ASSUME NEW i \in DOMAIN commands', commands'[i].kind = "allDegraded"
                 PROVE  /\ commands'[i].readAt <= now'
                        /\ \A h \in heard' :
                              h.source \in commands'[i].statuses /\ h.at < commands'[i].readAt
                              => h.at + SourceTimeout[h.source] <= commands'[i].readAt
                        /\ \/ \A s \in commands'[i].statuses : timers'[s] <= now'
                           \/ \E h \in heard' : commands'[i].readAt <= h.at
      BY DEF StatusesWereRight
    <2>1. PICK j \in DOMAIN commands : commands'[i] = commands[j]
      OBVIOUS
    <2> QED
      BY <2>1 DEF AlertInv, StatusesWereRight
  <1> QED
    BY <1>1, <1>2 DEF AlertInv

(* The commands after the oldest one has been served.                      *)
LEMMA ServedRest ==
    ASSUME Types, commands # <<>>
    PROVE  /\ Head(commands) = commands[1]
           /\ 1 \in DOMAIN commands
           /\ \A i \in DOMAIN Tail(commands) :
                 /\ i + 1 \in DOMAIN commands
                 /\ Tail(commands)[i] = commands[i + 1]
  <1>1. commands \in Seq(Command)
    BY DEF Types
  <1>2. /\ Head(commands) = commands[1] /\ 1 \in DOMAIN commands
        /\ Len(commands) \in Nat /\ Len(commands) # 0
    BY <1>1, EmptySeq
  <1>3. /\ Tail(commands) \in Seq(Command)
        /\ Len(Tail(commands)) = Len(commands) - 1
        /\ \A i \in 1 .. Len(Tail(commands)) : Tail(commands)[i] = commands[i + 1]
    BY <1>1, HeadTailProperties
  <1>4. DOMAIN Tail(commands) = 1 .. Len(commands) - 1
    BY <1>3
  <1>5. DOMAIN commands = 1 .. Len(commands)
    BY <1>1
  <1> QED
    BY <1>2, <1>3, <1>4, <1>5

(* A later clock, or a source heard again, spoils no read.                 *)
LEMMA HearingKeepsAlertInv ==
    ASSUME Types, AlertInv, NEW source \in Source, Refreshed(source),
           UNCHANGED <<now, alert>>,
           \A i \in DOMAIN commands' : commands'[i].kind = "allDegraded" =>
               \E j \in DOMAIN commands : commands'[i] = commands[j]
    PROVE  AlertInv'
  <1> DEFINE new == [source |-> source, at |-> now]
  <1>1. /\ heard' = heard \cup {new}
        /\ timers' = [timers EXCEPT ![source] = now + SourceTimeout[source]]
    BY DEF Refreshed
  <1>2. timers \in [Source -> Nat] /\ now \in Nat
    BY DEF Types, Time
  <1>3. HeardKeepsTimer'
    <2> SUFFICES ASSUME NEW h \in heard'
                 PROVE  h.at <= now' /\ h.at + SourceTimeout[h.source] <= timers'[h.source]
      BY DEF HeardKeepsTimer
    <2>1. CASE h = new
      BY <1>1, <1>2, <2>1, TimeoutAssumption
    <2>2. CASE h \in heard
      <3>1. h.source \in Source /\ h.at \in Nat
        BY <2>2 DEF Types, Time
      <3>2. h.at <= now /\ h.at + SourceTimeout[h.source] <= timers[h.source]
        BY <2>2 DEF AlertInv, HeardKeepsTimer
      <3> QED
        BY <1>1, <1>2, <3>1, <3>2, TimeoutAssumption
    <2> QED
      BY <1>1, <2>1, <2>2
  <1>4. StatusesWereRight'
    <2> SUFFICES ASSUME NEW i \in DOMAIN commands', commands'[i].kind = "allDegraded"
                 PROVE  /\ commands'[i].readAt <= now'
                        /\ \A h \in heard' :
                              h.source \in commands'[i].statuses /\ h.at < commands'[i].readAt
                              => h.at + SourceTimeout[h.source] <= commands'[i].readAt
                        /\ \/ \A s \in commands'[i].statuses : timers'[s] <= now'
                           \/ \E h \in heard' : commands'[i].readAt <= h.at
      BY DEF StatusesWereRight
    <2>1. PICK j \in DOMAIN commands : commands'[i] = commands[j]
      OBVIOUS
    <2>2. /\ commands[j].readAt <= now
          /\ \A h \in heard :
                h.source \in commands[j].statuses /\ h.at < commands[j].readAt
                => h.at + SourceTimeout[h.source] <= commands[j].readAt
      BY <2>1 DEF AlertInv, StatusesWereRight
    <2>3. commands[j].readAt \in Nat
      <3>1. commands \in Seq(Command)
        BY DEF Types
      <3>2. commands[j] \in Command
        BY <3>1
      <3> QED
        BY <2>1, <3>2 DEF Command, Time
    <2>4. new.at = now /\ new \in heard'
      BY <1>1
    <2> HIDE DEF new
    <2>5. ASSUME NEW h \in heard', h.source \in commands[j].statuses, h.at < commands[j].readAt
          PROVE  h.at + SourceTimeout[h.source] <= commands[j].readAt
      <3>1. h # new
        BY <1>2, <2>2, <2>3, <2>4, <2>5
      <3> QED
        BY <1>1, <2>2, <2>5, <3>1
    <2> QED
      BY <2>1, <2>2, <2>4, <2>5
  <1>5. AlertIsPast'
    BY DEF AlertInv, AlertIsPast
  <1> QED
    BY <1>3, <1>4, <1>5 DEF AlertInv

LEMMA AlertInvStep == Types /\ AlertInv /\ [Next]_vars => AlertInv'
  <1> SUFFICES ASSUME Types, AlertInv, [Next]_vars PROVE AlertInv'
    OBVIOUS
  <1> DEFINE OldChecks ==
          \A i \in DOMAIN commands' : commands'[i].kind = "allDegraded" =>
              \E j \in DOMAIN commands : commands'[i] = commands[j]
  <1>1. ASSUME UNCHANGED commands
        PROVE  OldChecks
    BY <1>1
  <1>2. ASSUME commands # <<>>, commands' = Tail(commands)
        PROVE  OldChecks
    BY <1>2, ServedRest
  <1>3. ASSUME NEW command \in Command, command.kind # "allDegraded",
               commands' = Append(commands, command)
        PROVE  OldChecks
    <2>1. commands \in Seq(Command)
      BY DEF Types
    <2>2. \A i \in DOMAIN commands' :
              \/ i \in DOMAIN commands /\ commands'[i] = commands[i]
              \/ commands'[i] = command
      BY <1>3, <2>1, AppendProperties
    <2> QED
      BY <1>3, <2>2
  <1> HIDE DEF OldChecks
  <1>4. ASSUME OldChecks, UNCHANGED <<now, timers, heard, alert>>
        PROVE  AlertInv'
    BY <1>4, SameCommandsKeepAlertInv DEF OldChecks
  <1>5. ASSUME OldChecks, NEW source \in Source, Refreshed(source),
               UNCHANGED <<now, alert>>
        PROVE  AlertInv'
    BY <1>5, HearingKeepsAlertInv DEF OldChecks
  <1>6. ASSUME NEW body \in Bodies, PostSignal(body)
        PROVE  AlertInv'
    <2>1. Touch(body) \in Command /\ Touch(body).kind # "allDegraded"
      BY TouchIsCommand DEF Touch
    <2>2. commands' = Append(commands, Touch(body)) \/ UNCHANGED commands
      BY <1>6 DEF PostSignal
    <2>3. OldChecks
      BY <1>1, <1>3, <2>1, <2>2
    <2> QED
      BY <1>4, <1>6, <2>3 DEF PostSignal, sourceHealth
  <1>7. ASSUME NEW body \in Bodies, PostMalformed(body)
        PROVE  AlertInv'
    BY <1>1, <1>4, <1>7 DEF PostMalformed, sourceHealth
  <1>8. CASE ScheduledTick \/ Stop \/ UNCHANGED vars
    BY <1>1, <1>4, <1>8 DEF ScheduledTick, Stop, sourceHealth, vars
  <1>9. CASE CheckDataQuality
    <2>1. [kind |-> "statuses"] \in Command
      BY DEF Command
    <2>2. commands' = Append(commands, [kind |-> "statuses"])
      BY <1>9 DEF CheckDataQuality
    <2>3. OldChecks
      BY <1>3, <2>1, <2>2
    <2> QED
      BY <1>4, <1>9, <2>3 DEF CheckDataQuality, sourceHealth
  <1>10. CASE TouchServed \/ TouchFails
    <2>1. OldChecks
      BY <1>2, <1>10 DEF TouchServed, TouchFails, Serving
    <2>2. Head(commands).source \in Source
      BY <1>10, ServedIsTyped DEF Types, TouchServed, TouchFails
    <2>3. \/ UNCHANGED <<timers, heard>>
          \/ Refreshed(Head(commands).source)
      BY <1>10 DEF TouchServed, TouchFails
    <2>4. UNCHANGED <<now, alert>>
      BY <1>10 DEF TouchServed, TouchFails
    <2> QED
      BY <1>4, <1>5, <2>1, <2>2, <2>3, <2>4
  <1>11. CASE StatusesRead
    <2> DEFINE check == [kind |-> "allDegraded", statuses |-> DegradedSources,
                         readAt |-> now]
    <2>1. UNCHANGED <<now, timers, heard, alert>>
      BY <1>11 DEF StatusesRead, sourceHealth
    <2>2. Tail(commands) \in Seq(Command) /\ check \in Command
      <3>1. Tail(commands) \in Seq(Command)
        BY <1>11, ServedIsTyped DEF StatusesRead, Types
      <3>2. check \in [kind : {"allDegraded"}, statuses : SUBSET Source, readAt : Time]
        BY DEF DegradedSources, Types
      <3> QED
        BY <3>1, <3>2 DEF Command
    <2>3. commands' = Append(Tail(commands), check)
      BY <1>11 DEF StatusesRead
    <2>4. \A s \in check.statuses : s \in Source /\ timers[s] <= now
      BY DEF DegradedSources
    <2>5. check.readAt = now
      OBVIOUS
    <2> HIDE DEF check
    <2>6. \A i \in DOMAIN commands' :
              \/ i \in DOMAIN Tail(commands) /\ commands'[i] = Tail(commands)[i]
              \/ commands'[i] = check
      BY <2>2, <2>3, AppendProperties
    <2>7. \A i \in DOMAIN commands' :
              (\E j \in DOMAIN commands : commands'[i] = commands[j]) \/ commands'[i] = check
      BY <1>11, <2>6, ServedRest DEF StatusesRead, Serving
    <2>8. StatusesWereRight'
      <3> SUFFICES ASSUME NEW i \in DOMAIN commands', commands'[i].kind = "allDegraded"
                   PROVE  /\ commands'[i].readAt <= now'
                          /\ \A h \in heard' :
                                h.source \in commands'[i].statuses
                                /\ h.at < commands'[i].readAt
                                => h.at + SourceTimeout[h.source] <= commands'[i].readAt
                          /\ \/ \A s \in commands'[i].statuses : timers'[s] <= now'
                             \/ \E h \in heard' : commands'[i].readAt <= h.at
        BY DEF StatusesWereRight
      <3>1. CASE \E j \in DOMAIN commands : commands'[i] = commands[j]
        BY <2>1, <3>1 DEF AlertInv, StatusesWereRight
      <3>2. CASE commands'[i] = check
        <4>1. ASSUME NEW h \in heard, h.source \in check.statuses
              PROVE  h.at + SourceTimeout[h.source] <= now
          <5>1. h.at + SourceTimeout[h.source] <= timers[h.source]
            BY DEF AlertInv, HeardKeepsTimer
          <5>2. timers[h.source] <= now
            BY <2>4, <4>1
          <5>3. h.source \in Source /\ h.at \in Nat
            BY <4>1, <2>4 DEF Types, Time
          <5> QED
            BY <5>1, <5>2, <5>3, TimeoutAssumption DEF Types, Time
        <4>2. now <= now
          BY DEF Types, Time
        <4> QED
          BY <2>1, <2>4, <2>5, <3>2, <4>1, <4>2
      <3> QED
        BY <2>7, <3>1, <3>2
    <2> QED
      BY <2>1, <2>8 DEF AlertInv, HeardKeepsTimer, AlertIsPast
  <1>12. CASE AllDegradedRead
    <2>1. /\ UNCHANGED <<now, timers, heard>>
          /\ commands # <<>>
          /\ commands' = Tail(commands)
          /\ Head(commands).kind = "allDegraded"
          /\ alert' \subseteq {[readAt |-> Head(commands).readAt, raisedAt |-> now]}
      BY <1>12 DEF AllDegradedRead, Serving
    <2>2. OldChecks
      BY <1>2, <2>1
    <2>3. Head(commands).readAt <= now
      BY <2>1, ServedRest DEF AlertInv, StatusesWereRight
    <2>4. AlertIsPast'
      BY <2>1, <2>3 DEF AlertIsPast, Types, Time
    <2>5. HeardKeepsTimer' /\ StatusesWereRight'
      BY <2>1, <2>2 DEF AlertInv, HeardKeepsTimer, StatusesWereRight, OldChecks
    <2> QED
      BY <2>4, <2>5 DEF AlertInv
  <1>13. CASE StatusReadFails
    <2>1. OldChecks
      BY <1>2, <1>13 DEF StatusReadFails, Serving
    <2> QED
      BY <1>4, <1>13, <2>1 DEF StatusReadFails, sourceHealth
  <1>14. CASE Tick
    <2>1. /\ UNCHANGED <<commands, timers, heard, alert>>
          /\ now' = now + 1
          /\ now \in Nat
      BY <1>14 DEF Tick, sourceHealth, Types, Time
    <2>2. \A h \in heard : h.at \in Nat
      BY DEF Types, Time
    <2>3. HeardKeepsTimer'
      BY <2>1, <2>2 DEF AlertInv, HeardKeepsTimer
    <2>4. AlertIsPast'
      BY <2>1 DEF AlertInv, AlertIsPast, Types, Time
    <2>5. StatusesWereRight'
      <3> SUFFICES ASSUME NEW i \in DOMAIN commands, commands[i].kind = "allDegraded"
                   PROVE  /\ commands[i].readAt <= now + 1
                          /\ \A h \in heard :
                                h.source \in commands[i].statuses
                                /\ h.at < commands[i].readAt
                                => h.at + SourceTimeout[h.source] <= commands[i].readAt
                          /\ \/ \A s \in commands[i].statuses : timers[s] <= now + 1
                             \/ \E h \in heard : commands[i].readAt <= h.at
        BY <2>1 DEF StatusesWereRight
      <3>1. commands[i] \in Command
        <4>1. commands \in Seq(Command)
          BY DEF Types
        <4> QED
          BY <4>1
      <3>2. /\ commands[i].readAt \in Nat
            /\ \A s \in commands[i].statuses : timers[s] \in Nat
        BY <3>1 DEF Command, Types, Time
      <3> QED
        BY <2>1, <3>2 DEF AlertInv, StatusesWereRight
    <2> QED
      BY <2>3, <2>4, <2>5 DEF AlertInv
  <1> QED
    BY <1>6, <1>7, <1>8, <1>9, <1>10, <1>11, <1>12, <1>13, <1>14 DEF Next, RedisAnswers

(***************************************************************************)
(* The alert of the last check, once raised.                               *)
(***************************************************************************)
LEMMA AlertsStep ==
    /\ Types
    /\ AlertInv
    /\ AlertsOnlyAfterSilence
    /\ AlertsFlaggedUnlessHeard
    /\ [Next]_vars
    => /\ AlertsOnlyAfterSilence'
       /\ AlertsFlaggedUnlessHeard'
  <1> SUFFICES ASSUME Types, AlertInv, AlertsOnlyAfterSilence,
                      AlertsFlaggedUnlessHeard, [Next]_vars
               PROVE  AlertsOnlyAfterSilence' /\ AlertsFlaggedUnlessHeard'
    OBVIOUS
  <1>1. CASE AllDegradedRead
    <2> DEFINE check == Head(commands)
    <2>1. /\ UNCHANGED <<now, timers, heard>>
          /\ commands # <<>>
          /\ check.kind = "allDegraded"
          /\ degraded' = (DegradedSources = Source)
          /\ alert' = IF check.statuses = Source
                       THEN {[readAt |-> check.readAt, raisedAt |-> now]}
                       ELSE {}
      BY <1>1 DEF AllDegradedRead, Serving, FlagFrom, AlertFrom
    <2>2. /\ \A h \in heard :
                h.source \in check.statuses /\ h.at < check.readAt
                => h.at + SourceTimeout[h.source] <= check.readAt
          /\ \/ \A s \in check.statuses : timers[s] <= now
             \/ \E h \in heard : check.readAt <= h.at
      BY <2>1, ServedRest DEF AlertInv, StatusesWereRight
    <2>3. check.readAt \in Nat
      BY <1>1, ServedIsTyped DEF AllDegradedRead, Types, Time
    <2> HIDE DEF check
    <2>4. \A h \in heard : h.source \in Source /\ h.at \in Nat /\ h.at <= now
      BY DEF Types, Time, AlertInv, HeardKeepsTimer
    <2>5. AlertsOnlyAfterSilence'
      BY <2>1, <2>2, <2>4 DEF AlertsOnlyAfterSilence
    <2>6. ASSUME NEW a \in alert'
          PROVE  degraded' \/ \E h \in heard' : h.at \in a.readAt' .. a.raisedAt'
      <3>1. /\ check.statuses = Source
            /\ a.readAt = check.readAt
            /\ a.raisedAt = now
        BY <2>1, <2>6
      <3>2. CASE \A s \in check.statuses : timers[s] <= now
        BY <2>1, <3>1, <3>2 DEF DegradedSources
      <3>3. CASE \E h \in heard : check.readAt <= h.at
        BY <2>1, <2>3, <2>4, <3>1, <3>3 DEF Types, Time
      <3> QED
        BY <2>2, <3>2, <3>3
    <2>7. AlertsFlaggedUnlessHeard'
      BY <2>6 DEF AlertsFlaggedUnlessHeard
    <2> QED
      BY <2>5, <2>7
  <1>2. ASSUME UNCHANGED <<alert, degraded>>,
               UNCHANGED heard \/ \E source \in Source : Refreshed(source)
        PROVE  AlertsOnlyAfterSilence' /\ AlertsFlaggedUnlessHeard'
    <2>1. \A h \in heard' : h \in heard \/ h.at = now
      BY <1>2 DEF Refreshed
    <2>2. heard \subseteq heard'
      BY <1>2 DEF Refreshed
    <2>3. \A a \in alert : a.readAt \in Nat /\ a.readAt <= now
      BY DEF AlertInv, AlertIsPast, Types, Time
    <2>4. now \in Nat
      BY DEF Types, Time
    <2>5. AlertsOnlyAfterSilence'
      BY <1>2, <2>1, <2>3, <2>4 DEF AlertsOnlyAfterSilence
    <2>6. AlertsFlaggedUnlessHeard'
      BY <1>2, <2>2 DEF AlertsFlaggedUnlessHeard
    <2> QED
      BY <2>5, <2>6
  <1>3. CASE TouchServed \/ TouchFails
    <2>1. Head(commands).source \in Source
      BY <1>3, ServedIsTyped DEF Types, TouchServed, TouchFails
    <2>2. /\ UNCHANGED <<alert, degraded>>
          /\ UNCHANGED heard \/ Refreshed(Head(commands).source)
      BY <1>3 DEF TouchServed, TouchFails
    <2> QED
      BY <1>2, <2>1, <2>2
  <1>4. ASSUME NEW body \in Bodies, PostSignal(body) \/ PostMalformed(body)
        PROVE  UNCHANGED <<alert, degraded, heard>>
    BY <1>4 DEF PostSignal, PostMalformed, sourceHealth
  <1>5. CASE StatusesRead \/ StatusReadFails
    BY <1>2, <1>5 DEF StatusesRead, StatusReadFails, sourceHealth
  <1>6. CASE ScheduledTick \/ CheckDataQuality \/ Stop \/ Tick \/ UNCHANGED vars
    BY <1>2, <1>6 DEF ScheduledTick, CheckDataQuality, Stop, Tick, sourceHealth, vars
  <1> QED
    BY <1>1, <1>2, <1>3, <1>4, <1>5, <1>6 DEF Next, RedisAnswers

(***************************************************************************)
(* The results.                                                            *)
(***************************************************************************)
IngestionInv ==
    /\ Types
    /\ DroppedIsOld
    /\ AlertInv
    /\ AlertsOnlyAfterSilence
    /\ AlertsFlaggedUnlessHeard

(* The strengthening of the three properties below is inductive.           *)
THEOREM IngestionInvHolds == Spec => []IngestionInv
  <1>1. Init => IngestionInv
    <2> SUFFICES ASSUME Init PROVE IngestionInv
      OBVIOUS
    <2>1. DroppedIsOld
      BY DEF Init, DroppedIsOld, OfGate
    <2>2. AlertInv
      BY DEF Init, AlertInv, HeardKeepsTimer, StatusesWereRight, AlertIsPast
    <2>3. AlertsOnlyAfterSilence /\ AlertsFlaggedUnlessHeard
      BY DEF Init, AlertsOnlyAfterSilence, AlertsFlaggedUnlessHeard
    <2> QED
      BY <2>1, <2>2, <2>3, InitTypes DEF IngestionInv
  <1>2. IngestionInv /\ [Next]_vars => IngestionInv'
    BY TypesStep, DroppedStep, AlertInvStep, AlertsStep DEF IngestionInv
  <1> QED
    BY <1>1, <1>2, PTL DEF Spec

(* Pruning the window (appendToWindow) never changes a forecast.           *)
THEOREM PruningNeverShows == Spec => []WindowLosesNothing
  <1>1. IngestionInv => WindowLosesNothing
    BY DroppedIsNotCounted DEF IngestionInv
  <1> QED
    BY <1>1, IngestionInvHolds, PTL

(* A DATA_QUALITY alert is about real silence (checkDataQuality).          *)
THEOREM AlertsMeanSilence == Spec => []AlertsOnlyAfterSilence
  <1>1. IngestionInv => AlertsOnlyAfterSilence
    BY DEF IngestionInv
  <1> QED
    BY <1>1, IngestionInvHolds, PTL

(* The alert and the flag of one check disagree only over a signal heard   *)
(* between its two reads of the timers.                                    *)
THEOREM AlertsAgreeWithFlags == Spec => []AlertsFlaggedUnlessHeard
  <1>1. IngestionInv => AlertsFlaggedUnlessHeard
    BY DEF IngestionInv
  <1> QED
    BY <1>1, IngestionInvHolds, PTL

(***************************************************************************)
(* How many touches are in flight.                                         *)
(***************************************************************************)
TouchesIn(queue) == {i \in DOMAIN queue : queue[i].kind = "touch"}

LEMMA TouchesAreFinite ==
    ASSUME NEW queue \in Seq(Command)
    PROVE  IsFiniteSet(TouchesIn(queue)) /\ Cardinality(TouchesIn(queue)) \in Nat
  <1>1. Len(queue) \in Nat /\ DOMAIN queue = 1 .. Len(queue)
    OBVIOUS
  <1>2. IsFiniteSet(1 .. Len(queue))
    BY <1>1, FS_Interval
  <1>3. TouchesIn(queue) \in SUBSET (1 .. Len(queue))
    BY <1>1 DEF TouchesIn
  <1> QED
    BY <1>2, <1>3, FS_Subset, FS_CardinalityType

LEMMA TouchesAfterAppend ==
    ASSUME NEW queue \in Seq(Command), NEW command \in Command
    PROVE  Cardinality(TouchesIn(Append(queue, command)))
           = IF command.kind = "touch"
             THEN Cardinality(TouchesIn(queue)) + 1
             ELSE Cardinality(TouchesIn(queue))
  <1> DEFINE longer == Append(queue, command)
             last == Len(queue) + 1
  <1>1. /\ longer \in Seq(Command)
        /\ Len(longer) = last
        /\ \A i \in 1 .. Len(queue) : longer[i] = queue[i]
        /\ longer[last] = command
    BY AppendProperties
  <1>2. DOMAIN queue = 1 .. Len(queue) /\ Len(queue) \in Nat
    OBVIOUS
  <1> HIDE DEF longer
  <1>3. DOMAIN longer = 1 .. last
    BY <1>1
  <1>4. /\ last \notin TouchesIn(queue)
        /\ TouchesIn(longer)
           = IF command.kind = "touch" THEN TouchesIn(queue) \cup {last} ELSE TouchesIn(queue)
    BY <1>1, <1>2, <1>3 DEF TouchesIn
  <1>5. IsFiniteSet(TouchesIn(queue))
    BY TouchesAreFinite
  <1>6. Cardinality(TouchesIn(queue) \cup {last}) = Cardinality(TouchesIn(queue)) + 1
    BY <1>4, <1>5, FS_AddElement
  <1> QED
    BY <1>4, <1>6 DEF longer

LEMMA TouchesAfterTail ==
    ASSUME NEW queue \in Seq(Command), queue # <<>>
    PROVE  Cardinality(TouchesIn(Tail(queue)))
           = IF Head(queue).kind = "touch"
             THEN Cardinality(TouchesIn(queue)) - 1
             ELSE Cardinality(TouchesIn(queue))
  <1> DEFINE rest == Tail(queue)
             moved == [i \in TouchesIn(rest) |-> i + 1]
             later == TouchesIn(queue) \ {1}
  <1>1. /\ rest \in Seq(Command)
        /\ Len(rest) = Len(queue) - 1
        /\ \A i \in 1 .. Len(rest) : rest[i] = queue[i + 1]
        /\ Head(queue) = queue[1]
    BY HeadTailProperties
  <1>2. /\ DOMAIN queue = 1 .. Len(queue)
        /\ Len(queue) \in Nat \ {0}
    BY EmptySeq
  <1> HIDE DEF rest
  <1>3. DOMAIN rest = 1 .. Len(queue) - 1
    BY <1>1, <1>2
  <1>4. \A i \in TouchesIn(rest) : i \in Nat /\ i + 1 \in later
    BY <1>1, <1>2, <1>3 DEF TouchesIn
  <1>5. \A j \in later : j - 1 \in TouchesIn(rest) /\ j = (j - 1) + 1
    BY <1>1, <1>2, <1>3 DEF TouchesIn
  <1> HIDE DEF later
  <1>6. moved \in Bijection(TouchesIn(rest), later)
    <2>1. moved \in [TouchesIn(rest) -> later]
      BY <1>4
    <2>2. \A a, b \in TouchesIn(rest) : moved[a] = moved[b] => a = b
      BY <1>4
    <2>3. \A j \in later : \E i \in TouchesIn(rest) : moved[i] = j
      BY <1>5
    <2> QED
      BY <2>1, <2>2, <2>3, Fun_IsBij
  <1>7. IsFiniteSet(TouchesIn(rest))
    BY <1>1, TouchesAreFinite
  <1>8. Cardinality(later) = Cardinality(TouchesIn(rest))
    BY <1>6, <1>7, FS_Bijection DEF ExistsBijection
  <1>9. IsFiniteSet(TouchesIn(queue))
    BY TouchesAreFinite
  <1>10. Cardinality(later)
         = IF 1 \in TouchesIn(queue)
           THEN Cardinality(TouchesIn(queue)) - 1
           ELSE Cardinality(TouchesIn(queue))
    BY <1>9, FS_RemoveElement DEF later
  <1>11. 1 \in TouchesIn(queue) <=> Head(queue).kind = "touch"
    BY <1>1, <1>2 DEF TouchesIn
  <1> QED
    BY <1>8, <1>10, <1>11 DEF rest

LEMMA RecordedStep == Types /\ SignalsRecordedOnce /\ [Next]_vars => SignalsRecordedOnce'
  <1> SUFFICES ASSUME Types, SignalsRecordedOnce, [Next]_vars
               PROVE  SignalsRecordedOnce'
    OBVIOUS
  <1> DEFINE inFlight == Cardinality(TouchesIn(commands))
  <1>0. /\ Touching = TouchesIn(commands)
        /\ Touching' = TouchesIn(commands')
    BY DEF Touching, TouchesIn
  <1>1. /\ Len(received) + unheard = answers.accepted + answers.unavailable + inFlight
        /\ up => unheard = 0 /\ Len(dlq) = answers.rejected
        /\ Len(dlq) <= answers.rejected
    BY <1>0 DEF SignalsRecordedOnce
  <1>2. SUFFICES /\ Len(received') + unheard'
                    = answers'.accepted + answers'.unavailable
                      + Cardinality(TouchesIn(commands'))
                 /\ up' => unheard' = 0 /\ Len(dlq') = answers'.rejected
                 /\ Len(dlq') <= answers'.rejected
    BY <1>0 DEF SignalsRecordedOnce
  <1>3. /\ commands \in Seq(Command)
        /\ received \in Seq(Event)
        /\ dlq \in Seq(Errors)
        /\ unheard \in Nat
        /\ answers \in [accepted : Nat, rejected : Nat, unavailable : Nat]
    BY DEF Types
  <1>4. /\ answers.accepted \in Nat
        /\ answers.rejected \in Nat
        /\ answers.unavailable \in Nat
        /\ Len(received) \in Nat
        /\ Len(dlq) \in Nat
        /\ inFlight \in Nat
    BY <1>3, TouchesAreFinite
  <1> HIDE DEF inFlight
  <1>5. ASSUME NEW body \in Bodies, PostSignal(body)
        PROVE  <1>2!1
    <2>1. Len(received') + unheard' = Len(received) + unheard + 1
      <3>1. CASE up
        <4>1. received' = Append(received, Classified(body)) /\ unheard' = unheard
          BY <1>5, <3>1 DEF PostSignal, OnSignalEvent
        <4>2. Classified(body) \in Event
          BY ClassifiedIsEvent DEF Types
        <4>3. Len(received') = Len(received) + 1
          BY <1>3, <4>1, <4>2, AppendProperties
        <4> QED
          BY <1>3, <1>4, <4>1, <4>3
      <3>2. CASE ~up
        <4>1. received' = received /\ unheard' = unheard + 1
          BY <1>5, <3>2 DEF PostSignal, OnNobody
        <4> QED
          BY <1>3, <1>4, <4>1
      <3> QED
        BY <3>1, <3>2
    <2>2. answers'.accepted + Cardinality(TouchesIn(commands'))
          = answers.accepted + inFlight + 1
      <3>1. CASE HasTarget(body)
        <4>1. commands' = Append(commands, Touch(body)) /\ answers' = answers
          BY <1>5, <3>1 DEF PostSignal
        <4>2. Touch(body) \in Command /\ Touch(body).kind = "touch"
          BY TouchIsCommand DEF Touch
        <4>3. Cardinality(TouchesIn(commands')) = inFlight + 1
          BY <1>3, <4>1, <4>2, TouchesAfterAppend DEF inFlight
        <4>4. answers'.accepted = answers.accepted
          BY <4>1
        <4> QED
          BY <1>4, <4>3, <4>4
      <3>2. CASE ~HasTarget(body)
        <4>1. commands' = commands /\ answers' = [answers EXCEPT !.accepted = @ + 1]
          BY <1>5, <3>2 DEF PostSignal
        <4>2. answers'.accepted = answers.accepted + 1
          BY <1>3, <4>1
        <4> QED
          BY <1>4, <4>1, <4>2 DEF inFlight
      <3> QED
        BY <3>1, <3>2
    <2>3. /\ answers'.unavailable = answers.unavailable
          /\ answers'.rejected = answers.rejected
      BY <1>3, <1>5 DEF PostSignal
    <2>4. dlq' = dlq /\ up' = up
      BY <1>5 DEF PostSignal
    <2>5. up => unheard' = 0
      BY <1>1, <1>5 DEF PostSignal, OnSignalEvent
    <2>6. /\ Cardinality(TouchesIn(commands')) \in Nat
          /\ answers'.accepted \in Nat
      <3>1. /\ commands' \in Seq(Command)
            /\ answers' \in [accepted : Nat, rejected : Nat, unavailable : Nat]
        BY TypesStep DEF Types
      <3> QED
        BY <3>1, TouchesAreFinite
    <2>7. Len(received') + unheard'
          = answers'.accepted + answers'.unavailable + Cardinality(TouchesIn(commands'))
      <3>1. answers'.accepted + answers.unavailable + Cardinality(TouchesIn(commands'))
            = answers.accepted + answers.unavailable + inFlight + 1
        <4> DEFINE accepted == answers'.accepted
                   touches == Cardinality(TouchesIn(commands'))
                   before == answers.accepted
                   unavailable == answers.unavailable
        <4>1. /\ accepted \in Nat
              /\ touches \in Nat
              /\ before \in Nat
              /\ unavailable \in Nat
              /\ inFlight \in Nat
              /\ accepted + touches = before + inFlight + 1
          BY <1>4, <2>2, <2>6
        <4> HIDE DEF accepted, touches, before, unavailable
        <4>2. accepted + unavailable + touches = before + unavailable + inFlight + 1
          BY <4>1
        <4> QED
          BY <4>2 DEF accepted, touches, before, unavailable
      <3>2. Len(received) + unheard + 1
            = answers.accepted + answers.unavailable + inFlight + 1
        BY <1>1
      <3> QED
        BY <2>1, <2>3, <3>1, <3>2
    <2> QED
      BY <1>1, <2>3, <2>4, <2>5, <2>7
  <1>6. ASSUME NEW body \in Bodies, PostMalformed(body)
        PROVE  <1>2!1
    <2>1. /\ UNCHANGED <<up, received, commands, unheard>>
          /\ answers' = [answers EXCEPT !.rejected = @ + 1]
          /\ dlq' = IF up THEN Append(dlq, ParseError(body)) ELSE dlq
      BY <1>6 DEF PostMalformed
    <2>2. /\ answers'.accepted = answers.accepted
          /\ answers'.unavailable = answers.unavailable
          /\ answers'.rejected = answers.rejected + 1
      BY <1>3, <2>1
    <2>3. ParseError(body) \in Errors
      BY DEF Errors
    <2>4. Len(dlq') = IF up THEN Len(dlq) + 1 ELSE Len(dlq)
      BY <1>3, <2>1, <2>3, AppendProperties
    <2> QED
      BY <1>1, <1>4, <2>1, <2>2, <2>4 DEF inFlight
  <1>7. ASSUME commands # <<>>, commands' = Tail(commands)
        PROVE  Cardinality(TouchesIn(commands'))
               = IF Head(commands).kind = "touch" THEN inFlight - 1 ELSE inFlight
    BY <1>3, <1>7, TouchesAfterTail DEF inFlight
  <1>8. CASE TouchServed \/ TouchFails
    <2>1. /\ UNCHANGED <<up, received, dlq, unheard>>
          /\ Serving("touch")
          /\ commands' = Tail(commands)
          /\ \/ answers' = [answers EXCEPT !.accepted = @ + 1]
             \/ answers' = [answers EXCEPT !.unavailable = @ + 1]
      BY <1>8 DEF TouchServed, TouchFails
    <2>2. /\ answers'.accepted + answers'.unavailable
             = answers.accepted + answers.unavailable + 1
          /\ answers'.rejected = answers.rejected
      BY <1>3, <1>4, <2>1
    <2>3. Cardinality(TouchesIn(commands')) = inFlight - 1
      BY <1>7, <2>1 DEF Serving
    <2>4. answers'.accepted \in Nat /\ answers'.unavailable \in Nat
      BY <1>3, <2>1
    <2>5. Len(received') + unheard'
          = answers'.accepted + answers'.unavailable + Cardinality(TouchesIn(commands'))
      <3> DEFINE signals == Len(received) + unheard
                 answered == answers.accepted + answers.unavailable
                 answeredNext == answers'.accepted + answers'.unavailable
                 left == Cardinality(TouchesIn(commands'))
      <3>1. Len(received') + unheard' = signals
        BY <2>1
      <3>2. signals = answered + inFlight
        BY <1>1
      <3>3. answered \in Nat /\ inFlight \in Nat
        BY <1>4
      <3>4. answeredNext = answered + 1 /\ left = inFlight - 1
        BY <2>2, <2>3
      <3> HIDE DEF signals, answered, answeredNext, left
      <3>5. signals = answeredNext + left
        BY <3>2, <3>3, <3>4
      <3> QED
        BY <3>1, <3>5 DEF answeredNext, left
    <2> QED
      BY <1>1, <2>1, <2>2, <2>5
  <1>9. ASSUME NEW command \in Command, command.kind # "touch",
               commands # <<>>, Head(commands).kind # "touch",
               commands' = Append(Tail(commands), command)
        PROVE  Cardinality(TouchesIn(commands')) = inFlight
    <2>1. Tail(commands) \in Seq(Command)
      BY <1>3, <1>9, HeadIsCommand
    <2>2. Cardinality(TouchesIn(Tail(commands))) = inFlight
      BY <1>3, <1>9, TouchesAfterTail DEF inFlight
    <2> QED
      BY <1>9, <2>1, <2>2, TouchesAfterAppend
  <1>10. CASE StatusesRead
    <2> DEFINE check == [kind |-> "allDegraded", statuses |-> DegradedSources,
                         readAt |-> now]
    <2>1. check \in [kind : {"allDegraded"}, statuses : SUBSET Source, readAt : Time]
      BY DEF DegradedSources, Types
    <2>2. check \in Command /\ check.kind # "touch"
      BY <2>1 DEF Command
    <2>3. /\ UNCHANGED <<up, received, dlq, unheard, answers>>
          /\ Serving("statuses")
          /\ commands' = Append(Tail(commands), check)
      BY <1>10 DEF StatusesRead, intake
    <2> HIDE DEF check
    <2>4. Cardinality(TouchesIn(commands')) = inFlight
      BY <1>9, <2>2, <2>3 DEF Serving
    <2> QED
      BY <1>1, <2>3, <2>4
  <1>11. CASE AllDegradedRead
    <2>1. UNCHANGED <<up, received, dlq, unheard, answers>>
      BY <1>11 DEF AllDegradedRead, intake
    <2>2. Cardinality(TouchesIn(commands')) = inFlight
      BY <1>7, <1>11 DEF AllDegradedRead, Serving
    <2> QED
      BY <1>1, <2>1, <2>2
  <1>12. CASE StatusReadFails
    <2>1. UNCHANGED <<received, dlq, unheard, answers>> /\ up' = FALSE
      BY <1>12 DEF StatusReadFails, intake
    <2>2. Cardinality(TouchesIn(commands')) = inFlight
      BY <1>7, <1>12 DEF StatusReadFails, Serving
    <2> QED
      BY <1>1, <2>1, <2>2
  <1>13. CASE CheckDataQuality
    <2> DEFINE check == [kind |-> "statuses"]
    <2>1. check \in Command /\ check.kind # "touch"
      BY DEF Command
    <2>2. /\ UNCHANGED <<up, received, dlq, unheard, answers>>
          /\ commands' = Append(commands, check)
      BY <1>13 DEF CheckDataQuality, intake
    <2> HIDE DEF check
    <2>3. Cardinality(TouchesIn(commands')) = inFlight
      BY <1>3, <2>1, <2>2, TouchesAfterAppend DEF inFlight
    <2> QED
      BY <1>1, <2>2, <2>3
  <1>14. CASE ScheduledTick \/ Stop \/ Tick \/ UNCHANGED vars
    <2>1. /\ UNCHANGED <<received, dlq, unheard, answers, commands>>
          /\ up' => up
      BY <1>14 DEF ScheduledTick, Stop, Tick, intake, vars
    <2> QED
      BY <1>1, <2>1 DEF inFlight
  <1> QED
    BY <1>5, <1>6, <1>8, <1>10, <1>11, <1>12, <1>13, <1>14 DEF Next, RedisAnswers

(* Publishing first and refreshing the timer after loses no signal and     *)
(* records none twice (submitSignal).                                      *)
THEOREM PublicationIsExactlyOnce == Spec => []SignalsRecordedOnce
  <1>1. Init => SignalsRecordedOnce
    <2> SUFFICES ASSUME Init PROVE SignalsRecordedOnce
      OBVIOUS
    <2>1. Touching = {}
      BY DEF Init, Touching
    <2>2. Cardinality(Touching) = 0
      BY <2>1, FS_EmptySet
    <2> QED
      BY <2>2 DEF Init, SignalsRecordedOnce
  <1>2. Types /\ SignalsRecordedOnce /\ [Next]_vars => SignalsRecordedOnce'
    BY RecordedStep
  <1>3. IngestionInv => Types
    BY DEF IngestionInv
  <1> QED
    BY <1>1, <1>2, <1>3, IngestionInvHolds, PTL DEF Spec
=============================================================================
