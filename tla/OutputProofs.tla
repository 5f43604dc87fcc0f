---------------------------- MODULE OutputProofs ----------------------------
(***************************************************************************)
(* Proofs about what the library hands to its host.                        *)
(* Alert: the latch, the events, what a callback sees, and that it         *)
(* implements AlertPolicy, for every rule and sequence of readings.        *)
(* Appender: the bounded output keeps its contract for every list of       *)
(* pieces and every buffer size.                                           *)
(***************************************************************************)
EXTENDS Alert, Appender, SequenceTheorems, TLAPS

USE LimitsAssumption, ReadingAssumption, BoundsAssumption

\* What one more reading does to a breach: it starts one, or lets the one
\* that stands go on unless it clears it.
LEMMA BreachedAppend ==
  ASSUME NEW rs \in Seq(Reading), NEW v \in Reading, NEW t \in Int, NEW h \in Nat
  PROVE  Policy!Breached(Append(rs, v), t, h)
           <=> Exceeds(v, t) \/ (Policy!Breached(rs, t, h) /\ ~Clears(v, t, h))
<1> DEFINE ns == Append(rs, v)
           n == Len(rs)
<1>1. /\ n \in Nat /\ Len(ns) = n + 1
      /\ ns[n + 1] = v
      /\ \A i \in 1 .. n : ns[i] = rs[i]
  OBVIOUS
<1>2. Exceeds(v, t) => ~Clears(v, t, h)
  BY DEF Exceeds, Clears
<1> HIDE DEF ns, n
<1>3. ASSUME Exceeds(v, t)  PROVE Policy!Breached(ns, t, h)
  <2>1. n + 1 \in 1 .. Len(ns) /\ n + 2 .. Len(ns) = {}
    BY <1>1
  <2>2. Policy!Exceeds(ns[n + 1], t)
    BY <1>1, <1>3 DEF Exceeds, Policy!Exceeds
  <2>3. \A j \in (n + 1) + 1 .. Len(ns) : ~Policy!Clears(ns[j], t, h)
    BY <1>1
  <2> QED
    BY <2>1, <2>2, <2>3 DEF Policy!Breached
<1>4. ASSUME Policy!Breached(rs, t, h), ~Clears(v, t, h)
      PROVE  Policy!Breached(ns, t, h)
  <2>1. PICK i \in 1 .. n : /\ Policy!Exceeds(rs[i], t)
                            /\ \A j \in i + 1 .. n : ~Policy!Clears(rs[j], t, h)
    BY <1>4 DEF Policy!Breached, n
  <2>2. i \in 1 .. Len(ns) /\ Policy!Exceeds(ns[i], t)
    BY <1>1, <2>1
  <2>3. ASSUME NEW j \in i + 1 .. Len(ns)  PROVE ~Policy!Clears(ns[j], t, h)
    <3>1. CASE j = n + 1
      BY <1>1, <1>4, <3>1 DEF Clears, Policy!Clears
    <3>2. CASE j # n + 1
      <4>1. j \in 1 .. n /\ j \in i + 1 .. n
        BY <1>1, <2>1, <3>2
      <4> QED
        BY <1>1, <2>1, <4>1
    <3> QED
      BY <3>1, <3>2
  <2> QED
    BY <2>2, <2>3 DEF Policy!Breached
<1>5. ASSUME Policy!Breached(ns, t, h), ~Exceeds(v, t)
      PROVE  Policy!Breached(rs, t, h) /\ ~Clears(v, t, h)
  <2>1. PICK i \in 1 .. Len(ns) : /\ Policy!Exceeds(ns[i], t)
                                  /\ \A j \in i + 1 .. Len(ns) : ~Policy!Clears(ns[j], t, h)
    BY <1>5 DEF Policy!Breached
  <2>2. i # n + 1
    BY <1>1, <1>5, <2>1 DEF Exceeds, Policy!Exceeds
  <2>3. i \in 1 .. n /\ n + 1 \in i + 1 .. Len(ns)
    BY <1>1, <2>1, <2>2
  <2>4. ~Policy!Clears(ns[n + 1], t, h)
    BY <2>1, <2>3
  <2>5. ~Clears(v, t, h)
    BY <1>1, <2>4 DEF Clears, Policy!Clears
  <2>6. Policy!Exceeds(rs[i], t)
    BY <1>1, <2>1, <2>3
  <2>7. \A j \in i + 1 .. n : ~Policy!Clears(rs[j], t, h)
    <3> SUFFICES ASSUME NEW j \in i + 1 .. n  PROVE ~Policy!Clears(rs[j], t, h)
      OBVIOUS
    <3>1. j \in 1 .. n /\ j \in i + 1 .. Len(ns)
      BY <1>1, <2>3
    <3> QED
      BY <1>1, <2>1, <3>1
  <2> QED
    BY <2>3, <2>5, <2>6, <2>7 DEF Policy!Breached, n
<1> QED
  BY <1>2, <1>3, <1>4, <1>5 DEF ns

-----------------------------------------------------------------------------
Inv == TypeOK /\ Latched /\ EventsMatchState

\* The three ways a reading can go, with the alert it leaves.
LEMMA StepCases ==
  ASSUME TypeOK, NEW v \in Reading, Step(v)
  PROVE  /\ readings' = Append(readings, v)
         /\ alert' \in Alarm
         /\ alert'.threshold = alert.threshold
         /\ alert'.hysteresis = alert.hysteresis
         /\ alert'.last_value = v
         /\ \/ /\ StepEvent(alert, v) = "BREACH"
               /\ alert.state = "OK" /\ Exceeds(v, alert.threshold)
               /\ alert'.state = "BREACHED"
               /\ alert'.breach_count = alert.breach_count + 1
               /\ events' = Append(events, "BREACH")
            \/ /\ StepEvent(alert, v) = "RECOVERED"
               /\ alert.state = "BREACHED"
               /\ Clears(v, alert.threshold, alert.hysteresis)
               /\ alert'.state = "OK"
               /\ alert'.breach_count = alert.breach_count
               /\ events' = Append(events, "RECOVERED")
            \/ /\ StepEvent(alert, v) = "NONE"
               /\ alert.state = "OK" => ~Exceeds(v, alert.threshold)
               /\ alert.state = "BREACHED" =>
                    ~Clears(v, alert.threshold, alert.hysteresis)
               /\ alert'.state = alert.state
               /\ alert'.breach_count = alert.breach_count
               /\ events' = events
<1>1. /\ readings' = Append(readings, v)
      /\ alert' = StepAlert(alert, v)
      /\ events' = IF StepEvent(alert, v) = "NONE" THEN events
                   ELSE Append(events, StepEvent(alert, v))
  BY DEF Step
<1>2. alert \in Alarm /\ v \in Int \cup {NaN}
  BY DEF TypeOK
<1>3. CASE alert.state = "OK" /\ Exceeds(v, alert.threshold)
  <2>1. StepEvent(alert, v) = "BREACH"
    BY <1>3 DEF StepEvent
  <2>2. StepAlert(alert, v) =
          [alert EXCEPT !.last_value = v, !.state = "BREACHED",
                        !.breach_count = alert.breach_count + 1]
    BY <2>1 DEF StepAlert
  <2>3. alert' =
          [threshold |-> alert.threshold, hysteresis |-> alert.hysteresis,
           last_value |-> v, state |-> "BREACHED",
           breach_count |-> alert.breach_count + 1]
    BY <1>1, <1>2, <2>2 DEF Alarm
  <2>4. alert' \in Alarm
    BY <1>2, <2>3 DEF Alarm
  <2> QED
    BY <1>1, <1>2, <1>3, <2>1, <2>3, <2>4 DEF Alarm
<1>4. CASE alert.state = "BREACHED" /\ Clears(v, alert.threshold, alert.hysteresis)
  <2>1. StepEvent(alert, v) = "RECOVERED"
    BY <1>4 DEF StepEvent
  <2>2. StepAlert(alert, v) =
          [alert EXCEPT !.last_value = v, !.state = "OK",
                        !.breach_count = alert.breach_count]
    BY <2>1 DEF StepAlert
  <2>3. alert' =
          [threshold |-> alert.threshold, hysteresis |-> alert.hysteresis,
           last_value |-> v, state |-> "OK",
           breach_count |-> alert.breach_count]
    BY <1>1, <1>2, <2>2 DEF Alarm
  <2>4. alert' \in Alarm
    BY <1>2, <2>3 DEF Alarm
  <2> QED
    BY <1>1, <1>2, <1>4, <2>1, <2>3, <2>4 DEF Alarm
<1>5. CASE /\ ~(alert.state = "OK" /\ Exceeds(v, alert.threshold))
           /\ ~(alert.state = "BREACHED" /\ Clears(v, alert.threshold, alert.hysteresis))
  <2>1. StepEvent(alert, v) = "NONE"
    BY <1>5 DEF StepEvent
  <2>2. StepAlert(alert, v) =
          [alert EXCEPT !.last_value = v, !.state = alert.state,
                        !.breach_count = alert.breach_count]
    BY <2>1 DEF StepAlert
  <2>3. alert' =
          [threshold |-> alert.threshold, hysteresis |-> alert.hysteresis,
           last_value |-> v, state |-> alert.state,
           breach_count |-> alert.breach_count]
    BY <1>1, <1>2, <2>2 DEF Alarm
  <2>4. alert' \in Alarm
    BY <1>2, <2>3 DEF Alarm
  <2> QED
    BY <1>1, <1>2, <1>5, <2>1, <2>3, <2>4 DEF Alarm
<1> QED
  BY <1>3, <1>4, <1>5

\* The state after a reading is the definition's verdict on the readings.
LEMMA StepLatched ==
  ASSUME TypeOK, Latched, NEW v \in Reading, Step(v)
  PROVE  Latched'
<1>1. /\ alert.threshold \in Int /\ alert.hysteresis \in Nat
      /\ alert.state \in {"OK", "BREACHED"}
      /\ readings \in Seq(Reading)
  BY DEF TypeOK, Alarm
<1>2. Exceeds(v, alert.threshold)
        => ~Clears(v, alert.threshold, alert.hysteresis)
  BY <1>1 DEF Exceeds, Clears
<1> DEFINE Now == Policy!Breached(readings, alert.threshold, alert.hysteresis)
           Then == Policy!Breached(Append(readings, v), alert.threshold, alert.hysteresis)
<1>3. Then <=> Exceeds(v, alert.threshold)
                 \/ (Now /\ ~Clears(v, alert.threshold, alert.hysteresis))
  BY <1>1, BreachedAppend
<1>4. alert.state = "BREACHED" <=> Now
  BY DEF Latched
<1>5. Latched' <=> (alert'.state = "BREACHED" <=> Then)
  BY StepCases DEF Latched
<1> HIDE DEF Now, Then
<1> QED
  BY <1>1, <1>2, <1>3, <1>4, <1>5, StepCases

\* Breaches and recoveries take turns.
LEMMA StepEvents ==
  ASSUME TypeOK, EventsMatchState, NEW v \in Reading, Step(v)
  PROVE  EventsMatchState'
<1>1. /\ alert.breach_count \in Nat
      /\ alert.state \in {"OK", "BREACHED"}
      /\ events \in Seq(Event)
  BY DEF TypeOK, Alarm
<1>2. /\ \A i \in 1 .. Len(events) :
           events[i] = IF i % 2 = 1 THEN "BREACH" ELSE "RECOVERED"
      /\ alert.state = "BREACHED" <=> Len(events) % 2 = 1
      /\ Len(events) = 2 * alert.breach_count - (IF alert.state = "OK" THEN 0 ELSE 1)
  BY DEF EventsMatchState
<1>3. CASE StepEvent(alert, v) = "NONE"
  BY <1>2, <1>3, StepCases DEF EventsMatchState
<1>4. ASSUME NEW e \in Event, events' = Append(events, e),
             e = IF (Len(events) + 1) % 2 = 1 THEN "BREACH" ELSE "RECOVERED"
      PROVE  /\ Len(events') = Len(events) + 1
             /\ \A i \in 1 .. Len(events') :
                  events'[i] = IF i % 2 = 1 THEN "BREACH" ELSE "RECOVERED"
  <2>1. /\ Len(events') = Len(events) + 1
        /\ events'[Len(events) + 1] = e
        /\ \A i \in 1 .. Len(events) : events'[i] = events[i]
    BY <1>1, <1>4
  <2>2. ASSUME NEW i \in 1 .. Len(events')
        PROVE  events'[i] = IF i % 2 = 1 THEN "BREACH" ELSE "RECOVERED"
    <3>1. CASE i = Len(events) + 1
      BY <1>4, <2>1, <3>1
    <3>2. CASE i # Len(events) + 1
      <4>1. i \in 1 .. Len(events)
        BY <1>1, <2>1, <3>2
      <4> QED
        BY <1>2, <2>1, <4>1
    <3> QED
      BY <3>1, <3>2
  <2> QED
    BY <2>1, <2>2
<1>5. CASE StepEvent(alert, v) = "BREACH"
  <2>1. /\ alert.state = "OK" /\ alert'.state = "BREACHED"
        /\ alert'.breach_count = alert.breach_count + 1
        /\ events' = Append(events, "BREACH")
    BY <1>5, StepCases
  <2>2. Len(events) \in Nat /\ Len(events) = 2 * alert.breach_count
    BY <1>1, <1>2, <2>1
  <2>3. (Len(events) + 1) % 2 = 1
    BY <1>1, <2>2
  <2>4. /\ Len(events') = Len(events) + 1
        /\ \A i \in 1 .. Len(events') :
             events'[i] = IF i % 2 = 1 THEN "BREACH" ELSE "RECOVERED"
    BY <1>4, <2>1, <2>3 DEF Event
  <2>5. alert'.state = "BREACHED" <=> Len(events') % 2 = 1
    BY <2>1, <2>3, <2>4
  <2>6. Len(events') = 2 * alert'.breach_count - (IF alert'.state = "OK" THEN 0 ELSE 1)
    BY <1>1, <2>1, <2>2, <2>4
  <2> QED
    BY <2>4, <2>5, <2>6, Zenon DEF EventsMatchState
<1>6. CASE StepEvent(alert, v) = "RECOVERED"
  <2>1. /\ alert.state = "BREACHED" /\ alert'.state = "OK"
        /\ alert'.breach_count = alert.breach_count
        /\ events' = Append(events, "RECOVERED")
    BY <1>6, StepCases
  <2>2. Len(events) \in Nat /\ Len(events) + 1 = 2 * alert.breach_count
    BY <1>1, <1>2, <2>1
  <2>3. (Len(events) + 1) % 2 = 0
    BY <1>1, <2>2
  <2>4. /\ Len(events') = Len(events) + 1
        /\ \A i \in 1 .. Len(events') :
             events'[i] = IF i % 2 = 1 THEN "BREACH" ELSE "RECOVERED"
    BY <1>4, <2>1, <2>3 DEF Event
  <2>5. alert'.state = "BREACHED" <=> Len(events') % 2 = 1
    BY <2>1, <2>3, <2>4
  <2>6. Len(events') = 2 * alert'.breach_count - (IF alert'.state = "OK" THEN 0 ELSE 1)
    BY <1>1, <2>1, <2>2, <2>4
  <2> QED
    BY <2>4, <2>5, <2>6, Zenon DEF EventsMatchState
<1> QED
  BY <1>3, <1>5, <1>6, StepCases

-----------------------------------------------------------------------------
\* A fresh alert, at the start or set up again, satisfies the invariant.
LEMMA FreshInv ==
  ASSUME NEW t \in Threshold, NEW h \in Hysteresis
  PROVE  /\ Fresh(t, h) \in Alarm
         /\ Fresh(t, h).state = "OK" /\ Fresh(t, h).breach_count = 0
         /\ ~Policy!Breached(<< >>, Fresh(t, h).threshold, Fresh(t, h).hysteresis)
<1>1. Fresh(t, h) \in Alarm
  BY DEF Fresh, Alarm
<1>2. 1 .. Len(<< >>) = {}
  OBVIOUS
<1> QED
  BY <1>1, <1>2 DEF Fresh, Policy!Breached

LEMMA InitInv == Init => Inv
<1> SUFFICES ASSUME Init  PROVE Inv
  OBVIOUS
<1>1. PICK t \in Threshold, h \in Hysteresis : alert = Fresh(t, h)
  BY DEF Init
<1>2. TypeOK
  BY <1>1, FreshInv DEF Init, TypeOK
<1>3. Latched
  BY <1>1, FreshInv DEF Init, Latched
<1>4. EventsMatchState
  <2>1. Len(events) = 0 /\ 1 .. Len(events) = {} /\ 0 % 2 = 0
    BY DEF Init
  <2>2. alert.state = "OK" /\ alert.breach_count = 0
    BY <1>1, FreshInv
  <2> QED
    BY <2>1, <2>2 DEF EventsMatchState
<1> QED
  BY <1>2, <1>3, <1>4 DEF Inv

LEMMA AlertInitInv ==
  ASSUME Inv, NEW t \in Threshold, NEW h \in Hysteresis, AlertInit(t, h)
  PROVE  Inv'
<1>1. alert' = Fresh(t, h) /\ readings' = << >> /\ events' = << >> /\ calls' = calls
  BY DEF AlertInit
<1>2. TypeOK'
  BY <1>1, FreshInv DEF Inv, TypeOK
<1>3. Latched'
  BY <1>1, FreshInv DEF Latched
<1>4. EventsMatchState'
  <2>1. Len(events') = 0 /\ 1 .. Len(events') = {} /\ 0 % 2 = 0
    BY <1>1
  <2>2. alert'.state = "OK" /\ alert'.breach_count = 0
    BY <1>1, FreshInv
  <2> QED
    BY <2>1, <2>2 DEF EventsMatchState
<1> QED
  BY <1>2, <1>3, <1>4 DEF Inv

\* A step of the state machine keeps the invariant of everything it changes.
LEMMA StepInv ==
  ASSUME Inv, NEW v \in Reading, Step(v),
         calls' \in Seq([event : Event, value : Reading])
  PROVE  Inv'
<1>1. TypeOK'
  <2>1. readings \in Seq(Reading) /\ events \in Seq(Event) /\ TypeOK
    BY DEF Inv, TypeOK
  <2>2. /\ alert' \in Alarm
        /\ readings' = Append(readings, v)
        /\ \/ events' = Append(events, "BREACH")
           \/ events' = Append(events, "RECOVERED")
           \/ events' = events
    BY <2>1, StepCases
  <2>3. readings' \in Seq(Reading)
    BY <2>1, <2>2
  <2>4. "BREACH" \in Event /\ "RECOVERED" \in Event
    BY DEF Event
  <2>5. Append(events, "BREACH") \in Seq(Event) /\ Append(events, "RECOVERED") \in Seq(Event)
    BY <2>1, <2>4, AppendProperties
  <2>6. events' \in Seq(Event)
    BY <2>1, <2>2, <2>5, Zenon
  <2> QED
    BY <2>2, <2>3, <2>6 DEF TypeOK
<1> QED
  BY <1>1, StepLatched, StepEvents DEF Inv

LEMMA NextInv == Inv /\ [Next]_vars => Inv'
<1> SUFFICES ASSUME Inv, [Next]_vars  PROVE Inv'
  OBVIOUS
<1>1. ASSUME NEW t \in Threshold, NEW h \in Hysteresis, AlertInit(t, h)
      PROVE  Inv'
  BY <1>1, AlertInitInv
<1>2. ASSUME NEW v \in Reading, AlertStep(v)  PROVE Inv'
  BY <1>2, StepInv DEF AlertStep, Inv, TypeOK
<1>3. CASE UNCHANGED vars
  BY <1>3 DEF vars, Inv, TypeOK, Latched, EventsMatchState
<1>4. ASSUME NEW ok \in BOOLEAN, NEW v \in Reading, CheckTempAlert(ok, v)
      PROVE  Inv'
  <2>1. CASE UNCHANGED vars
    BY <1>3, <2>1
  <2>2. CASE Step(v) /\ UNCHANGED calls
    BY <2>2, StepInv DEF Inv, TypeOK
  <2>3. CASE /\ Step(v) /\ StepEvent(alert, v) # "NONE"
             /\ calls' = Append(calls, [event |-> StepEvent(alert, v), value |-> v])
    <3>1. StepEvent(alert, v) \in Event
      BY <2>3, StepCases DEF Inv, Event
    <3>2. calls' \in Seq([event : Event, value : Reading])
      BY <2>3, <3>1 DEF Inv, TypeOK
    <3> QED
      BY <2>3, <3>2, StepInv
  <2> QED
    BY <1>4, <2>1, <2>2, <2>3 DEF CheckTempAlert
<1>5. CASE CallbackReturns
  <2> DEFINE Told == [event : Event, value : Reading]
  <2>1. calls \in Seq(Told) /\ calls # << >> /\ calls' = SubSeq(calls, 1, Len(calls) - 1)
    BY <1>5 DEF CallbackReturns, Inv, TypeOK
  <2> HIDE DEF Told
  <2>2. Len(calls) \in Nat /\ \A i \in 1 .. Len(calls) - 1 : calls[i] \in Told
    BY <2>1, LenProperties, ElementOfSeq
  <2>3. calls' \in Seq(Told)
    BY <2>1, <2>2, SubSeqProperties
  <2> USE DEF Told
  <2> QED
    BY <1>5, <2>3 DEF CallbackReturns, Inv, TypeOK, Latched, EventsMatchState
<1> QED
  BY <1>1, <1>2, <1>3, <1>4, <1>5 DEF Next

LEMMA Invariance == Spec => []Inv
  BY InitInv, NextInv, PTL DEF Spec

\* The fields of an alert keep their types: the state is one of two, the
\* margin is never negative, the count of breaches is a natural number.
THEOREM TypeCorrect == Spec => []TypeOK
<1>1. Inv => TypeOK
  BY DEF Inv
<1> QED
  BY <1>1, Invariance, PTL

\* One bit of state is enough: at any time an alert stands exactly when some
\* reading since the set-up exceeded the threshold and none after it came
\* down through the margin.
THEOREM AlertLatched == Spec => []Latched
<1>1. Inv => Latched
  BY DEF Inv
<1> QED
  BY <1>1, Invariance, PTL

\* Events come in turns and breach_count counts the breaches among them.
THEOREM EventsAlternate == Spec => []EventsMatchState
<1>1. Inv => EventsMatchState
  BY DEF Inv
<1> QED
  BY <1>1, Invariance, PTL

\* A callback is only ever entered with the alert already in the state that
\* its event announces, and never twice for the same breach.
THEOREM CallbackInformed == Spec => CallbackSeesNewState
<1>1. ASSUME Inv, [Next]_vars, Len(calls') > Len(calls)
      PROVE  LET told == calls'[Len(calls')]
             IN  /\ told.event = "BREACH" <=> alert'.state = "BREACHED"
                 /\ told.event = "BREACH" <=> alert.state = "OK"
                 /\ alert'.last_value = told.value
  <2>1. Len(calls) \in Nat /\ calls \in Seq([event : Event, value : Reading])
    BY <1>1 DEF Inv, TypeOK
  <2>2. calls' # calls /\ ~CallbackReturns
    BY <1>1, <2>1 DEF CallbackReturns
  <2>3. PICK ok \in BOOLEAN, v \in Reading : CheckTempAlert(ok, v)
    BY <1>1, <2>2 DEF Next, AlertInit, AlertStep, vars
  <2>4. /\ Step(v) /\ StepEvent(alert, v) # "NONE"
        /\ calls' = Append(calls, [event |-> StepEvent(alert, v), value |-> v])
    BY <2>2, <2>3 DEF CheckTempAlert, vars
  <2>5. calls'[Len(calls')] = [event |-> StepEvent(alert, v), value |-> v]
    BY <2>1, <2>4
  <2>6. TypeOK
    BY <1>1 DEF Inv
  <2> QED
    BY <2>4, <2>5, <2>6, StepCases
<1> QED
  BY <1>1, Invariance, PTL DEF Spec, CallbackSeesNewState

-----------------------------------------------------------------------------
(* The state machine implements the policy.                                *)

\* A step of the state machine is the policy's reading.
LEMMA StepFeeds ==
  ASSUME Inv, NEW v \in Reading, Step(v)
  PROVE  Policy!Feed(v)
<1> DEFINE Now == Policy!Breached(readings, alert.threshold, alert.hysteresis)
           Then == Policy!Breached(readings', alert.threshold, alert.hysteresis)
<1>1. TypeOK /\ Latched /\ Latched'
  BY StepLatched DEF Inv
<1>2. /\ readings' = Append(readings, v)
      /\ alert'.threshold = alert.threshold
      /\ alert'.hysteresis = alert.hysteresis
  BY <1>1, StepCases
<1>3. /\ alert.state = "BREACHED" <=> Now
      /\ alert'.state = "BREACHED" <=> Then
  BY <1>1, <1>2 DEF Latched
<1>4. /\ Now \in BOOLEAN /\ Then \in BOOLEAN
  BY DEF Policy!Breached
<1> HIDE DEF Now, Then
<1>5. events' = IF Now = Then THEN events
                ELSE Append(events, IF Then THEN "BREACH" ELSE "RECOVERED")
  BY <1>1, <1>3, <1>4, StepCases
<1> QED
  BY <1>2, <1>5 DEF Policy!Feed, Now, Then

LEMMA AlertInitRearms ==
  ASSUME NEW t \in Threshold, NEW h \in Hysteresis, AlertInit(t, h)
  PROVE  Policy!Rearm
<1>1. alert' \in Alarm
  BY FreshInv DEF AlertInit
<1> QED
  BY <1>1 DEF Policy!Rearm, AlertInit, Alarm

\* Every behaviour of the alert, callbacks and failed reads included, is one
\* the policy allows: each step is a reading, a set-up, or nothing to it.
THEOREM ImplementsAlertPolicy == Spec => ImplementsPolicy
<1>1. Init => Policy!Init
  <2> SUFFICES ASSUME Init  PROVE Policy!Init
    OBVIOUS
  <2>1. PICK t \in Threshold, h \in Hysteresis : alert = Fresh(t, h)
    BY DEF Init
  <2> QED
    BY <2>1, FreshInv DEF Init, Policy!Init, Alarm
<1>2. Inv /\ [Next]_vars => [Policy!Next]_(Policy!vars)
  <2> SUFFICES ASSUME Inv, [Next]_vars  PROVE Policy!Next \/ UNCHANGED Policy!vars
    OBVIOUS
  <2>1. ASSUME NEW v \in Reading, Step(v)  PROVE Policy!Next
    BY <2>1, StepFeeds DEF Policy!Next
  <2>2. ASSUME NEW t \in Threshold, NEW h \in Hysteresis, AlertInit(t, h)
        PROVE  Policy!Next
    BY <2>2, AlertInitRearms DEF Policy!Next
  <2>3. ASSUME NEW v \in Reading, AlertStep(v)  PROVE Policy!Next
    BY <2>1, <2>3 DEF AlertStep
  <2>4. ASSUME NEW ok \in BOOLEAN, NEW v \in Reading, CheckTempAlert(ok, v)
        PROVE  Policy!Next \/ UNCHANGED Policy!vars
    BY <2>1, <2>4 DEF CheckTempAlert, vars, Policy!vars
  <2>5. CASE CallbackReturns \/ UNCHANGED vars
    BY <2>5 DEF CallbackReturns, vars, Policy!vars
  <2> QED
    BY <2>2, <2>3, <2>4, <2>5 DEF Next
<1> QED
  BY <1>1, <1>2, Invariance, PTL DEF Spec, ImplementsPolicy, Policy!Spec

-----------------------------------------------------------------------------
(* Appender: the bounded output. *)

Size0 == 0 .. Top

\* Between two calls nothing has been written.
Untouched == pc = "idle" => text = <<>> /\ mem = Blank

\* While a text is appended, needed counts it, and what the buffer holds is
\* final; its terminator is there from the first piece on.
Needed ==
  pc = "appending" =>
    /\ needed = Len(text)
    /\ Len(todo) <= Len(doc.pieces)
    /\ Len(todo) = Len(doc.pieces) => text = <<>>

Kept == Least(Len(text), size - 1)

Prefix ==
  pc = "appending" /\ size > 0 =>
    /\ \A i \in 0 .. Kept - 1 : mem[i] = text[i + 1]
    /\ Len(todo) < Len(doc.pieces) => mem[Kept] = NUL

Finished ==
  pc = "returned" /\ ret # -1 =>
    /\ ret = Len(text)
    /\ size > 0 => HoldsPrefix

AppenderInv == AppenderTypeOK /\ Untouched /\ Needed /\ InBounds /\ Prefix /\ Finished

\* What a piece does to the memory, in a buffer with room left.
LEMMA VsnprintfAt ==
  ASSUME NEW at \in Nat, NEW room \in Nat \ {0}, NEW s \in Text, NEW i \in Address
  PROVE  LET n == Least(Len(s), room - 1)
         IN  /\ i < at => Vsnprintf(at, room, s)[i] = mem[i]
             /\ i \in at .. at + n - 1 => Vsnprintf(at, room, s)[i] = s[i - at + 1]
             /\ i = at + n => Vsnprintf(at, room, s)[i] = NUL
             /\ i > at + n => Vsnprintf(at, room, s)[i] = mem[i]
<1> DEFINE n == Least(Len(s), room - 1)
<1>1. Len(s) \in Nat
  BY LenProperties DEF Text
<1>2. n \in Nat
  BY <1>1 DEF Least
<1>3. Vsnprintf(at, room, s)[i] =
        IF i \in at .. at + n - 1 THEN s[i - at + 1]
        ELSE IF i = at + n THEN NUL ELSE mem[i]
  BY DEF Vsnprintf
<1>4. i \in Int
  BY SizeAssumption DEF Address
<1> HIDE DEF n
<1>5. /\ i < at => Vsnprintf(at, room, s)[i] = mem[i]
      /\ i \in at .. at + n - 1 => Vsnprintf(at, room, s)[i] = s[i - at + 1]
      /\ i = at + n => Vsnprintf(at, room, s)[i] = NUL
      /\ i > at + n => Vsnprintf(at, room, s)[i] = mem[i]
  BY <1>2, <1>3, <1>4
<1> QED BY <1>5 DEF n

LEMMA AppenderInitInv == AppenderInit => AppenderInv
<1> SUFFICES ASSUME AppenderInit PROVE AppenderInv
  OBVIOUS
<1>1. AppenderTypeOK
  BY SizeAssumption DEF AppenderInit, AppenderTypeOK, Text, Blank, Address
<1>2. InBounds
  BY DEF AppenderInit, InBounds, Blank
<1> QED BY <1>1, <1>2 DEF AppenderInit, AppenderInv, Untouched, Needed, Prefix, Finished

LEMMA BeginInv ==
  ASSUME AppenderInv, NEW d \in Document, NEW n \in BufSize, Begin(d, n)
  PROVE  AppenderInv'
<1>1. d.pieces \in Seq(Text) /\ n \in Size0 /\ Len(d.pieces) \in Nat
  BY DocumentAssumption, SizeAssumption, LenProperties DEF Begin, Size0
<1>2. text = <<>> /\ mem = Blank /\ Len(text) = 0
  BY DEF AppenderInv, Untouched, Begin
<1>3. AppenderTypeOK'
  BY <1>1 DEF AppenderInv, AppenderTypeOK, Begin, Size0
<1>4. InBounds'
  BY <1>2 DEF Begin, InBounds, Blank
<1>5. Needed'
  BY <1>1, <1>2 DEF Begin, Needed
<1>6. Prefix'
  BY <1>1, <1>2 DEF Begin, Prefix, Kept, Least, Size0
<1> QED BY <1>3, <1>4, <1>5, <1>6 DEF Begin, AppenderInv, Untouched, Finished

LEMMA RefuseInv ==
  ASSUME AppenderInv, NEW d \in Document, Refuse(d)
  PROVE  AppenderInv'
<1>1. AppenderTypeOK'
  BY DEF AppenderInv, AppenderTypeOK, Refuse
<1>2. InBounds'
  BY DEF AppenderInv, InBounds, Refuse
<1> QED BY <1>1, <1>2 DEF Refuse, AppenderInv, Untouched, Needed, Prefix, Finished

LEMMA LeaveInv ==
  ASSUME AppenderInv, Leave
  PROVE  AppenderInv'
<1>1. AppenderTypeOK'
  BY SizeAssumption DEF AppenderInv, AppenderTypeOK, Leave, Text, Blank, Address
<1>2. InBounds'
  BY DEF InBounds, Leave, Blank
<1> QED BY <1>1, <1>2 DEF Leave, AppenderInv, Untouched, Needed, Prefix, Finished

LEMMA ReturnInv ==
  ASSUME AppenderInv, Return
  PROVE  AppenderInv'
<1>1. needed = Len(text) /\ Len(text) \in Nat
  BY LenProperties DEF AppenderInv, Needed, Return, AppenderTypeOK, Text
<1>2. AppenderTypeOK'
  BY <1>1 DEF AppenderInv, AppenderTypeOK, Return
<1>3. InBounds'
  BY DEF AppenderInv, InBounds, Return
<1>4. Len(todo) = 0 /\ doc.pieces \in Seq(Text) /\ doc.pieces # <<>>
  BY DocumentAssumption DEF AppenderInv, AppenderTypeOK, Return
<1>5. Len(todo) < Len(doc.pieces)
  BY <1>4, EmptySeq, LenProperties
<1>6. size > 0 => HoldsPrefix
  BY <1>5 DEF AppenderInv, Prefix, Return, HoldsPrefix, Kept
<1>7. Finished'
  BY <1>1, <1>6 DEF Finished, Return, HoldsPrefix
<1> QED BY <1>2, <1>3, <1>7 DEF Return, AppenderInv, Untouched, Needed, Prefix

LEMMA AppendInv ==
  ASSUME AppenderInv, AppendPiece
  PROVE  AppenderInv'
<1> DEFINE piece == Head(todo)
           room  == size - needed
           n     == Least(Len(piece), room - 1)
<1>1. /\ pc = "appending" /\ pc' = "appending" /\ doc' = doc /\ size' = size
      /\ todo' = Tail(todo) /\ text' = text \o piece
      /\ needed' = needed + Len(piece) /\ ret' = ret
  BY DEF AppendPiece
<1>2. /\ todo \in Seq(Text) /\ todo # <<>> /\ text \in Seq(Char)
      /\ size \in Nat /\ size <= Top /\ doc \in Document
      /\ mem \in [Address -> Char \cup {NUL, Junk}]
  BY SizeAssumption DEF AppenderInv, AppenderTypeOK, AppendPiece, Text
<1>3. /\ piece \in Seq(Char) /\ Tail(todo) \in Seq(Text)
      /\ Len(Tail(todo)) = Len(todo) - 1 /\ Len(todo) \in Nat /\ Len(todo) > 0
  BY <1>2, HeadTailProperties, EmptySeq, LenProperties DEF Text
<1>4. Len(piece) \in Nat /\ Len(text) \in Nat /\ needed = Len(text)
  BY <1>1, <1>2, <1>3, LenProperties DEF AppenderInv, Needed
<1>5. text \o piece \in Seq(Char) /\ Len(text \o piece) = Len(text) + Len(piece)
  BY <1>2, <1>3, ConcatProperties
<1>6. \A i \in 1 .. Len(text) : (text \o piece)[i] = text[i]
  BY <1>2, <1>3, <1>4, ConcatProperties
<1>7. \A i \in 1 .. Len(piece) : (text \o piece)[Len(text) + i] = piece[i]
  BY <1>2, <1>3, <1>4, ConcatProperties
<1>8. Len(todo) <= Len(doc.pieces) /\ Len(doc.pieces) \in Nat
  BY <1>1, <1>2, DocumentAssumption, LenProperties DEF AppenderInv, Needed
<1>9. needed < size => mem' = Vsnprintf(needed, room, piece)
  BY <1>2, <1>4 DEF AppendPiece
<1>10. ~(needed < size) => mem' = mem
  BY <1>2, <1>4 DEF AppendPiece
<1> HIDE DEF piece, room, n
<1>11. needed < size => room \in Nat \ {0} /\ n \in Nat /\ n <= Len(piece) /\ n <= room - 1
  BY <1>2, <1>4 DEF room, n, Least
<1>12. needed < size => \A i \in Address :
         /\ i < needed => mem'[i] = mem[i]
         /\ i \in needed .. needed + n - 1 => mem'[i] = piece[i - needed + 1]
         /\ i = needed + n => mem'[i] = NUL
         /\ i > needed + n => mem'[i] = mem[i]
  BY <1>3, <1>4, <1>9, <1>11, VsnprintfAt DEF n, Text
<1>13. mem' \in [Address -> Char \cup {NUL, Junk}]
  <2>1. CASE ~(needed < size)
    BY <2>1, <1>2, <1>10
  <2>2. CASE needed < size
    <3>1. \A i \in needed .. needed + n - 1 : piece[i - needed + 1] \in Char
      BY <1>3, <1>4, <1>11, <2>2, ElementOfSeq
    <3>2. \A i \in Address : mem'[i] \in Char \cup {NUL, Junk}
      <4> SUFFICES ASSUME NEW i \in Address PROVE mem'[i] \in Char \cup {NUL, Junk}
        OBVIOUS
      <4>1. i \in Int
        BY SizeAssumption DEF Address
      <4>2. \/ i < needed \/ i \in needed .. needed + n - 1
            \/ i = needed + n \/ i > needed + n
        BY <1>4, <1>11, <2>2, <4>1
      <4>3. mem[i] \in Char \cup {NUL, Junk}
        BY <1>2
      <4> QED BY <1>12, <2>2, <3>1, <4>2, <4>3
    <3>3. mem' = [i \in Address |-> mem'[i]]
      BY <1>9, <2>2 DEF Vsnprintf
    <3> QED BY <3>2, <3>3
  <2> QED BY <2>1, <2>2
<1>14. AppenderTypeOK'
  BY <1>1, <1>2, <1>3, <1>4, <1>5, <1>13 DEF AppenderTypeOK, AppenderInv, Text
<1>15. InBounds'
  <2> SUFFICES ASSUME NEW i \in Address, i >= size PROVE mem'[i] = Junk
    BY <1>1 DEF InBounds
  <2>1. mem[i] = Junk
    BY DEF AppenderInv, InBounds
  <2>2. i \in Int
    BY SizeAssumption DEF Address
  <2>3. CASE needed < size
    <3>1. i > needed + n
      BY <1>2, <1>4, <1>11, <2>2, <2>3 DEF room
    <3> QED BY <1>12, <2>1, <2>3, <3>1
  <2> QED BY <1>10, <2>1, <2>3
<1>16. Needed'
  <2>1. Len(todo') < Len(doc'.pieces)
    BY <1>1, <1>3, <1>8
  <2>2. needed' = Len(text')
    BY <1>1, <1>4, <1>5
  <2>3. Len(todo') \in Nat
    BY <1>1, <1>3
  <2> QED BY <1>1, <1>8, <2>1, <2>2, <2>3 DEF Needed
<1>17. Prefix'
  <2> SUFFICES ASSUME size > 0
               PROVE  /\ \A i \in 0 .. Kept' - 1 : mem'[i] = text'[i + 1]
                      /\ mem'[Kept'] = NUL
    BY <1>1 DEF Prefix
  <2>1. \A i \in 0 .. Kept - 1 : mem[i] = text[i + 1]
    BY <1>1 DEF AppenderInv, Prefix
  <2>2. CASE needed < size
    <3>1. Kept = needed /\ Kept' = needed + n /\ needed + n <= size - 1
      BY <1>1, <1>2, <1>4, <1>5, <1>11, <2>2 DEF Kept, Least, room, n
    <3>2. needed + n \in Address
      BY <1>2, <1>4, <1>11, <2>2, <3>1, SizeAssumption DEF Address
    <3>3. mem'[Kept'] = NUL
      BY <1>12, <2>2, <3>1, <3>2
    <3>4. ASSUME NEW i \in 0 .. Kept' - 1 PROVE mem'[i] = text'[i + 1]
      <4>1. i \in Address /\ i \in Nat /\ i < needed + n
        BY <1>2, <1>4, <1>11, <2>2, <3>1, SizeAssumption, SMTT(30) DEF Address
      <4>2. CASE i < needed
        <5>1. mem'[i] = mem[i] /\ mem[i] = text[i + 1]
          BY <1>4, <1>12, <2>1, <2>2, <3>1, <4>1, <4>2
        <5>2. (text \o piece)[i + 1] = text[i + 1]
          BY <1>4, <1>6, <4>1, <4>2
        <5> QED BY <1>1, <5>1, <5>2 DEF piece
      <4>3. CASE i >= needed
        <5> DEFINE k == i - needed + 1
        <5>1. k \in 1 .. Len(piece) /\ i + 1 = Len(text) + k
          BY <1>4, <1>11, <2>2, <4>1, <4>3
        <5>2. i \in needed .. needed + n - 1
          BY <1>4, <1>11, <2>2, <4>1, <4>3
        <5>3. mem'[i] = piece[k]
          BY <1>12, <2>2, <4>1, <5>2
        <5>4. (text \o piece)[i + 1] = piece[k]
          BY <1>7, <5>1
        <5> QED BY <1>1, <5>3, <5>4 DEF piece
      <4> QED BY <1>4, <4>1, <4>2, <4>3
    <3> QED BY <3>3, <3>4
  <2>3. CASE ~(needed < size)
    <3>1. Kept = size - 1 /\ Kept' = size - 1 /\ size - 1 < Len(text)
      BY <1>1, <1>2, <1>4, <1>5, <2>3 DEF Kept, Least
    <3>2. text # <<>>
      BY <1>2, <3>1
    <3>3. Len(todo) < Len(doc.pieces)
      BY <1>1, <1>3, <1>8, <3>2 DEF AppenderInv, Needed
    <3>4. mem'[Kept'] = NUL
      BY <1>1, <1>10, <2>3, <3>1, <3>3 DEF AppenderInv, Prefix
    <3>5. ASSUME NEW i \in 0 .. Kept' - 1 PROVE mem'[i] = text'[i + 1]
      <4>1. i \in Nat /\ i + 1 \in 1 .. Len(text) /\ i \in 0 .. Kept - 1
        BY <1>2, <1>4, <3>1
      <4>2. (text \o piece)[i + 1] = text[i + 1]
        BY <1>6, <4>1
      <4> QED BY <1>1, <1>10, <2>1, <2>3, <4>1, <4>2 DEF piece
    <3> QED BY <3>4, <3>5
  <2> QED BY <2>2, <2>3
<1>18. Untouched' /\ Finished'
  BY <1>1 DEF Untouched, Finished
<1> QED BY <1>14, <1>15, <1>16, <1>17, <1>18 DEF AppenderInv

LEMMA StutterInv ==
  ASSUME AppenderInv, UNCHANGED appenderVars
  PROVE  AppenderInv'
BY DEF AppenderInv, appenderVars, AppenderTypeOK, Untouched, Needed, InBounds, Prefix, Kept, Finished, HoldsPrefix

LEMMA AppenderInductive == AppenderSpec => []AppenderInv
<1>1. AppenderInv /\ [AppenderNext]_appenderVars => AppenderInv'
  BY BeginInv, RefuseInv, AppendInv, ReturnInv, LeaveInv, StutterInv DEF AppenderNext
<1> QED BY AppenderInitInv, <1>1, PTL DEF AppenderSpec

\* The types of the appender and its memory.
THEOREM AppenderTypeCorrect == AppenderSpec => []AppenderTypeOK
<1>1. AppenderInv => AppenderTypeOK
  BY DEF AppenderInv
<1> QED BY AppenderInductive, <1>1, PTL

\* The writers keep the contract of snprintf: the length of the whole text is
\* returned whatever the size, a terminated prefix is in the buffer, and nothing
\* is written past its end, for every text however it is cut into pieces.
THEOREM ContractKept == AppenderSpec => []Contract
<1>1. AppenderInv => Contract
  BY DEF AppenderInv, Finished, Contract
<1> QED BY AppenderInductive, <1>1, PTL
=============================================================================
