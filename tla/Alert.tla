------------------------------- MODULE Alert -------------------------------
(***************************************************************************)
(* Threshold alerts (src/core/alert.c): the edge-triggered state machine   *)
(* with hysteresis, the check that feeds it one temperature, and the       *)
(* callback, which runs inside the check and may itself step, check or set *)
(* up the alert again.                                                     *)
(*                                                                         *)
(* Readings are integers in place of doubles, with the double that         *)
(* compares false to everything among them.                                *)
(***************************************************************************)
EXTENDS Integers, Sequences

CONSTANTS
  Threshold,    \* thresholds a caller asks for
  Hysteresis,   \* hysteresis values a caller asks for, negative ones too
  Reading,      \* values a sensor may read
  NaN,          \* the double that no comparison holds of
  MaxReadings,  \* bound: readings fed in after a set-up
  MaxDepth      \* bound: callbacks nested in one another

ASSUME LimitsAssumption == Threshold \subseteq Int /\ Hysteresis \subseteq Int
ASSUME ReadingAssumption == NaN \notin Int /\ Reading \subseteq Int \cup {NaN}
ASSUME BoundsAssumption == MaxReadings \in Nat /\ MaxDepth \in Nat

VARIABLES
  alert,     \* the fields of hwsense_alert_t
  calls,     \* the callbacks in progress, innermost last: event and value
  readings,  \* history: the readings stepped through since the set-up
  events     \* history: the events hwsense_alert_step returned since

vars == <<alert, calls, readings, events>>

Event == {"BREACH", "RECOVERED"}

Alarm == [threshold : Int, hysteresis : Nat, last_value : Int \cup {NaN},
          state : {"OK", "BREACHED"}, breach_count : Nat]

TypeOK ==
  /\ alert \in Alarm
  /\ calls \in Seq([event : Event, value : Reading])
  /\ readings \in Seq(Reading)
  /\ events \in Seq(Event)

\* Mutant: a negative hysteresis is taken as it is.
FreshUnclamped(t, h) ==
  [threshold |-> t, hysteresis |-> h,
   last_value |-> 0, state |-> "OK", breach_count |-> 0]

\* hwsense_alert_init: a clear alert; a negative hysteresis counts as none.
Fresh(t, h) ==
  [threshold |-> t, hysteresis |-> IF h > 0 THEN h ELSE 0,
   last_value |-> 0, state |-> "OK", breach_count |-> 0]

Init ==
  /\ \E t \in Threshold, h \in Hysteresis : alert = Fresh(t, h)
  /\ calls = << >>
  /\ readings = << >>
  /\ events = << >>

-----------------------------------------------------------------------------
(* hwsense_alert_step as a function of the alert and the reading. *)

Exceeds(v, t) == v # NaN /\ v > t
Clears(v, t, h) == v # NaN /\ v <= t - h

\* Mutant: every reading above the threshold is a breach.
StepEventLevel(a, v) ==
  CASE Exceeds(v, a.threshold) -> "BREACH"
    [] a.state = "BREACHED" /\ Clears(v, a.threshold, a.hysteresis) -> "RECOVERED"
    [] OTHER -> "NONE"

StepEvent(a, v) ==
  CASE a.state = "OK" /\ Exceeds(v, a.threshold) -> "BREACH"
    [] a.state = "BREACHED" /\ Clears(v, a.threshold, a.hysteresis) -> "RECOVERED"
    [] OTHER -> "NONE"

\* Mutant: every reading above the threshold counts.
StepAlertOvercounts(a, v) ==
  LET e == StepEvent(a, v)
  IN  [a EXCEPT !.last_value = v,
                !.state = CASE e = "BREACH" -> "BREACHED"
                            [] e = "RECOVERED" -> "OK"
                            [] OTHER -> @,
                !.breach_count = IF Exceeds(v, a.threshold) THEN @ + 1 ELSE @]

StepAlert(a, v) ==
  LET e == StepEvent(a, v)
  IN  [a EXCEPT !.last_value = v,
                !.state = CASE e = "BREACH" -> "BREACHED"
                            [] e = "RECOVERED" -> "OK"
                            [] OTHER -> @,
                !.breach_count = IF e = "BREACH" THEN @ + 1 ELSE @]

Step(v) ==
  LET e == StepEvent(alert, v)
  IN  /\ Len(readings) < MaxReadings
      /\ alert' = StepAlert(alert, v)
      /\ readings' = Append(readings, v)
      /\ events' = IF e = "NONE" THEN events ELSE Append(events, e)

-----------------------------------------------------------------------------
(* The calls of the library's user, from its loop or from a callback. *)

\* hwsense_alert_init: sets the alert up again at any moment.
AlertInit(t, h) ==
  /\ alert' = Fresh(t, h)
  /\ readings' = << >>
  /\ events' = << >>
  /\ UNCHANGED calls

\* hwsense_alert_step, or hwsense_check_temp_alert without a callback.
AlertStep(v) == Step(v) /\ UNCHANGED calls

\* hwsense_check_temp_alert with a callback: a read that failed (not ok) is
\* dropped; an event is passed to the callback after the step.
CheckTempAlert(ok, v) ==
  LET e == StepEvent(alert, v)
  IN  \/ ~ok /\ UNCHANGED vars
      \/ /\ ok
         /\ Step(v)
         /\ \/ e = "NONE" /\ UNCHANGED calls
            \/ /\ e # "NONE" /\ Len(calls) < MaxDepth
               /\ calls' = Append(calls, [event |-> e, value |-> v])

\* The innermost callback returns, and with it its check.
CallbackReturns ==
  /\ calls # << >>
  /\ calls' = SubSeq(calls, 1, Len(calls) - 1)
  /\ UNCHANGED <<alert, readings, events>>

Next ==
  \/ \E t \in Threshold, h \in Hysteresis : AlertInit(t, h)
  \/ \E v \in Reading : AlertStep(v)
  \/ \E ok \in BOOLEAN, v \in Reading : CheckTempAlert(ok, v)
  \/ CallbackReturns

Spec == Init /\ [][Next]_vars

-----------------------------------------------------------------------------
(* Properties. *)

\* The state machine, which remembers one bit, agrees with the definition
\* over all readings since the set-up, and reports each change of it once:
\* no duplicate while a breach stands, no flapping inside the hysteresis
\* band, no recovery from a read that failed.
Policy ==
  INSTANCE AlertPolicy WITH
    threshold <- alert.threshold, hysteresis <- alert.hysteresis

ImplementsPolicy == Policy!Spec

Latched ==
  alert.state = "BREACHED"
    <=> Policy!Breached(readings, alert.threshold, alert.hysteresis)

\* breach_count, "number of breaches since init", and the state are what the
\* events reported so far say: breaches and recoveries take turns.
EventsMatchState ==
  /\ \A i \in 1 .. Len(events) :
       events[i] = IF i % 2 = 1 THEN "BREACH" ELSE "RECOVERED"
  /\ alert.state = "BREACHED" <=> Len(events) % 2 = 1
  /\ Len(events) = 2 * alert.breach_count - (IF alert.state = "OK" THEN 0 ELSE 1)

\* A callback, which may look at the alert, step it or set it up again, runs
\* on an alert that already is in the state its event announces.
CallbackSeesNewState ==
  [][Len(calls') > Len(calls) =>
       LET told == calls'[Len(calls')]
       IN  /\ told.event = "BREACH" <=> alert'.state = "BREACHED"
           /\ told.event = "BREACH" <=> alert.state = "OK"
           /\ alert'.last_value = told.value]_vars
=============================================================================
