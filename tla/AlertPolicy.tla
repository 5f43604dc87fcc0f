---------------------------- MODULE AlertPolicy ----------------------------
(***************************************************************************)
(* What a threshold alert promises (README, "Threshold Alerts"; the        *)
(* comment of hwsense_alert_t in include/hwsense_unified.h), said of the   *)
(* readings alone: a breach stands when some reading exceeded the          *)
(* threshold and none since has fallen to threshold - hysteresis; an event *)
(* is reported exactly when that changes.                                  *)
(***************************************************************************)
EXTENDS Integers, Sequences

CONSTANTS
  Reading,    \* the values a sensor may read
  NaN         \* the double that no comparison holds of

VARIABLES
  threshold,   \* breach when a reading goes above this
  hysteresis,  \* margin below it that recovery requires
  readings,    \* the readings fed in since the alert was set up
  events       \* the events reported since

vars == <<threshold, hysteresis, readings, events>>

Exceeds(v, t) == v # NaN /\ v > t
Clears(v, t, h) == v # NaN /\ v <= t - h

\* Some reading of rs exceeded t and none after it cleared t - h.
Breached(rs, t, h) ==
  \E i \in 1 .. Len(rs) :
    /\ Exceeds(rs[i], t)
    /\ \A j \in i + 1 .. Len(rs) : ~Clears(rs[j], t, h)

Init ==
  /\ threshold \in Int
  /\ hysteresis \in Nat
  /\ readings = << >>
  /\ events = << >>

\* A reading is fed in; an event is reported when the breach changes.
Feed(v) ==
  LET before == Breached(readings, threshold, hysteresis)
      after  == Breached(readings', threshold, hysteresis)
  IN  /\ readings' = Append(readings, v)
      /\ events' = IF before = after THEN events
                   ELSE Append(events, IF after THEN "BREACH" ELSE "RECOVERED")
      /\ UNCHANGED <<threshold, hysteresis>>

\* The alert is set up again, possibly with other limits.
Rearm ==
  /\ threshold' \in Int
  /\ hysteresis' \in Nat
  /\ readings' = << >>
  /\ events' = << >>

Next == (\E v \in Reading : Feed(v)) \/ Rearm

Spec == Init /\ [][Next]_vars
=============================================================================
