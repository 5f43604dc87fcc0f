----------------------------- MODULE MC_Alert ------------------------------
(* A small instance of Alert for TLC. *)
EXTENDS Alert

\* Two thresholds; no margin, a margin, and a negative one that is clamped.
SomeThresholds == {2, 3}
SomeHysteresis == {-1, 0, 2}

\* Every side of both limits, the limits themselves, and the NaN.
SomeReadings == 0 .. 4 \cup {NaN}
=============================================================================
