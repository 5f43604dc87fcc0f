------------------------------- MODULE MC_Ec --------------------------------
(* Small instances of Ec for TLC. *)
EXTENDS Ec

\* A fan speed, which is a word, and two temperatures.
SomeFields == <<<<"fan_low", "fan_high">>, <<"cpu">>, <<"board">>>>

SomeRegisters == {"fan_low", "fan_high", "cpu", "board"}
=============================================================================
