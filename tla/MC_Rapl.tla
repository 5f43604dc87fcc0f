------------------------------- MODULE MC_Rapl ------------------------------
(* Small instances of Rapl for TLC. *)
EXTENDS Rapl, TLC

Symmetry == Permutations(Thread)

\* 0xA0E03, the unit register of most processors: power 3, energy 14, time 10.
CommonUnits == 10 * 65536 + 14 * 256 + 3
=============================================================================
