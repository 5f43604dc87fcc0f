--------------------------- MODULE MC_MsrAffinity --------------------------
(* Small instances of MsrAffinity for TLC. *)
EXTENDS MsrAffinity
=============================================================================
