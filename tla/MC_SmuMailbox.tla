-------------------------- MODULE MC_SmuMailbox ----------------------------
(* Small instances of SmuMailbox for TLC. *)
EXTENDS SmuMailbox

TwoCcds == <<"ccd0", "ccd1">>
=============================================================================
