------------------------------ MODULE MC_Export -----------------------------
(* A small instance of Export for TLC. *)
EXTENDS ExportReader

\* Names of up to two characters: a plain one, and one of each kind that one
\* of the formats treats specially.
NameChar == {"x", Quote, Backslash, ",", "LF", "SOH"}
Names == UNION {[1 .. n -> NameChar] : n \in 0 .. 2}

\* Every name as the processor's and as a drive's; no fans, and more than the
\* array of fans holds.
SomeData ==
  {[cpu_vendor |-> <<"x">>, cpu_name |-> n, fan_count |-> 3, drives |-> <<n, <<"x">>>>] :
     n \in Names}
  \cup {[cpu_vendor |-> <<Quote>>, cpu_name |-> <<>>, fan_count |-> 0, drives |-> <<>>]}

SomeDocuments ==
  Documents(SomeData, {"."})
  \cup Documents({d \in SomeData : d.fan_count = 0}, {","})

\* Sizes that are refused, that measure only, that cut a text in its first
\* piece, in the middle or at its last character, and that just hold it: the
\* header has 45 characters, most JSON texts 265 to 277.
SomeSizes == {-1, 0, 1, 46, 269, 270, 278}

SomeChars ==
  UNION {UNION {Range(d.pieces[i]) : i \in DOMAIN d.pieces} : d \in SomeDocuments}
=============================================================================
