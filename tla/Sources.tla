------------------------------ MODULE Sources -------------------------------
(***************************************************************************)
(* What a machine has to read: a function from the sources that can be     *)
(* read to their contents.  A reading is a set with one value, or empty.   *)
(***************************************************************************)
EXTENDS Integers, Sequences, FiniteSets

Read(f, p) == {f[p] : q \in {p} \cap DOMAIN f}
Is(f, p, S) == p \in DOMAIN f /\ f[p] \in S
Else(a, b) == IF a # {} THEN a ELSE b
UpTo(n, s) == SubSeq(s, 1, IF n < Len(s) THEN n ELSE Len(s))

\* f, and c at p.
With(f, p, c) == [q \in DOMAIN f \cup {p} |-> IF q = p THEN c ELSE f[q]]

\* Places in the order of a scan: by device, then by number.
Before(a, b) == a[1] < b[1] \/ (a[1] = b[1] /\ a[2] < b[2])
Nth(S, n) == CHOOSE x \in S : Cardinality({y \in S : Before(y, x)}) = n
InOrder(S) == [n \in 1 .. Cardinality(S) |-> Nth(S, n - 1)]

\* The sources as a call may have come across them when S is what there was
\* in turn: each one as it was at some moment of the call.
Mixtures(S) ==
  LET all == UNION {DOMAIN f : f \in S}
      changed == {p \in all : \E f \in S, g \in S : Read(f, p) # Read(g, p)}
      f0 == CHOOSE f \in S : TRUE
      source(pick, p) == IF p \in changed THEN pick[p] ELSE f0
  IN  {[p \in {q \in all : q \in DOMAIN source(pick, q)} |-> source(pick, p)[p]] :
         pick \in [changed -> S]}
=============================================================================
