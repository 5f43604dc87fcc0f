---------------------------- MODULE SuperIoChip -----------------------------
(***************************************************************************)
(* Super I/O chips, as the readers in src/motherboard use them.            *)
(*                                                                         *)
(* A chip listens on an index port and a data port.  A sequence of bytes   *)
(* on the index port, the key, takes it into configuration mode; there the *)
(* index port selects a register and the data port reads or writes it.     *)
(* Its hardware monitor is a second pair of ports, at a base address that  *)
(* a configuration register holds, with banked registers of its own.       *)
(*                                                                         *)
(* Bytes and registers are named.  A byte that is read is a pair: <<bank,  *)
(* register>> of the monitor, <<"cfg", contents>> of the configuration,    *)
(* or one of the constants below.                                          *)
(***************************************************************************)
EXTENDS Naturals, Sequences

\* nct: NCT6791 and newer.  older: a chip the library knows that speaks the
\* same protocol and has no lock in register 0x28.  unknown: one it does not.
Kind == {"none", "ite", "nct", "older", "unknown"}

Pair == {"2E", "4E", "162"}      \* the index port of a pair of ports

IteKey(pair) == <<"87", "01", "55", IF pair = "4E" THEN "AA" ELSE "55">>
NctKey == <<"87", "87">>

KeyOf(c, pair) == IF c.kind = "ite" THEN IteKey(pair) ELSE NctKey

\* What reading a register of the configuration can give.
Content == {"none", "float", "id0", "id1", "on", "off", "base0", "base1",
            "foreign", "set", "clear", "wiped", "other"}

Lock == {"set", "clear", "wiped"}     \* register 0x28, bit 4; wiped: all zero

Missing == <<"none", "none">>         \* the read failed
Float == <<"float", "float">>         \* nobody drove the bus: 0xFF

-----------------------------------------------------------------------------
(* The configuration ports. *)

\* Byte b arrives at the index port.
Hear(c, pair, b) ==
  LET key == KeyOf(c, pair)
      n   == IF b = key[c.key + 1] THEN c.key + 1
             ELSE IF b = key[1] THEN 1 ELSE 0
  IN  IF c.kind = "none" THEN c
      ELSE IF c.mode = "config" /\ b = "AA" /\ c.kind # "ite"
           THEN [c EXCEPT !.mode = "run", !.index = "none"]
      ELSE IF c.mode = "config" THEN [c EXCEPT !.index = b]
      ELSE IF n = Len(key) THEN [c EXCEPT !.mode = "config", !.key = 0]
      ELSE [c EXCEPT !.key = n]

\* Value v arrives at the data port.
Take(c, v) ==
  IF c.mode = "run" \/ c.index \in {"id0", "id1"} THEN c
  ELSE IF c.index = "ldn" THEN [c EXCEPT !.ldn = v]
  ELSE IF c.index = "lock" THEN [c EXCEPT !.lock = v]
  ELSE IF c.index = "ctl" /\ c.kind = "ite" /\ v = "leave"
       THEN [c EXCEPT !.mode = "run", !.index = "none"]
  ELSE [c EXCEPT !.hurt = @ \cup {c.index}]

\* The data port is read.
Say(c) ==
  IF c.mode = "run" THEN "float"
  ELSE IF c.index \in {"id0", "id1"} THEN c.index
  ELSE IF c.index = "lock" THEN c.lock
  ELSE IF c.index \notin {"active", "base0", "base1"} THEN "other"
  ELSE IF c.ldn # "mon" THEN "foreign"
  ELSE IF c.index \in c.hurt THEN "other"
  ELSE IF c.index = "active" THEN IF c.on THEN "on" ELSE "off"
  ELSE c.index

-----------------------------------------------------------------------------
(* The monitor ports. *)

MonOpen(c) == c.on /\ ~(c.kind = "nct" /\ c.lock = "set")

MonHear(c, r) == IF MonOpen(c) THEN [c EXCEPT !.mon = r] ELSE c

MonTake(c, v) ==
  IF ~MonOpen(c) THEN c
  ELSE IF c.mon = "bank" THEN [c EXCEPT !.bank = v]
  ELSE [c EXCEPT !.hurt = @ \cup {c.mon}]

MonSay(c) == IF MonOpen(c) THEN <<c.bank, c.mon>> ELSE Float
=============================================================================
