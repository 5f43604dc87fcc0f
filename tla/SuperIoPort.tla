---------------------------- MODULE SuperIoPort -----------------------------
(***************************************************************************)
(* Port access to a Super I/O chip: the state of one call of a reader and  *)
(* the single accesses it consists of, for the Windows reader (superio.c,  *)
(* through the WinRing0 driver) and the Linux ones (ite_linux.c and        *)
(* nct_linux.c, through /dev/port).                                        *)
(*                                                                         *)
(* A procedure of the readers is a queue of accesses, todo, and an action  *)
(* that decides how to go on when they are done.  An access is one byte to *)
(* the index port, or a register's index and then its data.  Each of the   *)
(* two transfers may fail: on Windows a failed index gives up the access,  *)
(* and a failed key the procedure; on Linux the results are not looked at  *)
(* and the data transfer hits the register selected before.                *)
(***************************************************************************)
EXTENDS SuperIoChip

CONSTANTS
  Bank,         \* the banks of a monitor
  Cleared,      \* per content of an ITE bank register with a bit of 0x60 set, what
                \* is left without these bits
  Offset,       \* the offsets of its registers
  IteFields,    \* what ite_decode.c reads: fields of bank 0
  NctFields,    \* what nct_linux.c reads
  WinFields,    \* what superio.c reads of a Nuvoton chip, per kind of reading
  Source,       \* per selector register, the temperature source in it, or 0
  Dead,         \* registers of inputs that are not connected
  MaxFaults     \* bound: accesses that fail, and deaths, in a behaviour

Wants == {"temp", "fan", "volt"}

\* A field is what is computed from some registers, <<bank, offset>>; with sel,
\* the first one selects the source of a temperature.
Field == [kind : Wants, sel : BOOLEAN, regs : Seq(Bank \X Offset)]

\* What is written to a port, and what a slot can hold.
Byte ==
  Content \cup {"87", "01", "55", "AA", "ldn", "active", "lock", "bank", "ctl",
               "mon", "leave", "junk", "cut", "b0"}
    \cup Bank \cup Offset

ASSUME BanksAssumption == "none" \notin Bank

ASSUME ClearedAssumption == Cleared \in [DOMAIN Cleared -> Bank]

ASSUME FieldsAssumption ==
  /\ WinFields \in [Wants -> Seq(Field)]
  /\ \A F \in {IteFields, NctFields} \cup {WinFields[w] : w \in Wants} :
       /\ F \in Seq(Field)
       /\ \A i \in 1 .. Len(F) : F[i].sel =>
            F[i].kind = "temp" /\ F[i].regs # <<>> /\ F[i].regs[1] \in DOMAIN Source

ASSUME SourceAssumption == \A r \in DOMAIN Source : Source[r] \in Nat

\* ite_decode.c reads no other bank.
ASSUME BankAssumption ==
  \A i \in 1 .. Len(IteFields) : \A j \in 1 .. Len(IteFields[i].regs) :
    IteFields[i].regs[j][1] = "b0"

ASSUME FaultsAssumption == MaxFaults \in Nat

VARIABLES
  os,        \* which library this is
  chip,      \* per pair of ports, the chip that listens there
  pc,        \* the procedure in progress
  what,      \* the kind of reading that is asked for
  family,    \* the kind of chip being tried
  at,        \* the position in the list of port pairs
  todo,      \* the accesses left to do
  got,       \* what was read from the configuration
  base,      \* where the monitor is taken to be
  cache,     \* nct_hw_t.bank
  fields,    \* the fields left to read
  cells,     \* what was read for the first of them
  res,       \* the readings of the result
  was,       \* history: the chips when the call began
  tried,     \* history: the pairs that were tried, for which family
  cut,       \* history: a write failed in this call
  lost,      \* history: the reads that failed in this call
  stray,     \* history: a byte went to ports of something else
  faults     \* the failures and deaths so far

device == <<os, chip, was, cut, lost, stray>>
reading == <<fields, cells, cache>>
vars == <<device, faults, pc, what, family, at, todo, got, base, reading, res, tried>>

\* The last one stands for all pairs of superio.c that no write may go to.
PortPairs ==
  IF os = "windows" THEN <<"2E", "4E", "162">> ELSE <<"2E", "4E">>

Here == PortPairs[at]

Slot == {"key", "id0", "id1", "active", "base0", "base1", "lock", "bank"}
Nothing == [s \in Slot |-> "none"]

-----------------------------------------------------------------------------
(* Accesses. *)

Access(op, port, reg, val) == [op |-> op, port |-> port, reg |-> reg, val |-> val]

Keys(key) == [i \in 1 .. Len(key) |-> Access("key", "cfg", key[i], "none")]
Send(b) == Access("send", "cfg", b, "none")
Get(port, reg) == Access("get", port, reg, "none")
Put(port, reg, val) == Access("put", port, reg, val)
Cell(port, reg) == Access("cell", port, reg, "none")

\* ite_exit and sio_exit.
IteExit == <<Put("cfg", "ctl", "leave")>>
NctExit == <<Send("AA")>>

ReadId == <<Get("cfg", "id0"), Get("cfg", "id1")>>

\* sio_validate_write_port, and the end of the port space on Linux.
Barred(a) == IF a.port = "cfg" THEN Here = "162" ELSE base = "far"

\* The transfers of access a that fail: the first, the second, or both.
Outcome(a) ==
  IF Barred(a) THEN {"both"}
  ELSE IF faults = MaxFaults THEN {"ok"}
  ELSE IF a.op \in {"key", "send"} THEN {"ok", "both"}
  ELSE IF os = "windows" THEN {"ok", "second", "both"}
  ELSE {"ok", "first", "second", "both"}

\* Whether the access arrives at the chip of this pair.
Arrives(a) == a.port = "cfg" \/ base = "mon"

AfterIndex(a, f) ==
  IF f \in {"first", "both"} \/ ~Arrives(a) THEN chip[Here]
  ELSE IF a.port = "cfg" THEN Hear(chip[Here], Here, a.reg)
  ELSE MonHear(chip[Here], a.reg)

AfterData(a, f) ==
  LET c == AfterIndex(a, f)
  IN  IF f \in {"second", "both"} \/ ~Arrives(a) \/ a.op # "put" THEN c
      ELSE IF a.port = "cfg" THEN Take(c, a.val) ELSE MonTake(c, a.val)

ValueRead(a, f) ==
  IF f \in {"second", "both"} THEN Missing
  ELSE IF ~Arrives(a) THEN Float
  ELSE IF a.port = "cfg" THEN <<"cfg", Say(AfterIndex(a, f))>>
  ELSE MonSay(AfterIndex(a, f))

\* What the slot of a register holds after v was read for it.
Stored(a, v) ==
  IF a.port = "cfg" \/ v = Missing THEN v[2]
  ELSE IF v[2] = "bank" THEN v[1] ELSE "junk"

WriteFailed(a, f) == f \in {"first", "both"} \/ (a.op = "put" /\ f = "second")

\* A key that fails on Windows ends the procedure.
GivesUp(a, f) == os = "windows" /\ a.op = "key" /\ f = "both"

Transfer ==
  /\ todo # <<>>
  /\ \E f \in Outcome(Head(todo)) :
       LET a == Head(todo)
           v == ValueRead(a, f)
       IN  /\ chip' = [chip EXCEPT ![Here] = AfterData(a, f)]
           /\ got' = IF a.op = "get" THEN [got EXCEPT ![a.reg] = Stored(a, v)]
                     ELSE IF GivesUp(a, f) THEN [got EXCEPT !["key"] = "cut"]
                     ELSE got
           /\ cells' = IF a.op = "cell" THEN Append(cells, v) ELSE cells
           /\ todo' = IF GivesUp(a, f) THEN <<>> ELSE Tail(todo)
           /\ cut' = (cut \/ (WriteFailed(a, f) /\ ~Barred(a)))
           /\ lost' = IF v # Missing \/ a.op \notin {"get", "cell"} THEN lost
                      ELSE lost \cup {IF a.op = "get" THEN a.reg ELSE "cell"}
           /\ faults' = IF f = "ok" \/ Barred(a) THEN faults ELSE faults + 1
           /\ stray' = (stray \/ (~Arrives(a) /\ f # "both"))
  /\ UNCHANGED <<os, was, pc, what, family, at, base, cache, fields, res, tried>>

-----------------------------------------------------------------------------
(* How the readers go on. *)

Done(p) == pc = p /\ todo = <<>>

Begin(p, ops) == pc' = p /\ todo' = ops /\ got' = Nothing

\* The kinds of chip a reader of this family is for.
Speaks(f) == IF f = "ite" THEN {"ite"} ELSE {"nct", "older"}

\* The chip identifies itself as one of these kinds.
IsKind(kinds) ==
  got.id0 = "id0" /\ got.id1 = "id1" /\ chip[Here].kind \in kinds

\* A call begins.
NewCall(w) ==
  /\ pc \in {"idle", "returned"}
  /\ what' = w
  /\ was' = chip /\ cut' = FALSE /\ lost' = {} /\ stray' = FALSE
  /\ res' = <<>>
  /\ UNCHANGED <<os, chip, base, reading>>

Try(f, pos) ==
  /\ family' = f
  /\ at' = pos
  /\ tried' = tried \cup {<<PortPairs[pos], f>>}

Blank == [kind |-> "none", regs |-> <<>>, cells |-> <<>>, source |-> 0]

\* The readings of the kinds that were not asked for are cleared.
Return(readings) ==
  /\ pc' = "returned"
  /\ res' = [i \in 1 .. Len(readings) |->
               IF readings[i].kind = what THEN readings[i] ELSE Blank]
  /\ todo' = <<>> /\ got' = Nothing /\ base' = "none"
  /\ fields' = <<>> /\ cells' = <<>> /\ cache' = "none"
  /\ UNCHANGED <<device, faults, what, family, at, tried>>

=============================================================================
