--------------------------- MODULE SuperIoProofs ----------------------------
(***************************************************************************)
(* Theorems about SuperIo: types, and for every board, every list of       *)
(* fields and any sequence of calls on either system with accesses that    *)
(* fail and processes that die, that a call leaves the chips as it should, *)
(* reads what it reports, and reports each source once.                    *)
(***************************************************************************)
EXTENDS SuperIo, FiniteSetTheorems, TLAPS

-----------------------------------------------------------------------------
(* Types. *)

\* The length of a sequence.  It stays hidden in most proofs: the provers take
\* a length that is a number for the sequence's domain, a set of numbers.
Size(s) == Len(s)
Left == Size(todo)

Register == Bank \X Offset
Value == ({"cfg"} \cup Byte) \X Byte

Request == [op : {"key", "send", "get", "put", "cell"}, port : {"cfg", "mon"},
            reg : Byte, val : Byte]

\* What the library writes, and where.
Proper(a) ==
  /\ a \in Request
  /\ a.op \in {"key", "send"} => a.port = "cfg"
  /\ a.op = "get" => a.reg \in Slot \ {"key"} /\ (a.port = "mon" => a.reg = "bank")
  /\ a.op = "put" => a.val # "none"
  /\ a.op = "put" /\ a.port = "mon" => a.reg = "bank"
  /\ a.op = "put" /\ a.port = "cfg" =>
       /\ a.reg \in {"ldn", "lock", "ctl", "bank"}
       /\ a.reg = "ldn" => a.val = "mon"
       /\ os = "linux" => a.val \in {"mon", "leave", "clear", "wiped"}

\* A chip of a board in pair p.
ChipOk(c, p) ==
  /\ c \in ChipType
  /\ c.key < Size(KeyOf(c, p))
  /\ c.mode = "config" => c.key = 0
  /\ c.kind = "none" => Quiet(c)
  /\ c.lock # "none" /\ c.bank # "none"
  /\ os = "linux" => c.lock \in {"set", "clear", "wiped", "mon", "leave"}

BoardTyped ==
  /\ os \in {"windows", "linux"}
  /\ chip \in [Pair -> ChipType] /\ \A p \in Pair : ChipOk(chip[p], p)
  /\ was \in [Pair -> ChipType]
  /\ \A p \in Pair : was[p].kind = chip[p].kind /\ was[p].on = chip[p].on
  /\ cut \in BOOLEAN /\ stray \in BOOLEAN
  /\ lost \subseteq Slot \cup {"cell"}
  /\ faults \in 0 .. MaxFaults

CallTyped ==
  /\ pc \in Procedure /\ what \in Wants /\ family \in {"ite", "nct"}
  /\ at \in 1 .. Len(PortPairs)
  /\ got \in [Slot -> Byte] /\ base \in {"none", "mon", "far", "wrong"}
  /\ cache \in Byte
  /\ tried \subseteq Pair \X {"ite", "nct"}

Result == [kind : Wants \cup {"none"}, regs : Seq(Register), cells : Seq(Value),
           source : Nat]

FieldsTyped ==
  /\ fields \in Seq(Field) /\ cells \in Seq(Value) /\ res \in Seq(Result)
  /\ family = "ite" =>
       \A i \in 1 .. Len(fields) : \A j \in 1 .. Len(fields[i].regs) :
         fields[i].regs[j][1] = "b0"
  /\ fields # <<>> => pc = "fields" /\ Len(cells) <= Len(Head(fields).regs)
  /\ fields = <<>> => cells = <<>>
  /\ pc \in {"fields", "finish", "returned"} \/ res = <<>>

TypeInv == BoardTyped /\ CallTyped /\ FieldsTyped

-----------------------------------------------------------------------------
(* The accesses that are left in each procedure: an end of its list. *)

Ends1(f) == {<<f>>, <<>>}
Ends2(e, f) == Ends1(f) \cup {<<e, f>>}
Ends3(d, e, f) == Ends2(e, f) \cup {<<d, e, f>>}
Ends4(c, d, e, f) == Ends3(d, e, f) \cup {<<c, d, e, f>>}
Ends5(b, c, d, e, f) == Ends4(c, d, e, f) \cup {<<b, c, d, e, f>>}
Ends6(a, b, c, d, e, f) == Ends5(b, c, d, e, f) \cup {<<a, b, c, d, e, f>>}

Here1 == chip[Here]

Key(b) == Access("key", "cfg", b, "none")

Leave == Put("cfg", "ctl", "leave")

IteKeyed ==
  Ends6(Key("87"), Key("01"), Key("55"), Key(IF Here = "4E" THEN "AA" ELSE "55"),
        Get("cfg", "id0"), Get("cfg", "id1"))

NctKeyed == Ends4(Key("87"), Key("87"), Get("cfg", "id0"), Get("cfg", "id1"))

Detected ==
  Ends6(Leave, Key("87"), Key("87"), Get("cfg", "id0"), Get("cfg", "id1"), Send("AA"))

FoundThen(a) ==
  Ends5(Put("cfg", "ldn", "mon"), Get("cfg", "active"), Get("cfg", "base0"),
        Get("cfg", "base1"), a)

Found ==
  Ends4(Put("cfg", "ldn", "mon"), Get("cfg", "active"), Get("cfg", "base0"),
        Get("cfg", "base1"))

Locking == \E v \in Byte \ {"none"} :
  /\ todo \in {<<Put("cfg", "lock", v), Send("AA")>>, <<Send("AA")>>}
  /\ os = "linux" => v \in {"clear", "wiped"}

\* The register the current field needs next.
NextReg == Head(fields).regs[Len(cells) + 1]

CellDue == fields # <<>> /\ Len(cells) < Len(Head(fields).regs)

FieldsQueue ==
  \/ todo = <<>>
  \/ NctOnWindows /\ Locking
  \/ /\ family = "ite" /\ got.bank \in DOMAIN Cleared
     /\ todo = <<Put("mon", "bank", ReadBank(got.bank))>>
  \/ /\ CellDue
     /\ \/ /\ NctOnWindows
           /\ todo \in Ends2(Put("cfg", "bank", NextReg[1]), Cell("cfg", NextReg[2]))
        \/ /\ NctOnLinux /\ cache = NextReg[1]
           /\ todo \in Ends2(Put("mon", "bank", NextReg[1]), Cell("mon", NextReg[2]))
        \/ family = "ite" /\ todo = <<Cell("mon", NextReg[2])>>

Queue ==
  /\ pc \in {"idle", "returned"} => todo = <<>> /\ fields = <<>> /\ cache = "none"
  /\ pc = "ite" => os = "windows" /\ family = "ite" /\ todo \in IteKeyed
  /\ pc = "probe" => os = "linux" /\ todo \in (IF family = "ite" THEN IteKeyed ELSE NctKeyed)
  /\ pc = "detect" => os = "windows" /\ family = "nct" /\ todo \in Detected
  /\ pc = "leave" =>
       os = "linux" /\ todo \in (IF family = "ite" THEN Ends1(Leave) ELSE Ends1(Send("AA")))
  /\ pc = "ite find" => os = "windows" /\ family = "ite" /\ todo \in FoundThen(Leave)
  /\ pc = "unlock" =>
       /\ family = "nct"
       /\ todo \in (IF os = "windows" THEN Ends3(Key("87"), Key("87"), Get("cfg", "lock"))
                    ELSE IF Here1.kind = "nct" THEN FoundThen(Get("cfg", "lock"))
                    ELSE Found)
  /\ pc = "open" =>
       /\ os = "linux"
       /\ IF family = "ite" THEN todo \in FoundThen(Leave) ELSE todo = <<>> \/ Locking
  /\ pc = "bank" => (os = "windows" => family = "ite") /\ todo \in Ends1(Get("mon", "bank"))
  /\ pc = "fields" => FieldsQueue
  /\ pc = "finish" =>
       \/ todo = <<>>
       \/ ~NctOnWindows /\ got.bank # "none" /\ base # "none"
            /\ todo = <<Put("mon", "bank", got.bank)>>
  /\ pc \in {"ite find", "unlock", "open", "bank", "fields"} => Here1.kind \in Speaks(family)
  /\ pc \in {"bank", "fields"} /\ ~NctOnWindows => base # "none"
  /\ pc \notin {"bank", "fields", "finish"} \/ NctOnWindows => base = "none"

\* At a pair that may not be written to nothing is found and nothing changes.
Outside ==
  /\ Quiet(chip["162"]) /\ was["162"] = chip["162"]
  /\ Here = "162" =>
       pc \in {"ite", "detect", "returned"} /\ os = "windows" /\ got.id0 = "none"

-----------------------------------------------------------------------------
(* Configuration mode, as long as no write failed. *)

\* The kinds of chip that take a family's key.
Hears(f) == IF f = "ite" THEN {"ite"} ELSE {"nct", "older", "unknown"}

\* Chip p was quiet at first, or heard its key from a family in T.
Tamed(p, T) ==
  Quiet(was[p]) \/ \E f \in {"ite", "nct"} : <<p, f>> \in T /\ chip[p].kind \in Hears(f)

Calm == Tamed(Here, tried \ {<<Here, family>>})

\* After k bytes of the key, and as much of what follows it.
IteHeard(c, k) ==
  (k \in 1 .. 3 => c.mode = "config" \/ c.key = k) /\ (k >= 4 => c.mode = "config")

NctHeard(c, k) ==
  (k = 1 => c.mode = "config" \/ c.key = 1) /\ (k >= 2 => c.mode = "config")

\* A quiet chip of the other family, which has just heard the first byte of
\* its own key (soon) or not.
Deaf(c, soon) == c.mode = "run" /\ c.key <= 1 /\ (soon \/ c.key = 0)

\* The chip of this pair, when n accesses are left.
ModeAfter(c, n) ==
  LET hears == c.kind \in Hears(family)
  IN
  /\ pc \in {"ite", "probe"} /\ family = "ite" =>
       IF hears THEN IteHeard(c, 6 - n) ELSE Calm => Deaf(c, n = 5)
  /\ pc = "probe" /\ family = "nct" =>
       IF hears THEN NctHeard(c, 4 - n) ELSE Calm => Deaf(c, n \in 2 .. 3)
  /\ pc = "detect" =>
       IF hears
       THEN /\ n >= 5 /\ Quiet(was[Here]) => Quiet(c)
            /\ n \in 1 .. 4 => NctHeard(c, 5 - n)
            /\ n = 0 => Quiet(c)
       ELSE c.kind = "ite" => IF n = 6 THEN c.mode = "config" ELSE Deaf(c, n \in 3 .. 4)
  /\ pc = "leave" =>
       IF hears THEN IF n = 1 THEN c.mode = "config" ELSE Quiet(c)
       ELSE Calm => Quiet(c)
  /\ pc \in {"ite find", "open"} => IF n >= 1 THEN c.mode = "config" ELSE Quiet(c)
  /\ pc = "unlock" => IF os = "windows" THEN NctHeard(c, 3 - n) ELSE c.mode = "config"
  /\ pc \in {"bank", "fields", "finish"} /\ ~NctOnWindows => (Tamed(Here, tried) => Quiet(c))
  /\ pc = "fields" /\ NctOnWindows =>
       IF Locking THEN c.mode = "config" ELSE c.mode = "run" /\ (n = 1 => c.key = 0)
  /\ pc \in {"finish", "returned"} /\ Tamed(Here, tried) => c.mode = "run"

Others == \A p \in Pair \ {Here} : Tamed(p, tried) => Quiet(chip[p])

Modes == ~cut => Others /\ (Here # "162" => got.key # "cut" /\ ModeAfter(Here1, Left))

-----------------------------------------------------------------------------
(* Registers, as long as no write failed. *)

Hurts ==
  ~cut => \A p \in Pair :
    chip[p].hurt \subseteq was[p].hurt \cup (IF Quiet(was[p]) THEN {} ELSE {"ctl"})

\* The monitor of a chip is looked for.
Finding == pc \in {"ite find", "open"}

Seeking == Finding \/ (pc = "unlock" /\ os = "linux")

\* How much of the search is left, counted from the ITE chips' end.
Ahead ==
  IF pc = "open" /\ family = "nct" THEN 0
  ELSE IF pc = "unlock" /\ Here1.kind # "nct" THEN Left + 1 ELSE Left

\* Slot s has register v of the monitor, unless it could not be read or is due.
SlotFine(s, v, due) ==
  /\ got[s] # "none" \/ s \in lost \/ due
  /\ ~Damaged => got[s] \in {"none", v}

\* The logical device is selected before the registers of the monitor are
\* read, and what is read of them is right.
Addressed ==
  ~cut /\ Seeking =>
    /\ Ahead <= 4 => Here1.ldn = "mon"
    /\ SlotFine("active", IF Here1.on THEN "on" ELSE "off", Ahead >= 4)
    /\ SlotFine("base0", "base0", Ahead >= 3)
    /\ SlotFine("base1", "base1", Ahead >= 2)

BaseKnown == base = "wrong" => cut \/ Damaged \/ (os = "windows" /\ "base1" \in lost)

\* The lock register went from value v to w.
Loosened(v, w) == v = w \/ (v = "set" /\ w = "clear") \/ (os = "windows" /\ "lock" \in lost)

\* What is about to be written to the lock register, and why.
LockHere ==
  /\ pc \in {"open", "fields"} /\ family = "nct" =>
       \A v \in Byte : todo = <<Put("cfg", "lock", v), Send("AA")>> => Loosened(Here1.lock, v)
  /\ pc = "unlock" =>
       /\ got.lock \in {"none", Here1.lock}
       /\ os = "windows" \/ Here1.kind = "nct" =>
            got.lock # "none" \/ "lock" \in lost \/ Left >= 1

Locks == ~cut => LockHere /\ \A p \in Pair : Loosened(was[p].lock, chip[p].lock)

-----------------------------------------------------------------------------
(* The monitor, as long as no write failed. *)

\* Accesses to the monitor reach it.
Reached == base = "mon" /\ MonOpen(Here1)

\* The bank of chip p went to b.
BankFine(p, b) == b = was[p].bank \/ (os = "linux" /\ "bank" \in lost)

Putting == todo # <<>> /\ Head(todo).op = "put"

\* The bank that the reader takes to be selected is.
Selected ==
  IF family = "ite" THEN Here1.bank = ReadBank(got.bank) ELSE cache \in {"none", Here1.bank}

BankHere ==
  /\ ~Reached \/ pc = "bank" => BankFine(Here, Here1.bank)
  /\ pc = "bank" =>
       /\ Reached => got.bank \in {"none", Here1.bank}
       /\ got.bank # "none" \/ "bank" \in lost \/ Left >= 1
  /\ pc = "fields" /\ ~NctOnWindows => got.bank # "none" \/ "bank" \in lost
  /\ pc = "fields" /\ Reached =>
       (got.bank # "none" => BankFine(Here, got.bank)) /\ (Putting \/ Selected)
  /\ pc = "finish" /\ Reached =>
       BankFine(Here, IF todo = <<>> THEN Here1.bank ELSE got.bank)

Banks == ~cut => BankHere /\ \A p \in Pair \ {Here} : BankFine(p, chip[p].bank)

\* A file that was opened for the bank knows it.
BankKnown == pc = "fields" /\ family = "ite" => got.bank # "none"

\* Nothing failed in this call that matters, nor before it.
Whole == ~cut /\ ~Damaged /\ lost \subseteq {"cell"}

\* The lock of the chip's monitor is off when the chip has been left.
Unlocked == pc = "open" /\ Here1.kind = "nct" => Here1.lock # "set" \/ Left = 2

Reaching == pc \in {"bank", "fields"} => Reached

\* What was read for a field so far is from its own registers, or missing.
CellsOwn ==
  pc = "fields" /\ fields # <<>> =>
    \A i \in 1 .. Len(cells) : cells[i] \in {Missing, Head(fields).regs[i]}

ResOwn == \A i \in 1 .. Len(res) : res[i].cells = res[i].regs

\* The chips that ReadingsOwn excepts.
Exempt == NctOnWindows \/ Stuck

OwnCells == Whole /\ ~Exempt => Unlocked /\ Reaching /\ CellsOwn /\ ResOwn

-----------------------------------------------------------------------------
(* Lists of accesses. *)

\* Hidden like Size: the provers expand a concatenation element by element.
Join(s, t) == s \o t

LEMMA Joined ==
  ASSUME NEW S, NEW s \in Seq(S), NEW t \in Seq(S)
  PROVE  /\ Join(s, t) \in Seq(S) /\ Size(Join(s, t)) = Size(s) + Size(t)
         /\ \A i \in 1 .. Size(s) : Join(s, t)[i] = s[i]
         /\ \A i \in 1 .. Size(t) : Join(s, t)[Size(s) + i] = t[i]
BY DEF Size, Join

LEMMA JoinEmpty ==
  ASSUME NEW S, NEW t \in Seq(S)
  PROVE  Join(<<>>, t) = t
BY DEF Join

LEMMA Join11 ==
  ASSUME NEW S, NEW a \in S, NEW b \in S
  PROVE  Join(<<a>>, <<b>>) = <<a, b>>
<1>1. PICK s : s = <<a>>
  OBVIOUS
<1>2. PICK t : t = <<b>>
  OBVIOUS
<1>3. s \in Seq(S) /\ Size(s) = 1 /\ s[1] = a
  BY <1>1 DEF Size
<1>4. t \in Seq(S) /\ Size(t) = 1 /\ t[1] = b
  BY <1>2 DEF Size
<1>5. /\ Join(s, t) \in Seq(S) /\ Size(Join(s, t)) = Size(s) + Size(t)
      /\ \A i \in 1 .. Size(s) : Join(s, t)[i] = s[i]
      /\ \A i \in 1 .. Size(t) : Join(s, t)[Size(s) + i] = t[i]
  <2>1. s \in Seq(S) /\ t \in Seq(S)
    BY <1>3, <1>4
  <2>2. QED
    BY <2>1, Joined
<1>6. PICK u : u = Join(s, t)
  OBVIOUS
<1>7. /\ 1 \in 1 .. Size(s)
      /\ 1 \in 1 .. Size(t) /\ Size(s) + 1 = 2
      /\ Size(s) + Size(t) = 2
  BY <1>3, <1>4
<1>8. u \in Seq(S) /\ Size(u) = 2 /\ u[1] = a /\ u[2] = b
  BY <1>3, <1>4, <1>5, <1>6, <1>7
<1>9. u = <<a, b>>
  BY <1>8 DEF Size
<1>10. QED
  BY <1>1, <1>2, <1>6, <1>9

LEMMA Join21 ==
  ASSUME NEW S, NEW a \in S, NEW b \in S, NEW c \in S
  PROVE  Join(<<a, b>>, <<c>>) = <<a, b, c>>
<1>1. PICK s : s = <<a, b>>
  OBVIOUS
<1>2. PICK t : t = <<c>>
  OBVIOUS
<1>3. s \in Seq(S) /\ Size(s) = 2 /\ s[1] = a /\ s[2] = b
  BY <1>1 DEF Size
<1>4. t \in Seq(S) /\ Size(t) = 1 /\ t[1] = c
  BY <1>2 DEF Size
<1>5. /\ Join(s, t) \in Seq(S) /\ Size(Join(s, t)) = Size(s) + Size(t)
      /\ \A i \in 1 .. Size(s) : Join(s, t)[i] = s[i]
      /\ \A i \in 1 .. Size(t) : Join(s, t)[Size(s) + i] = t[i]
  <2>1. s \in Seq(S) /\ t \in Seq(S)
    BY <1>3, <1>4
  <2>2. QED
    BY <2>1, Joined
<1>6. PICK u : u = Join(s, t)
  OBVIOUS
<1>7. /\ 1 \in 1 .. Size(s) /\ 2 \in 1 .. Size(s)
      /\ 1 \in 1 .. Size(t) /\ Size(s) + 1 = 3
      /\ Size(s) + Size(t) = 3
  BY <1>3, <1>4
<1>8. u \in Seq(S) /\ Size(u) = 3 /\ u[1] = a /\ u[2] = b /\ u[3] = c
  BY <1>3, <1>4, <1>5, <1>6, <1>7
<1>9. u = <<a, b, c>>
  BY <1>8 DEF Size
<1>10. QED
  BY <1>1, <1>2, <1>6, <1>9

LEMMA Join22 ==
  ASSUME NEW S, NEW a \in S, NEW b \in S, NEW c \in S, NEW d \in S
  PROVE  Join(<<a, b>>, <<c, d>>) = <<a, b, c, d>>
<1>1. PICK s : s = <<a, b>>
  OBVIOUS
<1>2. PICK t : t = <<c, d>>
  OBVIOUS
<1>3. s \in Seq(S) /\ Size(s) = 2 /\ s[1] = a /\ s[2] = b
  BY <1>1 DEF Size
<1>4. t \in Seq(S) /\ Size(t) = 2 /\ t[1] = c /\ t[2] = d
  BY <1>2 DEF Size
<1>5. /\ Join(s, t) \in Seq(S) /\ Size(Join(s, t)) = Size(s) + Size(t)
      /\ \A i \in 1 .. Size(s) : Join(s, t)[i] = s[i]
      /\ \A i \in 1 .. Size(t) : Join(s, t)[Size(s) + i] = t[i]
  <2>1. s \in Seq(S) /\ t \in Seq(S)
    BY <1>3, <1>4
  <2>2. QED
    BY <2>1, Joined
<1>6. PICK u : u = Join(s, t)
  OBVIOUS
<1>7. /\ 1 \in 1 .. Size(s) /\ 2 \in 1 .. Size(s)
      /\ 1 \in 1 .. Size(t) /\ Size(s) + 1 = 3 /\ 2 \in 1 .. Size(t) /\ Size(s) + 2 = 4
      /\ Size(s) + Size(t) = 4
  BY <1>3, <1>4
<1>8. u \in Seq(S) /\ Size(u) = 4 /\ u[1] = a /\ u[2] = b /\ u[3] = c /\ u[4] = d
  BY <1>3, <1>4, <1>5, <1>6, <1>7
<1>9. u = <<a, b, c, d>>
  BY <1>8 DEF Size
<1>10. QED
  BY <1>1, <1>2, <1>6, <1>9

LEMMA Join41 ==
  ASSUME NEW S, NEW a \in S, NEW b \in S, NEW c \in S, NEW d \in S, NEW e \in S
  PROVE  Join(<<a, b, c, d>>, <<e>>) = <<a, b, c, d, e>>
<1>1. PICK s : s = <<a, b, c, d>>
  OBVIOUS
<1>2. PICK t : t = <<e>>
  OBVIOUS
<1>3. s \in Seq(S) /\ Size(s) = 4 /\ s[1] = a /\ s[2] = b /\ s[3] = c /\ s[4] = d
  BY <1>1 DEF Size
<1>4. t \in Seq(S) /\ Size(t) = 1 /\ t[1] = e
  BY <1>2 DEF Size
<1>5. /\ Join(s, t) \in Seq(S) /\ Size(Join(s, t)) = Size(s) + Size(t)
      /\ \A i \in 1 .. Size(s) : Join(s, t)[i] = s[i]
      /\ \A i \in 1 .. Size(t) : Join(s, t)[Size(s) + i] = t[i]
  <2>1. s \in Seq(S) /\ t \in Seq(S)
    BY <1>3, <1>4
  <2>2. QED
    BY <2>1, Joined
<1>6. PICK u : u = Join(s, t)
  OBVIOUS
<1>7. /\ 1 \in 1 .. Size(s) /\ 2 \in 1 .. Size(s) /\ 3 \in 1 .. Size(s) /\ 4 \in 1 .. Size(s)
      /\ 1 \in 1 .. Size(t) /\ Size(s) + 1 = 5
      /\ Size(s) + Size(t) = 5
  BY <1>3, <1>4
<1>8. u \in Seq(S) /\ Size(u) = 5 /\ u[1] = a /\ u[2] = b /\ u[3] = c /\ u[4] = d /\ u[5] = e
  BY <1>3, <1>4, <1>5, <1>6, <1>7
<1>9. u = <<a, b, c, d, e>>
  BY <1>8 DEF Size
<1>10. QED
  BY <1>1, <1>2, <1>6, <1>9

LEMMA Join42 ==
  ASSUME NEW S, NEW a \in S, NEW b \in S, NEW c \in S, NEW d \in S, NEW e \in S, NEW f \in S
  PROVE  Join(<<a, b, c, d>>, <<e, f>>) = <<a, b, c, d, e, f>>
<1>1. PICK s : s = <<a, b, c, d>>
  OBVIOUS
<1>2. PICK t : t = <<e, f>>
  OBVIOUS
<1>3. s \in Seq(S) /\ Size(s) = 4 /\ s[1] = a /\ s[2] = b /\ s[3] = c /\ s[4] = d
  BY <1>1 DEF Size
<1>4. t \in Seq(S) /\ Size(t) = 2 /\ t[1] = e /\ t[2] = f
  BY <1>2 DEF Size
<1>5. /\ Join(s, t) \in Seq(S) /\ Size(Join(s, t)) = Size(s) + Size(t)
      /\ \A i \in 1 .. Size(s) : Join(s, t)[i] = s[i]
      /\ \A i \in 1 .. Size(t) : Join(s, t)[Size(s) + i] = t[i]
  <2>1. s \in Seq(S) /\ t \in Seq(S)
    BY <1>3, <1>4
  <2>2. QED
    BY <2>1, Joined
<1>6. PICK u : u = Join(s, t)
  OBVIOUS
<1>7. /\ 1 \in 1 .. Size(s) /\ 2 \in 1 .. Size(s) /\ 3 \in 1 .. Size(s) /\ 4 \in 1 .. Size(s)
      /\ 1 \in 1 .. Size(t) /\ Size(s) + 1 = 5 /\ 2 \in 1 .. Size(t) /\ Size(s) + 2 = 6
      /\ Size(s) + Size(t) = 6
  BY <1>3, <1>4
<1>8. u \in Seq(S) /\ Size(u) = 6 /\ u[1] = a /\ u[2] = b /\ u[3] = c /\ u[4] = d /\ u[5] = e /\ u[6] = f
  BY <1>3, <1>4, <1>5, <1>6, <1>7
<1>9. u = <<a, b, c, d, e, f>>
  BY <1>8 DEF Size
<1>10. QED
  BY <1>1, <1>2, <1>6, <1>9

LEMMA Join15 ==
  ASSUME NEW S, NEW a \in S, NEW b \in S, NEW c \in S, NEW d \in S, NEW e \in S, NEW f \in S
  PROVE  Join(<<a>>, <<b, c, d, e, f>>) = <<a, b, c, d, e, f>>
<1>1. PICK s : s = <<a>>
  OBVIOUS
<1>2. PICK t : t = <<b, c, d, e, f>>
  OBVIOUS
<1>3. s \in Seq(S) /\ Size(s) = 1 /\ s[1] = a
  BY <1>1 DEF Size
<1>4. t \in Seq(S) /\ Size(t) = 5 /\ t[1] = b /\ t[2] = c /\ t[3] = d /\ t[4] = e /\ t[5] = f
  BY <1>2 DEF Size
<1>5. /\ Join(s, t) \in Seq(S) /\ Size(Join(s, t)) = Size(s) + Size(t)
      /\ \A i \in 1 .. Size(s) : Join(s, t)[i] = s[i]
      /\ \A i \in 1 .. Size(t) : Join(s, t)[Size(s) + i] = t[i]
  <2>1. s \in Seq(S) /\ t \in Seq(S)
    BY <1>3, <1>4
  <2>2. QED
    BY <2>1, Joined
<1>6. PICK u : u = Join(s, t)
  OBVIOUS
<1>7. /\ 1 \in 1 .. Size(s)
      /\ 1 \in 1 .. Size(t) /\ Size(s) + 1 = 2 /\ 2 \in 1 .. Size(t) /\ Size(s) + 2 = 3
      /\ 3 \in 1 .. Size(t) /\ Size(s) + 3 = 4 /\ 4 \in 1 .. Size(t) /\ Size(s) + 4 = 5
      /\ 5 \in 1 .. Size(t) /\ Size(s) + 5 = 6
      /\ Size(s) + Size(t) = 6
  BY <1>3, <1>4
<1>8. u \in Seq(S) /\ Size(u) = 6 /\ u[1] = a /\ u[2] = b /\ u[3] = c /\ u[4] = d /\ u[5] = e /\ u[6] = f
  BY <1>3, <1>4, <1>5, <1>6, <1>7
<1>9. u = <<a, b, c, d, e, f>>
  BY <1>8 DEF Size
<1>10. QED
  BY <1>1, <1>2, <1>6, <1>9

LEMMA Next1 ==
  ASSUME NEW f, NEW s \in Ends1(f), s # <<>>
  PROVE  /\ Tail(s) \in Ends1(f)
         /\ Size(s) = 1 /\ Size(Tail(s)) = 0 /\ Head(s) = f
<1>1. s = <<f>>
  BY DEF Ends1
<1>2. QED
  BY <1>1 DEF Ends1, Size

LEMMA Next2 ==
  ASSUME NEW e, NEW f, NEW s \in Ends2(e, f), s # <<>>
  PROVE  /\ Tail(s) \in Ends2(e, f)
         /\ \/ Size(s) = 2 /\ Size(Tail(s)) = 1 /\ Head(s) = e
            \/ Size(s) = 1 /\ Size(Tail(s)) = 0 /\ Head(s) = f
<1>1. CASE s = <<e, f>>
  BY <1>1 DEF Ends1, Ends2, Size
<1>2. CASE s = <<f>>
  BY <1>2 DEF Ends1, Ends2, Size
<1>3. QED
  BY <1>1, <1>2, Zenon DEF Ends1, Ends2

LEMMA Next3 ==
  ASSUME NEW d, NEW e, NEW f, NEW s \in Ends3(d, e, f), s # <<>>
  PROVE  /\ Tail(s) \in Ends3(d, e, f)
         /\ \/ Size(s) = 3 /\ Size(Tail(s)) = 2 /\ Head(s) = d
            \/ Size(s) = 2 /\ Size(Tail(s)) = 1 /\ Head(s) = e
            \/ Size(s) = 1 /\ Size(Tail(s)) = 0 /\ Head(s) = f
<1>1. CASE s = <<d, e, f>>
  BY <1>1 DEF Ends1, Ends2, Ends3, Size
<1>2. CASE s = <<e, f>>
  BY <1>2 DEF Ends1, Ends2, Ends3, Size
<1>3. CASE s = <<f>>
  BY <1>3 DEF Ends1, Ends2, Ends3, Size
<1>4. QED
  BY <1>1, <1>2, <1>3, Zenon DEF Ends1, Ends2, Ends3

LEMMA Next4 ==
  ASSUME NEW c, NEW d, NEW e, NEW f, NEW s \in Ends4(c, d, e, f), s # <<>>
  PROVE  /\ Tail(s) \in Ends4(c, d, e, f)
         /\ \/ Size(s) = 4 /\ Size(Tail(s)) = 3 /\ Head(s) = c
            \/ Size(s) = 3 /\ Size(Tail(s)) = 2 /\ Head(s) = d
            \/ Size(s) = 2 /\ Size(Tail(s)) = 1 /\ Head(s) = e
            \/ Size(s) = 1 /\ Size(Tail(s)) = 0 /\ Head(s) = f
<1>1. CASE s = <<c, d, e, f>>
  BY <1>1 DEF Ends1, Ends2, Ends3, Ends4, Size
<1>2. CASE s = <<d, e, f>>
  BY <1>2 DEF Ends1, Ends2, Ends3, Ends4, Size
<1>3. CASE s = <<e, f>>
  BY <1>3 DEF Ends1, Ends2, Ends3, Ends4, Size
<1>4. CASE s = <<f>>
  BY <1>4 DEF Ends1, Ends2, Ends3, Ends4, Size
<1>5. QED
  BY <1>1, <1>2, <1>3, <1>4, Zenon DEF Ends1, Ends2, Ends3, Ends4

LEMMA Next5 ==
  ASSUME NEW b, NEW c, NEW d, NEW e, NEW f, NEW s \in Ends5(b, c, d, e, f), s # <<>>
  PROVE  /\ Tail(s) \in Ends5(b, c, d, e, f)
         /\ \/ Size(s) = 5 /\ Size(Tail(s)) = 4 /\ Head(s) = b
            \/ Size(s) = 4 /\ Size(Tail(s)) = 3 /\ Head(s) = c
            \/ Size(s) = 3 /\ Size(Tail(s)) = 2 /\ Head(s) = d
            \/ Size(s) = 2 /\ Size(Tail(s)) = 1 /\ Head(s) = e
            \/ Size(s) = 1 /\ Size(Tail(s)) = 0 /\ Head(s) = f
<1>1. CASE s = <<b, c, d, e, f>>
  BY <1>1 DEF Ends1, Ends2, Ends3, Ends4, Ends5, Size
<1>2. CASE s = <<c, d, e, f>>
  BY <1>2 DEF Ends1, Ends2, Ends3, Ends4, Ends5, Size
<1>3. CASE s = <<d, e, f>>
  BY <1>3 DEF Ends1, Ends2, Ends3, Ends4, Ends5, Size
<1>4. CASE s = <<e, f>>
  BY <1>4 DEF Ends1, Ends2, Ends3, Ends4, Ends5, Size
<1>5. CASE s = <<f>>
  BY <1>5 DEF Ends1, Ends2, Ends3, Ends4, Ends5, Size
<1>6. QED
  BY <1>1, <1>2, <1>3, <1>4, <1>5, Zenon DEF Ends1, Ends2, Ends3, Ends4, Ends5

LEMMA Next6 ==
  ASSUME NEW a, NEW b, NEW c, NEW d, NEW e, NEW f, NEW s \in Ends6(a, b, c, d, e, f), s # <<>>
  PROVE  /\ Tail(s) \in Ends6(a, b, c, d, e, f)
         /\ \/ Size(s) = 6 /\ Size(Tail(s)) = 5 /\ Head(s) = a
            \/ Size(s) = 5 /\ Size(Tail(s)) = 4 /\ Head(s) = b
            \/ Size(s) = 4 /\ Size(Tail(s)) = 3 /\ Head(s) = c
            \/ Size(s) = 3 /\ Size(Tail(s)) = 2 /\ Head(s) = d
            \/ Size(s) = 2 /\ Size(Tail(s)) = 1 /\ Head(s) = e
            \/ Size(s) = 1 /\ Size(Tail(s)) = 0 /\ Head(s) = f
<1>1. CASE s = <<a, b, c, d, e, f>>
  BY <1>1 DEF Ends1, Ends2, Ends3, Ends4, Ends5, Ends6, Size
<1>2. CASE s = <<b, c, d, e, f>>
  BY <1>2 DEF Ends1, Ends2, Ends3, Ends4, Ends5, Ends6, Size
<1>3. CASE s = <<c, d, e, f>>
  BY <1>3 DEF Ends1, Ends2, Ends3, Ends4, Ends5, Ends6, Size
<1>4. CASE s = <<d, e, f>>
  BY <1>4 DEF Ends1, Ends2, Ends3, Ends4, Ends5, Ends6, Size
<1>5. CASE s = <<e, f>>
  BY <1>5 DEF Ends1, Ends2, Ends3, Ends4, Ends5, Ends6, Size
<1>6. CASE s = <<f>>
  BY <1>6 DEF Ends1, Ends2, Ends3, Ends4, Ends5, Ends6, Size
<1>7. QED
  BY <1>1, <1>2, <1>3, <1>4, <1>5, <1>6, Zenon DEF Ends1, Ends2, Ends3, Ends4, Ends5, Ends6

LEMMA Starts ==
  ASSUME NEW a, NEW b, NEW c, NEW d, NEW e, NEW f
  PROVE  /\ <<f>> \in Ends1(f) /\ <<e, f>> \in Ends2(e, f) /\ <<d, e, f>> \in Ends3(d, e, f)
         /\ <<c, d, e, f>> \in Ends4(c, d, e, f)
         /\ <<b, c, d, e, f>> \in Ends5(b, c, d, e, f)
         /\ <<b, c, d, e, f>> \in Ends6(a, b, c, d, e, f)
         /\ <<a, b, c, d, e, f>> \in Ends6(a, b, c, d, e, f)
BY DEF Ends1, Ends2, Ends3, Ends4, Ends5, Ends6

LEMMA Sizes ==
  ASSUME NEW a, NEW b, NEW c, NEW d, NEW e, NEW f
  PROVE  /\ Size(<<>>) = 0 /\ Size(<<a>>) = 1 /\ Size(<<a, b>>) = 2
         /\ Size(<<a, b, c>>) = 3 /\ Size(<<a, b, c, d>>) = 4
         /\ Size(<<a, b, c, d, e>>) = 5 /\ Size(<<a, b, c, d, e, f>>) = 6
BY DEF Size

LEMMA Bytes ==
  /\ Content \subseteq Byte /\ Bank \subseteq Byte /\ Offset \subseteq Byte
  /\ {"87", "01", "55", "AA", "none", "id0", "id1", "on", "off", "base0", "base1", "float",
      "foreign", "set", "clear", "wiped", "other", "ldn", "active", "lock", "bank", "ctl",
      "mon", "leave", "junk", "cut", "b0"} \subseteq Byte
  /\ "none" \notin Bank
BY BanksAssumption DEF Byte, Content

\* What is left of a bank is a bank.
LEMMA ReadBankIs ==
  ASSUME NEW b \in DOMAIN Cleared
  PROVE  ReadBank(b) \in Bank /\ ReadBank(b) \in Byte \ {"none"}
BY ClearedAssumption, Bytes DEF ReadBank

\* What is in a request.
LEMMA Requests ==
  ASSUME NEW p \in {"cfg", "mon"}, NEW r \in Byte, NEW v \in Byte
  PROVE  /\ Key(r) \in Request /\ Key(r).op = "key" /\ Key(r).port = "cfg" /\ Key(r).reg = r
         /\ Send(r) \in Request /\ Send(r).op = "send" /\ Send(r).port = "cfg"
         /\ Send(r).reg = r
         /\ Get(p, r) \in Request /\ Get(p, r).op = "get" /\ Get(p, r).port = p
         /\ Get(p, r).reg = r
         /\ Cell(p, r) \in Request /\ Cell(p, r).op = "cell" /\ Cell(p, r).port = p
         /\ Cell(p, r).reg = r
         /\ Put(p, r, v) \in Request /\ Put(p, r, v).op = "put" /\ Put(p, r, v).port = p
         /\ Put(p, r, v).reg = r /\ Put(p, r, v).val = v
BY Bytes DEF Key, Send, Get, Cell, Put, Access, Request

LEMMA OwnRequests ==
  /\ Key("87") \in Request /\ Key("01") \in Request /\ Key("55") \in Request
  /\ Key("AA") \in Request /\ Send("AA") \in Request /\ Leave \in Request
  /\ Get("cfg", "id0") \in Request /\ Get("cfg", "id1") \in Request
  /\ Put("cfg", "ldn", "mon") \in Request /\ Get("cfg", "active") \in Request
  /\ Get("cfg", "base0") \in Request /\ Get("cfg", "base1") \in Request
  /\ Get("cfg", "lock") \in Request /\ Get("mon", "bank") \in Request
BY Bytes DEF Key, Send, Get, Put, Leave, Access, Request

LEMMA IteProbeIs ==
  ASSUME NEW p \in Pair
  PROVE  /\ IteProbe(p) = <<Key("87"), Key("01"), Key("55"),
                            Key(IF p = "4E" THEN "AA" ELSE "55"),
                            Get("cfg", "id0"), Get("cfg", "id1")>>
         /\ Probe("ite", p) = IteProbe(p)
<1>1. Keys(IteKey(p)) = <<Key("87"), Key("01"), Key("55"),
                          Key(IF p = "4E" THEN "AA" ELSE "55")>>
  BY DEF Keys, IteKey, Key
<1>2. IteProbe(p) = Join(Keys(IteKey(p)), ReadId)
  BY DEF IteProbe, Join
<1>3. ReadId = <<Get("cfg", "id0"), Get("cfg", "id1")>>
  BY DEF ReadId
<1>4. Key(IF p = "4E" THEN "AA" ELSE "55") \in Request
  BY OwnRequests
<1>5. IteProbe(p) = <<Key("87"), Key("01"), Key("55"),
                      Key(IF p = "4E" THEN "AA" ELSE "55"),
                      Get("cfg", "id0"), Get("cfg", "id1")>>
  BY <1>1, <1>2, <1>3, <1>4, OwnRequests, Join42, SMTT(30)
<1>6. Probe("ite", p) = IteProbe(p)
  BY DEF Probe, IteProbe
<1>7. QED
  BY <1>5, <1>6

LEMMA NctKeysAre == Keys(NctKey) = <<Key("87"), Key("87")>>
BY DEF Keys, NctKey, Key

LEMMA NctProbeIs ==
  ASSUME NEW p \in Pair
  PROVE  Probe("nct", p) = <<Key("87"), Key("87"), Get("cfg", "id0"), Get("cfg", "id1")>>
<1>1. Probe("nct", p) = Join(Keys(NctKey), ReadId)
  BY DEF Probe, Join
<1>2. ReadId = <<Get("cfg", "id0"), Get("cfg", "id1")>>
  BY DEF ReadId
<1>3. QED
  BY <1>1, <1>2, NctKeysAre, OwnRequests, Join22

LEMMA DetectIs ==
  /\ Detect = <<Key("87"), Key("87"), Get("cfg", "id0"), Get("cfg", "id1"), Send("AA")>>
  /\ IteExit \o Detect = <<Leave, Key("87"), Key("87"), Get("cfg", "id0"),
                           Get("cfg", "id1"), Send("AA")>>
  /\ <<>> \o Detect = Detect
<1>1. PICK k : k = Join(Keys(NctKey), ReadId)
  OBVIOUS
<1>2. ReadId = <<Get("cfg", "id0"), Get("cfg", "id1")>>
  BY DEF ReadId
<1>3. k = <<Key("87"), Key("87"), Get("cfg", "id0"), Get("cfg", "id1")>>
  BY <1>1, <1>2, NctKeysAre, OwnRequests, Join22
<1>4. Detect = Join(k, <<Send("AA")>>)
  BY <1>1 DEF Detect, NctExit, Join
<1>5. Detect = <<Key("87"), Key("87"), Get("cfg", "id0"), Get("cfg", "id1"), Send("AA")>>
  BY <1>3, <1>4, OwnRequests, Join41
<1>6. IteExit \o Detect = Join(<<Leave>>, Detect) /\ <<>> \o Detect = Join(<<>>, Detect)
  BY DEF IteExit, Leave, Join
<1>7. IteExit \o Detect = <<Leave, Key("87"), Key("87"), Get("cfg", "id0"),
                            Get("cfg", "id1"), Send("AA")>>
  <2>1. PICK a, b, c, d, e :
          /\ a = Leave /\ b = Key("87") /\ c = Get("cfg", "id0") /\ d = Get("cfg", "id1")
          /\ e = Send("AA")
    OBVIOUS
  <2>2. a \in Request /\ b \in Request /\ c \in Request /\ d \in Request /\ e \in Request
    BY <2>1, OwnRequests
  <2>3. Join(<<a>>, <<b, b, c, d, e>>) = <<a, b, b, c, d, e>>
    BY <2>2, Join15
  <2>4. Join(<<Leave>>, <<Key("87"), Key("87"), Get("cfg", "id0"), Get("cfg", "id1"),
                          Send("AA")>>)
          = <<Leave, Key("87"), Key("87"), Get("cfg", "id0"), Get("cfg", "id1"), Send("AA")>>
    BY <2>1, <2>3
  <2>5. QED
    BY <1>5, <1>6, <2>4
<1>8. Detect \in Seq(Request)
  BY <1>5, OwnRequests
<1>9. QED
  BY <1>5, <1>6, <1>7, <1>8, JoinEmpty

LEMMA UnlockIs == Unlock = <<Key("87"), Key("87"), Get("cfg", "lock")>>
<1>1. Unlock = Join(Keys(NctKey), <<Get("cfg", "lock")>>)
  BY DEF Unlock, Join
<1>2. QED
  BY <1>1, NctKeysAre, OwnRequests, Join21

LEMMA FindIs ==
  ASSUME NEW a \in Request
  PROVE  LinuxFind \o <<a>> = <<Put("cfg", "ldn", "mon"), Get("cfg", "active"),
                                Get("cfg", "base0"), Get("cfg", "base1"), a>>
<1>1. LinuxFind \o <<a>> = Join(LinuxFind, <<a>>)
  BY DEF Join
<1>2. LinuxFind = <<Put("cfg", "ldn", "mon"), Get("cfg", "active"),
                    Get("cfg", "base0"), Get("cfg", "base1")>>
  BY DEF LinuxFind
<1>3. Join(<<Put("cfg", "ldn", "mon"), Get("cfg", "active"),
             Get("cfg", "base0"), Get("cfg", "base1")>>, <<a>>)
        = <<Put("cfg", "ldn", "mon"), Get("cfg", "active"),
            Get("cfg", "base0"), Get("cfg", "base1"), a>>
  BY OwnRequests, Join41
<1>4. QED
  BY <1>1, <1>2, <1>3

LEMMA IteFindIs ==
  /\ IteFind = LinuxFind \o IteExit /\ IteExit = <<Leave>> /\ NctExit = <<Send("AA")>>
  /\ IteFind = <<Put("cfg", "ldn", "mon"), Get("cfg", "active"),
                 Get("cfg", "base0"), Get("cfg", "base1"), Leave>>
<1>1. IteFind = LinuxFind \o IteExit /\ IteExit = <<Leave>> /\ NctExit = <<Send("AA")>>
  BY DEF IteFind, LinuxFind, IteExit, Leave, NctExit
<1>2. QED
  BY <1>1, OwnRequests, FindIs

\* The lock register is written, or not, before the chip is left.
LEMMA LockIs ==
  ASSUME NEW v \in Byte
  PROVE  /\ <<Put("cfg", "lock", v)>> \o NctExit = <<Put("cfg", "lock", v), Send("AA")>>
         /\ <<>> \o NctExit = <<Send("AA")>>
<1>1. Put("cfg", "lock", v) \in Request
  BY Bytes, Requests
<1>2. /\ <<Put("cfg", "lock", v)>> \o NctExit = Join(<<Put("cfg", "lock", v)>>, <<Send("AA")>>)
      /\ <<>> \o NctExit = Join(<<>>, <<Send("AA")>>)
  BY DEF NctExit, Join
<1>3. <<Send("AA")>> \in Seq(Request)
  BY OwnRequests
<1>4. QED
  BY <1>1, <1>2, <1>3, OwnRequests, Join11, JoinEmpty

LEMMA LinuxReadIs ==
  ASSUME NEW b \in Bank, NEW o \in Offset
  PROVE  /\ <<Put("mon", "bank", b)>> \o <<Cell("mon", o)>> =
              <<Put("mon", "bank", b), Cell("mon", o)>>
         /\ <<>> \o <<Cell("mon", o)>> = <<Cell("mon", o)>>
<1>1. Put("mon", "bank", b) \in Request /\ Cell("mon", o) \in Request
  BY Bytes, Requests
<1>2. /\ <<Put("mon", "bank", b)>> \o <<Cell("mon", o)>> =
           Join(<<Put("mon", "bank", b)>>, <<Cell("mon", o)>>)
      /\ <<>> \o <<Cell("mon", o)>> = Join(<<>>, <<Cell("mon", o)>>)
  BY DEF Join
<1>3. <<Cell("mon", o)>> \in Seq(Request)
  BY <1>1
<1>4. QED
  BY <1>1, <1>2, <1>3, Join11, JoinEmpty

-----------------------------------------------------------------------------
(* What a chip hears. *)

\* How much of the key chip c has heard after byte b.
Matched(c, p, b) ==
  IF b = KeyOf(c, p)[c.key + 1] THEN c.key + 1
  ELSE IF b = KeyOf(c, p)[1] THEN 1 ELSE 0

LEMMA KeyIs ==
  ASSUME NEW c, NEW p
  PROVE  /\ c.kind = "ite" =>
              /\ Size(KeyOf(c, p)) = 4 /\ KeyOf(c, p)[1] = "87" /\ KeyOf(c, p)[2] = "01"
              /\ KeyOf(c, p)[3] = "55" /\ KeyOf(c, p)[4] = IF p = "4E" THEN "AA" ELSE "55"
         /\ c.kind # "ite" =>
              Size(KeyOf(c, p)) = 2 /\ KeyOf(c, p)[1] = "87" /\ KeyOf(c, p)[2] = "87"
<1>1. CASE c.kind = "ite"
  BY <1>1 DEF KeyOf, IteKey, Size
<1>2. CASE c.kind # "ite"
  BY <1>2 DEF KeyOf, NctKey, Size
<1>3. QED
  BY <1>1, <1>2

\* The four things that can happen to a chip.
Exits(c) == [c EXCEPT !.mode = "run", !.index = "none"]
Selects(c, b) == [c EXCEPT !.index = b]
Enters(c) == [c EXCEPT !.mode = "config", !.key = 0]
Counts(c, n) == [c EXCEPT !.key = n]

LEMMA HearIs ==
  ASSUME NEW c, NEW p, NEW b
  PROVE  /\ c.kind = "none" => Hear(c, p, b) = c
         /\ c.kind # "none" /\ c.mode = "config" =>
              Hear(c, p, b) =
                IF b = "AA" /\ c.kind # "ite" THEN Exits(c) ELSE Selects(c, b)
         /\ c.kind # "none" /\ c.mode # "config" =>
              Hear(c, p, b) =
                IF Matched(c, p, b) = Size(KeyOf(c, p)) THEN Enters(c)
                ELSE Counts(c, Matched(c, p, b))
BY ZenonT(60) DEF Hear, Matched, Size, Exits, Selects, Enters, Counts

\* The key of a chip, byte by byte.
LEMMA MatchedIs ==
  ASSUME NEW c \in ChipType, NEW p, NEW b
  PROVE  /\ c.kind = "ite" =>
              /\ c.key = 0 => Matched(c, p, b) = IF b = "87" THEN 1 ELSE 0
              /\ c.key = 1 => Matched(c, p, b) = IF b = "01" THEN 2 ELSE IF b = "87" THEN 1 ELSE 0
              /\ c.key = 2 => Matched(c, p, b) = IF b = "55" THEN 3 ELSE IF b = "87" THEN 1 ELSE 0
              /\ c.key = 3 => Matched(c, p, b) =
                   IF b = (IF p = "4E" THEN "AA" ELSE "55") THEN 4 ELSE IF b = "87" THEN 1 ELSE 0
         /\ c.kind # "ite" =>
              /\ c.key = 0 => Matched(c, p, b) = IF b = "87" THEN 1 ELSE 0
              /\ c.key = 1 => Matched(c, p, b) = IF b = "87" THEN 2 ELSE 0
<1>1. CASE c.kind = "ite"
  <2>1. /\ KeyOf(c, p)[1] = "87" /\ KeyOf(c, p)[2] = "01"
        /\ KeyOf(c, p)[3] = "55" /\ KeyOf(c, p)[4] = IF p = "4E" THEN "AA" ELSE "55"
    BY <1>1, KeyIs
  <2>2. QED
    BY <1>1, <2>1 DEF Matched
<1>2. CASE c.kind # "ite"
  <2>1. KeyOf(c, p)[1] = "87" /\ KeyOf(c, p)[2] = "87"
    BY <1>2, KeyIs
  <2>2. QED
    BY <1>2, <2>1 DEF Matched
<1>3. QED
  BY <1>1, <1>2

\* The fields of a chip.
LEMMA ChipFields ==
  ASSUME NEW c \in ChipType
  PROVE  /\ c.kind \in Kind /\ c.on \in BOOLEAN /\ c.mode \in {"run", "config"}
         /\ c.key \in 0 .. 3 /\ c.index \in Byte
         /\ c.ldn \in {"other", "mon", "clear", "leave", "wiped"} /\ c.lock \in Byte
         /\ c.bank \in Byte /\ c.mon \in Byte /\ c.hurt \subseteq Byte
         /\ c = [kind |-> c.kind, on |-> c.on, mode |-> c.mode, key |-> c.key,
                 index |-> c.index, ldn |-> c.ldn, lock |-> c.lock, bank |-> c.bank,
                 mon |-> c.mon, hurt |-> c.hurt]
BY DEF ChipType

\* What a byte at the index port leaves alone.
Same(c, d) ==
  /\ d.kind = c.kind /\ d.on = c.on /\ d.ldn = c.ldn /\ d.lock = c.lock
  /\ d.bank = c.bank /\ d.mon = c.mon /\ d.hurt = c.hurt

LEMMA Updates ==
  ASSUME NEW c \in ChipType, NEW b \in Byte, NEW n \in 0 .. 3
  PROVE  /\ Exits(c) \in ChipType /\ Same(c, Exits(c))
         /\ Exits(c).mode = "run" /\ Exits(c).key = c.key
         /\ Selects(c, b) \in ChipType /\ Same(c, Selects(c, b))
         /\ Selects(c, b).mode = c.mode /\ Selects(c, b).key = c.key
         /\ Selects(c, b).index = b
         /\ Enters(c) \in ChipType /\ Same(c, Enters(c))
         /\ Enters(c).mode = "config" /\ Enters(c).key = 0
         /\ Counts(c, n) \in ChipType /\ Same(c, Counts(c, n))
         /\ Counts(c, n).mode = c.mode /\ Counts(c, n).key = n
<1>1. "run" \in {"run", "config"} /\ "config" \in {"run", "config"} /\ 0 \in 0 .. 3
  OBVIOUS
<1>2. "none" \in Byte
  BY Bytes
<1>3. /\ Exits(c) \in ChipType /\ Same(c, Exits(c))
      /\ Exits(c).mode = "run" /\ Exits(c).key = c.key
  BY <1>1, <1>2 DEF Exits, Same, ChipType
<1>4. /\ Selects(c, b) \in ChipType /\ Same(c, Selects(c, b))
      /\ Selects(c, b).mode = c.mode /\ Selects(c, b).key = c.key
      /\ Selects(c, b).index = b
  BY DEF Selects, Same, ChipType
<1>5. /\ Enters(c) \in ChipType /\ Same(c, Enters(c))
      /\ Enters(c).mode = "config" /\ Enters(c).key = 0
  BY <1>1 DEF Enters, Same, ChipType
<1>6. /\ Counts(c, n) \in ChipType /\ Same(c, Counts(c, n))
      /\ Counts(c, n).mode = c.mode /\ Counts(c, n).key = n
  BY DEF Counts, Same, ChipType
<1>7. QED
  BY <1>3, <1>4, <1>5, <1>6

\* The mode and the key of a chip c that becomes d when it hears b.
IteTurn(c, d, p, b) ==
  /\ c.mode = "config" => d.mode = "config" /\ d.key = 0 /\ d.index = b
  /\ c.mode = "run" =>
       /\ b = "87" => d.mode = "run" /\ d.key = 1
       /\ c.key = 1 /\ b = "01" => d.mode = "run" /\ d.key = 2
       /\ c.key = 2 /\ b = "55" => d.mode = "run" /\ d.key = 3
       /\ c.key = 3 /\ b = (IF p = "4E" THEN "AA" ELSE "55") => d.mode = "config" /\ d.key = 0
       /\ c.key <= 1 /\ b \notin {"87", "01"} => d.mode = "run" /\ d.key = 0
       /\ b \notin {"87", "01", "55", "AA"} => d.mode = "run" /\ d.key = 0
       /\ c.key = 0 => d.mode = "run" /\ d.key <= 1

NctTurn(c, d, b) ==
  /\ c.mode = "config" =>
       /\ b = "AA" => d.mode = "run" /\ d.key = 0
       /\ b # "AA" => d.mode = "config" /\ d.key = 0 /\ d.index = b
  /\ c.mode = "run" =>
       /\ b # "87" => d.mode = "run" /\ d.key = 0
       /\ b = "87" /\ c.key = 0 => d.mode = "run" /\ d.key = 1
       /\ b = "87" /\ c.key = 1 => d.mode = "config" /\ d.key = 0

LEMMA HearTurns ==
  ASSUME NEW c, NEW p, ChipOk(c, p), NEW b \in Byte
  PROVE  /\ Hear(c, p, b) \in ChipType /\ Same(c, Hear(c, p, b))
         /\ c.kind = "none" => Hear(c, p, b) = c
         /\ c.kind = "ite" => IteTurn(c, Hear(c, p, b), p, b)
         /\ c.kind \notin {"ite", "none"} => NctTurn(c, Hear(c, p, b), b)
         /\ Hear(c, p, b).key < Size(KeyOf(c, p))
         /\ Hear(c, p, b).mode = "config" => Hear(c, p, b).key = 0
<1>1. /\ c \in ChipType /\ c.key < Size(KeyOf(c, p))
      /\ c.mode = "config" => c.key = 0
  BY DEF ChipOk
<1>2. /\ c.mode \in {"run", "config"} /\ c.key \in 0 .. 3
  BY <1>1, ChipFields
<1>3. PICK d : d = Hear(c, p, b)
  OBVIOUS
<1>4. CASE c.kind = "none"
  <2>1. Hear(c, p, b) = c
    BY <1>4, HearIs
  <2>2. QED
    BY <1>1, <1>4, <2>1 DEF Same
<1>5. CASE c.kind # "none" /\ c.mode = "config"
  <2>1. d = IF b = "AA" /\ c.kind # "ite" THEN Exits(c) ELSE Selects(c, b)
    BY <1>3, <1>5, HearIs
  <2>2. d \in ChipType /\ Same(c, d)
    BY <1>1, <2>1, Updates
  <2>3. d.key = c.key
    BY <1>1, <2>1, Updates
  <2>4. IF b = "AA" /\ c.kind # "ite" THEN d.mode = "run"
        ELSE d.mode = "config" /\ d.index = b
    BY <1>1, <1>5, <2>1, Updates
  <2>5. c.key = 0
    BY <1>1, <1>5
  <2>6. d.key < Size(KeyOf(c, p))
    BY <1>1, <2>3
  <2>7. c.kind = "ite" => IteTurn(c, d, p, b)
    BY <1>5, <2>3, <2>4, <2>5 DEF IteTurn
  <2>8. c.kind \notin {"ite", "none"} => NctTurn(c, d, b)
    BY <1>5, <2>3, <2>4, <2>5 DEF NctTurn
  <2>9. QED
    BY <1>3, <1>5, <2>2, <2>3, <2>5, <2>6, <2>7, <2>8
<1>6. CASE c.kind # "none" /\ c.mode = "run"
  <2>1. PICK n : n = Matched(c, p, b)
    OBVIOUS
  <2>2. PICK s : s = Size(KeyOf(c, p))
    OBVIOUS
  <2>3. d = IF n = s THEN Enters(c) ELSE Counts(c, n)
    BY <1>3, <1>6, <2>1, <2>2, HearIs
  <2>4. s = IF c.kind = "ite" THEN 4 ELSE 2
    BY <2>2, KeyIs
  <2>5. c.key < s
    BY <1>1, <2>2
  <2>6. /\ c.kind = "ite" =>
             /\ c.key = 0 => n = IF b = "87" THEN 1 ELSE 0
             /\ c.key = 1 => n = IF b = "01" THEN 2 ELSE IF b = "87" THEN 1 ELSE 0
             /\ c.key = 2 => n = IF b = "55" THEN 3 ELSE IF b = "87" THEN 1 ELSE 0
             /\ c.key = 3 => n = IF b = (IF p = "4E" THEN "AA" ELSE "55") THEN 4
                                 ELSE IF b = "87" THEN 1 ELSE 0
        /\ c.kind # "ite" =>
             /\ c.key = 0 => n = IF b = "87" THEN 1 ELSE 0
             /\ c.key = 1 => n = IF b = "87" THEN 2 ELSE 0
    BY <1>1, <2>1, MatchedIs
  <2>7. n \in 0 .. 4 /\ n <= s
    BY <1>2, <2>4, <2>5, <2>6
  <2>8. n # s => n \in 0 .. 3
    BY <2>4, <2>7
  <2>9. d \in ChipType /\ Same(c, d)
    BY <1>1, <2>3, <2>8, Updates, 0 \in 0 .. 3
  <2>10. IF n = s THEN d.mode = "config" /\ d.key = 0 ELSE d.mode = "run" /\ d.key = n
    BY <1>1, <1>6, <2>3, <2>8, Updates, 0 \in 0 .. 3
  <2>11. d.key < s /\ (d.mode = "config" => d.key = 0)
    BY <2>4, <2>7, <2>10
  <2>12. c.kind = "ite" => IteTurn(c, d, p, b)
    BY <1>2, <1>6, <2>4, <2>6, <2>10 DEF IteTurn
  <2>13. c.kind \notin {"ite", "none"} => NctTurn(c, d, b)
    BY <1>2, <1>6, <2>4, <2>5, <2>6, <2>10 DEF NctTurn
  <2>14. QED
    BY <1>3, <1>6, <2>2, <2>9, <2>10, <2>11, <2>12, <2>13
<1>7. QED
  BY <1>2, <1>4, <1>5, <1>6

-----------------------------------------------------------------------------
(* What is written to a chip. *)

Ldn == {"other", "mon", "clear", "leave", "wiped"}

\* The values that Linux writes.
Plain == {"mon", "leave", "clear", "wiped"}

\* The parts of a chip that a write can change.
Devices(c, v) == [c EXCEPT !.ldn = v]
LockedTo(c, v) == [c EXCEPT !.lock = v]
Hurt(c, r) == [c EXCEPT !.hurt = @ \cup {r}]
Monitors(c, r) == [c EXCEPT !.mon = r]
Switches(c, v) == [c EXCEPT !.bank = v]

LEMMA Writes ==
  ASSUME NEW c \in ChipType, NEW v \in Byte, NEW l \in Ldn
  PROVE  /\ Devices(c, l) \in ChipType /\ Devices(c, l).ldn = l
         /\ Devices(c, l).kind = c.kind /\ Devices(c, l).on = c.on
         /\ Devices(c, l).mode = c.mode /\ Devices(c, l).key = c.key
         /\ Devices(c, l).lock = c.lock /\ Devices(c, l).bank = c.bank
         /\ Devices(c, l).hurt = c.hurt
         /\ LockedTo(c, v) \in ChipType /\ LockedTo(c, v).lock = v
         /\ LockedTo(c, v).kind = c.kind /\ LockedTo(c, v).on = c.on
         /\ LockedTo(c, v).mode = c.mode /\ LockedTo(c, v).key = c.key
         /\ LockedTo(c, v).ldn = c.ldn /\ LockedTo(c, v).bank = c.bank
         /\ LockedTo(c, v).hurt = c.hurt
<1>1. /\ Devices(c, l) \in ChipType /\ Devices(c, l).ldn = l
      /\ Devices(c, l).kind = c.kind /\ Devices(c, l).on = c.on
      /\ Devices(c, l).mode = c.mode /\ Devices(c, l).key = c.key
      /\ Devices(c, l).lock = c.lock /\ Devices(c, l).bank = c.bank
      /\ Devices(c, l).hurt = c.hurt
  BY DEF Devices, ChipType, Ldn
<1>2. /\ LockedTo(c, v) \in ChipType /\ LockedTo(c, v).lock = v
      /\ LockedTo(c, v).kind = c.kind /\ LockedTo(c, v).on = c.on
      /\ LockedTo(c, v).mode = c.mode /\ LockedTo(c, v).key = c.key
      /\ LockedTo(c, v).ldn = c.ldn /\ LockedTo(c, v).bank = c.bank
      /\ LockedTo(c, v).hurt = c.hurt
  BY DEF LockedTo, ChipType
<1>3. QED
  BY <1>1, <1>2

LEMMA Damages ==
  ASSUME NEW c \in ChipType, NEW r \in Byte
  PROVE  /\ Hurt(c, r) \in ChipType /\ Hurt(c, r).hurt = c.hurt \cup {r}
         /\ Hurt(c, r).kind = c.kind /\ Hurt(c, r).on = c.on
         /\ Hurt(c, r).mode = c.mode /\ Hurt(c, r).key = c.key
         /\ Hurt(c, r).lock = c.lock /\ Hurt(c, r).bank = c.bank
         /\ Hurt(c, r).ldn = c.ldn
<1>1. c.hurt \cup {r} \in SUBSET Byte
  BY ChipFields
<1>2. QED
  BY <1>1 DEF Hurt, ChipType

LEMMA MonWrites ==
  ASSUME NEW c \in ChipType, NEW r \in Byte
  PROVE  /\ Monitors(c, r) \in ChipType /\ Monitors(c, r).mon = r
         /\ Monitors(c, r).kind = c.kind /\ Monitors(c, r).on = c.on
         /\ Monitors(c, r).mode = c.mode /\ Monitors(c, r).key = c.key
         /\ Monitors(c, r).lock = c.lock /\ Monitors(c, r).bank = c.bank
         /\ Monitors(c, r).ldn = c.ldn /\ Monitors(c, r).hurt = c.hurt
         /\ Switches(c, r) \in ChipType /\ Switches(c, r).bank = r
         /\ Switches(c, r).kind = c.kind /\ Switches(c, r).on = c.on
         /\ Switches(c, r).mode = c.mode /\ Switches(c, r).key = c.key
         /\ Switches(c, r).lock = c.lock /\ Switches(c, r).ldn = c.ldn
         /\ Switches(c, r).hurt = c.hurt
<1>1. /\ Monitors(c, r) \in ChipType /\ Monitors(c, r).mon = r
      /\ Monitors(c, r).kind = c.kind /\ Monitors(c, r).on = c.on
      /\ Monitors(c, r).mode = c.mode /\ Monitors(c, r).key = c.key
      /\ Monitors(c, r).lock = c.lock /\ Monitors(c, r).bank = c.bank
      /\ Monitors(c, r).ldn = c.ldn /\ Monitors(c, r).hurt = c.hurt
  BY DEF Monitors, ChipType
<1>2. /\ Switches(c, r) \in ChipType /\ Switches(c, r).bank = r
      /\ Switches(c, r).kind = c.kind /\ Switches(c, r).on = c.on
      /\ Switches(c, r).mode = c.mode /\ Switches(c, r).key = c.key
      /\ Switches(c, r).lock = c.lock /\ Switches(c, r).ldn = c.ldn
      /\ Switches(c, r).hurt = c.hurt
  BY DEF Switches, ChipType
<1>3. QED
  BY <1>1, <1>2

LEMMA TakeIs ==
  ASSUME NEW c, NEW v
  PROVE  Take(c, v) =
           IF c.mode = "run" \/ c.index \in {"id0", "id1"} THEN c
           ELSE IF c.index = "ldn" THEN Devices(c, v)
           ELSE IF c.index = "lock" THEN LockedTo(c, v)
           ELSE IF c.index = "ctl" /\ c.kind = "ite" /\ v = "leave" THEN Exits(c)
           ELSE Hurt(c, c.index)
BY ZenonT(60) DEF Take, Devices, LockedTo, Exits, Hurt

LEMMA MonIs ==
  ASSUME NEW c, NEW r
  PROVE  /\ MonHear(c, r) = IF MonOpen(c) THEN Monitors(c, r) ELSE c
         /\ MonTake(c, r) = IF ~MonOpen(c) THEN c
                            ELSE IF c.mon = "bank" THEN Switches(c, r)
                            ELSE Hurt(c, c.mon)
BY ZenonT(60) DEF MonHear, MonTake, Monitors, Switches, Hurt

\* The data of a register of the configuration.
LEMMA TakeTurns ==
  ASSUME NEW c \in ChipType, NEW v \in Byte,
         c.mode = "config" /\ c.index = "ldn" => v \in Ldn
  PROVE  LET d == Take(c, v)
         IN  /\ d \in ChipType /\ d.kind = c.kind /\ d.on = c.on /\ d.key = c.key
             /\ d.bank = c.bank
             /\ d.lock = IF c.mode = "config" /\ c.index = "lock" THEN v ELSE c.lock
             /\ d.ldn = IF c.mode = "config" /\ c.index = "ldn" THEN v ELSE c.ldn
             /\ d.mode = IF c.index = "ctl" /\ c.kind = "ite" /\ v = "leave" THEN "run"
                         ELSE c.mode
             /\ d.hurt = IF \/ c.mode = "run" \/ c.index \in {"id0", "id1", "ldn", "lock"}
                            \/ c.index = "ctl" /\ c.kind = "ite" /\ v = "leave"
                         THEN c.hurt ELSE c.hurt \cup {c.index}
<1>1. PICK d : d = Take(c, v)
  OBVIOUS
<1>2. d = IF c.mode = "run" \/ c.index \in {"id0", "id1"} THEN c
          ELSE IF c.index = "ldn" THEN Devices(c, v)
          ELSE IF c.index = "lock" THEN LockedTo(c, v)
          ELSE IF c.index = "ctl" /\ c.kind = "ite" /\ v = "leave" THEN Exits(c)
          ELSE Hurt(c, c.index)
  BY <1>1, TakeIs, Zenon
<1>3. c.mode \in {"run", "config"} /\ c.index \in Byte
  BY ChipFields
<1>4. CASE c.mode = "run" \/ c.index \in {"id0", "id1"}
  BY <1>1, <1>2, <1>3, <1>4
<1>5. CASE c.mode = "config" /\ c.index = "ldn"
  BY <1>1, <1>2, <1>5, Writes
<1>6. CASE c.mode = "config" /\ c.index = "lock"
  <2>1. d = LockedTo(c, v)
    BY <1>2, <1>6
  <2>2. "mon" \in Ldn
    BY DEF Ldn
  <2>3. QED
    BY <1>1, <1>6, <2>1, <2>2, Writes
<1>7. CASE c.mode = "config" /\ c.index = "ctl" /\ c.kind = "ite" /\ v = "leave"
  <2>1. d = Exits(c)
    BY <1>2, <1>7
  <2>2. /\ d \in ChipType /\ Same(c, d) /\ d.mode = "run" /\ d.key = c.key
    BY <2>1, <1>3, Updates, 0 \in 0 .. 3
  <2>3. QED
    BY <1>1, <1>7, <2>2 DEF Same
<1>8. CASE /\ c.mode = "config" /\ c.index \notin {"id0", "id1", "ldn", "lock"}
           /\ ~(c.index = "ctl" /\ c.kind = "ite" /\ v = "leave")
  <2>1. d = Hurt(c, c.index)
    BY <1>2, <1>8
  <2>2. /\ d \in ChipType /\ d.hurt = c.hurt \cup {c.index}
        /\ d.kind = c.kind /\ d.on = c.on /\ d.mode = c.mode /\ d.key = c.key
        /\ d.lock = c.lock /\ d.bank = c.bank /\ d.ldn = c.ldn
    BY <1>3, <2>1, Damages
  <2>3. c.index # "ldn" /\ c.index # "lock"
    BY <1>8
  <2>4. d.mode = IF c.index = "ctl" /\ c.kind = "ite" /\ v = "leave" THEN "run" ELSE c.mode
    BY <1>8, <2>2
  <2>5. d.hurt = IF \/ c.mode = "run" \/ c.index \in {"id0", "id1", "ldn", "lock"}
                    \/ c.index = "ctl" /\ c.kind = "ite" /\ v = "leave"
                 THEN c.hurt ELSE c.hurt \cup {c.index}
    BY <1>8, <2>2
  <2>6. QED
    BY <1>1, <2>2, <2>3, <2>4, <2>5
<1>9. QED
  BY <1>3, <1>4, <1>5, <1>6, <1>7, <1>8

\* The registers of the monitor.

LEMMA MonTurns ==
  ASSUME NEW c \in ChipType, NEW r \in Byte, NEW v \in Byte
  PROVE  /\ LET d == MonHear(c, r)
            IN  /\ d \in ChipType /\ d.kind = c.kind /\ d.on = c.on /\ d.mode = c.mode
                /\ d.key = c.key /\ d.ldn = c.ldn /\ d.lock = c.lock /\ d.bank = c.bank
                /\ d.hurt = c.hurt /\ d.mon = IF MonOpen(c) THEN r ELSE c.mon
         /\ LET e == MonTake(c, v)
            IN  /\ e \in ChipType /\ e.kind = c.kind /\ e.on = c.on /\ e.mode = c.mode
                /\ e.key = c.key /\ e.ldn = c.ldn /\ e.lock = c.lock
                /\ e.bank = IF MonOpen(c) /\ c.mon = "bank" THEN v ELSE c.bank
                /\ e.hurt = IF ~MonOpen(c) \/ c.mon = "bank" THEN c.hurt
                            ELSE c.hurt \cup {c.mon}
<1>1. /\ MonHear(c, r) = IF MonOpen(c) THEN Monitors(c, r) ELSE c
      /\ MonTake(c, v) = IF ~MonOpen(c) THEN c
                         ELSE IF c.mon = "bank" THEN Switches(c, v)
                         ELSE Hurt(c, c.mon)
  BY MonIs
<1>2. PICK d : d = MonHear(c, r)
  OBVIOUS
<1>3. PICK e : e = MonTake(c, v)
  OBVIOUS
<1>4. c.mon \in Byte
  BY ChipFields
<1>5. /\ d \in ChipType /\ d.kind = c.kind /\ d.on = c.on /\ d.mode = c.mode
      /\ d.key = c.key /\ d.ldn = c.ldn /\ d.lock = c.lock /\ d.bank = c.bank
      /\ d.hurt = c.hurt /\ d.mon = IF MonOpen(c) THEN r ELSE c.mon
  <2>1. CASE MonOpen(c)
    <3>1. d = Monitors(c, r)
      BY <1>1, <1>2, <2>1
    <3>2. /\ d \in ChipType /\ d.mon = r
          /\ d.kind = c.kind /\ d.on = c.on /\ d.mode = c.mode /\ d.key = c.key
          /\ d.lock = c.lock /\ d.bank = c.bank /\ d.ldn = c.ldn /\ d.hurt = c.hurt
      BY <3>1, MonWrites
    <3>3. QED
      BY <2>1, <3>2
  <2>2. CASE ~MonOpen(c)
    BY <1>1, <1>2, <2>2
  <2>3. QED
    BY <2>1, <2>2
<1>6. /\ e \in ChipType /\ e.kind = c.kind /\ e.on = c.on /\ e.mode = c.mode
      /\ e.key = c.key /\ e.ldn = c.ldn /\ e.lock = c.lock
      /\ e.bank = IF MonOpen(c) /\ c.mon = "bank" THEN v ELSE c.bank
      /\ e.hurt = IF ~MonOpen(c) \/ c.mon = "bank" THEN c.hurt
                  ELSE c.hurt \cup {c.mon}
  <2>1. CASE ~MonOpen(c)
    BY <1>1, <1>3, <2>1
  <2>2. CASE MonOpen(c) /\ c.mon = "bank"
    <3>1. e = Switches(c, v)
      BY <1>1, <1>3, <2>2
    <3>2. /\ e \in ChipType /\ e.bank = v
          /\ e.kind = c.kind /\ e.on = c.on /\ e.mode = c.mode /\ e.key = c.key
          /\ e.lock = c.lock /\ e.ldn = c.ldn /\ e.hurt = c.hurt
      BY <3>1, MonWrites
    <3>3. QED
      BY <2>2, <3>2
  <2>3. CASE MonOpen(c) /\ c.mon # "bank"
    BY <1>1, <1>3, <1>4, <2>3, Damages, SMTT(30)
  <2>4. QED
    BY <2>1, <2>2, <2>3
<1>7. QED
  BY <1>2, <1>3, <1>5, <1>6

\* What is read.
LEMMA SaysByte ==
  ASSUME NEW c \in ChipType
  PROVE  Say(c) \in Byte /\ MonSay(c) \in Value
<1>1. c.index \in Byte /\ c.lock \in Byte /\ c.bank \in Byte /\ c.mon \in Byte
  BY ChipFields
<1>2. {"float", "other", "foreign", "on", "off"} \subseteq Byte
  BY Bytes
<1>3. Say(c) \in Byte
  BY <1>1, <1>2 DEF Say
<1>4. MonSay(c) \in Value
  BY <1>1, <1>2 DEF MonSay, Float, Value
<1>5. QED
  BY <1>3, <1>4

-----------------------------------------------------------------------------
(* Where the library is. *)

LEMMA HereIs ==
  ASSUME os \in {"windows", "linux"}, at \in 1 .. Len(PortPairs)
  PROVE  /\ Here \in Pair /\ Len(PortPairs) = IF os = "windows" THEN 3 ELSE 2
         /\ at = 1 => Here = "2E"
         /\ at = 2 => Here = "4E"
         /\ at = 3 => Here = "162" /\ os = "windows"
         /\ PortPairs[1] = "2E" /\ PortPairs[2] = "4E"
         /\ os = "windows" => PortPairs[3] = "162"
<1>1. CASE os = "windows"
  BY <1>1 DEF Here, PortPairs, Pair
<1>2. CASE os = "linux"
  BY <1>2 DEF Here, PortPairs, Pair
<1>3. QED
  BY <1>1, <1>2

-----------------------------------------------------------------------------
(* The next access is one the library makes. *)

LEMMA NextRegIs ==
  ASSUME FieldsTyped, CellDue
  PROVE  NextReg \in Register /\ (family = "ite" => NextReg[1] = "b0")
<1>1. PICK f : f = Head(fields)
  OBVIOUS
<1>2. PICK n : n = Len(cells)
  OBVIOUS
<1>3. /\ fields \in Seq(Field) /\ fields # <<>> /\ n \in Nat /\ n < Len(f.regs)
      /\ f = fields[1] /\ 1 \in 1 .. Len(fields)
  BY <1>1, <1>2 DEF FieldsTyped, CellDue
<1>4. f \in Field
  BY <1>3
<1>5. f.regs \in Seq(Register)
  BY <1>4 DEF Field, Register
<1>6. n + 1 \in 1 .. Len(f.regs)
  BY <1>3, <1>5
<1>7. f.regs[n + 1] \in Register
  BY <1>5, <1>6
<1>8. family = "ite" => f.regs[n + 1][1] = "b0"
  BY <1>3, <1>6 DEF FieldsTyped
<1>9. QED
  BY <1>1, <1>2, <1>7, <1>8 DEF NextReg

\* The library's accesses are proper ones.

LEMMA ProperOps ==
  /\ \A b \in Byte : Proper(Key(b)) /\ Proper(Send(b))
  /\ \A s \in Slot \ {"key"} : Proper(Get("cfg", s))
  /\ Proper(Get("mon", "bank"))
  /\ \A p \in {"cfg", "mon"} : \A o \in Byte : Proper(Cell(p, o))
  /\ Proper(Leave) /\ Proper(Put("cfg", "ldn", "mon"))
  /\ \A v \in Byte \ {"none"} :
       /\ Proper(Put("mon", "bank", v))
       /\ os = "windows" => Proper(Put("cfg", "bank", v)) /\ Proper(Put("cfg", "lock", v))
       /\ v \in {"clear", "wiped"} => Proper(Put("cfg", "lock", v))
<1>1. Slot \ {"key"} \subseteq Byte
  BY Bytes DEF Slot
<1>2. \A b \in Byte : Proper(Key(b)) /\ Proper(Send(b))
  BY Bytes DEF Proper, Key, Send, Access, Request
<1>3. (\A s \in Slot \ {"key"} : Proper(Get("cfg", s))) /\ Proper(Get("mon", "bank"))
  <2>1. ASSUME NEW p \in {"cfg", "mon"}, NEW s \in Slot \ {"key"}, p = "mon" => s = "bank"
        PROVE  Proper(Get(p, s))
    BY <1>1, <2>1, Bytes DEF Proper, Get, Access, Request
  <2>2. "bank" \in Slot \ {"key"}
    BY DEF Slot
  <2>3. \A s \in Slot \ {"key"} : Proper(Get("cfg", s))
    BY <2>1
  <2>4. Proper(Get("mon", "bank"))
    BY <2>1, <2>2
  <2>5. QED
    BY <2>3, <2>4
<1>4. \A p \in {"cfg", "mon"} : \A o \in Byte : Proper(Cell(p, o))
  BY Bytes DEF Proper, Cell, Access, Request
<1>5. Proper(Leave) /\ Proper(Put("cfg", "ldn", "mon"))
  BY Bytes DEF Proper, Leave, Put, Access, Request
<1>6. \A v \in Byte \ {"none"} :
        /\ Proper(Put("mon", "bank", v))
        /\ os = "windows" => Proper(Put("cfg", "bank", v)) /\ Proper(Put("cfg", "lock", v))
        /\ v \in {"clear", "wiped"} => Proper(Put("cfg", "lock", v))
  BY Bytes DEF Proper, Put, Access, Request
<1>7. QED
  BY <1>2, <1>3, <1>4, <1>5, <1>6

\* Their operations.
LEMMA OpsAre ==
  ASSUME NEW p, NEW r, NEW v
  PROVE  /\ Key(r).op = "key" /\ Key(r).port = "cfg" /\ Key(r).reg = r
         /\ Send(r).op = "send" /\ Send(r).port = "cfg" /\ Send(r).reg = r
         /\ Get(p, r).op = "get" /\ Get(p, r).port = p /\ Get(p, r).reg = r
         /\ Cell(p, r).op = "cell" /\ Cell(p, r).port = p /\ Cell(p, r).reg = r
         /\ Put(p, r, v).op = "put" /\ Put(p, r, v).port = p /\ Put(p, r, v).reg = r
         /\ Put(p, r, v).val = v
         /\ Leave = Put("cfg", "ctl", "leave")
BY DEF Key, Send, Get, Cell, Put, Leave, Access

\* An access that goes to nobody's configuration or takes a cell.
Plainly(a) == Proper(a) /\ a.op # "cell"

LEMMA PlainOps ==
  /\ \A b \in Byte : Plainly(Key(b)) /\ Plainly(Send(b))
  /\ \A s \in Slot \ {"key"} : Plainly(Get("cfg", s))
  /\ Plainly(Get("mon", "bank"))
  /\ Plainly(Leave) /\ Plainly(Put("cfg", "ldn", "mon"))
  /\ \A v \in Byte \ {"none"} :
       /\ Plainly(Put("mon", "bank", v))
       /\ os = "windows" => Plainly(Put("cfg", "bank", v)) /\ Plainly(Put("cfg", "lock", v))
       /\ v \in {"clear", "wiped"} => Plainly(Put("cfg", "lock", v))
<1>1. \A b \in Byte : Plainly(Key(b)) /\ Plainly(Send(b))
  BY ProperOps, OpsAre DEF Plainly
<1>2. (\A s \in Slot \ {"key"} : Plainly(Get("cfg", s))) /\ Plainly(Get("mon", "bank"))
  BY ProperOps, OpsAre DEF Plainly
<1>3. Plainly(Leave) /\ Plainly(Put("cfg", "ldn", "mon"))
  BY ProperOps, OpsAre DEF Plainly
<1>4. \A v \in Byte \ {"none"} :
        /\ Plainly(Put("mon", "bank", v))
        /\ os = "windows" => Plainly(Put("cfg", "bank", v)) /\ Plainly(Put("cfg", "lock", v))
        /\ v \in {"clear", "wiped"} => Plainly(Put("cfg", "lock", v))
  BY ProperOps, OpsAre DEF Plainly
<1>5. QED
  BY <1>1, <1>2, <1>3, <1>4

LEMMA PlainSix ==
  /\ Plainly(Key("87")) /\ Plainly(Key("01")) /\ Plainly(Key("55")) /\ Plainly(Key("AA"))
  /\ Plainly(Send("AA")) /\ Plainly(Leave) /\ Plainly(Put("cfg", "ldn", "mon"))
  /\ Plainly(Get("cfg", "id0")) /\ Plainly(Get("cfg", "id1"))
  /\ Plainly(Get("cfg", "active")) /\ Plainly(Get("cfg", "base0"))
  /\ Plainly(Get("cfg", "base1")) /\ Plainly(Get("cfg", "lock"))
  /\ Plainly(Get("mon", "bank"))
<1>1. /\ Plainly(Key("87")) /\ Plainly(Key("01")) /\ Plainly(Key("55")) /\ Plainly(Key("AA"))
      /\ Plainly(Send("AA")) /\ Plainly(Leave) /\ Plainly(Put("cfg", "ldn", "mon"))
  BY Bytes, PlainOps
<1>2. {"id0", "id1", "active", "base0", "base1", "lock", "bank"} \subseteq Slot \ {"key"}
  BY DEF Slot
<1>3. /\ Plainly(Get("cfg", "id0")) /\ Plainly(Get("cfg", "id1"))
      /\ Plainly(Get("cfg", "active")) /\ Plainly(Get("cfg", "base0"))
      /\ Plainly(Get("cfg", "base1")) /\ Plainly(Get("cfg", "lock"))
      /\ Plainly(Get("mon", "bank"))
  BY <1>2, PlainOps
<1>4. QED
  BY <1>1, <1>3

\* The end of a list of accesses is an end of it.
LEMMA LockingNext ==
  ASSUME Locking, todo # <<>>
  PROVE  \/ todo = <<Send("AA")>> /\ Head(todo) = Send("AA") /\ Tail(todo) = <<>> /\ Left = 1
         \/ \E v \in Byte \ {"none"} :
              /\ os = "linux" => v \in {"clear", "wiped"}
              /\ todo = <<Put("cfg", "lock", v), Send("AA")>>
              /\ Head(todo) = Put("cfg", "lock", v) /\ Tail(todo) = <<Send("AA")>> /\ Left = 2
<1>1. PICK v \in Byte \ {"none"} :
        /\ todo \in {<<Put("cfg", "lock", v), Send("AA")>>, <<Send("AA")>>}
        /\ os = "linux" => v \in {"clear", "wiped"}
  BY DEF Locking
<1>2. CASE todo = <<Send("AA")>>
  BY <1>2 DEF Left, Size
<1>3. CASE todo = <<Put("cfg", "lock", v), Send("AA")>>
  <2>1. Head(todo) = Put("cfg", "lock", v) /\ Tail(todo) = <<Send("AA")>> /\ Left = 2
    BY <1>3 DEF Left, Size
  <2>2. QED
    BY <1>1, <1>3, <2>1
<1>4. QED
  BY <1>1, <1>2, <1>3

\* An access of the call's own: a cell is due where it is read.

Fitting(a) ==
  /\ Proper(a)
  /\ a.op = "cell" => pc = "fields" /\ CellDue /\ Tail(todo) = <<>>

LEMMA FieldsHead ==
  ASSUME FieldsTyped, FieldsQueue, todo # <<>>, pc = "fields", os \in {"windows", "linux"}
  PROVE  Fitting(Head(todo))
<1>1. CASE NctOnWindows /\ Locking
  <2>1. CASE Head(todo) = Send("AA")
    BY <2>1, PlainSix DEF Fitting, Plainly
  <2>2. ASSUME NEW v \in Byte \ {"none"}, Head(todo) = Put("cfg", "lock", v)
        PROVE  Fitting(Head(todo))
    <3>1. os = "windows"
      BY <1>1 DEF NctOnWindows
    <3>2. QED
      BY <2>2, <3>1, PlainOps DEF Fitting, Plainly
  <2>3. QED
    BY <1>1, <2>1, <2>2, LockingNext
<1>2. CASE got.bank \in DOMAIN Cleared /\ todo = <<Put("mon", "bank", ReadBank(got.bank))>>
  <2>1. PICK b : b = ReadBank(got.bank)
    OBVIOUS
  <2>2. Head(todo) = Put("mon", "bank", b) /\ b \in Byte \ {"none"}
    BY <1>2, <2>1, ReadBankIs
  <2>3. QED
    BY <2>2, PlainOps DEF Fitting, Plainly
<1>3. CASE CellDue
  <2>1. PICK b, o : b = NextReg[1] /\ o = NextReg[2]
    OBVIOUS
  <2>2. b \in Bank /\ o \in Offset
    BY <1>3, <2>1, NextRegIs DEF Register
  <2>3. b \in Byte \ {"none"} /\ o \in Byte
    BY <2>2, Bytes
  <2>4. \A p \in {"cfg", "mon"} : Proper(Cell(p, o)) /\ Cell(p, o).op = "cell"
    <3>1. \A p \in {"cfg", "mon"} : Proper(Cell(p, o))
      BY <2>3, ProperOps
    <3>2. \A p \in {"cfg", "mon"} : Cell(p, o).op = "cell"
      BY OpsAre
    <3>3. QED
      BY <3>1, <3>2
  <2>5. /\ Plainly(Put("mon", "bank", b))
        /\ os = "windows" => Plainly(Put("cfg", "bank", b))
    BY <2>3, PlainOps
  <2>6. CASE NctOnWindows /\ todo \in Ends2(Put("cfg", "bank", b), Cell("cfg", o))
    <3>1. CASE todo = <<Cell("cfg", o)>>
      BY <1>3, <2>4, <3>1 DEF Fitting
    <3>2. CASE todo = <<Put("cfg", "bank", b), Cell("cfg", o)>>
      BY <2>5, <2>6, <3>2 DEF Fitting, Plainly, NctOnWindows
    <3>3. QED
      BY <2>6, <3>1, <3>2 DEF Ends2, Ends1
  <2>7. CASE todo \in Ends2(Put("mon", "bank", b), Cell("mon", o))
    <3>1. CASE todo = <<Cell("mon", o)>>
      BY <1>3, <2>4, <3>1 DEF Fitting
    <3>2. CASE todo = <<Put("mon", "bank", b), Cell("mon", o)>>
      BY <2>5, <3>2 DEF Fitting, Plainly
    <3>3. QED
      BY <2>7, <3>1, <3>2 DEF Ends2, Ends1
  <2>8. CASE todo = <<Cell("mon", o)>>
    BY <1>3, <2>4, <2>8 DEF Fitting
  <2>9. QED
    <3>1. \/ NctOnWindows /\ Locking
          \/ got.bank \in DOMAIN Cleared /\ todo = <<Put("mon", "bank", ReadBank(got.bank))>>
          \/ NctOnWindows /\ todo \in Ends2(Put("cfg", "bank", b), Cell("cfg", o))
          \/ todo \in Ends2(Put("mon", "bank", b), Cell("mon", o))
          \/ todo = <<Cell("mon", o)>>
      BY <2>1, Zenon DEF FieldsQueue
    <3>2. QED
      BY <1>1, <1>2, <2>6, <2>7, <2>8, <3>1
<1>4. QED
  BY <1>1, <1>2, <1>3, Zenon DEF FieldsQueue

LEMMA HeadFits ==
  ASSUME TypeInv, Queue, todo # <<>>
  PROVE  Fitting(Head(todo))
<1>1. pc \in Procedure /\ os \in {"windows", "linux"} /\ FieldsTyped /\ got \in [Slot -> Byte]
  BY DEF TypeInv, CallTyped, BoardTyped
<1>2. ASSUME Plainly(Head(todo))
      PROVE  Fitting(Head(todo))
  BY <1>2 DEF Plainly, Fitting
<1>3. pc \notin {"idle", "returned"}
  BY DEF Queue
<1>4. PICK k : k = Key(IF Here = "4E" THEN "AA" ELSE "55")
  OBVIOUS
<1>5. Plainly(k)
  BY <1>4, PlainSix
<1>6. CASE todo \in IteKeyed
  <2>1. todo \in Ends6(Key("87"), Key("01"), Key("55"), k, Get("cfg", "id0"), Get("cfg", "id1"))
    BY <1>4, <1>6 DEF IteKeyed
  <2>2. Head(todo) \in {Key("87"), Key("01"), Key("55"), k, Get("cfg", "id0"),
                        Get("cfg", "id1")}
    BY <2>1, Next6
  <2>3. QED
    BY <1>2, <1>5, <2>2, PlainSix
<1>7. CASE todo \in NctKeyed
  <2>1. Head(todo) \in {Key("87"), Get("cfg", "id0"), Get("cfg", "id1")}
    BY <1>7, Next4 DEF NctKeyed
  <2>2. QED
    BY <1>2, <2>1, PlainSix
<1>8. CASE todo \in Detected
  <2>1. Head(todo) \in {Leave, Key("87"), Get("cfg", "id0"), Get("cfg", "id1"), Send("AA")}
    BY <1>8, Next6 DEF Detected
  <2>2. QED
    BY <1>2, <2>1, PlainSix
<1>9. ASSUME NEW a, Plainly(a), todo \in FoundThen(a)
      PROVE  Fitting(Head(todo))
  <2>1. Head(todo) \in {Put("cfg", "ldn", "mon"), Get("cfg", "active"),
                        Get("cfg", "base0"), Get("cfg", "base1"), a}
    BY <1>9, Next5 DEF FoundThen
  <2>2. QED
    BY <1>2, <1>9, <2>1, PlainSix
<1>10. CASE todo \in Found
  <2>1. Head(todo) \in {Put("cfg", "ldn", "mon"), Get("cfg", "active"),
                        Get("cfg", "base0"), Get("cfg", "base1")}
    BY <1>10, Next4 DEF Found
  <2>2. QED
    BY <1>2, <2>1, PlainSix
<1>11. ASSUME NEW a, Plainly(a), todo \in Ends1(a)
       PROVE  Fitting(Head(todo))
  BY <1>2, <1>11, Next1
<1>12. CASE todo \in Ends3(Key("87"), Key("87"), Get("cfg", "lock"))
  <2>1. Head(todo) \in {Key("87"), Get("cfg", "lock")}
    BY <1>12, Next3
  <2>2. QED
    BY <1>2, <2>1, PlainSix
<1>13. CASE os = "linux" /\ Locking
  <2>1. CASE Head(todo) = Send("AA")
    BY <1>2, <2>1, PlainSix
  <2>2. ASSUME NEW v \in Byte \ {"none"}, v \in {"clear", "wiped"},
               Head(todo) = Put("cfg", "lock", v)
        PROVE  Fitting(Head(todo))
    BY <1>2, <2>2, PlainOps
  <2>3. QED
    BY <1>13, <2>1, <2>2, LockingNext
<1>14. CASE got.bank # "none" /\ todo = <<Put("mon", "bank", got.bank)>>
  <2>1. got.bank \in Byte \ {"none"}
    BY <1>1, <1>14 DEF Slot
  <2>2. Head(todo) = Put("mon", "bank", got.bank)
    BY <1>14
  <2>3. QED
    BY <1>2, <2>1, <2>2, PlainOps
<1>15. CASE pc \in {"ite", "probe", "detect", "leave"}
  BY <1>6, <1>7, <1>8, <1>11, <1>15, PlainSix DEF Queue
<1>16. CASE pc \in {"ite find", "unlock", "open"}
  BY <1>9, <1>10, <1>12, <1>13, <1>16, PlainSix DEF Queue
<1>17. CASE pc \in {"bank", "finish"}
  BY <1>11, <1>14, <1>17, PlainSix DEF Queue
<1>18. CASE pc = "fields"
  BY <1>1, <1>18, FieldsHead DEF Queue
<1>19. QED
  BY <1>1, <1>3, <1>15, <1>16, <1>17, <1>18 DEF Procedure

-----------------------------------------------------------------------------
(* An access, whatever fails, leaves a chip of its type. *)

LEMMA HearOk ==
  ASSUME NEW c, NEW p, ChipOk(c, p), NEW b \in Byte
  PROVE  ChipOk(Hear(c, p, b), p) /\ Same(c, Hear(c, p, b))
<1>1. PICK d : d = Hear(c, p, b)
  OBVIOUS
<1>2. /\ d \in ChipType /\ Same(c, d) /\ (c.kind = "none" => d = c)
      /\ d.key < Size(KeyOf(c, p)) /\ (d.mode = "config" => d.key = 0)
  BY <1>1, HearTurns, Zenon
<1>3. d.kind = c.kind /\ d.lock = c.lock /\ d.bank = c.bank
  BY <1>2 DEF Same
<1>4. KeyOf(d, p) = KeyOf(c, p)
  BY <1>3, Zenon DEF KeyOf
<1>5. ChipOk(d, p)
  BY <1>2, <1>3, <1>4 DEF ChipOk
<1>6. QED
  BY <1>1, <1>2, <1>5

LEMMA TakeOk ==
  ASSUME NEW c, NEW p, ChipOk(c, p), NEW v \in Byte, v # "none",
         os = "linux" => v \in Plain,
         c.mode = "config" /\ c.index = "ldn" => v \in Ldn
  PROVE  ChipOk(Take(c, v), p) /\ Take(c, v).kind = c.kind /\ Take(c, v).on = c.on
<1>1. PICK d : d = Take(c, v)
  OBVIOUS
<1>2. c \in ChipType
  BY DEF ChipOk
<1>3. /\ d \in ChipType /\ d.kind = c.kind /\ d.on = c.on /\ d.key = c.key
      /\ d.bank = c.bank
      /\ d.lock = IF c.mode = "config" /\ c.index = "lock" THEN v ELSE c.lock
      /\ d.mode = IF c.index = "ctl" /\ c.kind = "ite" /\ v = "leave" THEN "run" ELSE c.mode
  BY <1>1, <1>2, TakeTurns
<1>4. KeyOf(d, p) = KeyOf(c, p)
  BY <1>3, Zenon DEF KeyOf
<1>5. d.mode = "config" => c.mode = "config"
  BY <1>3
<1>6. d.kind = "none" => Quiet(d)
  BY <1>3 DEF ChipOk, Quiet
<1>7. d.lock # "none" /\ d.bank # "none"
  BY <1>3 DEF ChipOk
<1>8. os = "linux" => d.lock \in {"set", "clear", "wiped", "mon", "leave"}
  BY <1>3 DEF ChipOk, Plain
<1>9. ChipOk(d, p)
  BY <1>3, <1>4, <1>5, <1>6, <1>7, <1>8 DEF ChipOk
<1>10. QED
  BY <1>1, <1>3, <1>9

LEMMA MonOk ==
  ASSUME NEW c, NEW p, ChipOk(c, p), NEW r \in Byte, NEW v \in Byte, v # "none"
  PROVE  /\ ChipOk(MonHear(c, r), p) /\ MonHear(c, r).kind = c.kind
         /\ MonHear(c, r).on = c.on
         /\ ChipOk(MonTake(c, v), p) /\ MonTake(c, v).kind = c.kind
         /\ MonTake(c, v).on = c.on
<1>1. PICK d, e : d = MonHear(c, r) /\ e = MonTake(c, v)
  OBVIOUS
<1>2. c \in ChipType
  BY DEF ChipOk
<1>3. /\ d \in ChipType /\ d.kind = c.kind /\ d.on = c.on /\ d.mode = c.mode
      /\ d.key = c.key /\ d.lock = c.lock /\ d.bank = c.bank
  BY <1>1, <1>2, MonTurns
<1>4. /\ e \in ChipType /\ e.kind = c.kind /\ e.on = c.on /\ e.mode = c.mode
      /\ e.key = c.key /\ e.lock = c.lock
      /\ e.bank = IF MonOpen(c) /\ c.mon = "bank" THEN v ELSE c.bank
  BY <1>1, <1>2, MonTurns
<1>5. KeyOf(d, p) = KeyOf(c, p) /\ KeyOf(e, p) = KeyOf(c, p)
  BY <1>3, <1>4, Zenon DEF KeyOf
<1>6. ChipOk(d, p)
  BY <1>3, <1>5 DEF ChipOk, Quiet
<1>7. e.bank # "none"
  BY <1>4 DEF ChipOk
<1>8. ChipOk(e, p)
  BY <1>4, <1>5, <1>7 DEF ChipOk, Quiet
<1>9. QED
  BY <1>1, <1>3, <1>4, <1>6, <1>8

LEMMA AccessOk ==
  ASSUME BoardTyped, at \in 1 .. Len(PortPairs), NEW a, Proper(a), NEW f \in Outcome(a)
  PROVE  /\ ChipOk(AfterIndex(a, f), Here)
         /\ ChipOk(AfterData(a, f), Here)
         /\ AfterData(a, f).kind = chip[Here].kind /\ AfterData(a, f).on = chip[Here].on
<1>1. PICK c : c = chip[Here]
  OBVIOUS
<1>2. os \in {"windows", "linux"} /\ Here \in Pair
  BY HereIs DEF BoardTyped
<1>3. ChipOk(c, Here)
  BY <1>1, <1>2 DEF BoardTyped
<1>4. /\ a.op \in {"key", "send", "get", "put", "cell"} /\ a.port \in {"cfg", "mon"}
      /\ a.reg \in Byte /\ a.val \in Byte
  BY DEF Proper, Request
<1>5. PICK i : i = AfterIndex(a, f)
  OBVIOUS
<1>6. \/ i = c
      \/ f \notin {"first", "both"} /\ a.port = "cfg" /\ i = Hear(c, Here, a.reg)
      \/ i = MonHear(c, a.reg)
  BY <1>1, <1>4, <1>5, Zenon DEF AfterIndex, Arrives
<1>7. "b0" \in Byte /\ "b0" # "none"
  BY Bytes
<1>8. ChipOk(i, Here) /\ i.kind = c.kind /\ i.on = c.on
  <2>1. CASE i = c
    BY <1>3, <2>1
  <2>2. CASE i = Hear(c, Here, a.reg)
    BY <1>3, <1>4, <2>2, HearOk DEF Same
  <2>3. CASE i = MonHear(c, a.reg)
    BY <1>3, <1>4, <1>7, <2>3, MonOk
  <2>4. QED
    BY <1>6, <2>1, <2>2, <2>3
<1>9. PICK d : d = AfterData(a, f)
  OBVIOUS
<1>10. \/ d = i
       \/ a.op = "put" /\ a.port = "cfg" /\ f \notin {"second", "both"} /\ d = Take(i, a.val)
       \/ a.op = "put" /\ d = MonTake(i, a.val)
  BY <1>4, <1>5, <1>9, Zenon DEF AfterData
<1>11. CASE d = i
  BY <1>1, <1>5, <1>8, <1>9, <1>11
<1>12. CASE a.op = "put" /\ d = MonTake(i, a.val)
  <2>1. a.val # "none"
    BY <1>12 DEF Proper
  <2>2. ChipOk(d, Here) /\ d.kind = i.kind /\ d.on = i.on
    BY <1>4, <1>8, <1>12, <2>1, MonOk
  <2>3. QED
    BY <1>1, <1>5, <1>8, <1>9, <2>2
<1>13. CASE a.op = "put" /\ a.port = "cfg" /\ f \notin {"second", "both"} /\ d = Take(i, a.val)
  <2>1. /\ a.val # "none" /\ a.reg \in {"ldn", "lock", "ctl", "bank"}
        /\ a.reg = "ldn" => a.val = "mon"
        /\ os = "linux" => a.val \in Plain
    BY <1>13 DEF Proper, Plain
  <2>2. Plain \subseteq Ldn
    BY DEF Plain, Ldn
  <2>3. i.mode = "config" /\ i.index = "ldn" => a.val \in Ldn
    <3>1. CASE os = "linux"
      BY <2>1, <2>2, <3>1
    <3>2. CASE os = "windows"
      <4>1. f \in {"ok", "second", "both"}
        BY <3>2, Zenon DEF Outcome
      <4>2. i = Hear(c, Here, a.reg)
        BY <1>1, <1>5, <1>13, <4>1, Zenon DEF AfterIndex, Arrives
      <4>3. c.mode \in {"run", "config"} /\ (c.kind = "none" => c.mode = "run")
        BY <1>3, ChipFields DEF ChipOk, Quiet
      <4>4. a.reg \notin {"87", "01", "55", "AA"}
        BY <2>1
      <4>5. CASE c.kind = "none"
        <5>1. i = c
          BY <1>3, <1>4, <4>2, <4>5, HearTurns, Zenon
        <5>2. QED
          BY <4>3, <4>5, <5>1
      <4>6. CASE c.kind = "ite"
        <5>1. IteTurn(c, i, Here, a.reg)
          BY <1>3, <1>4, <4>2, <4>6, HearTurns, Zenon
        <5>2. i.mode = "config" => i.index = a.reg
          BY <4>3, <4>4, <5>1 DEF IteTurn
        <5>3. QED
          BY <2>1, <5>2 DEF Ldn
      <4>7. CASE c.kind \notin {"ite", "none"}
        <5>1. NctTurn(c, i, a.reg)
          BY <1>3, <1>4, <4>2, <4>7, HearTurns, Zenon
        <5>2. i.mode = "config" => i.index = a.reg
          BY <4>3, <4>4, <5>1 DEF NctTurn
        <5>3. QED
          BY <2>1, <5>2 DEF Ldn
      <4>8. QED
        BY <4>5, <4>6, <4>7
    <3>3. QED
      BY <1>2, <3>1, <3>2
  <2>4. ChipOk(d, Here) /\ d.kind = i.kind /\ d.on = i.on
    BY <1>4, <1>8, <1>13, <2>1, <2>3, TakeOk
  <2>5. QED
    BY <1>1, <1>5, <1>8, <1>9, <2>4
<1>14. QED
  BY <1>10, <1>11, <1>12, <1>13

\* What an access reads.

LEMMA ReadsByte ==
  ASSUME BoardTyped, at \in 1 .. Len(PortPairs), NEW a, Proper(a), NEW f \in Outcome(a)
  PROVE  ValueRead(a, f) \in Value /\ Stored(a, ValueRead(a, f)) \in Byte
<1>1. AfterIndex(a, f) \in ChipType
  BY AccessOk DEF ChipOk
<1>2. PICK i : i = AfterIndex(a, f)
  OBVIOUS
<1>3. Say(i) \in Byte /\ MonSay(i) \in Value
  BY <1>1, <1>2, SaysByte
<1>4. PICK v : v = ValueRead(a, f)
  OBVIOUS
<1>5. v = Missing \/ v = Float \/ v = <<"cfg", Say(i)>> \/ v = MonSay(i)
  BY <1>2, <1>4, Zenon DEF ValueRead
<1>6. "none" \in Byte /\ "float" \in Byte /\ "junk" \in Byte
  BY Bytes
<1>7. v \in Value
  BY <1>3, <1>5, <1>6 DEF Missing, Float, Value
<1>8. v[2] \in Byte
  BY <1>7 DEF Value
<1>9. a.port = "cfg" \/ v = Missing \/ v = Float \/ v = MonSay(i)
  BY <1>2, <1>4, Zenon DEF ValueRead
<1>10. Stored(a, v) \in Byte
  <2>1. CASE a.port = "cfg" \/ v = Missing
    BY <1>8, <2>1 DEF Stored
  <2>2. CASE v = Float \/ v = MonSay(i)
    <3>1. v[1] \in Byte
      BY <1>1, <1>2, <1>6, <2>2, ChipFields DEF MonSay, Float
    <3>2. QED
      BY <1>6, <1>8, <3>1 DEF Stored
  <2>3. QED
    BY <1>9, <2>1, <2>2
<1>11. QED
  BY <1>4, <1>7, <1>10

-----------------------------------------------------------------------------
(* Transfer. *)

\* Where the library is, and for which chip, stays.
LEMMA HereSame ==
  ASSUME os' = os, at' = at
  PROVE  Here' = Here /\ PortPairs' = PortPairs
BY DEF Here, PortPairs

LEMMA FamilySame ==
  ASSUME os' = os, family' = family
  PROVE  NctOnWindows' = NctOnWindows /\ NctOnLinux' = NctOnLinux
BY DEF NctOnWindows, NctOnLinux

\* The transfer of access a fails as in f, and reads v.
Moves(a, f, v) ==
  /\ a = Head(todo) /\ f \in Outcome(a) /\ v = ValueRead(a, f)
  /\ chip' = [chip EXCEPT ![Here] = AfterData(a, f)]
  /\ got' = IF a.op = "get" THEN [got EXCEPT ![a.reg] = Stored(a, v)]
            ELSE IF GivesUp(a, f) THEN [got EXCEPT !["key"] = "cut"]
            ELSE got
  /\ cells' = IF a.op = "cell" THEN Append(cells, v) ELSE cells
  /\ todo' = IF GivesUp(a, f) THEN <<>> ELSE Tail(todo)
  /\ cut' = (cut \/ (WriteFailed(a, f) /\ ~Barred(a)))
  /\ lost' = IF v # Missing \/ a.op \notin {"get", "cell"} THEN lost
             ELSE lost \cup {IF a.op = "get" THEN a.reg ELSE "cell"}
  /\ faults' = IF f = "ok" \/ Barred(a) THEN faults ELSE faults + 1
  /\ stray' = (stray \/ (~Arrives(a) /\ f # "both"))

LEMMA TransferIs ==
  ASSUME Transfer
  PROVE  /\ todo # <<>>
         /\ \E a, f, v : Moves(a, f, v)
         /\ os' = os /\ was' = was /\ pc' = pc /\ what' = what /\ family' = family
         /\ at' = at /\ base' = base /\ cache' = cache /\ fields' = fields /\ res' = res
         /\ tried' = tried
         /\ Here' = Here /\ PortPairs' = PortPairs
         /\ NctOnWindows' = NctOnWindows /\ NctOnLinux' = NctOnLinux
<1>1. os' = os /\ at' = at /\ family' = family
  BY DEF Transfer
<1>2. \E f \in Outcome(Head(todo)) : Moves(Head(todo), f, ValueRead(Head(todo), f))
  BY ZenonT(60) DEF Transfer, Moves
<1>3. \E a, f, v : Moves(a, f, v)
  BY <1>2
<1>4. /\ todo # <<>>
      /\ os' = os /\ was' = was /\ pc' = pc /\ what' = what /\ family' = family
      /\ at' = at /\ base' = base /\ cache' = cache /\ fields' = fields /\ res' = res
      /\ tried' = tried
  BY DEF Transfer
<1>5. QED
  BY <1>1, <1>3, <1>4, HereSame, FamilySame

LEMMA TransferTyped ==
  ASSUME TypeInv, Queue, Transfer
  PROVE  TypeInv'
<1>0. PICK a, f, v : Moves(a, f, v)
  BY TransferIs
<1>1. /\ a = Head(todo) /\ f \in Outcome(a) /\ v = ValueRead(a, f)
      /\ chip' = [chip EXCEPT ![Here] = AfterData(a, f)]
      /\ got' = IF a.op = "get" THEN [got EXCEPT ![a.reg] = Stored(a, v)]
                ELSE IF GivesUp(a, f) THEN [got EXCEPT !["key"] = "cut"]
                ELSE got
      /\ cells' = IF a.op = "cell" THEN Append(cells, v) ELSE cells
      /\ todo' = IF GivesUp(a, f) THEN <<>> ELSE Tail(todo)
      /\ cut' = (cut \/ (WriteFailed(a, f) /\ ~Barred(a)))
      /\ lost' = IF v # Missing \/ a.op \notin {"get", "cell"} THEN lost
                 ELSE lost \cup {IF a.op = "get" THEN a.reg ELSE "cell"}
      /\ faults' = IF f = "ok" \/ Barred(a) THEN faults ELSE faults + 1
      /\ stray' = (stray \/ (~Arrives(a) /\ f # "both"))
  BY <1>0, Zenon DEF Moves
<1>2. /\ os' = os /\ was' = was /\ pc' = pc /\ what' = what /\ family' = family
      /\ at' = at /\ base' = base /\ cache' = cache /\ fields' = fields /\ res' = res
      /\ tried' = tried /\ Here' = Here /\ PortPairs' = PortPairs
      /\ todo # <<>>
  BY TransferIs
<1>3. BoardTyped /\ CallTyped /\ FieldsTyped
  BY DEF TypeInv
<1>4. at \in 1 .. Len(PortPairs) /\ os \in {"windows", "linux"}
  BY <1>3 DEF CallTyped, BoardTyped
<1>5. Here \in Pair
  BY <1>4, HereIs
<1>6. Proper(a) /\ (a.op = "cell" => pc = "fields" /\ CellDue /\ Tail(todo) = <<>>)
  BY <1>1, <1>2, HeadFits DEF Fitting
<1>7. PICK d, s : d = AfterData(a, f) /\ s = Stored(a, v)
  OBVIOUS
<1>8. /\ ChipOk(d, Here) /\ d.kind = chip[Here].kind /\ d.on = chip[Here].on
      /\ v \in Value /\ s \in Byte
  BY <1>1, <1>3, <1>4, <1>6, <1>7, AccessOk, ReadsByte
<1>9. BoardTyped'
  <2>1. chip' = [chip EXCEPT ![Here] = d]
    BY <1>1, <1>7
  <2>2. chip \in [Pair -> ChipType] /\ d \in ChipType /\ d.kind = chip[Here].kind
        /\ d.on = chip[Here].on
    BY <1>3, <1>8 DEF BoardTyped, ChipOk
  <2>3. chip' \in [Pair -> ChipType] /\ chip'[Here] = d
        /\ \A p \in Pair \ {Here} : chip'[p] = chip[p]
    BY <1>5, <2>1, <2>2
  <2>4. \A p \in Pair : ChipOk(chip'[p], p)
    BY <1>3, <1>8, <2>3 DEF BoardTyped
  <2>5. \A p \in Pair : was[p].kind = chip'[p].kind /\ was[p].on = chip'[p].on
    BY <1>3, <2>2, <2>3 DEF BoardTyped
  <2>6. \A p \in Pair : ChipOk(chip[p], p)'
    BY <1>2, <2>4 DEF ChipOk, Quiet
  <2>7. cut' \in BOOLEAN /\ stray' \in BOOLEAN
    BY <1>1
  <2>8. lost' \subseteq Slot \cup {"cell"}
    <3>1. lost \subseteq Slot \cup {"cell"}
      BY <1>3 DEF BoardTyped
    <3>2. a.op = "get" => a.reg \in Slot
      BY <1>6 DEF Proper
    <3>3. QED
      BY <1>1, <3>1, <3>2
  <2>9. faults' \in 0 .. MaxFaults
    <3>1. faults \in 0 .. MaxFaults /\ MaxFaults \in Nat
      BY <1>3, FaultsAssumption DEF BoardTyped
    <3>2. f # "ok" /\ ~Barred(a) => faults # MaxFaults
      BY <1>1, Zenon DEF Outcome
    <3>3. QED
      BY <1>1, <3>1, <3>2
  <2>10. was \in [Pair -> ChipType]
    BY <1>3 DEF BoardTyped
  <2>11. QED
    BY <1>2, <1>4, <2>3, <2>5, <2>6, <2>7, <2>8, <2>9, <2>10 DEF BoardTyped
<1>10. CallTyped'
  <2>1. got \in [Slot -> Byte] /\ "cut" \in Byte
    BY <1>3, Bytes DEF CallTyped
  <2>2. got' \in [Slot -> Byte]
    BY <1>1, <1>7, <1>8, <2>1
  <2>3. QED
    BY <1>2, <1>3, <2>2 DEF CallTyped
<1>11. FieldsTyped'
  <2>1. CASE a.op = "cell"
    <3>1. cells' = Append(cells, v) /\ cells \in Seq(Value) /\ CellDue /\ pc = "fields"
      BY <1>1, <1>3, <1>6, <2>1 DEF FieldsTyped
    <3>2. PICK n, m : n = Len(cells) /\ m = Len(Head(fields).regs)
      OBVIOUS
    <3>3. cells' \in Seq(Value) /\ Len(cells') = n + 1 /\ n \in Nat
      BY <1>8, <3>1, <3>2
    <3>4. fields # <<>> /\ n < m
      BY <3>1, <3>2 DEF CellDue
    <3>5. PICK h : h = Head(fields)
      OBVIOUS
    <3>6. h \in Field
      BY <1>3, <3>4, <3>5 DEF FieldsTyped
    <3>7. h.regs \in Seq(Register)
      BY <3>6 DEF Field, Register
    <3>8. m \in Nat /\ m = Len(h.regs)
      BY <3>2, <3>5, <3>7
    <3>9. Len(cells') <= Len(Head(fields).regs)
      BY <3>2, <3>3, <3>4, <3>8
    <3>10. QED
      BY <1>2, <1>3, <3>1, <3>3, <3>4, <3>9 DEF FieldsTyped
  <2>2. CASE a.op # "cell"
    <3>1. cells' = cells
      BY <1>1, <2>2
    <3>2. QED
      BY <1>2, <1>3, <3>1 DEF FieldsTyped
  <2>3. QED
    BY <2>1, <2>2
<1>12. QED
  BY <1>9, <1>10, <1>11 DEF TypeInv

\* The list gets shorter.

LEMMA Shorter ==
  ASSUME NEW a, NEW b, NEW c, NEW d, NEW e, NEW f, NEW s, s # <<>>,
         NEW t, t = <<>> \/ t = Tail(s)
  PROVE  /\ s \in Ends1(f) => t \in Ends1(f)
         /\ s \in Ends2(e, f) => t \in Ends2(e, f)
         /\ s \in Ends3(d, e, f) => t \in Ends3(d, e, f)
         /\ s \in Ends4(c, d, e, f) => t \in Ends4(c, d, e, f)
         /\ s \in Ends5(b, c, d, e, f) => t \in Ends5(b, c, d, e, f)
         /\ s \in Ends6(a, b, c, d, e, f) => t \in Ends6(a, b, c, d, e, f)
<1>1. CASE t = <<>>
  BY <1>1, Zenon DEF Ends1, Ends2, Ends3, Ends4, Ends5, Ends6
<1>2. CASE t = Tail(s)
  <2>1. s \in Ends1(f) => t \in Ends1(f)
    BY <1>2, Next1
  <2>2. s \in Ends2(e, f) => t \in Ends2(e, f)
    BY <1>2, Next2
  <2>3. s \in Ends3(d, e, f) => t \in Ends3(d, e, f)
    BY <1>2, Next3
  <2>4. s \in Ends4(c, d, e, f) => t \in Ends4(c, d, e, f)
    BY <1>2, Next4
  <2>5. s \in Ends5(b, c, d, e, f) => t \in Ends5(b, c, d, e, f)
    BY <1>2, Next5
  <2>6. s \in Ends6(a, b, c, d, e, f) => t \in Ends6(a, b, c, d, e, f)
    BY <1>2, Next6
  <2>7. QED
    BY <2>1, <2>2, <2>3, <2>4, <2>5, <2>6
<1>3. QED
  BY <1>1, <1>2

LEMMA ShorterLists ==
  ASSUME NEW s, s # <<>>, NEW t, t = <<>> \/ t = Tail(s)
  PROVE  /\ s \in IteKeyed => t \in IteKeyed
         /\ s \in NctKeyed => t \in NctKeyed
         /\ s \in Detected => t \in Detected
         /\ s \in Found => t \in Found
         /\ \A a : s \in FoundThen(a) => t \in FoundThen(a)
         /\ \A a : s \in Ends1(a) => t \in Ends1(a)
         /\ \A a, b : s \in Ends2(a, b) => t \in Ends2(a, b)
         /\ \A a, b, c : s \in Ends3(a, b, c) => t \in Ends3(a, b, c)
<1>1. s \in IteKeyed => t \in IteKeyed
  BY Shorter DEF IteKeyed
<1>2. s \in NctKeyed => t \in NctKeyed
  BY Shorter DEF NctKeyed
<1>3. s \in Detected => t \in Detected
  BY Shorter DEF Detected
<1>4. s \in Found => t \in Found
  BY Shorter DEF Found
<1>5. ASSUME NEW a
      PROVE  s \in FoundThen(a) => t \in FoundThen(a)
  BY Shorter DEF FoundThen
<1>6. /\ \A a : s \in Ends1(a) => t \in Ends1(a)
      /\ \A a, b : s \in Ends2(a, b) => t \in Ends2(a, b)
      /\ \A a, b, c : s \in Ends3(a, b, c) => t \in Ends3(a, b, c)
  BY Shorter
<1>7. QED
  BY <1>1, <1>2, <1>3, <1>4, <1>5, <1>6

\* The lists of a pair of ports and a family stay the same lists.
LEMMA SameLists ==
  ASSUME Here' = Here
  PROVE  IteKeyed' = IteKeyed /\ NctKeyed' = NctKeyed /\ Detected' = Detected
         /\ Found' = Found /\ \A a : FoundThen(a)' = FoundThen(a)
BY DEF IteKeyed, NctKeyed, Detected, Found, FoundThen, Leave

\* What a transfer leaves alone.

LEMMA TransferKeeps ==
  ASSUME TypeInv, Queue, Transfer
  PROVE  /\ todo' = <<>> \/ todo' = Tail(todo)
         /\ Here1'.kind = Here1.kind
         /\ pc \in {"fields", "finish"} => got' = got /\ (todo' # <<>> => cells' = cells)
<1>1. PICK a, f, v : Moves(a, f, v)
  BY TransferIs
<1>2. /\ a = Head(todo) /\ f \in Outcome(a)
      /\ chip' = [chip EXCEPT ![Here] = AfterData(a, f)]
      /\ got' = IF a.op = "get" THEN [got EXCEPT ![a.reg] = Stored(a, v)]
                ELSE IF GivesUp(a, f) THEN [got EXCEPT !["key"] = "cut"]
                ELSE got
      /\ cells' = IF a.op = "cell" THEN Append(cells, v) ELSE cells
      /\ todo' = IF GivesUp(a, f) THEN <<>> ELSE Tail(todo)
  BY <1>1, Zenon DEF Moves
<1>3. todo # <<>> /\ Here' = Here
  BY TransferIs
<1>4. Fitting(a)
  BY <1>2, <1>3, HeadFits
<1>5. BoardTyped /\ at \in 1 .. Len(PortPairs) /\ os \in {"windows", "linux"}
  BY DEF TypeInv, BoardTyped, CallTyped
<1>6. Here \in Pair /\ chip \in [Pair -> ChipType]
  BY <1>5, HereIs DEF BoardTyped
<1>7. AfterData(a, f).kind = chip[Here].kind
  BY <1>2, <1>4, <1>5, AccessOk DEF Fitting
<1>8. Here1'.kind = Here1.kind
  BY <1>2, <1>3, <1>6, <1>7 DEF Here1
<1>9. ASSUME pc \in {"fields", "finish"}
      PROVE  got' = got /\ (todo' # <<>> => cells' = cells)
  <2>1. todo' # <<>> => a.op # "cell"
    BY <1>2, <1>4 DEF Fitting
  <2>2. a.op \in {"send", "put", "cell"}
    <3>1. CASE pc = "finish"
      BY <1>2, <1>3, <3>1, OpsAre DEF Queue
    <3>2. CASE pc = "fields"
      <4>1. FieldsQueue
        BY <3>2 DEF Queue
      <4>2. CASE Locking
        BY <1>2, <1>3, <4>2, LockingNext, OpsAre
      <4>3. CASE \E p, b, o : todo \in Ends2(Put(p, "bank", b), Cell(p, o))
        <5>1. PICK p, b, o : todo \in Ends2(Put(p, "bank", b), Cell(p, o))
          BY <4>3
        <5>2. PICK x, y : x = Put(p, "bank", b) /\ y = Cell(p, o)
          OBVIOUS
        <5>3. a = x \/ a = y
          BY <1>2, <1>3, <5>1, <5>2, Next2
        <5>4. x.op = "put" /\ y.op = "cell"
          BY <5>2, OpsAre
        <5>5. QED
          BY <5>3, <5>4
      <4>4. CASE \E b : todo = <<Put("mon", "bank", b)>>
        BY <1>2, <4>4, OpsAre
      <4>5. CASE \E o : todo = <<Cell("mon", o)>>
        BY <1>2, <4>5, OpsAre
      <4>6. QED
        BY <1>3, <4>1, <4>2, <4>3, <4>4, <4>5, Zenon DEF FieldsQueue
    <3>3. QED
      BY <1>9, <3>1, <3>2
  <2>3. ~GivesUp(a, f)
    BY <2>2 DEF GivesUp
  <2>4. QED
    BY <1>2, <2>1, <2>2, <2>3
<1>10. QED
  BY <1>2, <1>8, <1>9

LEMMA TransferQueue ==
  ASSUME TypeInv, Queue, Transfer
  PROVE  Queue'
<1>1. /\ os' = os /\ pc' = pc /\ family' = family /\ base' = base /\ cache' = cache
      /\ fields' = fields /\ Here' = Here /\ NctOnWindows' = NctOnWindows
      /\ NctOnLinux' = NctOnLinux /\ todo # <<>>
  BY TransferIs
<1>2. PICK t : t = todo'
  OBVIOUS
<1>3. t = <<>> \/ t = Tail(todo)
  BY <1>2, TransferKeeps
<1>4. Here1'.kind = Here1.kind
  BY TransferKeeps
<1>5. pc \in {"fields", "finish"} /\ t # <<>> => got' = got /\ cells' = cells
  BY <1>2, TransferKeeps
<1>6. /\ IteKeyed' = IteKeyed /\ NctKeyed' = NctKeyed /\ Detected' = Detected
      /\ Found' = Found /\ \A a : FoundThen(a)' = FoundThen(a)
  BY <1>1, SameLists
<1>7. /\ todo \in IteKeyed => t \in IteKeyed
      /\ todo \in NctKeyed => t \in NctKeyed
      /\ todo \in Detected => t \in Detected
      /\ todo \in Found => t \in Found
      /\ \A a : todo \in FoundThen(a) => t \in FoundThen(a)
      /\ \A a : todo \in Ends1(a) => t \in Ends1(a)
      /\ \A a, b : todo \in Ends2(a, b) => t \in Ends2(a, b)
      /\ \A a, b, c : todo \in Ends3(a, b, c) => t \in Ends3(a, b, c)
  BY <1>1, <1>3, ShorterLists
<1>8. Locking => t = <<>> \/ Locking'
  <2>1. ASSUME Locking, t # <<>>
        PROVE  Locking'
    <3>1. t = Tail(todo)
      BY <1>3, <2>1
    <3>2. PICK w \in Byte \ {"none"} : os = "linux" => w \in {"clear", "wiped"}
      BY <2>1 DEF Locking
    <3>3. t = <<Send("AA")>>
      BY <1>1, <2>1, <3>1, LockingNext
    <3>4. QED
      BY <1>1, <1>2, <3>2, <3>3 DEF Locking
  <2>2. QED
    BY <2>1
<1>9. pc \notin {"idle", "returned"}
  BY <1>1 DEF Queue
<1>10. pc = "ite" => os = "windows" /\ family = "ite" /\ t \in IteKeyed
  BY <1>7 DEF Queue
<1>11. pc = "probe" =>
         os = "linux" /\ t \in (IF family = "ite" THEN IteKeyed ELSE NctKeyed)
  BY <1>7 DEF Queue
<1>12. pc = "detect" => os = "windows" /\ family = "nct" /\ t \in Detected
  BY <1>7 DEF Queue
<1>13. pc = "leave" =>
         os = "linux" /\ t \in (IF family = "ite" THEN Ends1(Leave) ELSE Ends1(Send("AA")))
  BY <1>7 DEF Queue
<1>14. pc = "ite find" => os = "windows" /\ family = "ite" /\ t \in FoundThen(Leave)
  BY <1>7 DEF Queue
<1>15. pc = "unlock" =>
         /\ family = "nct"
         /\ t \in (IF os = "windows" THEN Ends3(Key("87"), Key("87"), Get("cfg", "lock"))
                   ELSE IF Here1.kind = "nct" THEN FoundThen(Get("cfg", "lock"))
                   ELSE Found)
  BY <1>7 DEF Queue
<1>16. pc = "open" =>
         /\ os = "linux"
         /\ IF family = "ite" THEN t \in FoundThen(Leave) ELSE t = <<>> \/ Locking'
  BY <1>1, <1>7, <1>8 DEF Queue
<1>17. pc = "bank" => (os = "windows" => family = "ite") /\ t \in Ends1(Get("mon", "bank"))
  BY <1>7 DEF Queue
<1>18. pc = "fields" => FieldsQueue'
  <2>1. CASE t = <<>>
    BY <1>2, <2>1 DEF FieldsQueue
  <2>2. ASSUME t # <<>>, pc = "fields"
        PROVE  FieldsQueue'
    <3>1. t = Tail(todo) /\ cells' = cells
      BY <1>3, <1>5, <2>2
    <3>2. CellDue' = CellDue /\ NextReg' = NextReg
      BY <1>1, <3>1 DEF CellDue, NextReg
    <3>3. FieldsQueue
      BY <2>2 DEF Queue
    <3>4. CASE NctOnWindows /\ Locking
      BY <1>1, <1>8, <2>2, <3>4 DEF FieldsQueue
    <3>5. \A x : todo # <<x>>
      BY <2>2, <3>1, SMTT(30)
    <3>6. CASE /\ CellDue
               /\ NctOnWindows
               /\ todo \in Ends2(Put("cfg", "bank", NextReg[1]), Cell("cfg", NextReg[2]))
      BY <1>1, <1>2, <1>7, <3>2, <3>6, Zenon DEF FieldsQueue
    <3>7. CASE /\ CellDue
               /\ NctOnLinux /\ cache = NextReg[1]
               /\ todo \in Ends2(Put("mon", "bank", NextReg[1]), Cell("mon", NextReg[2]))
      BY <1>1, <1>2, <1>7, <3>2, <3>7, Zenon DEF FieldsQueue
    <3>8. QED
      BY <1>1, <3>3, <3>4, <3>5, <3>6, <3>7, Zenon DEF FieldsQueue
  <2>3. QED
    BY <2>1, <2>2
<1>19. pc = "finish" => t = <<>>
  <2>1. ASSUME pc = "finish"
        PROVE  todo = <<Put("mon", "bank", got.bank)>>
    BY <1>1, <2>1 DEF Queue
  <2>2. PICK x : x = Put("mon", "bank", got.bank)
    OBVIOUS
  <2>3. ASSUME pc = "finish"
        PROVE  t = <<>>
    <3>1. todo = <<x>>
      BY <2>1, <2>2, <2>3
    <3>2. QED
      BY <1>3, <3>1
  <2>4. QED
    BY <2>3
<1>20. /\ pc \in {"ite find", "unlock", "open", "bank", "fields"} => Here1.kind \in Speaks(family)
       /\ pc \in {"bank", "fields"} /\ ~NctOnWindows => base # "none"
       /\ pc \notin {"bank", "fields", "finish"} \/ NctOnWindows => base = "none"
  BY DEF Queue
<1>21. Speaks(family)' = Speaks(family)
  BY <1>1 DEF Speaks
<1>22. QED
  BY <1>1, <1>2, <1>4, <1>6, <1>9, <1>10, <1>11, <1>12, <1>13, <1>14, <1>15, <1>16,
     <1>17, <1>18, <1>19, <1>20, <1>21, Zenon DEF Queue

\* Where the configuration may not be written to, nothing happens.

LEMMA OwnOps ==
  /\ Key("87").op = "key" /\ Key("87").port = "cfg" /\ Key("87").reg = "87"
  /\ Key("01").op = "key" /\ Key("01").port = "cfg" /\ Key("01").reg = "01"
  /\ Key("55").op = "key" /\ Key("55").port = "cfg" /\ Key("55").reg = "55"
  /\ Key("AA").op = "key" /\ Key("AA").port = "cfg" /\ Key("AA").reg = "AA"
  /\ Send("AA").op = "send" /\ Send("AA").port = "cfg" /\ Send("AA").reg = "AA"
  /\ Get("cfg", "id0").op = "get" /\ Get("cfg", "id0").port = "cfg" /\ Get("cfg", "id0").reg = "id0"
  /\ Get("cfg", "id1").op = "get" /\ Get("cfg", "id1").port = "cfg" /\ Get("cfg", "id1").reg = "id1"
  /\ Get("cfg", "active").op = "get" /\ Get("cfg", "active").port = "cfg" /\ Get("cfg", "active").reg = "active"
  /\ Get("cfg", "base0").op = "get" /\ Get("cfg", "base0").port = "cfg" /\ Get("cfg", "base0").reg = "base0"
  /\ Get("cfg", "base1").op = "get" /\ Get("cfg", "base1").port = "cfg" /\ Get("cfg", "base1").reg = "base1"
  /\ Get("cfg", "lock").op = "get" /\ Get("cfg", "lock").port = "cfg" /\ Get("cfg", "lock").reg = "lock"
  /\ Get("mon", "bank").op = "get" /\ Get("mon", "bank").port = "mon"
  /\ Get("mon", "bank").reg = "bank"
  /\ Leave.op = "put" /\ Leave.port = "cfg" /\ Leave.reg = "ctl" /\ Leave.val = "leave"
  /\ Put("cfg", "ldn", "mon").op = "put" /\ Put("cfg", "ldn", "mon").port = "cfg"
  /\ Put("cfg", "ldn", "mon").reg = "ldn" /\ Put("cfg", "ldn", "mon").val = "mon"
BY DEF Key, Send, Get, Put, Leave, Access

LEMMA OutsideHead ==
  ASSUME Queue, Outside, Here = "162", todo # <<>>
  PROVE  pc \in {"ite", "detect"} /\ Head(todo).port = "cfg"
<1>1. pc \in {"ite", "detect"}
  BY DEF Queue, Outside
<1>2. PICK k : k = Key(IF Here = "4E" THEN "AA" ELSE "55")
  OBVIOUS
<1>3. k.port = "cfg"
  BY <1>2, OpsAre
<1>4. CASE pc = "ite"
  <2>1. todo \in Ends6(Key("87"), Key("01"), Key("55"), k, Get("cfg", "id0"), Get("cfg", "id1"))
    BY <1>2, <1>4 DEF IteKeyed, Queue
  <2>2. Head(todo) \in {Key("87"), Key("01"), Key("55"), k, Get("cfg", "id0"),
                        Get("cfg", "id1")}
    BY <2>1, Next6
  <2>3. QED
    BY <1>3, <1>4, <2>2, OwnOps
<1>5. CASE pc = "detect"
  <2>1. todo \in Detected
    BY <1>5 DEF Queue
  <2>2. Head(todo) \in {Leave, Key("87"), Get("cfg", "id0"), Get("cfg", "id1"), Send("AA")}
    BY <2>1, Next6 DEF Detected
  <2>3. QED
    BY <1>5, <2>2, OwnOps
<1>6. QED
  BY <1>1, <1>4, <1>5

LEMMA TransferOutside ==
  ASSUME TypeInv, Queue, Outside, Transfer
  PROVE  Outside' /\ (Here = "162" => chip' = chip)
<1>1. PICK a, f, v : Moves(a, f, v)
  BY TransferIs
<1>2. /\ a = Head(todo) /\ f \in Outcome(a) /\ v = ValueRead(a, f)
      /\ chip' = [chip EXCEPT ![Here] = AfterData(a, f)]
      /\ got' = IF a.op = "get" THEN [got EXCEPT ![a.reg] = Stored(a, v)]
                ELSE IF GivesUp(a, f) THEN [got EXCEPT !["key"] = "cut"]
                ELSE got
  BY <1>1, Zenon DEF Moves
<1>3. todo # <<>> /\ Here' = Here /\ pc' = pc /\ os' = os /\ was' = was
  BY TransferIs
<1>4. chip \in [Pair -> ChipType] /\ got \in [Slot -> Byte] /\ Here \in Pair
  BY HereIs DEF TypeInv, BoardTyped, CallTyped
<1>5. CASE Here = "162"
  <2>1. a.port = "cfg"
    BY <1>2, <1>3, <1>5, OutsideHead
  <2>2. f = "both"
    BY <1>2, <1>5, <2>1, Zenon DEF Outcome, Barred
  <2>3. AfterData(a, f) = chip[Here] /\ v = Missing
    BY <1>2, <2>2, Zenon DEF AfterData, AfterIndex, ValueRead
  <2>4. chip' = chip
    BY <1>2, <1>4, <2>3
  <2>5. Stored(a, v) = "none"
    BY <2>3 DEF Stored, Missing
  <2>6. got'.id0 = "none"
    <3>1. got.id0 = "none"
      BY <1>5 DEF Outside
    <3>2. "id0" \in Slot
      BY DEF Slot
    <3>3. QED
      BY <1>2, <1>4, <2>5, <3>1, <3>2
  <2>7. QED
    BY <1>3, <1>5, <2>4, <2>6 DEF Outside, Quiet
<1>6. CASE Here # "162"
  <2>1. chip'["162"] = chip["162"]
    BY <1>2, <1>4, <1>6 DEF Pair
  <2>2. QED
    BY <1>3, <1>6, <2>1 DEF Outside, Quiet
<1>7. QED
  BY <1>5, <1>6

-----------------------------------------------------------------------------
(* Steps that decide how to go on. *)

Base == TypeInv /\ Queue /\ Outside /\ BankKnown

LEMMA NothingIs ==
  /\ Nothing \in [Slot -> Byte] /\ \A s \in Slot : Nothing[s] = "none"
  /\ {"key", "id0", "id1", "active", "base0", "base1", "lock", "bank"} \subseteq Slot
  /\ Nothing.id0 = "none" /\ Nothing.bank = "none" /\ Nothing.lock = "none"
  /\ Nothing.active = "none" /\ Nothing.base0 = "none" /\ Nothing.base1 = "none"
<1>1. "none" \in Byte
  BY Bytes
<1>2. Nothing \in [Slot -> Byte] /\ \A s \in Slot : Nothing[s] = "none"
  BY <1>1 DEF Nothing
<1>3. {"key", "id0", "id1", "active", "base0", "base1", "lock", "bank"} \subseteq Slot
  BY DEF Slot
<1>4. QED
  BY <1>2, <1>3

\* The chips stay as they are.
LEMMA DeviceSame ==
  ASSUME BoardTyped, device' = device
  PROVE  /\ os' = os /\ chip' = chip /\ was' = was /\ cut' = cut /\ lost' = lost
         /\ stray' = stray
         /\ faults' \in 0 .. MaxFaults => BoardTyped'
         /\ PortPairs' = PortPairs
<1>1. /\ os' = os /\ chip' = chip /\ was' = was /\ cut' = cut /\ lost' = lost
      /\ stray' = stray
  BY DEF device
<1>2. PortPairs' = PortPairs
  BY <1>1 DEF PortPairs
<1>3. \A p \in Pair : ChipOk(chip[p], p)'
  BY <1>1 DEF BoardTyped, ChipOk, Quiet
<1>4. faults' \in 0 .. MaxFaults => BoardTyped'
  BY <1>1, <1>3 DEF BoardTyped
<1>5. QED
  BY <1>1, <1>2, <1>4

\* Outside the procedures that read fields there are none.
LEMMA FieldsOnly ==
  ASSUME FieldsTyped, Queue, pc # "fields"
  PROVE  fields = <<>> /\ cells = <<>>
BY DEF FieldsTyped

LEMMA ReturnBase ==
  ASSUME Base, NEW r \in Seq(Result), Return(r)
  PROVE  Base'
<1>1. BoardTyped /\ CallTyped /\ FieldsTyped
  BY DEF Base, TypeInv
<1>2. /\ pc' = "returned" /\ todo' = <<>> /\ got' = Nothing /\ base' = "none"
      /\ fields' = <<>> /\ cells' = <<>> /\ cache' = "none"
      /\ device' = device /\ faults' = faults /\ what' = what /\ family' = family
      /\ at' = at /\ tried' = tried
  BY DEF Return
<1>3. BoardTyped' /\ os' = os /\ PortPairs' = PortPairs /\ chip' = chip /\ was' = was
  BY <1>1, <1>2, DeviceSame DEF BoardTyped
<1>4. Here' = Here
  BY <1>2, <1>3 DEF Here
<1>5. CallTyped'
  BY <1>1, <1>2, <1>3, NothingIs, Bytes DEF CallTyped, Procedure
<1>6. res' \in Seq(Result)
  <2>1. Blank \in Result
    BY DEF Blank, Result
  <2>2. \A i \in 1 .. Len(r) : r[i] \in Result
    OBVIOUS
  <2>3. Len(r) \in Nat
    OBVIOUS
  <2>4. res' = [i \in 1 .. Len(r) |-> IF r[i].kind = what THEN r[i] ELSE Blank]
    BY DEF Return
  <2>5. \A i \in 1 .. Len(r) : (IF r[i].kind = what THEN r[i] ELSE Blank) \in Result
    BY <2>1, <2>2
  <2>6. QED
    BY <2>3, <2>4, <2>5
<1>7. FieldsTyped'
  <2>1. <<>> \in Seq(Field) /\ <<>> \in Seq(Value) /\ Len(<<>>) = 0
    OBVIOUS
  <2>2. QED
    BY <1>2, <1>6, <2>1 DEF FieldsTyped
<1>8. Queue'
  BY <1>2 DEF Queue
<1>9. Outside'
  BY <1>2, <1>3, <1>4, NothingIs DEF Outside, Quiet, Base
<1>10. QED
  BY <1>2, <1>3, <1>5, <1>7, <1>8, <1>9 DEF Base, TypeInv, BankKnown

\* After a step of a reader that has found no fields yet.
LEMMA SteppedTyped ==
  ASSUME TypeInv, Queue, pc # "fields", device' = device, faults' = faults, what' = what,
         reading' = reading, res' = res, res = <<>> \/ pc' \in {"finish", "returned"},
         pc' \in Procedure, family' \in {"ite", "nct"}, at' \in 1 .. Len(PortPairs),
         got' \in [Slot -> Byte], base' \in {"none", "mon", "far", "wrong"},
         tried' \subseteq Pair \X {"ite", "nct"}
  PROVE  /\ TypeInv' /\ os' = os /\ chip' = chip /\ was' = was /\ PortPairs' = PortPairs
         /\ fields' = <<>> /\ cells' = <<>> /\ cache' = cache
<1>1. BoardTyped /\ CallTyped /\ FieldsTyped
  BY DEF TypeInv
<1>2. fields = <<>> /\ cells = <<>>
  BY <1>1, FieldsOnly
<1>3. fields' = fields /\ cells' = cells /\ cache' = cache
  BY DEF reading
<1>4. BoardTyped' /\ os' = os /\ chip' = chip /\ was' = was /\ PortPairs' = PortPairs
  BY <1>1, DeviceSame DEF BoardTyped
<1>5. CallTyped'
  BY <1>1, <1>3, <1>4 DEF CallTyped
<1>6. FieldsTyped'
  BY <1>1, <1>2, <1>3 DEF FieldsTyped
<1>7. QED
  BY <1>2, <1>3, <1>4, <1>5, <1>6 DEF TypeInv

\* At the pair that may not be written to, no chip is found.
LEMMA FoundInside ==
  ASSUME Outside, NEW K, IsKind(K)
  PROVE  Here # "162" /\ Here1.kind \in K
BY DEF Outside, IsKind, Here1

LEMMA WinProbedBase ==
  ASSUME Base, WinProbed
  PROVE  Base'
<1>1. TypeInv /\ Queue /\ Outside /\ CallTyped /\ FieldsTyped
  BY DEF Base, TypeInv
<1>2. os = "windows" /\ pc = "ite" /\ todo = <<>> /\ family = "ite" /\ base = "none" /\ res = <<>>
  BY <1>1 DEF WinProbed, Done, Queue, FieldsTyped
<1>3. /\ device' = device /\ faults' = faults /\ what' = what /\ base' = base
      /\ reading' = reading /\ res' = res
  BY DEF WinProbed
<1>4. at \in 1 .. Len(PortPairs) /\ Here \in Pair /\ tried \subseteq Pair \X {"ite", "nct"}
  BY <1>1, <1>2, HereIs DEF CallTyped
<1>5. CASE IsKind(Speaks("ite"))
  <2>1. /\ pc' = "ite find" /\ todo' = IteFind /\ got' = Nothing
        /\ family' = family /\ at' = at /\ tried' = tried
    BY <1>5 DEF WinProbed, Begin
  <2>2. Here # "162" /\ Here1.kind \in Speaks("ite")
    BY <1>1, <1>5, FoundInside
  <2>3. /\ TypeInv' /\ os' = os /\ chip' = chip /\ was' = was
        /\ fields' = <<>> /\ cache' = cache
    BY <1>1, <1>2, <1>3, <1>4, <2>1, NothingIs, SteppedTyped DEF Procedure
  <2>4. Here' = Here /\ Here1' = Here1
    BY <2>1, <2>3, HereSame DEF Here1
  <2>5. todo' \in FoundThen(Leave)
    BY <2>1, IteFindIs, Starts DEF FoundThen
  <2>6. Queue'
    BY <1>2, <1>3, <2>1, <2>2, <2>3, <2>4, <2>5 DEF Queue, Speaks
  <2>7. Outside'
    BY <1>1, <2>2, <2>3, <2>4 DEF Outside, Quiet
  <2>8. QED
    BY <2>1, <2>3, <2>6, <2>7 DEF Base, BankKnown
<1>6. CASE ~IsKind(Speaks("ite"))
  <2>1. /\ pc' = "detect" /\ got' = Nothing
        /\ todo' = (IF got.key = "cut" THEN <<>> ELSE IteExit) \o Detect
        /\ family' = "nct" /\ at' = at /\ tried' = tried \cup {<<Here, "nct">>}
    BY <1>6 DEF WinProbed, Begin, Try, Here
  <2>2. tried' \subseteq Pair \X {"ite", "nct"}
    BY <1>4, <2>1
  <2>3. /\ TypeInv' /\ os' = os /\ chip' = chip /\ was' = was
        /\ fields' = <<>> /\ cache' = cache
    BY <1>1, <1>2, <1>3, <1>4, <2>1, <2>2, NothingIs, SteppedTyped DEF Procedure
  <2>4. Here' = Here
    BY <2>1, <2>3, HereSame
  <2>5. todo' \in Detected /\ Detected' = Detected
    <3>1. todo' = <<>> \o Detect \/ todo' = IteExit \o Detect
      BY <2>1
    <3>2. Detected' = Detected
      BY <2>4, SameLists
    <3>3. <<>> \o Detect \in Detected /\ IteExit \o Detect \in Detected
      BY DetectIs, Starts DEF Detected
    <3>4. QED
      BY <3>1, <3>2, <3>3
  <2>6. Queue'
    BY <1>2, <1>3, <2>1, <2>3, <2>5 DEF Queue
  <2>7. Outside'
    BY <1>1, <1>2, <2>1, <2>3, <2>4, NothingIs DEF Outside, Quiet
  <2>8. QED
    BY <2>1, <2>3, <2>6, <2>7 DEF Base, BankKnown
<1>7. QED
  BY <1>5, <1>6

LEMMA WinIteFoundBase ==
  ASSUME Base, WinIteFound
  PROVE  Base'
<1>1. TypeInv /\ Queue /\ Outside /\ CallTyped /\ FieldsTyped
  BY DEF Base, TypeInv
<1>2. /\ os = "windows" /\ pc = "ite find" /\ todo = <<>> /\ family = "ite" /\ res = <<>>
      /\ Here1.kind \in Speaks("ite")
  BY <1>1 DEF WinIteFound, Done, Queue, FieldsTyped
<1>3. CASE Return(<<>>)
  <2>1. <<>> \in Seq(Result)
    OBVIOUS
  <2>2. QED
    BY <1>3, <2>1, ReturnBase
<1>4. CASE /\ WinBase # "none" /\ base' = WinBase /\ Begin("bank", <<Get("mon", "bank")>>)
           /\ UNCHANGED <<device, faults, what, family, at, reading, res, tried>>
  <2>1. /\ pc' = "bank" /\ todo' = <<Get("mon", "bank")>> /\ got' = Nothing
        /\ family' = family /\ at' = at /\ tried' = tried /\ base' = WinBase
        /\ device' = device /\ faults' = faults /\ what' = what /\ reading' = reading
        /\ res' = res
    BY <1>4 DEF Begin
  <2>2. base' \in {"none", "mon", "far", "wrong"} /\ base' # "none"
    BY <1>4, <2>1 DEF WinBase
  <2>3. at \in 1 .. Len(PortPairs) /\ tried \subseteq Pair \X {"ite", "nct"}
    BY <1>1 DEF CallTyped
  <2>4. /\ TypeInv' /\ os' = os /\ chip' = chip /\ was' = was
        /\ fields' = <<>> /\ cache' = cache
    BY <1>1, <1>2, <2>1, <2>2, <2>3, NothingIs, SteppedTyped DEF Procedure
  <2>5. Here' = Here /\ Here1' = Here1
    BY <2>1, <2>4, HereSame DEF Here1
  <2>6. todo' \in Ends1(Get("mon", "bank"))
    BY <2>1 DEF Ends1
  <2>7. ~NctOnWindows'
    BY <1>2, <2>1 DEF NctOnWindows
  <2>8. Queue'
    BY <1>2, <2>1, <2>2, <2>4, <2>5, <2>6, <2>7 DEF Queue, Speaks
  <2>9. Outside'
    BY <1>1, <1>2, <2>4, <2>5 DEF Outside, Quiet
  <2>10. QED
    BY <2>1, <2>4, <2>8, <2>9 DEF Base, BankKnown
<1>5. QED
  BY <1>3, <1>4 DEF WinIteFound

LEMMA NextPair ==
  ASSUME os \in {"windows", "linux"}, at \in 1 .. Len(PortPairs), at < Len(PortPairs),
         at' = at + 1, PortPairs' = PortPairs
  PROVE  /\ at' \in 1 .. Len(PortPairs) /\ Here' = PortPairs[at + 1] /\ Here' \in Pair
         /\ Here' # Here /\ (os = "linux" => Here' # "162")
<1>1. CASE os = "windows"
  BY <1>1 DEF Here, PortPairs, Pair
<1>2. CASE os = "linux"
  BY <1>2 DEF Here, PortPairs, Pair
<1>3. QED
  BY <1>1, <1>2

LEMMA WinDetectedBase ==
  ASSUME Base, WinDetected
  PROVE  Base'
<1>1. TypeInv /\ Queue /\ Outside /\ CallTyped /\ FieldsTyped
  BY DEF Base, TypeInv
<1>2. /\ os = "windows" /\ pc = "detect" /\ todo = <<>> /\ family = "nct" /\ res = <<>>
      /\ base = "none"
  BY <1>1 DEF WinDetected, Done, Queue, FieldsTyped
<1>3. at \in 1 .. Len(PortPairs) /\ tried \subseteq Pair \X {"ite", "nct"}
  BY <1>1 DEF CallTyped
<1>4. CASE Return(<<>>)
  <2>1. <<>> \in Seq(Result)
    OBVIOUS
  <2>2. QED
    BY <1>4, <2>1, ReturnBase
<1>5. CASE /\ IsKind(Speaks("nct")) /\ Begin("unlock", Unlock)
           /\ UNCHANGED <<device, faults, what, family, at, base, reading, res, tried>>
  <2>1. /\ pc' = "unlock" /\ todo' = Unlock /\ got' = Nothing
        /\ family' = family /\ at' = at /\ tried' = tried /\ base' = base
        /\ device' = device /\ faults' = faults /\ what' = what /\ reading' = reading
        /\ res' = res
    BY <1>5 DEF Begin
  <2>2. Here # "162" /\ Here1.kind \in Speaks("nct")
    BY <1>1, <1>5, FoundInside
  <2>3. /\ TypeInv' /\ os' = os /\ chip' = chip /\ was' = was
        /\ fields' = <<>> /\ cache' = cache
    BY <1>1, <1>2, <1>3, <2>1, NothingIs, SteppedTyped DEF Procedure
  <2>4. Here' = Here /\ Here1' = Here1
    BY <2>1, <2>3, HereSame DEF Here1
  <2>5. todo' \in Ends3(Key("87"), Key("87"), Get("cfg", "lock"))
    BY <2>1, UnlockIs, Starts
  <2>6. Queue'
    BY <1>2, <2>1, <2>2, <2>3, <2>4, <2>5 DEF Queue, Speaks
  <2>7. Outside'
    BY <1>1, <2>2, <2>3, <2>4 DEF Outside, Quiet
  <2>8. QED
    BY <2>1, <2>3, <2>6, <2>7 DEF Base, BankKnown
<1>6. CASE /\ at < Len(PortPairs) /\ Try("ite", at + 1)
           /\ Begin("ite", IteProbe(PortPairs[at + 1]))
           /\ UNCHANGED <<device, faults, what, base, reading, res>>
  <2>1. /\ pc' = "ite" /\ todo' = IteProbe(PortPairs[at + 1]) /\ got' = Nothing
        /\ family' = "ite" /\ at' = at + 1
        /\ tried' = tried \cup {<<PortPairs[at + 1], "ite">>} /\ base' = base
        /\ device' = device /\ faults' = faults /\ what' = what /\ reading' = reading
        /\ res' = res
    BY <1>6 DEF Begin, Try
  <2>2. PortPairs' = PortPairs
    BY <1>1, <2>1, DeviceSame DEF TypeInv
  <2>3. /\ at' \in 1 .. Len(PortPairs) /\ Here' = PortPairs[at + 1] /\ Here' \in Pair
    BY <1>2, <1>3, <1>6, <2>1, <2>2, NextPair
  <2>4. tried' \subseteq Pair \X {"ite", "nct"}
    BY <1>3, <2>1, <2>3
  <2>5. /\ TypeInv' /\ os' = os /\ chip' = chip /\ was' = was
        /\ fields' = <<>> /\ cache' = cache
    BY <1>1, <1>2, <2>1, <2>3, <2>4, NothingIs, SteppedTyped DEF Procedure
  <2>6. todo' \in IteKeyed'
    <3>1. PICK h : h = Here'
      OBVIOUS
    <3>2. todo' = <<Key("87"), Key("01"), Key("55"), Key(IF h = "4E" THEN "AA" ELSE "55"),
                    Get("cfg", "id0"), Get("cfg", "id1")>>
      BY <2>1, <2>3, <3>1, IteProbeIs
    <3>3. todo' \in Ends6(Key("87"), Key("01"), Key("55"),
                          Key(IF h = "4E" THEN "AA" ELSE "55"),
                          Get("cfg", "id0"), Get("cfg", "id1"))
      BY <3>2, Starts
    <3>4. QED
      BY <3>1, <3>3 DEF IteKeyed
  <2>7. Queue'
    BY <1>2, <2>1, <2>5, <2>6 DEF Queue
  <2>8. Outside'
    BY <1>1, <1>2, <2>1, <2>5, NothingIs DEF Outside, Quiet
  <2>9. QED
    BY <2>1, <2>5, <2>7, <2>8 DEF Base, BankKnown
<1>7. QED
  BY <1>4, <1>5, <1>6 DEF WinDetected

LEMMA WinUnlockedBase ==
  ASSUME Base, WinUnlocked
  PROVE  Base'
<1>1. TypeInv /\ Queue /\ Outside /\ CallTyped /\ FieldsTyped /\ BoardTyped
  BY DEF Base, TypeInv
<1>2. /\ os = "windows" /\ pc = "unlock" /\ todo = <<>> /\ family = "nct" /\ res = <<>>
      /\ base = "none" /\ Here1.kind \in Speaks("nct") /\ Here # "162"
  BY <1>1 DEF WinUnlocked, Done, Queue, FieldsTyped, Outside
<1>3. /\ pc' = "fields" /\ got' = Nothing /\ device' = device /\ faults' = faults
      /\ what' = what /\ family' = family /\ at' = at /\ base' = base /\ cells' = cells
      /\ cache' = cache /\ res' = res /\ tried' = tried
      /\ todo' = IF got.key = "cut" THEN <<>>
                 ELSE <<Put("cfg", "lock", LockCleared)>> \o NctExit
      /\ fields' = IF chip[Here].kind = "nct" THEN WinFields[what] ELSE <<>>
  BY DEF WinUnlocked
<1>4. BoardTyped' /\ os' = os /\ PortPairs' = PortPairs /\ chip' = chip /\ was' = was
  BY <1>1, <1>3, DeviceSame DEF BoardTyped
<1>5. Here' = Here /\ Here1' = Here1
  BY <1>3, <1>4, HereSame DEF Here1
<1>6. CallTyped'
  BY <1>1, <1>3, <1>4, NothingIs DEF CallTyped, Procedure
<1>7. FieldsTyped'
  <2>1. fields = <<>> /\ cells = <<>> /\ what \in Wants
    BY <1>1, <1>2, FieldsOnly DEF CallTyped
  <2>2. WinFields[what] \in Seq(Field)
    BY <2>1, FieldsAssumption
  <2>3. fields' \in Seq(Field)
    BY <1>3, <2>2
  <2>4. cells' = <<>> /\ Len(<<>>) = 0
    BY <1>3, <2>1
  <2>5. ASSUME fields' # <<>>
        PROVE  0 <= Len(Head(fields').regs)
    <3>1. Head(fields') \in Field
      BY <2>3, <2>5
    <3>2. PICK h : h = Head(fields')
      OBVIOUS
    <3>3. h.regs \in Seq(Register)
      BY <3>1, <3>2 DEF Field, Register
    <3>4. QED
      BY <3>2, <3>3
  <2>6. QED
    BY <1>1, <1>2, <1>3, <2>3, <2>4, <2>5 DEF FieldsTyped
<1>8. NctOnWindows'
  BY <1>2, <1>3, <1>4 DEF NctOnWindows
<1>9. todo' = <<>> \/ Locking'
  <2>1. PICK v : v = LockCleared
    OBVIOUS
  <2>2. v \in Byte \ {"none"}
    <3>1. got.lock \in Byte
      BY <1>1 DEF CallTyped, Slot
    <3>2. QED
      BY <2>1, <3>1, Bytes DEF LockCleared
  <2>3. <<Put("cfg", "lock", v)>> \o NctExit = <<Put("cfg", "lock", v), Send("AA")>>
    BY <2>2, LockIs
  <2>4. todo' = <<>> \/ todo' = <<Put("cfg", "lock", v), Send("AA")>>
    BY <1>3, <2>1, <2>3
  <2>5. QED
    BY <1>2, <1>4, <2>2, <2>4 DEF Locking
<1>10. FieldsQueue'
  BY <1>8, <1>9 DEF FieldsQueue
<1>11. Queue'
  BY <1>2, <1>3, <1>5, <1>8, <1>10 DEF Queue, Speaks
<1>12. Outside'
  BY <1>1, <1>2, <1>4, <1>5 DEF Outside, Quiet
<1>13. QED
  BY <1>2, <1>3, <1>4, <1>6, <1>7, <1>11, <1>12 DEF Base, BankKnown, TypeInv

LEMMA WinFinishBase ==
  ASSUME Base, WinFinish
  PROVE  Base'
<1>1. Return(res) /\ res \in Seq(Result)
  BY DEF WinFinish, Base, TypeInv, FieldsTyped
<1>2. QED
  BY <1>1, ReturnBase

LEMMA LinuxProbedBase ==
  ASSUME Base, LinuxProbed
  PROVE  Base'
<1>1. TypeInv /\ Queue /\ Outside /\ CallTyped /\ FieldsTyped
  BY DEF Base, TypeInv
<1>2. /\ os = "linux" /\ pc = "probe" /\ todo = <<>> /\ res = <<>> /\ base = "none"
      /\ family \in {"ite", "nct"} /\ Here # "162"
  BY <1>1 DEF LinuxProbed, Done, Queue, FieldsTyped, CallTyped, Outside
<1>3. /\ device' = device /\ faults' = faults /\ what' = what /\ base' = base
      /\ reading' = reading /\ res' = res /\ family' = family /\ at' = at
      /\ tried' = tried
  BY DEF LinuxProbed
<1>4. at \in 1 .. Len(PortPairs) /\ tried \subseteq Pair \X {"ite", "nct"}
  BY <1>1 DEF CallTyped
<1>5. \/ IsKind(Speaks(family)) /\ family = "ite" /\ Begin("open", LinuxFind \o IteExit)
      \/ IsKind(Speaks(family)) /\ family = "nct" /\ chip[Here].kind = "nct"
           /\ Begin("unlock", LinuxFind \o <<Get("cfg", "lock")>>)
      \/ IsKind(Speaks(family)) /\ family = "nct" /\ chip[Here].kind # "nct"
           /\ Begin("unlock", LinuxFind)
      \/ family = "ite" /\ Begin("leave", IteExit)
      \/ family = "nct" /\ Begin("leave", NctExit)
  <2>1. CASE family = "ite"
    <3>1. CASE IsKind(Speaks(family))
      <4>1. chip[Here].kind # "nct"
        BY <2>1, <3>1 DEF IsKind, Speaks
      <4>2. Begin("open", LinuxFind \o IteExit)
        BY <2>1, <3>1, <4>1, Zenon DEF LinuxProbed
      <4>3. QED
        BY <2>1, <3>1, <4>2
    <3>2. CASE ~IsKind(Speaks(family))
      BY <2>1, <3>2, Zenon DEF LinuxProbed
    <3>3. QED
      BY <3>1, <3>2
  <2>2. CASE family = "nct"
    BY <2>2 DEF LinuxProbed
  <2>3. QED
    BY <1>2, <2>1, <2>2
<1>6. pc' \in {"open", "unlock", "leave"} /\ got' = Nothing
  BY <1>5 DEF Begin
<1>7. /\ TypeInv' /\ os' = os /\ chip' = chip /\ was' = was /\ fields' = <<>> /\ cache' = cache
  BY <1>1, <1>2, <1>3, <1>4, <1>6, NothingIs, SteppedTyped DEF Procedure
<1>8. Here' = Here /\ Here1' = Here1
  BY <1>3, <1>7, HereSame DEF Here1
<1>9. Outside'
  BY <1>1, <1>2, <1>7, <1>8 DEF Outside, Quiet
<1>10. Queue'
  <2>1. CASE IsKind(Speaks(family)) /\ family = "ite" /\ Begin("open", LinuxFind \o IteExit)
    <3>1. todo' \in FoundThen(Leave) /\ pc' = "open"
      BY <2>1, IteFindIs, Starts DEF FoundThen, Begin
    <3>2. Here1.kind \in Speaks(family)
      BY <1>1, <2>1, FoundInside
    <3>3. QED
      BY <1>2, <1>3, <1>7, <1>8, <2>1, <3>1, <3>2 DEF Queue, Speaks
  <2>2. CASE /\ IsKind(Speaks(family)) /\ family = "nct" /\ chip[Here].kind = "nct"
             /\ Begin("unlock", LinuxFind \o <<Get("cfg", "lock")>>)
    <3>1. Get("cfg", "lock") \in Request
      BY OwnRequests
    <3>2. todo' \in FoundThen(Get("cfg", "lock")) /\ pc' = "unlock"
      BY <2>2, <3>1, FindIs, Starts DEF FoundThen, Begin
    <3>3. Here1.kind \in Speaks(family)
      BY <1>1, <2>2, FoundInside
    <3>4. QED
      BY <1>2, <1>3, <1>7, <1>8, <2>2, <3>2, <3>3 DEF Queue, Speaks, Here1
  <2>3. CASE /\ IsKind(Speaks(family)) /\ family = "nct" /\ chip[Here].kind # "nct"
             /\ Begin("unlock", LinuxFind)
    <3>1. todo' = LinuxFind /\ pc' = "unlock"
      BY <2>3 DEF Begin
    <3>2. todo' \in Found
      BY <3>1, Starts DEF Found, LinuxFind
    <3>3. Here1.kind \in Speaks(family)
      BY <1>1, <2>3, FoundInside
    <3>4. QED
      BY <1>2, <1>3, <1>7, <1>8, <2>3, <3>1, <3>2, <3>3 DEF Queue, Speaks, Here1
  <2>4. CASE family = "ite" /\ Begin("leave", IteExit)
    <3>1. todo' \in Ends1(Leave) /\ pc' = "leave"
      BY <2>4, IteFindIs, Starts DEF Begin
    <3>2. QED
      BY <1>2, <1>3, <1>7, <1>8, <2>4, <3>1 DEF Queue
  <2>5. CASE family = "nct" /\ Begin("leave", NctExit)
    <3>1. todo' \in Ends1(Send("AA")) /\ pc' = "leave"
      BY <2>5, IteFindIs, Starts DEF Begin
    <3>2. QED
      BY <1>2, <1>3, <1>7, <1>8, <2>5, <3>1 DEF Queue
  <2>6. QED
    BY <1>5, <2>1, <2>2, <2>3, <2>4, <2>5
<1>11. QED
  BY <1>6, <1>7, <1>9, <1>10 DEF Base, BankKnown

\* The accesses of a Linux probe.
LEMMA ProbeStarts ==
  ASSUME NEW f \in {"ite", "nct"}, NEW p \in Pair, Here' = p
  PROVE  Probe(f, p) \in (IF f = "ite" THEN IteKeyed' ELSE NctKeyed')
<1>1. CASE f = "ite"
  <2>1. Probe(f, p) = <<Key("87"), Key("01"), Key("55"), Key(IF p = "4E" THEN "AA" ELSE "55"),
                        Get("cfg", "id0"), Get("cfg", "id1")>>
    BY <1>1, IteProbeIs
  <2>2. Probe(f, p) \in Ends6(Key("87"), Key("01"), Key("55"),
                              Key(IF p = "4E" THEN "AA" ELSE "55"),
                              Get("cfg", "id0"), Get("cfg", "id1"))
    BY <2>1, Starts
  <2>3. QED
    BY <1>1, <2>2 DEF IteKeyed
<1>2. CASE f = "nct"
  <2>1. Probe(f, p) = <<Key("87"), Key("87"), Get("cfg", "id0"), Get("cfg", "id1")>>
    BY <1>2, NctProbeIs
  <2>2. QED
    BY <1>2, <2>1, Starts DEF NctKeyed
<1>3. QED
  BY <1>1, <1>2

LEMMA LinuxLeftBase ==
  ASSUME Base, LinuxLeft
  PROVE  Base'
<1>1. TypeInv /\ Queue /\ Outside /\ CallTyped /\ FieldsTyped
  BY DEF Base, TypeInv
<1>2. /\ os = "linux" /\ pc = "leave" /\ todo = <<>> /\ res = <<>> /\ base = "none"
      /\ family \in {"ite", "nct"} /\ Here # "162"
  BY <1>1 DEF LinuxLeft, Done, Queue, FieldsTyped, CallTyped, Outside
<1>3. /\ device' = device /\ faults' = faults /\ what' = what /\ base' = base
      /\ reading' = reading /\ res' = res
  BY DEF LinuxLeft
<1>4. at \in 1 .. Len(PortPairs) /\ tried \subseteq Pair \X {"ite", "nct"}
  BY <1>1 DEF CallTyped
<1>5. CASE at < Len(PortPairs)
  <2>1. /\ pc' = "probe" /\ todo' = Probe(family, PortPairs[at + 1]) /\ got' = Nothing
        /\ family' = family /\ at' = at + 1
        /\ tried' = tried \cup {<<PortPairs[at + 1], family>>}
    BY <1>5 DEF LinuxLeft, Begin, Try
  <2>2. PortPairs' = PortPairs
    BY <1>1, <1>3, DeviceSame DEF TypeInv
  <2>3. /\ at' \in 1 .. Len(PortPairs) /\ Here' = PortPairs[at + 1] /\ Here' \in Pair
        /\ Here' # "162"
    BY <1>2, <1>4, <1>5, <2>1, <2>2, NextPair
  <2>4. tried' \subseteq Pair \X {"ite", "nct"}
    BY <1>2, <1>4, <2>1, <2>3
  <2>5. /\ TypeInv' /\ os' = os /\ chip' = chip /\ was' = was
        /\ fields' = <<>> /\ cache' = cache
    BY <1>1, <1>2, <1>3, <2>1, <2>3, <2>4, NothingIs, SteppedTyped DEF Procedure
  <2>6. todo' \in (IF family = "ite" THEN IteKeyed' ELSE NctKeyed')
    BY <1>2, <2>1, <2>3, ProbeStarts
  <2>7. Queue'
    BY <1>2, <1>3, <2>1, <2>5, <2>6 DEF Queue
  <2>8. Outside'
    BY <1>1, <1>2, <2>1, <2>3, <2>5, NothingIs DEF Outside, Quiet
  <2>9. QED
    BY <2>1, <2>5, <2>7, <2>8 DEF Base, BankKnown
<1>6. CASE ~(at < Len(PortPairs))
  <2>1. /\ pc' = "finish" /\ todo' = <<>> /\ got' = Nothing
        /\ family' = family /\ at' = at /\ tried' = tried
    BY <1>6 DEF LinuxLeft, Begin
  <2>2. /\ TypeInv' /\ os' = os /\ chip' = chip /\ was' = was
        /\ fields' = <<>> /\ cache' = cache
    BY <1>1, <1>2, <1>3, <1>4, <2>1, NothingIs, SteppedTyped DEF Procedure
  <2>3. Here' = Here
    BY <2>1, <2>2, HereSame
  <2>4. Queue'
    BY <1>2, <1>3, <2>1, <2>2 DEF Queue
  <2>5. Outside'
    BY <1>1, <1>2, <2>1, <2>2, <2>3 DEF Outside, Quiet
  <2>6. QED
    BY <2>1, <2>2, <2>4, <2>5 DEF Base, BankKnown
<1>7. QED
  BY <1>5, <1>6

LEMMA LinuxUnlockedBase ==
  ASSUME Base, LinuxUnlocked
  PROVE  Base'
<1>1. TypeInv /\ Queue /\ Outside /\ CallTyped /\ FieldsTyped
  BY DEF Base, TypeInv
<1>2. /\ os = "linux" /\ pc = "unlock" /\ todo = <<>> /\ res = <<>> /\ base = "none"
      /\ family = "nct" /\ Here1.kind \in Speaks(family) /\ Here # "162"
  BY <1>1 DEF LinuxUnlocked, Done, Queue, FieldsTyped, Outside
<1>3. /\ device' = device /\ faults' = faults /\ what' = what /\ base' = base
      /\ reading' = reading /\ res' = res /\ family' = family /\ at' = at
      /\ tried' = tried /\ got' = got /\ pc' = "open"
  BY DEF LinuxUnlocked
<1>4. /\ at \in 1 .. Len(PortPairs) /\ tried \subseteq Pair \X {"ite", "nct"}
      /\ got \in [Slot -> Byte]
  BY <1>1 DEF CallTyped
<1>5. /\ TypeInv' /\ os' = os /\ chip' = chip /\ was' = was /\ fields' = <<>> /\ cache' = cache
  BY <1>1, <1>2, <1>3, <1>4, SteppedTyped DEF Procedure
<1>6. Here' = Here /\ Here1' = Here1
  BY <1>3, <1>5, HereSame DEF Here1
<1>7. PICK ops \in LinuxUnlock : todo' = ops \o NctExit
  BY DEF LinuxUnlocked
<1>8. "clear" \in Byte /\ "wiped" \in Byte
  BY Bytes
<1>9. \/ ops = <<>> \/ ops = <<Put("cfg", "lock", "clear")>>
      \/ ops = <<Put("cfg", "lock", "wiped")>>
  <2>1. \/ LinuxUnlock = {<<Put("cfg", "lock", "clear")>>} \/ LinuxUnlock = {<<>>}
        \/ LinuxUnlock = {<<>>, <<Put("cfg", "lock", "wiped")>>}
    BY Zenon DEF LinuxUnlock
  <2>2. QED
    BY <1>7, <2>1, Zenon
<1>10. Locking'
  <2>1. \/ todo' = <<Send("AA")>> \/ todo' = <<Put("cfg", "lock", "clear"), Send("AA")>>
        \/ todo' = <<Put("cfg", "lock", "wiped"), Send("AA")>>
    BY <1>7, <1>8, <1>9, LockIs, Zenon
  <2>2. "clear" # "none" /\ "wiped" # "none"
    OBVIOUS
  <2>3. QED
    BY <1>2, <1>8, <2>1, <2>2, Zenon DEF Locking
<1>11. Queue'
  BY <1>2, <1>3, <1>5, <1>6, <1>10 DEF Queue, Speaks
<1>12. Outside'
  BY <1>1, <1>2, <1>5, <1>6 DEF Outside, Quiet
<1>13. QED
  BY <1>3, <1>5, <1>11, <1>12 DEF Base, BankKnown

LEMMA LinuxOpenedBase ==
  ASSUME Base, LinuxOpened
  PROVE  Base'
<1>1. TypeInv /\ Queue /\ Outside /\ CallTyped /\ FieldsTyped
  BY DEF Base, TypeInv
<1>2. /\ os = "linux" /\ pc = "open" /\ todo = <<>> /\ res = <<>> /\ base = "none"
      /\ Here1.kind \in Speaks(family) /\ Here # "162"
  BY <1>1 DEF LinuxOpened, Done, Queue, FieldsTyped, Outside
<1>3. /\ device' = device /\ faults' = faults /\ what' = what
      /\ reading' = reading /\ res' = res /\ family' = family /\ at' = at
      /\ tried' = tried /\ got' = Nothing
  BY DEF LinuxOpened, Begin
<1>4. /\ at \in 1 .. Len(PortPairs) /\ tried \subseteq Pair \X {"ite", "nct"}
      /\ family \in {"ite", "nct"}
  BY <1>1 DEF CallTyped
<1>5. \/ base' = LinuxBase /\ pc' = "bank" /\ todo' = <<Get("mon", "bank")>>
      \/ base' = base /\ pc' = "finish" /\ todo' = <<>>
  BY DEF LinuxOpened, Begin
<1>6. LinuxBase \in {"mon", "far", "wrong"}
  BY DEF LinuxBase
<1>7. /\ TypeInv' /\ os' = os /\ chip' = chip /\ was' = was /\ fields' = <<>> /\ cache' = cache
  <2>1. base' \in {"none", "mon", "far", "wrong"} /\ pc' \in Procedure
    BY <1>2, <1>5, <1>6 DEF Procedure
  <2>2. res = <<>> \/ pc' \in {"finish", "returned"}
    BY <1>2
  <2>3. QED
    BY <1>1, <1>2, <1>3, <1>4, <2>1, <2>2, NothingIs, SteppedTyped
<1>8. Here' = Here /\ Here1' = Here1
  BY <1>3, <1>7, HereSame DEF Here1
<1>9. ~NctOnWindows'
  BY <1>2, <1>7 DEF NctOnWindows
<1>10. Queue'
  <2>1. CASE base' = LinuxBase /\ pc' = "bank" /\ todo' = <<Get("mon", "bank")>>
    <3>1. todo' \in Ends1(Get("mon", "bank"))
      BY <2>1, Starts
    <3>2. base' # "none"
      BY <1>6, <2>1
    <3>3. QED
      BY <1>2, <1>3, <1>7, <1>8, <1>9, <2>1, <3>1, <3>2 DEF Queue, Speaks
  <2>2. CASE base' = base /\ pc' = "finish" /\ todo' = <<>>
    BY <1>2, <1>9, <2>2 DEF Queue
  <2>3. QED
    BY <1>5, <2>1, <2>2
<1>11. Outside'
  BY <1>1, <1>2, <1>7, <1>8 DEF Outside, Quiet
<1>12. QED
  BY <1>5, <1>7, <1>10, <1>11 DEF Base, BankKnown

LEMMA LinuxNctBankBase ==
  ASSUME Base, LinuxNctBank
  PROVE  Base'
<1>1. TypeInv /\ Queue /\ Outside /\ CallTyped /\ FieldsTyped /\ BoardTyped
  BY DEF Base, TypeInv
<1>2. /\ os = "linux" /\ pc = "bank" /\ todo = <<>> /\ res = <<>> /\ family = "nct"
      /\ Here1.kind \in Speaks(family) /\ Here # "162"
      /\ ~NctOnWindows => base # "none"
  BY <1>1 DEF LinuxNctBank, Done, Queue, FieldsTyped, Outside
<1>3. /\ device' = device /\ faults' = faults /\ what' = what /\ base' = base
      /\ cells' = cells /\ res' = res /\ family' = family /\ at' = at
      /\ tried' = tried /\ got' = got /\ pc' = "fields" /\ todo' = todo
      /\ fields' = NctFields /\ cache' = got.bank
  BY DEF LinuxNctBank
<1>4. BoardTyped' /\ os' = os /\ PortPairs' = PortPairs /\ chip' = chip /\ was' = was
  BY <1>1, <1>3, DeviceSame DEF BoardTyped
<1>5. Here' = Here /\ Here1' = Here1
  BY <1>3, <1>4, HereSame DEF Here1
<1>6. CallTyped'
  <2>1. got.bank \in Byte
    BY <1>1 DEF CallTyped, Slot
  <2>2. QED
    BY <1>1, <1>3, <1>4, <2>1 DEF CallTyped, Procedure
<1>7. FieldsTyped'
  <2>1. fields = <<>> /\ cells = <<>>
    BY <1>1, <1>2, FieldsOnly
  <2>2. fields' \in Seq(Field)
    BY <1>3, FieldsAssumption
  <2>3. cells' = <<>> /\ Len(<<>>) = 0
    BY <1>3, <2>1
  <2>4. ASSUME fields' # <<>>
        PROVE  0 <= Len(Head(fields').regs)
    <3>1. Head(fields') \in Field
      BY <2>2, <2>4
    <3>2. PICK h : h = Head(fields')
      OBVIOUS
    <3>3. h.regs \in Seq(Register)
      BY <3>1, <3>2 DEF Field, Register
    <3>4. QED
      BY <3>2, <3>3
  <2>5. QED
    BY <1>1, <1>2, <1>3, <2>2, <2>3, <2>4 DEF FieldsTyped
<1>8. FieldsQueue'
  BY <1>2, <1>3 DEF FieldsQueue
<1>9. ~NctOnWindows' /\ ~NctOnWindows
  BY <1>2, <1>4 DEF NctOnWindows
<1>10. Queue'
  BY <1>2, <1>3, <1>5, <1>8, <1>9 DEF Queue, Speaks
<1>11. Outside'
  BY <1>1, <1>2, <1>4, <1>5 DEF Outside, Quiet
<1>12. QED
  BY <1>2, <1>3, <1>4, <1>6, <1>7, <1>10, <1>11 DEF Base, BankKnown, TypeInv

LEMMA LinuxFinishBase ==
  ASSUME Base, LinuxFinish
  PROVE  Base'
<1>1. TypeInv /\ Queue /\ Outside /\ CallTyped /\ FieldsTyped /\ BoardTyped
  BY DEF Base, TypeInv
<1>2. os = "linux" /\ pc = "finish"
  BY DEF LinuxFinish, Done
<1>3. CASE Return(res)
  BY <1>1, <1>3, ReturnBase DEF FieldsTyped
<1>4. CASE /\ family = "ite" /\ res = <<>> /\ Start("nct", tried) /\ base' = "none"
           /\ UNCHANGED <<device, what, reading, res>>
  <2>1. /\ device' = device /\ what' = what /\ base' = "none" /\ got' = Nothing
        /\ reading' = reading /\ res' = res /\ family' = "nct" /\ at' = 1
        /\ \/ /\ pc' = "probe" /\ todo' = Probe("nct", "2E")
              /\ tried' = tried \cup {<<"2E", "nct">>} /\ faults' = faults
           \/ /\ pc' = "finish" /\ todo' = <<>> /\ tried' = tried
              /\ faults < MaxFaults /\ faults' = faults + 1
    BY <1>4 DEF Start, Begin
  <2>2. cells' = cells /\ fields' = fields /\ cache' = cache
    BY <2>1 DEF reading
  <2>3. faults' \in 0 .. MaxFaults
    BY <1>1, <2>1, FaultsAssumption DEF BoardTyped
  <2>4. BoardTyped' /\ os' = os /\ PortPairs' = PortPairs /\ chip' = chip /\ was' = was
    BY <1>1, <2>1, <2>3, DeviceSame
  <2>5. Here' = "2E"
    BY <2>1, <2>4 DEF Here, PortPairs
  <2>6. fields = <<>> /\ cells = <<>>
    BY <1>1, <1>2, FieldsOnly
  <2>7. tried' \subseteq Pair \X {"ite", "nct"}
    BY <1>1, <2>1 DEF CallTyped, Pair
  <2>8. 1 \in 1 .. Len(PortPairs)
    BY <1>1 DEF CallTyped
  <2>9. pc' \in {"probe", "finish"}
    BY <2>1
  <2>10. CallTyped'
    BY <1>1, <2>1, <2>2, <2>4, <2>7, <2>8, <2>9, NothingIs DEF CallTyped, Procedure
  <2>11. FieldsTyped'
    BY <1>1, <1>4, <2>1, <2>2, <2>6, <2>9 DEF FieldsTyped
  <2>12. pc' = "probe" => todo' \in NctKeyed'
    BY <2>1, <2>5, ProbeStarts DEF Pair
  <2>13. Queue'
    BY <1>2, <2>1, <2>4, <2>9, <2>12 DEF Queue
  <2>14. Outside'
    BY <1>1, <2>4, <2>5 DEF Outside, Quiet
  <2>15. QED
    BY <2>4, <2>9, <2>10, <2>11, <2>13, <2>14 DEF Base, TypeInv, BankKnown
<1>5. QED
  BY <1>3, <1>4 DEF LinuxFinish

\* While fields are read nothing else changes.
LEMMA ReadTyped ==
  ASSUME Base, pc = "fields", device' = device, faults' = faults, what' = what,
         family' = family, at' = at, base' = base, got' = got, tried' = tried,
         pc' \in {"fields", "finish"}
  PROVE  /\ BoardTyped' /\ os' = os /\ chip' = chip /\ was' = was
         /\ Here' = Here /\ Here1' = Here1 /\ NctOnWindows' = NctOnWindows
         /\ NctOnLinux' = NctOnLinux /\ Outside' /\ BankKnown'
         /\ cache' \in Byte => CallTyped'
<1>1. BoardTyped /\ CallTyped /\ Outside /\ BankKnown
  BY DEF Base, TypeInv
<1>2. BoardTyped' /\ os' = os /\ PortPairs' = PortPairs /\ chip' = chip /\ was' = was
  BY <1>1, DeviceSame DEF BoardTyped
<1>3. /\ Here' = Here /\ Here1' = Here1 /\ NctOnWindows' = NctOnWindows
      /\ NctOnLinux' = NctOnLinux
  BY <1>2, HereSame, FamilySame DEF Here1
<1>4. cache' \in Byte => CallTyped'
  BY <1>1, <1>2 DEF CallTyped, Procedure
<1>5. Outside'
  BY <1>1, <1>2, <1>3 DEF Outside, Quiet
<1>6. BankKnown'
  BY <1>1 DEF BankKnown
<1>7. QED
  BY <1>2, <1>3, <1>4, <1>5, <1>6

LEMMA NextCellBase ==
  ASSUME Base, NextCell
  PROVE  Base' /\ CellDue
<1>1. TypeInv /\ Queue /\ CallTyped /\ FieldsTyped
  BY DEF Base, TypeInv
<1>2. /\ pc = "fields" /\ todo = <<>> /\ fields # <<>>
      /\ device' = device /\ faults' = faults /\ what' = what /\ pc' = pc
      /\ family' = family /\ at' = at /\ base' = base /\ got' = got /\ tried' = tried
      /\ fields' = fields /\ cells' = cells /\ res' = res
  BY DEF NextCell, Done
<1>3. CellDue
  <2>1. Len(cells) <= Len(Head(fields).regs) /\ Len(cells) # Len(Head(fields).regs)
    BY <1>1, <1>2 DEF FieldsTyped, NextCell, Complete
  <2>2. PICK n, m : n = Len(cells) /\ m = Len(Head(fields).regs)
    OBVIOUS
  <2>3. n \in Nat
    BY <1>1, <2>2 DEF FieldsTyped
  <2>4. m \in Nat
    <3>1. PICK h : h = Head(fields)
      OBVIOUS
    <3>2. h \in Field
      BY <1>1, <1>2, <3>1 DEF FieldsTyped
    <3>3. h.regs \in Seq(Register)
      BY <3>2 DEF Field, Register
    <3>4. QED
      BY <2>2, <3>1, <3>3
  <2>5. n < m
    BY <2>1, <2>2, <2>3, <2>4
  <2>6. QED
    BY <1>2, <2>2, <2>5 DEF CellDue
<1>4. PICK b, o : b = NextReg[1] /\ o = NextReg[2]
  OBVIOUS
<1>5. b \in Bank /\ o \in Offset /\ b \in Byte
  BY <1>1, <1>3, <1>4, NextRegIs, Bytes DEF Register
<1>6. \/ NctOnWindows /\ todo' = <<Put("cfg", "bank", b), Cell("cfg", o)>> /\ cache' = cache
      \/ /\ NctOnLinux /\ cache' = b
         /\ todo' = <<Put("mon", "bank", b), Cell("mon", o)>> \/ todo' = <<Cell("mon", o)>>
      \/ ~NctOnWindows /\ ~NctOnLinux /\ todo' = <<Cell("mon", o)>> /\ cache' = cache
  <2>1. CASE NctOnWindows
    <3>1. todo' = WinNctRead(NextReg) /\ cache' = cache
      BY <2>1 DEF NextCell, NextReg
    <3>2. QED
      BY <1>4, <2>1, <3>1 DEF WinNctRead
  <2>2. CASE ~NctOnWindows /\ NctOnLinux
    <3>1. todo' = LinuxNctRead(NextReg) /\ cache' = NextReg[1]
      BY <2>2 DEF NextCell, NextReg
    <3>2. \/ LinuxNctRead(NextReg) = <<Put("mon", "bank", b)>> \o <<Cell("mon", o)>>
          \/ LinuxNctRead(NextReg) = <<>> \o <<Cell("mon", o)>>
      BY <1>4, Zenon DEF LinuxNctRead
    <3>3. \/ todo' = <<Put("mon", "bank", b), Cell("mon", o)>> \/ todo' = <<Cell("mon", o)>>
      BY <1>5, <3>1, <3>2, LinuxReadIs, Zenon
    <3>4. QED
      BY <1>4, <2>2, <3>1, <3>3
  <2>3. CASE ~NctOnWindows /\ ~NctOnLinux
    <3>1. todo' = IteRead(NextReg) /\ cache' = cache
      BY <2>3 DEF NextCell, NextReg
    <3>2. QED
      BY <1>4, <2>3, <3>1 DEF IteRead
  <2>4. QED
    BY <2>1, <2>2, <2>3
<1>7. cache' \in Byte
  BY <1>1, <1>5, <1>6 DEF CallTyped
<1>8. /\ BoardTyped' /\ CallTyped' /\ os' = os /\ Here' = Here /\ Here1' = Here1
      /\ NctOnWindows' = NctOnWindows /\ NctOnLinux' = NctOnLinux /\ Outside' /\ BankKnown'
  BY <1>2, <1>7, ReadTyped
<1>9. FieldsTyped'
  BY <1>1, <1>2 DEF FieldsTyped
<1>10. CellDue' /\ NextReg' = NextReg
  BY <1>2, <1>3 DEF CellDue, NextReg
<1>11. FieldsQueue'
  <2>1. CASE NctOnWindows /\ todo' = <<Put("cfg", "bank", b), Cell("cfg", o)>>
    <3>1. todo' \in Ends2(Put("cfg", "bank", b), Cell("cfg", o))
      BY <2>1, Starts
    <3>2. QED
      BY <1>4, <1>8, <1>10, <2>1, <3>1, Zenon DEF FieldsQueue
  <2>2. CASE /\ NctOnLinux /\ cache' = b
             /\ todo' = <<Put("mon", "bank", b), Cell("mon", o)>> \/ todo' = <<Cell("mon", o)>>
    <3>1. todo' \in Ends2(Put("mon", "bank", b), Cell("mon", o))
      BY <2>2 DEF Ends2, Ends1
    <3>2. QED
      BY <1>4, <1>8, <1>10, <2>2, <3>1, Zenon DEF FieldsQueue
  <2>3. CASE ~NctOnWindows /\ ~NctOnLinux /\ todo' = <<Cell("mon", o)>>
    <3>1. family = "ite"
      BY <1>1, <2>3 DEF NctOnWindows, NctOnLinux, TypeInv, CallTyped, BoardTyped
    <3>2. QED
      BY <1>2, <1>4, <1>10, <2>3, <3>1, Zenon DEF FieldsQueue
  <2>4. QED
    BY <1>6, <2>1, <2>2, <2>3
<1>12. Queue'
  BY <1>1, <1>2, <1>8, <1>11 DEF Queue, Speaks
<1>13. QED
  BY <1>3, <1>8, <1>9, <1>12 DEF Base, TypeInv

LEMMA FieldDoneBase ==
  ASSUME Base, FieldDone
  PROVE  Base'
<1>1. TypeInv /\ Queue /\ CallTyped /\ FieldsTyped
  BY DEF Base, TypeInv
<1>2. /\ pc = "fields" /\ todo = <<>> /\ fields # <<>>
      /\ device' = device /\ faults' = faults /\ what' = what /\ pc' = pc
      /\ family' = family /\ at' = at /\ base' = base /\ got' = got /\ tried' = tried
      /\ todo' = todo /\ cache' = cache /\ fields' = Tail(fields) /\ cells' = <<>>
      /\ res' = res \/ res' = Append(res, Reading(Head(fields)))
  BY DEF FieldDone, Done
<1>3. cache' \in Byte
  BY <1>1, <1>2 DEF CallTyped
<1>4. /\ BoardTyped' /\ CallTyped' /\ os' = os /\ Here' = Here /\ Here1' = Here1
      /\ NctOnWindows' = NctOnWindows /\ NctOnLinux' = NctOnLinux /\ Outside' /\ BankKnown'
  BY <1>2, <1>3, ReadTyped
<1>5. FieldsTyped'
  <2>1. fields \in Seq(Field) /\ cells \in Seq(Value) /\ res \in Seq(Result)
    BY <1>1 DEF FieldsTyped
  <2>2. fields' \in Seq(Field) /\ \A i \in 1 .. Len(fields') :
          i + 1 \in 1 .. Len(fields) /\ fields'[i] = fields[i + 1]
    BY <1>2, <2>1
  <2>3. PICK h : h = Head(fields)
    OBVIOUS
  <2>4. h \in Field
    BY <1>2, <2>1, <2>3
  <2>5. SourceOf(cells[1]) \in Nat
    BY SourceAssumption DEF SourceOf
  <2>6. Reading(h) \in Result
    <3>1. PICK s : s = IF h.sel THEN SourceOf(cells[1]) ELSE 0
      OBVIOUS
    <3>2. s \in Nat
      BY <2>5, <3>1
    <3>3. h.kind \in Wants \cup {"none"} /\ h.regs \in Seq(Register)
      BY <2>4 DEF Field, Register
    <3>4. Reading(h) = [kind |-> h.kind, regs |-> h.regs, cells |-> cells, source |-> s]
      BY <3>1 DEF Reading
    <3>5. QED
      BY <2>1, <3>2, <3>3, <3>4 DEF Result
  <2>7. res' \in Seq(Result)
    <3>1. PICK x : x = Reading(h)
      OBVIOUS
    <3>2. x \in Result /\ (res' = res \/ res' = Append(res, x))
      BY <1>2, <2>3, <2>6, <3>1
    <3>3. QED
      BY <2>1, <3>2, SMTT(30)
  <2>8. family = "ite" =>
          \A i \in 1 .. Len(fields') : \A j \in 1 .. Len(fields'[i].regs) :
            fields'[i].regs[j][1] = "b0"
    BY <1>1, <2>2 DEF FieldsTyped
  <2>9. <<>> \in Seq(Value) /\ Len(<<>>) = 0
    OBVIOUS
  <2>10. ASSUME fields' # <<>>
         PROVE  0 <= Len(Head(fields').regs)
    <3>1. Head(fields') \in Field
      BY <2>2, <2>10
    <3>2. PICK k : k = Head(fields')
      OBVIOUS
    <3>3. k.regs \in Seq(Register)
      BY <3>1, <3>2 DEF Field, Register
    <3>4. QED
      BY <3>2, <3>3
  <2>11. QED
    BY <1>2, <2>2, <2>7, <2>8, <2>9, <2>10 DEF FieldsTyped
<1>6. FieldsQueue'
  BY <1>2 DEF FieldsQueue
<1>7. Queue'
  BY <1>1, <1>2, <1>4, <1>6 DEF Queue, Speaks
<1>8. QED
  BY <1>4, <1>5, <1>7 DEF Base, TypeInv

LEMMA IteBankBase ==
  ASSUME Base, IteBank
  PROVE  Base'
<1>1. TypeInv /\ Queue /\ Outside /\ CallTyped /\ FieldsTyped /\ BoardTyped
  BY DEF Base, TypeInv
<1>2. /\ pc = "bank" /\ todo = <<>> /\ res = <<>> /\ family = "ite" /\ ~NctOnWindows
      /\ Here1.kind \in Speaks(family) /\ Here # "162" /\ base # "none"
  BY <1>1 DEF IteBank, Done, Queue, FieldsTyped, Outside, NctOnWindows
<1>3. /\ device' = device /\ faults' = faults /\ what' = what /\ base' = base
      /\ cells' = cells /\ res' = res /\ family' = family /\ at' = at
      /\ tried' = tried /\ got' = got /\ cache' = cache
      /\ \/ /\ pc' = "finish" /\ fields' = fields /\ todo' = todo
         \/ /\ pc' = "fields" /\ fields' = IteFields /\ got.bank # "none"
            /\ \/ todo' = <<>>
               \/ /\ got.bank \in DOMAIN Cleared
                  /\ todo' = <<Put("mon", "bank", ReadBank(got.bank))>>
  BY DEF IteBank
<1>4. BoardTyped' /\ os' = os /\ PortPairs' = PortPairs /\ chip' = chip /\ was' = was
  BY <1>1, <1>3, DeviceSame DEF BoardTyped
<1>5. Here' = Here /\ Here1' = Here1
  BY <1>3, <1>4, HereSame DEF Here1
<1>6. CallTyped'
  BY <1>1, <1>3, <1>4 DEF CallTyped, Procedure
<1>7. fields = <<>> /\ cells = <<>>
  BY <1>1, <1>2, FieldsOnly
<1>8. FieldsTyped'
  <2>1. fields' \in Seq(Field)
    BY <1>1, <1>3, FieldsAssumption DEF FieldsTyped
  <2>2. cells' = <<>> /\ Len(<<>>) = 0
    BY <1>3, <1>7
  <2>3. ASSUME fields' # <<>>
        PROVE  0 <= Len(Head(fields').regs)
    <3>1. Head(fields') \in Field
      BY <2>1, <2>3
    <3>2. PICK h : h = Head(fields')
      OBVIOUS
    <3>3. h.regs \in Seq(Register)
      BY <3>1, <3>2 DEF Field, Register
    <3>4. QED
      BY <3>2, <3>3
  <2>4. \A i \in 1 .. Len(fields') : \A j \in 1 .. Len(fields'[i].regs) :
          fields'[i].regs[j][1] = "b0"
    BY <1>1, <1>2, <1>3, BankAssumption DEF FieldsTyped
  <2>5. fields' # <<>> => pc' = "fields"
    BY <1>3, <1>7
  <2>6. pc' \in {"fields", "finish"}
    BY <1>3
  <2>7. QED
    BY <1>1, <1>2, <1>3, <2>1, <2>2, <2>3, <2>4, <2>5, <2>6 DEF FieldsTyped
<1>9. ~NctOnWindows'
  BY <1>2, <1>3 DEF NctOnWindows
<1>10. pc' = "fields" => FieldsQueue'
  BY <1>2, <1>3, Zenon DEF FieldsQueue
<1>11. Queue'
  BY <1>2, <1>3, <1>5, <1>9, <1>10 DEF Queue, Speaks
<1>12. Outside'
  BY <1>1, <1>2, <1>4, <1>5 DEF Outside, Quiet
<1>13. BankKnown'
  BY <1>3 DEF BankKnown
<1>14. QED
  BY <1>4, <1>6, <1>8, <1>11, <1>12, <1>13 DEF Base, TypeInv

LEMMA RestoreBankBase ==
  ASSUME Base, RestoreBank
  PROVE  Base'
<1>1. TypeInv /\ Queue /\ CallTyped /\ FieldsTyped /\ BankKnown
  BY DEF Base, TypeInv
<1>2. /\ pc = "fields" /\ todo = <<>> /\ fields = <<>>
      /\ device' = device /\ faults' = faults /\ what' = what /\ pc' = "finish"
      /\ family' = family /\ at' = at /\ base' = base /\ got' = got /\ tried' = tried
      /\ reading' = reading /\ res' = res
  BY DEF RestoreBank, Done
<1>3. cache' = cache /\ cells' = cells /\ fields' = fields /\ cache' \in Byte
  BY <1>1, <1>2 DEF reading, CallTyped
<1>4. /\ BoardTyped' /\ CallTyped' /\ os' = os /\ Here' = Here /\ Here1' = Here1
      /\ NctOnWindows' = NctOnWindows /\ NctOnLinux' = NctOnLinux /\ Outside' /\ BankKnown'
  BY <1>2, <1>3, ReadTyped
<1>5. FieldsTyped'
  BY <1>1, <1>2, <1>3 DEF FieldsTyped
<1>6. family \in {"ite", "nct"} /\ os \in {"windows", "linux"}
  BY <1>1 DEF CallTyped, TypeInv, BoardTyped
<1>7. \/ todo' = <<>>
      \/ ~NctOnWindows /\ got.bank # "none" /\ todo' = <<Put("mon", "bank", got.bank)>>
  <2>1. todo' = <<>> \/ todo' = <<Put("mon", "bank", got.bank)>>
    BY DEF RestoreBank
  <2>2. CASE family = "ite"
    BY <1>1, <1>2, <2>1, <2>2 DEF BankKnown, NctOnWindows
  <2>3. CASE NctOnWindows
    BY <2>3 DEF RestoreBank, NctOnWindows, NctOnLinux
  <2>4. CASE NctOnLinux
    BY <2>4 DEF RestoreBank, NctOnWindows, NctOnLinux
  <2>5. QED
    BY <1>6, <2>2, <2>3, <2>4 DEF NctOnWindows, NctOnLinux
<1>8. ~NctOnWindows => base # "none"
  BY <1>1, <1>2 DEF Queue
<1>9. NctOnWindows => base = "none"
  BY <1>1, <1>2 DEF Queue
<1>10. Queue'
  BY <1>2, <1>4, <1>7, <1>8, <1>9 DEF Queue
<1>11. QED
  BY <1>4, <1>5, <1>10 DEF Base, TypeInv

LEMMA CallBase ==
  ASSUME Base, NEW w \in Wants, NewCall(w), got' = Nothing,
         family' \in {"ite", "nct"}, at' = 1, tried' \subseteq {<<"2E", family'>>},
         faults' \in 0 .. MaxFaults,
         \/ /\ os = "windows" /\ pc' = "ite" /\ family' = "ite" /\ todo' = IteProbe("2E")
         \/ /\ os = "linux" /\ pc' = "probe" /\ todo' = Probe(family', "2E")
         \/ /\ os = "linux" /\ pc' = "finish" /\ todo' = <<>>
  PROVE  Base'
<1>1. TypeInv /\ Queue /\ Outside /\ CallTyped /\ FieldsTyped /\ BoardTyped
  BY DEF Base, TypeInv
<1>2. /\ pc \in {"idle", "returned"} /\ what' = w /\ was' = chip /\ cut' = FALSE
      /\ lost' = {} /\ stray' = FALSE /\ res' = <<>>
      /\ os' = os /\ chip' = chip /\ base' = base /\ reading' = reading
  BY DEF NewCall
<1>3. cells' = cells /\ fields' = fields /\ cache' = cache
  BY <1>2 DEF reading
<1>4. base = "none" /\ fields = <<>> /\ cells = <<>>
  BY <1>1, <1>2, FieldsOnly DEF Queue
<1>5. PortPairs' = PortPairs /\ 1 \in 1 .. Len(PortPairs)
  BY <1>1, <1>2 DEF PortPairs, CallTyped
<1>6. Here' = "2E"
  BY <1>2, <1>5 DEF Here, PortPairs
<1>7. BoardTyped'
  <2>1. \A p \in Pair : ChipOk(chip[p], p)'
    BY <1>1, <1>2 DEF BoardTyped, ChipOk, Quiet
  <2>2. QED
    BY <1>1, <1>2, <2>1 DEF BoardTyped
<1>8. pc' \in {"ite", "probe", "finish"}
  OBVIOUS
<1>9. tried' \subseteq Pair \X {"ite", "nct"}
  BY DEF Pair
<1>10. CallTyped'
  BY <1>1, <1>2, <1>3, <1>5, <1>8, <1>9, NothingIs DEF CallTyped, Procedure
<1>11. <<>> \in Seq(Result)
  OBVIOUS
<1>12. FieldsTyped'
  BY <1>1, <1>2, <1>3, <1>4, <1>11 DEF FieldsTyped
<1>13. pc' = "probe" =>
         todo' \in (IF family' = "ite" THEN IteKeyed' ELSE NctKeyed')
  BY <1>6, ProbeStarts DEF Pair
<1>14. pc' = "ite" => todo' \in IteKeyed'
  BY <1>6, ProbeStarts, IteProbeIs DEF Pair
<1>15. Queue'
  BY <1>2, <1>4, <1>8, <1>13, <1>14 DEF Queue
<1>16. Outside'
  BY <1>1, <1>2, <1>6 DEF Outside, Quiet
<1>17. QED
  BY <1>7, <1>8, <1>10, <1>12, <1>15, <1>16 DEF Base, TypeInv, BankKnown

\* A call begins with no chip tried but, at most, the first pair.
LEMMA Calls ==
  ASSUME Base, Call
  PROVE  /\ Base' /\ at' = 1 /\ pc \in {"idle", "returned"}
         /\ was' = chip /\ chip' = chip /\ os' = os /\ cut' = FALSE /\ lost' = {}
         /\ stray' = FALSE /\ res' = <<>> /\ base' = base /\ reading' = reading
         /\ got' = Nothing /\ family' = "ite"
         /\ \/ /\ os = "windows" /\ pc' = "ite" /\ tried' = {<<"2E", "ite">>}
               /\ todo' = IteProbe("2E")
            \/ /\ os = "linux" /\ pc' = "probe" /\ tried' = {<<"2E", "ite">>}
               /\ todo' = Probe("ite", "2E")
            \/ os = "linux" /\ pc' = "finish" /\ tried' = {} /\ todo' = <<>>
<1>1. PICK w \in Wanted : WinCall(w) \/ LinuxCall(w)
  BY DEF Call
<1>2. w \in Wants
  BY WantedAssumption
<1>3. faults \in 0 .. MaxFaults /\ MaxFaults \in Nat
  BY FaultsAssumption DEF Base, TypeInv, BoardTyped
<1>4. CASE WinCall(w)
  <2>1. /\ os = "windows" /\ NewCall(w) /\ family' = "ite" /\ at' = 1
        /\ tried' = {<<"2E", "ite">>} /\ pc' = "ite" /\ todo' = IteProbe("2E")
        /\ got' = Nothing /\ faults' = faults
    BY <1>4 DEF WinCall, Begin
  <2>2. Base'
    BY <1>2, <1>3, <2>1, CallBase
  <2>3. QED
    BY <2>1, <2>2 DEF NewCall
<1>5. CASE LinuxCall(w)
  <2>1. /\ os = "linux" /\ NewCall(w) /\ family' = "ite" /\ at' = 1 /\ got' = Nothing
        /\ \/ /\ pc' = "probe" /\ todo' = Probe("ite", "2E")
              /\ tried' = {} \cup {<<"2E", "ite">>} /\ faults' = faults
           \/ /\ pc' = "finish" /\ todo' = <<>> /\ tried' = {}
              /\ faults < MaxFaults /\ faults' = faults + 1
    BY <1>5 DEF LinuxCall, Start, Begin
  <2>2. faults' \in 0 .. MaxFaults
    BY <1>3, <2>1
  <2>3. tried' \subseteq {<<"2E", family'>>}
    BY <2>1
  <2>4. {} \cup {<<"2E", "ite">>} = {<<"2E", "ite">>}
    OBVIOUS
  <2>5. Base'
    BY <1>2, <2>1, <2>2, <2>3, CallBase
  <2>6. QED
    BY <2>1, <2>4, <2>5 DEF NewCall
<1>6. QED
  BY <1>1, <1>4, <1>5

LEMMA DieBase ==
  ASSUME Base, Die
  PROVE  Base'
<1>1. TypeInv /\ Queue /\ Outside /\ CallTyped /\ FieldsTyped /\ BoardTyped
  BY DEF Base, TypeInv
<1>2. /\ faults < MaxFaults /\ faults' = faults + 1
      /\ pc' = "idle" /\ todo' = <<>> /\ got' = Nothing /\ base' = "none"
      /\ fields' = <<>> /\ cells' = <<>> /\ cache' = "none" /\ res' = <<>>
      /\ at' = 1 /\ family' = "ite" /\ what' = "temp"
      /\ was' = chip /\ tried' = {} /\ cut' = FALSE /\ lost' = {} /\ stray' = FALSE
      /\ os' = os /\ chip' = chip
  BY DEF Die
<1>3. BoardTyped'
  <2>1. \A p \in Pair : ChipOk(chip[p], p)'
    BY <1>1, <1>2 DEF BoardTyped, ChipOk, Quiet
  <2>2. faults' \in 0 .. MaxFaults
    BY <1>1, <1>2, FaultsAssumption DEF BoardTyped
  <2>3. QED
    BY <1>1, <1>2, <2>1, <2>2 DEF BoardTyped
<1>4. PortPairs' = PortPairs /\ 1 \in 1 .. Len(PortPairs) /\ Here' = "2E"
  BY <1>1, <1>2 DEF PortPairs, CallTyped, Here
<1>5. CallTyped'
  BY <1>1, <1>2, <1>4, NothingIs, Bytes DEF CallTyped, Procedure, Wants
<1>6. FieldsTyped'
  <2>1. <<>> \in Seq(Result) /\ <<>> \in Seq(Field) /\ <<>> \in Seq(Value)
    OBVIOUS
  <2>2. QED
    BY <1>2, <2>1 DEF FieldsTyped
<1>7. Queue'
  BY <1>2 DEF Queue
<1>8. Outside'
  BY <1>1, <1>2, <1>4 DEF Outside, Quiet
<1>9. QED
  BY <1>2, <1>3, <1>5, <1>6, <1>7, <1>8 DEF Base, TypeInv, BankKnown

LEMMA InitBase ==
  ASSUME Init
  PROVE  Base
<1>1. /\ os \in {"windows", "linux"} /\ chip \in Boards
      /\ pc = "idle" /\ what = "temp" /\ family = "ite" /\ at = 1
      /\ todo = <<>> /\ got = Nothing /\ base = "none" /\ cache = "none"
      /\ fields = <<>> /\ cells = <<>> /\ res = <<>>
      /\ was = chip /\ tried = {} /\ cut = FALSE /\ lost = {} /\ stray = FALSE
      /\ faults = 0
  BY DEF Init
<1>2. /\ chip \in [Pair -> ChipType]
      /\ \A p \in Pair :
           /\ chip[p].mode = "run" /\ chip[p].key = 0
           /\ chip[p].lock \in Lock /\ chip[p].bank # "none"
  BY <1>1, BoardsAssumption
<1>3. \A p \in Pair : ChipOk(chip[p], p)
  <2>1. ASSUME NEW p \in Pair
        PROVE  ChipOk(chip[p], p)
    <3>1. chip[p] \in ChipType
      BY <1>2
    <3>2. PICK c : c = chip[p]
      OBVIOUS
    <3>3. 0 < Size(KeyOf(c, p))
      BY KeyIs
    <3>4. c.lock # "none" /\ c.lock \in {"set", "clear", "wiped", "mon", "leave"}
      BY <1>2, <3>2 DEF Lock
    <3>5. ChipOk(c, p)
      BY <1>2, <3>1, <3>2, <3>3, <3>4 DEF ChipOk, Quiet
    <3>6. QED
      BY <3>2, <3>5
  <2>2. QED
    BY <2>1
<1>4. BoardTyped
  <2>1. 0 \in 0 .. MaxFaults
    BY FaultsAssumption
  <2>2. {} \subseteq Slot \cup {"cell"}
    OBVIOUS
  <2>3. cut \in BOOLEAN /\ stray \in BOOLEAN /\ was = chip /\ lost = {} /\ faults = 0
    BY <1>1
  <2>4. QED
    BY <1>1, <1>2, <1>3, <2>1, <2>2, <2>3 DEF BoardTyped
<1>5. 1 \in 1 .. Len(PortPairs) /\ Here = "2E"
  BY <1>1 DEF PortPairs, Here
<1>6. CallTyped
  BY <1>1, <1>5, NothingIs, Bytes DEF CallTyped, Procedure, Wants
<1>7. FieldsTyped
  <2>1. <<>> \in Seq(Result) /\ <<>> \in Seq(Field) /\ <<>> \in Seq(Value)
    OBVIOUS
  <2>2. QED
    BY <1>1, <2>1 DEF FieldsTyped
<1>8. Queue
  BY <1>1 DEF Queue
<1>9. Outside
  BY <1>1, <1>2, <1>5 DEF Outside, Quiet, Pair
<1>10. QED
  BY <1>1, <1>4, <1>6, <1>7, <1>8, <1>9 DEF Base, TypeInv, BankKnown

LEMMA TransferBase ==
  ASSUME Base, Transfer
  PROVE  Base'
<1>1. TypeInv /\ Queue /\ Outside /\ BankKnown
  BY DEF Base
<1>2. TypeInv' /\ Queue' /\ Outside'
  BY <1>1, TransferTyped, TransferQueue, TransferOutside
<1>3. BankKnown'
  BY <1>1, TransferIs, TransferKeeps DEF BankKnown
<1>4. QED
  BY <1>2, <1>3 DEF Base

LEMMA NextBase ==
  ASSUME Base, Next
  PROVE  Base'
<1>1. Call \/ Transfer \/ DecodeStep \/ WindowsStep \/ LinuxStep \/ Die
  BY DEF Next, Step
<1>2. CASE DecodeStep
  BY <1>2, NextCellBase, FieldDoneBase, IteBankBase, RestoreBankBase DEF DecodeStep
<1>3. CASE WindowsStep
  BY <1>3, WinProbedBase, WinIteFoundBase, WinDetectedBase, WinUnlockedBase, WinFinishBase
  DEF WindowsStep
<1>4. CASE LinuxStep
  BY <1>4, LinuxProbedBase, LinuxLeftBase, LinuxUnlockedBase, LinuxOpenedBase,
     LinuxNctBankBase, LinuxFinishBase DEF LinuxStep
<1>5. QED
  BY <1>1, <1>2, <1>3, <1>4, Calls, TransferBase, DieBase

\* A step that changes nothing.
LEMMA StutterBase ==
  ASSUME Base, UNCHANGED vars
  PROVE  Base'
<1>1. /\ os' = os /\ chip' = chip /\ was' = was /\ cut' = cut /\ lost' = lost
      /\ stray' = stray /\ faults' = faults /\ pc' = pc /\ what' = what
      /\ family' = family /\ at' = at /\ todo' = todo /\ got' = got /\ base' = base
      /\ fields' = fields /\ cells' = cells /\ cache' = cache /\ res' = res
      /\ tried' = tried
  BY DEF vars, device, reading
<1>2. /\ PortPairs' = PortPairs /\ Here' = Here /\ Here1' = Here1
      /\ NctOnWindows' = NctOnWindows /\ NctOnLinux' = NctOnLinux
  BY <1>1, HereSame, FamilySame DEF Here1
<1>3. BoardTyped'
  BY DeviceSame, <1>1 DEF Base, TypeInv, BoardTyped, vars
<1>4. CallTyped' /\ FieldsTyped'
  BY <1>1, <1>2 DEF Base, TypeInv, CallTyped, FieldsTyped
<1>5. FieldsQueue' = FieldsQueue /\ Locking' = Locking
  <2>1. CellDue' = CellDue /\ NextReg' = NextReg
    BY <1>1 DEF CellDue, NextReg
  <2>2. Locking' = Locking
    BY <1>1 DEF Locking
  <2>3. QED
    BY <1>1, <1>2, <2>1, <2>2, Zenon DEF FieldsQueue
<1>6. Queue'
  <2>1. /\ IteKeyed' = IteKeyed /\ NctKeyed' = NctKeyed /\ Detected' = Detected
        /\ Found' = Found
    BY <1>2, SameLists
  <2>2. Queue
    BY DEF Base
  <2>3. QED
    BY <1>1, <1>2, <1>5, <2>1, <2>2, ZenonT(60) DEF Queue
<1>7. Outside' /\ BankKnown'
  BY <1>1, <1>2 DEF Base, Outside, BankKnown, Quiet
<1>8. QED
  BY <1>3, <1>4, <1>6, <1>7 DEF Base, TypeInv

\* Every state is of its type: what the code reads and writes, and the
\* lengths and positions it uses, stay within their bounds.
THEOREM TypeCorrect == Spec => []TypeOK
<1>1. Init => Base
  BY InitBase
<1>2. Base /\ [Next]_vars => Base'
  BY NextBase, StutterBase
<1>3. ASSUME Base
      PROVE  TypeOK
  <2>1. BoardTyped /\ CallTyped /\ FieldsTyped
    BY <1>3 DEF Base, TypeInv
  <2>2. \A p \in DOMAIN chip : chip[p] \in ChipType /\ chip[p].key < Len(KeyOf(chip[p], p))
    BY <2>1 DEF BoardTyped, ChipOk, Size
  <2>3. /\ os \in {"windows", "linux"} /\ pc \in Procedure
        /\ family \in {"ite", "nct"} /\ at \in 1 .. Len(PortPairs)
        /\ DOMAIN got = Slot /\ base \in {"none", "mon", "far", "wrong"}
        /\ cut \in BOOLEAN /\ stray \in BOOLEAN
        /\ lost \subseteq Slot \cup {"cell"}
        /\ tried \subseteq Pair \X {"ite", "nct"} /\ faults \in 0 .. MaxFaults
    BY <2>1 DEF BoardTyped, CallTyped
  <2>4. fields # <<>> => Len(cells) <= Len(Head(fields).regs)
    BY <2>1 DEF FieldsTyped
  <2>5. QED
    BY <2>2, <2>3, <2>4 DEF TypeOK
<1>4. QED
  BY <1>1, <1>2, <1>3, PTL DEF Spec

\* Chip c becomes d when a register r of the configuration is written with v.
Written(c, d, r, v) ==
  /\ d.kind = c.kind /\ d.on = c.on /\ d.bank = c.bank
  /\ c.mode = "run" =>
       d.mode = "run" /\ d.key = 0 /\ d.ldn = c.ldn /\ d.lock = c.lock /\ d.hurt = c.hurt
  /\ c.mode = "config" /\ r = "ctl" /\ c.kind = "ite" /\ v = "leave" =>
       d.mode = "run" /\ d.key = 0 /\ d.ldn = c.ldn /\ d.lock = c.lock /\ d.hurt = c.hurt
  /\ c.mode = "config" /\ ~(r = "ctl" /\ c.kind = "ite" /\ v = "leave") =>
       /\ d.mode = "config" /\ d.key = 0
       /\ d.ldn = IF r = "ldn" THEN v ELSE c.ldn
       /\ d.lock = IF r = "lock" THEN v ELSE c.lock
       /\ d.hurt = IF r \in {"ldn", "lock"} THEN c.hurt ELSE c.hurt \cup {r}

LEMMA PutTurns ==
  ASSUME NEW c, NEW p, ChipOk(c, p), NEW r \in {"ldn", "lock", "ctl", "bank"},
         NEW v \in Byte, r = "ldn" => v = "mon"
  PROVE  Written(c, Take(Hear(c, p, r), v), r, v)
<1>1. PICK i : i = Hear(c, p, r)
  OBVIOUS
<1>2. PICK d : d = Take(i, v)
  OBVIOUS
<1>3. r \in Byte
  BY Bytes
<1>4. /\ i \in ChipType /\ Same(c, i) /\ (c.kind = "none" => i = c)
      /\ c.kind = "ite" => IteTurn(c, i, p, r)
      /\ c.kind \notin {"ite", "none"} => NctTurn(c, i, r)
  BY <1>1, <1>3, HearTurns, Zenon
<1>5. c.mode \in {"run", "config"} /\ (c.mode = "config" => c.key = 0)
      /\ (c.kind = "none" => c.mode = "run" /\ c.key = 0)
  BY ChipFields DEF ChipOk, Quiet
<1>6. /\ c.mode = "run" => i.mode = "run" /\ i.key = 0
      /\ c.mode = "config" => i.mode = "config" /\ i.key = 0 /\ i.index = r
  <2>1. r \notin {"87", "01", "55", "AA"}
    OBVIOUS
  <2>2. CASE c.kind = "none"
    BY <1>4, <1>5, <2>2
  <2>3. CASE c.kind = "ite"
    <3>1. IteTurn(c, i, p, r)
      BY <1>4, <2>3
    <3>2. QED
      BY <2>1, <3>1 DEF IteTurn
  <2>4. CASE c.kind \notin {"ite", "none"}
    <3>1. NctTurn(c, i, r)
      BY <1>4, <2>4
    <3>2. QED
      BY <2>1, <3>1 DEF NctTurn
  <2>5. QED
    BY <2>2, <2>3, <2>4
<1>7. i.mode = "config" /\ i.index = "ldn" => v \in Ldn
  BY <1>5, <1>6 DEF Ldn
<1>8. /\ d.kind = i.kind /\ d.on = i.on /\ d.key = i.key /\ d.bank = i.bank
      /\ d.lock = IF i.mode = "config" /\ i.index = "lock" THEN v ELSE i.lock
      /\ d.ldn = IF i.mode = "config" /\ i.index = "ldn" THEN v ELSE i.ldn
      /\ d.mode = IF i.index = "ctl" /\ i.kind = "ite" /\ v = "leave" THEN "run" ELSE i.mode
      /\ d.hurt = IF \/ i.mode = "run" \/ i.index \in {"id0", "id1", "ldn", "lock"}
                     \/ i.index = "ctl" /\ i.kind = "ite" /\ v = "leave"
                  THEN i.hurt ELSE i.hurt \cup {i.index}
  BY <1>2, <1>4, <1>7, TakeTurns
<1>9. /\ i.kind = c.kind /\ i.on = c.on /\ i.ldn = c.ldn /\ i.lock = c.lock
      /\ i.bank = c.bank /\ i.hurt = c.hurt
  BY <1>4 DEF Same
<1>10. CASE c.mode = "run"
  <2>1. i.mode = "run" /\ i.key = 0
    BY <1>6, <1>10
  <2>2. /\ d.mode = "run" /\ d.lock = i.lock /\ d.ldn = i.ldn /\ d.hurt = i.hurt
    BY <1>8, <2>1
  <2>3. QED
    BY <1>1, <1>2, <1>8, <1>9, <1>10, <2>1, <2>2 DEF Written
<1>11. CASE c.mode = "config"
  <2>1. i.mode = "config" /\ i.key = 0 /\ i.index = r
    BY <1>6, <1>11
  <2>2. /\ d.lock = IF r = "lock" THEN v ELSE c.lock
        /\ d.ldn = IF r = "ldn" THEN v ELSE c.ldn
        /\ d.key = 0 /\ d.kind = c.kind /\ d.on = c.on /\ d.bank = c.bank
        /\ d.mode = IF r = "ctl" /\ c.kind = "ite" /\ v = "leave" THEN "run" ELSE "config"
    BY <1>8, <1>9, <2>1
  <2>3. d.hurt = IF r \in {"ldn", "lock"} \/ (r = "ctl" /\ c.kind = "ite" /\ v = "leave")
                 THEN c.hurt ELSE c.hurt \cup {r}
    BY <1>8, <1>9, <2>1
  <2>4. QED
    BY <1>1, <1>2, <1>11, <2>2, <2>3 DEF Written
<1>12. QED
  BY <1>5, <1>10, <1>11

\* Chip c becomes d when it hears b.
Heard(c, d, p, b) ==
  /\ Same(c, d)
  /\ c.kind = "none" => d = c
  /\ c.kind = "ite" => IteTurn(c, d, p, b)
  /\ c.kind \notin {"ite", "none"} => NctTurn(c, d, b)

\* Chip c becomes d by an access to its monitor at the address base.
Visited(c, d, a) ==
  /\ d.kind = c.kind /\ d.on = c.on /\ d.mode = c.mode /\ d.key = c.key
  /\ d.ldn = c.ldn /\ d.lock = c.lock
  /\ a.op = "put" /\ a.reg = "bank" =>
       /\ d.hurt = c.hurt
       /\ d.bank = IF base = "mon" /\ MonOpen(c) THEN a.val ELSE c.bank
  /\ a.op # "put" => d.hurt = c.hurt /\ d.bank = c.bank
  /\ a.op # "put" /\ base = "mon" /\ MonOpen(c) => d.mon = a.reg

\* What becomes of the chip if no write fails.
Effect(c, d, a) ==
  IF a.port = "mon" THEN Visited(c, d, a)
  ELSE IF a.op = "put" THEN Written(c, d, a.reg, a.val)
  ELSE Heard(c, d, Here, a.reg)

\* What a slot holds after a read of chip d for it.
Answers(d, a, s, missed) ==
  \/ s = "none" /\ missed
  \/ a.port = "cfg" /\ s = Say(d)
  \/ a.port = "mon" /\ a.reg = "bank"
       /\ s = IF base = "mon" /\ MonOpen(d) THEN d.bank ELSE "junk"

\* A transfer without a failed write, where the ports may be written to.
LEMMA CleanTransfer ==
  ASSUME Base, Transfer, ~cut', Here # "162", NEW a, a = Head(todo)
  PROVE  /\ ~cut /\ todo' = Tail(todo) /\ Fitting(a)
         /\ chip' = [chip EXCEPT ![Here] = Here1'] /\ Here1' = chip'[Here]
         /\ ChipOk(Here1, Here) /\ ChipOk(Here1', Here)
         /\ Effect(Here1, Here1', a)
         /\ lost \subseteq lost'
         /\ got'.key = got.key /\ (a.op # "get" => got' = got)
         /\ a.op = "get" => \E s : /\ got' = [got EXCEPT ![a.reg] = s]
                                   /\ Answers(Here1', a, s, a.reg \in lost')
<1>1. PICK b, f, v : Moves(b, f, v)
  BY TransferIs
<1>2. /\ a = b /\ f \in Outcome(a) /\ v = ValueRead(a, f)
      /\ chip' = [chip EXCEPT ![Here] = AfterData(a, f)]
      /\ got' = IF a.op = "get" THEN [got EXCEPT ![a.reg] = Stored(a, v)]
                ELSE IF GivesUp(a, f) THEN [got EXCEPT !["key"] = "cut"]
                ELSE got
      /\ todo' = IF GivesUp(a, f) THEN <<>> ELSE Tail(todo)
      /\ cut' = (cut \/ (WriteFailed(a, f) /\ ~Barred(a)))
      /\ lost' = IF v # Missing \/ a.op \notin {"get", "cell"} THEN lost
                 ELSE lost \cup {IF a.op = "get" THEN a.reg ELSE "cell"}
  BY <1>1, Zenon DEF Moves
<1>3. /\ todo # <<>> /\ Here' = Here /\ base' = base
  BY TransferIs
<1>4. TypeInv /\ Queue /\ BoardTyped /\ at \in 1 .. Len(PortPairs) /\ os \in {"windows", "linux"}
  BY DEF Base, TypeInv, BoardTyped, CallTyped
<1>5. Fitting(a)
  BY <1>3, <1>4, HeadFits
<1>6. Proper(a)
  BY <1>5 DEF Fitting
<1>7. /\ a.op \in {"key", "send", "get", "put", "cell"} /\ a.port \in {"cfg", "mon"}
      /\ a.reg \in Byte /\ a.val \in Byte
  BY <1>6 DEF Proper, Request
<1>8. ~cut /\ (~WriteFailed(a, f) \/ Barred(a))
  BY <1>2
<1>9. PICK c, d : c = chip[Here] /\ d = AfterData(a, f)
  OBVIOUS
<1>10. Here \in Pair /\ chip \in [Pair -> ChipType]
  BY <1>4, HereIs DEF BoardTyped
<1>11. ChipOk(c, Here) /\ ChipOk(d, Here)
  BY <1>2, <1>4, <1>6, <1>9, <1>10, AccessOk DEF BoardTyped
<1>12. /\ Here1 = c /\ Here1' = d /\ chip' = [chip EXCEPT ![Here] = d] /\ chip'[Here] = d
  BY <1>2, <1>3, <1>9, <1>10 DEF Here1
<1>13. os' = os
  BY TransferIs
<1>14. ~GivesUp(a, f)
  <2>1. ASSUME GivesUp(a, f)
        PROVE  FALSE
    <3>1. a.op = "key" /\ f = "both"
      BY <2>1 DEF GivesUp
    <3>2. a.port = "cfg"
      BY <1>6, <3>1 DEF Proper
    <3>3. ~Barred(a)
      BY <3>2 DEF Barred
    <3>4. QED
      BY <1>8, <3>1, <3>3 DEF WriteFailed
  <2>2. QED
    BY <2>1
<1>15. c \in ChipType /\ d \in ChipType
  BY <1>11 DEF ChipOk
<1>16. a.op = "put" => /\ a.val # "none"
                       /\ a.port = "mon" => a.reg = "bank"
                       /\ a.port = "cfg" => /\ a.reg \in {"ldn", "lock", "ctl", "bank"}
                                            /\ a.reg = "ldn" => a.val = "mon"
  BY <1>6 DEF Proper
<1>17. Effect(c, d, a)
  <2>1. CASE Barred(a)
    <3>1. a.port = "mon" /\ base = "far"
      BY <1>7, <2>1 DEF Barred
    <3>2. d = c
      BY <1>9, <3>1, Zenon DEF AfterData, AfterIndex, Arrives
    <3>3. QED
      BY <3>1, <3>2 DEF Effect, Visited
  <2>2. CASE ~Barred(a)
    <3>1. f \notin {"first", "both"} /\ (a.op = "put" => f # "second")
      BY <1>8, <2>2 DEF WriteFailed
    <3>2. CASE a.port = "cfg"
      <4>1. PICK i : i = Hear(c, Here, a.reg)
        OBVIOUS
      <4>2. AfterIndex(a, f) = i
        BY <1>9, <3>1, <3>2, <4>1, Zenon DEF AfterIndex, Arrives
      <4>3. CASE a.op = "put"
        <5>1. d = Take(i, a.val)
          BY <1>9, <3>1, <3>2, <4>2, <4>3, Zenon DEF AfterData, Arrives
        <5>2. Written(c, d, a.reg, a.val)
          BY <1>7, <1>11, <1>16, <3>2, <4>1, <4>3, <5>1, PutTurns
        <5>3. QED
          BY <3>2, <4>3, <5>2 DEF Effect
      <4>4. CASE a.op # "put"
        <5>1. d = i
          BY <1>9, <3>1, <3>2, <4>2, <4>4, Zenon DEF AfterData, Arrives
        <5>2. Heard(c, d, Here, a.reg)
          BY <1>7, <1>11, <4>1, <5>1, HearTurns, Zenon DEF Heard
        <5>3. QED
          BY <3>2, <4>4, <5>2 DEF Effect
      <4>5. QED
        BY <4>3, <4>4
    <3>3. CASE a.port = "mon" /\ base # "mon"
      <4>1. d = c
        BY <1>9, <3>3, Zenon DEF AfterData, AfterIndex, Arrives
      <4>2. QED
        BY <3>3, <4>1 DEF Effect, Visited
    <3>4. CASE a.port = "mon" /\ base = "mon"
      <4>1. PICK i : i = MonHear(c, a.reg)
        OBVIOUS
      <4>2. AfterIndex(a, f) = i
        BY <1>9, <3>1, <3>4, <4>1, Zenon DEF AfterIndex, Arrives
      <4>3. /\ i \in ChipType /\ i.kind = c.kind /\ i.on = c.on /\ i.mode = c.mode
            /\ i.key = c.key /\ i.ldn = c.ldn /\ i.lock = c.lock /\ i.bank = c.bank
            /\ i.hurt = c.hurt /\ i.mon = IF MonOpen(c) THEN a.reg ELSE c.mon
        BY <1>7, <1>15, <4>1, MonTurns, ZenonT(60)
      <4>4. MonOpen(i) = MonOpen(c)
        BY <4>3 DEF MonOpen
      <4>5. CASE a.op = "put"
        <5>1. d = MonTake(i, a.val)
          BY <1>9, <3>1, <3>4, <4>2, <4>5, Zenon DEF AfterData, Arrives
        <5>2. /\ d.kind = i.kind /\ d.on = i.on /\ d.mode = i.mode
              /\ d.key = i.key /\ d.ldn = i.ldn /\ d.lock = i.lock
              /\ d.bank = IF MonOpen(i) /\ i.mon = "bank" THEN a.val ELSE i.bank
              /\ d.hurt = IF ~MonOpen(i) \/ i.mon = "bank" THEN i.hurt
                          ELSE i.hurt \cup {i.mon}
          <6>1. i \in ChipType
            BY <4>3
          <6>2. PICK w \in Byte : w = a.val
            BY <1>7
          <6>3. d = MonTake(i, w)
            BY <5>1, <6>2
          <6>4. PICK e : e = MonTake(i, w)
            OBVIOUS
          <6>5. /\ e.kind = i.kind /\ e.on = i.on /\ e.mode = i.mode
                /\ e.key = i.key /\ e.ldn = i.ldn /\ e.lock = i.lock
                /\ e.bank = IF MonOpen(i) /\ i.mon = "bank" THEN w ELSE i.bank
                /\ e.hurt = IF ~MonOpen(i) \/ i.mon = "bank" THEN i.hurt
                            ELSE i.hurt \cup {i.mon}
            BY <6>1, <6>4, MonTurns
          <6>6. QED
            BY <6>2, <6>3, <6>4, <6>5
        <5>3. a.reg = "bank"
          BY <1>16, <3>4, <4>5
        <5>4. QED
          BY <3>4, <4>3, <4>4, <4>5, <5>2, <5>3 DEF Effect, Visited
      <4>6. CASE a.op # "put"
        <5>1. d = i
          BY <1>9, <3>1, <3>4, <4>2, <4>6, Zenon DEF AfterData, Arrives
        <5>2. QED
          BY <3>4, <4>3, <4>6, <5>1 DEF Effect, Visited
      <4>7. QED
        BY <4>5, <4>6
    <3>5. QED
      BY <1>7, <3>2, <3>3, <3>4
  <2>3. QED
    BY <2>1, <2>2
<1>18. ASSUME a.op = "get"
       PROVE  Answers(d, a, Stored(a, v), a.reg \in lost')
  <2>1. CASE v = Missing
    <3>1. a.reg \in lost'
      BY <1>2, <1>18, <2>1
    <3>2. Stored(a, v) = "none"
      BY <2>1 DEF Stored, Missing
    <3>3. QED
      BY <3>1, <3>2 DEF Answers
  <2>2. CASE v # Missing
    <3>1. f \notin {"second", "both"}
      BY <1>2, <2>2 DEF ValueRead
    <3>2. AfterIndex(a, f) = d
      BY <1>9, <1>18, Zenon DEF AfterData
    <3>3. CASE a.port = "cfg"
      <4>1. v = <<"cfg", Say(d)>>
        BY <1>2, <3>1, <3>2, <3>3, Zenon DEF ValueRead, Arrives
      <4>2. Stored(a, v) = Say(d)
        BY <3>3, <4>1 DEF Stored
      <4>3. QED
        BY <3>3, <4>2 DEF Answers
    <3>4. CASE a.port = "mon" /\ base # "mon"
      <4>1. v = Float
        BY <1>2, <3>1, <3>4, Zenon DEF ValueRead, Arrives
      <4>2. Stored(a, v) = "junk"
        BY <3>4, <4>1 DEF Stored, Float, Missing
      <4>3. a.reg = "bank"
        BY <1>6, <1>18, <3>4 DEF Proper
      <4>4. QED
        BY <3>4, <4>2, <4>3 DEF Answers
    <3>5. CASE a.port = "mon" /\ base = "mon"
      <4>1. v = MonSay(d)
        BY <1>2, <3>1, <3>2, <3>5, Zenon DEF ValueRead, Arrives
      <4>2. a.reg = "bank"
        BY <1>6, <1>18, <3>5 DEF Proper
      <4>3. Visited(c, d, a)
        BY <1>17, <3>5 DEF Effect
      <4>4. MonOpen(d) = MonOpen(c)
        BY <4>3 DEF Visited, MonOpen
      <4>5. Stored(a, v) = IF MonOpen(d) THEN d.bank ELSE "junk"
        <5>1. CASE MonOpen(d)
          <6>1. d.mon = "bank"
            BY <1>18, <3>5, <4>2, <4>3, <4>4, <5>1 DEF Visited
          <6>2. v = <<d.bank, "bank">>
            BY <4>1, <5>1, <6>1 DEF MonSay
          <6>3. v[1] = d.bank /\ v[2] = "bank"
            BY <6>2
          <6>4. QED
            BY <2>2, <3>5, <5>1, <6>3, Zenon DEF Stored
        <5>2. CASE ~MonOpen(d)
          <6>1. v = Float
            BY <4>1, <5>2 DEF MonSay
          <6>2. v[2] = "float"
            BY <6>1 DEF Float
          <6>3. Stored(a, v) = "junk"
            BY <2>2, <3>5, <6>2 DEF Stored
          <6>4. QED
            BY <5>2, <6>3
        <5>3. QED
          BY <5>1, <5>2
      <4>6. QED
        BY <3>5, <4>2, <4>5 DEF Answers
    <3>6. QED
      BY <1>7, <3>3, <3>4, <3>5
  <2>3. QED
    BY <2>1, <2>2
<1>19. got'.key = got.key
  <2>1. CASE a.op = "get"
    <3>1. a.reg # "key" /\ got' = [got EXCEPT ![a.reg] = Stored(a, v)]
      BY <1>2, <1>6, <2>1 DEF Proper
    <3>2. got \in [Slot -> Byte] /\ "key" \in Slot
      BY <1>4, NothingIs DEF TypeInv, CallTyped
    <3>3. QED
      BY <3>1, <3>2
  <2>2. CASE a.op # "get"
    BY <1>2, <1>14, <2>2
  <2>3. QED
    BY <2>1, <2>2
<1>20. QED
  BY <1>2, <1>5, <1>8, <1>11, <1>12, <1>14, <1>17, <1>18, <1>19

-----------------------------------------------------------------------------
(* Configuration mode. *)

\* The families' keys and what follows them, at a chip that hears them.
LEMMA IteListens ==
  ASSUME NEW c, NEW d, NEW p, NEW b, NEW n, NEW m, c.mode \in {"run", "config"},
         c.key \in 0 .. 3, IteTurn(c, d, p, b), IteHeard(c, 6 - n),
         \/ n = 6 /\ m = 5 /\ b = "87"
         \/ n = 5 /\ m = 4 /\ b = "01"
         \/ n = 4 /\ m = 3 /\ b = "55"
         \/ n = 3 /\ m = 2 /\ b = IF p = "4E" THEN "AA" ELSE "55"
         \/ n = 2 /\ m = 1 /\ b = "id0"
         \/ n = 1 /\ m = 0 /\ b = "id1"
  PROVE  IteHeard(d, 6 - m)
BY DEF IteTurn, IteHeard

LEMMA NctListens ==
  ASSUME NEW c, NEW d, NEW b, NEW k \in 0 .. 3, c.mode \in {"run", "config"},
         c.key \in 0 .. 1, NctTurn(c, d, b), NctHeard(c, k),
         \/ k = 0 /\ b = "87"
         \/ k = 1 /\ b = "87"
         \/ k \in 2 .. 3 /\ b \notin {"87", "AA"}
  PROVE  NctHeard(d, k + 1)
BY DEF NctTurn, NctHeard

\* And at one that does not.
LEMMA NctDeaf ==
  ASSUME NEW c, NEW d, NEW p, NEW b, NEW n, NEW m, NctTurn(c, d, b), Deaf(c, n = 5),
         c.key \in 0 .. 3,
         \/ n = 6 /\ m = 5 /\ b = "87"
         \/ n = 5 /\ m = 4 /\ b = "01"
         \/ n = 4 /\ m = 3 /\ b = "55"
         \/ n = 3 /\ m = 2 /\ b = IF p = "4E" THEN "AA" ELSE "55"
         \/ n = 2 /\ m = 1 /\ b = "id0"
         \/ n = 1 /\ m = 0 /\ b = "id1"
  PROVE  Deaf(d, m = 5)
BY DEF NctTurn, Deaf

LEMMA IteDeaf ==
  ASSUME NEW c, NEW d, NEW p, NEW b, NEW n, NEW m, IteTurn(c, d, p, b), c.key \in 0 .. 3,
         Deaf(c, n \in 2 .. 3),
         \/ n = 4 /\ m = 3 /\ b = "87"
         \/ n = 3 /\ m = 2 /\ b = "87"
         \/ n = 2 /\ m = 1 /\ b = "id0"
         \/ n = 1 /\ m = 0 /\ b = "id1"
  PROVE  Deaf(d, m \in 2 .. 3)
BY DEF IteTurn, Deaf

LEMMA DetectDeaf ==
  ASSUME NEW c, NEW d, NEW p, NEW b, NEW n, NEW m, IteTurn(c, d, p, b), c.key \in 0 .. 3,
         Deaf(c, n \in 3 .. 4),
         \/ n = 5 /\ m = 4 /\ b = "87"
         \/ n = 4 /\ m = 3 /\ b = "87"
         \/ n = 3 /\ m = 2 /\ b = "id0"
         \/ n = 2 /\ m = 1 /\ b = "id1"
         \/ n = 1 /\ m = 0 /\ b = "AA"
  PROVE  Deaf(d, m \in 3 .. 4)
BY DEF IteTurn, Deaf

\* A quiet chip that hears nothing is deaf.
LEMMA QuietDeaf ==
  ASSUME NEW c, NEW s, Quiet(c)
  PROVE  Deaf(c, s)
BY DEF Quiet, Deaf

\* A chip in configuration mode that hears a register's index.
LEMMA StaysInside ==
  ASSUME NEW c, NEW d, NEW p, NEW b, c.mode = "config", c.kind # "none",
         Heard(c, d, p, b), b # "AA"
  PROVE  d.mode = "config"
<1>1. CASE c.kind = "ite"
  BY <1>1 DEF Heard, IteTurn
<1>2. CASE c.kind \notin {"ite", "none"}
  BY <1>2 DEF Heard, NctTurn
<1>3. QED
  BY <1>1, <1>2

\* And one that hears the byte that ends it.
LEMMA GoesOut ==
  ASSUME NEW c, NEW d, NEW p, c.mode = "config", c.kind \notin {"ite", "none"},
         Heard(c, d, p, "AA")
  PROVE  Quiet(d)
<1>1. NctTurn(c, d, "AA")
  BY DEF Heard
<1>2. QED
  BY <1>1 DEF NctTurn, Quiet

\* Which chips are tamed.
LEMMA TamedSame ==
  ASSUME TypeInv, Transfer, TypeInv'
  PROVE  /\ Calm' = Calm /\ Tamed(Here, tried)' = Tamed(Here, tried)
         /\ \A p \in Pair : Tamed(p, tried)' = Tamed(p, tried)
<1>1. /\ was' = was /\ tried' = tried /\ family' = family /\ Here' = Here
      /\ os' = os /\ at' = at
  BY TransferIs
<1>2. Here \in Pair
  BY HereIs DEF TypeInv, BoardTyped, CallTyped
<1>3. \A p \in Pair : chip'[p].kind = chip[p].kind
  BY <1>1 DEF TypeInv, BoardTyped
<1>4. \A p \in Pair : Tamed(p, tried)' = Tamed(p, tried)
  BY <1>1, <1>3 DEF Tamed
<1>5. Calm' = Calm
  BY <1>1, <1>2, <1>3 DEF Calm, Tamed
<1>6. Tamed(Here, tried)' = Tamed(Here, tried)
  BY <1>1, <1>2, <1>3 DEF Tamed
<1>7. QED
  BY <1>4, <1>5, <1>6

\* What a transfer that did not fail to write does, by names that stay.
LEMMA CleanSteps ==
  ASSUME Base, Transfer, ~cut', Here # "162"
  PROVE  \E a, c, d :
           /\ a = Head(todo) /\ c = Here1 /\ d = Here1'
           /\ ChipOk(c, Here) /\ ChipOk(d, Here) /\ Effect(c, d, a) /\ Fitting(a)
           /\ c.mode \in {"run", "config"} /\ c.key \in 0 .. 3 /\ c.kind \in Kind
           /\ c.kind \notin {"ite", "none"} => c.key <= 1
           /\ d.kind = c.kind
<1>1. PICK a, c, d : a = Head(todo) /\ c = Here1 /\ d = Here1'
  OBVIOUS
<1>2. ChipOk(c, Here) /\ ChipOk(d, Here) /\ Effect(c, d, a) /\ Fitting(a)
  BY <1>1, CleanTransfer
<1>3. c.mode \in {"run", "config"} /\ c.key \in 0 .. 3 /\ c.kind \in Kind
  BY <1>2, ChipFields DEF ChipOk
<1>4. c.kind \notin {"ite", "none"} => c.key <= 1
  BY <1>2, <1>3, KeyIs DEF ChipOk
<1>5. d.kind = c.kind
  BY <1>1, TransferKeeps DEF Base
<1>6. QED
  BY <1>1, <1>2, <1>3, <1>4, <1>5

LEMMA ModesIteKeyed ==
  ASSUME Base, Modes, Transfer, ~cut', ~cut, Here # "162",
         pc \in {"ite", "probe"}, family = "ite"
  PROVE  ModeAfter(Here1, Left)'
<1>1. PICK a, c, d :
        /\ a = Head(todo) /\ c = Here1 /\ d = Here1'
        /\ ChipOk(c, Here) /\ ChipOk(d, Here) /\ Effect(c, d, a) /\ Fitting(a)
        /\ c.mode \in {"run", "config"} /\ c.key \in 0 .. 3 /\ c.kind \in Kind
        /\ c.kind \notin {"ite", "none"} => c.key <= 1
        /\ d.kind = c.kind
  BY CleanSteps
<1>2. PICK n, m, k : n = Left /\ m = Left' /\ k = IF Here = "4E" THEN "AA" ELSE "55"
  OBVIOUS
<1>3. todo # <<>> /\ pc' = pc /\ family' = family /\ Here' = Here
  BY TransferIs
<1>4. todo \in Ends6(Key("87"), Key("01"), Key("55"), Key(k),
                    Get("cfg", "id0"), Get("cfg", "id1"))
  BY <1>2 DEF Base, Queue, IteKeyed
<1>5. todo' = Tail(todo)
  BY CleanTransfer
<1>6. \/ n = 6 /\ m = 5 /\ a = Key("87")
      \/ n = 5 /\ m = 4 /\ a = Key("01")
      \/ n = 4 /\ m = 3 /\ a = Key("55")
      \/ n = 3 /\ m = 2 /\ a = Key(k)
      \/ n = 2 /\ m = 1 /\ a = Get("cfg", "id0")
      \/ n = 1 /\ m = 0 /\ a = Get("cfg", "id1")
  BY <1>1, <1>2, <1>3, <1>4, <1>5, Next6 DEF Left
<1>7. Key(k).op = "key" /\ Key(k).port = "cfg" /\ Key(k).reg = k
  BY OpsAre
<1>8. PICK b : b = a.reg
  OBVIOUS
<1>9. \/ n = 6 /\ m = 5 /\ b = "87"
      \/ n = 5 /\ m = 4 /\ b = "01"
      \/ n = 4 /\ m = 3 /\ b = "55"
      \/ n = 3 /\ m = 2 /\ b = IF Here = "4E" THEN "AA" ELSE "55"
      \/ n = 2 /\ m = 1 /\ b = "id0"
      \/ n = 1 /\ m = 0 /\ b = "id1"
  BY <1>2, <1>6, <1>7, <1>8, OwnOps
<1>10. a.port = "cfg" /\ a.op # "put"
  BY <1>6, <1>7, OwnOps
<1>11. Heard(c, d, Here, b)
  BY <1>1, <1>8, <1>10 DEF Effect
<1>12. ModeAfter(c, n)
  BY <1>1, <1>2 DEF Modes
<1>13. Hears(family) = {"ite"}
  BY DEF Hears
<1>14. Calm' = Calm
  BY TamedSame, TransferBase DEF Base
<1>15. CASE c.kind = "ite"
  <2>1. IteHeard(c, 6 - n)
    BY <1>12, <1>13, <1>15 DEF ModeAfter
  <2>2. IteTurn(c, d, Here, b)
    BY <1>11, <1>15 DEF Heard
  <2>3. IteHeard(d, 6 - m)
    BY <1>1, <1>9, <2>1, <2>2, IteListens
  <2>4. QED
    BY <1>1, <1>2, <1>3, <1>13, <1>15, <2>3 DEF ModeAfter
<1>16. ASSUME c.kind # "ite", Calm
       PROVE  Deaf(d, m = 5)
  <2>1. CASE c.kind = "none"
    <3>1. Quiet(d)
      BY <1>1, <2>1 DEF ChipOk
    <3>2. QED
      BY <3>1, QuietDeaf
  <2>2. CASE c.kind # "none"
    <3>1. NctTurn(c, d, b)
      BY <1>11, <1>16, <2>2 DEF Heard
    <3>2. Deaf(c, n = 5)
      BY <1>12, <1>13, <1>16 DEF ModeAfter
    <3>3. QED
      BY <1>1, <1>9, <3>1, <3>2, NctDeaf
  <2>3. QED
    BY <2>1, <2>2
<1>17. CASE c.kind # "ite"
  BY <1>1, <1>2, <1>3, <1>13, <1>14, <1>16, <1>17 DEF ModeAfter
<1>18. QED
  BY <1>15, <1>17

LEMMA ModesNctKeyed ==
  ASSUME Base, Modes, Transfer, ~cut', ~cut, Here # "162", pc = "probe", family = "nct"
  PROVE  ModeAfter(Here1, Left)'
<1>1. PICK a, c, d :
        /\ a = Head(todo) /\ c = Here1 /\ d = Here1'
        /\ ChipOk(c, Here) /\ ChipOk(d, Here) /\ Effect(c, d, a) /\ Fitting(a)
        /\ c.mode \in {"run", "config"} /\ c.key \in 0 .. 3 /\ c.kind \in Kind
        /\ c.kind \notin {"ite", "none"} => c.key <= 1
        /\ d.kind = c.kind
  BY CleanSteps
<1>2. PICK n, m : n = Left /\ m = Left'
  OBVIOUS
<1>3. todo # <<>> /\ pc' = pc /\ family' = family /\ Here' = Here
  BY TransferIs
<1>4. todo \in Ends4(Key("87"), Key("87"), Get("cfg", "id0"), Get("cfg", "id1"))
  BY DEF Base, Queue, NctKeyed
<1>5. todo' = Tail(todo)
  BY CleanTransfer
<1>6. \/ n = 4 /\ m = 3 /\ a = Key("87")
      \/ n = 3 /\ m = 2 /\ a = Key("87")
      \/ n = 2 /\ m = 1 /\ a = Get("cfg", "id0")
      \/ n = 1 /\ m = 0 /\ a = Get("cfg", "id1")
  BY <1>1, <1>2, <1>3, <1>4, <1>5, Next4 DEF Left
<1>7. PICK b : b = a.reg
  OBVIOUS
<1>8. \/ n = 4 /\ m = 3 /\ b = "87"
      \/ n = 3 /\ m = 2 /\ b = "87"
      \/ n = 2 /\ m = 1 /\ b = "id0"
      \/ n = 1 /\ m = 0 /\ b = "id1"
  BY <1>6, <1>7, OwnOps
<1>9. a.port = "cfg" /\ a.op # "put"
  BY <1>6, OwnOps
<1>10. Heard(c, d, Here, b)
  BY <1>1, <1>7, <1>9 DEF Effect
<1>11. ModeAfter(c, n)
  BY <1>1, <1>2 DEF Modes
<1>12. Hears(family) = {"nct", "older", "unknown"}
  BY DEF Hears
<1>13. Calm' = Calm
  BY TamedSame, TransferBase DEF Base
<1>14. CASE c.kind \notin {"ite", "none"}
  <2>1. c.kind \in Hears(family)
    BY <1>1, <1>12, <1>14 DEF Kind
  <2>2. NctHeard(c, 4 - n)
    BY <1>11, <2>1 DEF ModeAfter
  <2>3. NctTurn(c, d, b)
    BY <1>10, <1>14 DEF Heard
  <2>4. c.key \in 0 .. 1
    BY <1>1, <1>14
  <2>5. NctHeard(d, 4 - m)
    <3>1. PICK k : k = 4 - n
      OBVIOUS
    <3>2. NctHeard(d, k + 1)
      BY <1>1, <1>8, <2>2, <2>3, <2>4, <3>1, NctListens
    <3>3. k + 1 = 4 - m
      BY <1>8, <3>1
    <3>4. QED
      BY <3>2, <3>3
  <2>6. QED
    BY <1>1, <1>2, <1>3, <2>1, <2>5 DEF ModeAfter
<1>15. ASSUME c.kind \in {"ite", "none"}, Calm
       PROVE  Deaf(d, m \in 2 .. 3)
  <2>1. CASE c.kind = "none"
    <3>1. Quiet(d)
      BY <1>1, <2>1 DEF ChipOk
    <3>2. QED
      BY <3>1, QuietDeaf
  <2>2. CASE c.kind = "ite"
    <3>1. IteTurn(c, d, Here, b)
      BY <1>10, <1>15, <2>2 DEF Heard
    <3>2. Deaf(c, n \in 2 .. 3)
      BY <1>11, <1>12, <1>15, <2>2 DEF ModeAfter
    <3>3. QED
      BY <1>1, <1>8, <3>1, <3>2, IteDeaf
  <2>3. QED
    BY <1>15, <2>1, <2>2
<1>16. CASE c.kind \in {"ite", "none"}
  BY <1>1, <1>2, <1>3, <1>12, <1>13, <1>15, <1>16 DEF ModeAfter
<1>17. QED
  BY <1>14, <1>16

\* A chip that is told to leave configuration mode.
LEMMA ToldToLeave ==
  ASSUME NEW c, NEW d, Written(c, d, "ctl", "leave"), c.mode \in {"run", "config"}
  PROVE  c.mode = "run" \/ c.kind = "ite" => Quiet(d)
BY DEF Written, Quiet

LEMMA ModesDetect ==
  ASSUME Base, Modes, Transfer, ~cut', ~cut, Here # "162", pc = "detect"
  PROVE  ModeAfter(Here1, Left)'
<1>1. PICK a, c, d :
        /\ a = Head(todo) /\ c = Here1 /\ d = Here1'
        /\ ChipOk(c, Here) /\ ChipOk(d, Here) /\ Effect(c, d, a) /\ Fitting(a)
        /\ c.mode \in {"run", "config"} /\ c.key \in 0 .. 3 /\ c.kind \in Kind
        /\ c.kind \notin {"ite", "none"} => c.key <= 1
        /\ d.kind = c.kind
  BY CleanSteps
<1>2. PICK n, m : n = Left /\ m = Left'
  OBVIOUS
<1>3. todo # <<>> /\ pc' = pc /\ family' = family /\ Here' = Here /\ was' = was
  BY TransferIs
<1>4. todo \in Detected /\ family = "nct"
  BY DEF Base, Queue
<1>5. todo' = Tail(todo)
  BY CleanTransfer
<1>6. \/ n = 6 /\ m = 5 /\ a = Leave
      \/ n = 5 /\ m = 4 /\ a = Key("87")
      \/ n = 4 /\ m = 3 /\ a = Key("87")
      \/ n = 3 /\ m = 2 /\ a = Get("cfg", "id0")
      \/ n = 2 /\ m = 1 /\ a = Get("cfg", "id1")
      \/ n = 1 /\ m = 0 /\ a = Send("AA")
  BY <1>1, <1>2, <1>3, <1>4, <1>5, Next6 DEF Left, Detected
<1>7. ModeAfter(c, n)
  BY <1>1, <1>2 DEF Modes
<1>8. Hears(family) = {"nct", "older", "unknown"}
  BY <1>4 DEF Hears
<1>9. CASE n = 6
  <2>1. Written(c, d, "ctl", "leave") /\ m = 5
    BY <1>1, <1>6, <1>9, OwnOps DEF Effect
  <2>2. c.mode = "run" \/ c.kind = "ite" => Quiet(d)
    BY <1>1, <2>1, ToldToLeave
  <2>3. CASE c.kind = "ite"
    <3>1. Deaf(d, m \in 3 .. 4)
      BY <2>2, <2>3, QuietDeaf
    <3>2. QED
      BY <1>1, <1>2, <1>3, <1>8, <2>1, <2>3, <3>1 DEF ModeAfter
  <2>4. CASE c.kind # "ite"
    <3>1. c.kind \in Hears(family) => (Quiet(was[Here]) => Quiet(c))
      BY <1>7, <1>9 DEF ModeAfter
    <3>2. c.kind \in Hears(family) => (Quiet(was[Here]) => Quiet(d))
      BY <2>2, <3>1 DEF Quiet
    <3>3. QED
      BY <1>1, <1>2, <1>3, <1>8, <2>1, <2>4, <3>2 DEF ModeAfter
  <2>5. QED
    BY <2>3, <2>4
<1>10. CASE n # 6
  <2>1. PICK b : b = a.reg
    OBVIOUS
  <2>2. \/ n = 5 /\ m = 4 /\ b = "87"
        \/ n = 4 /\ m = 3 /\ b = "87"
        \/ n = 3 /\ m = 2 /\ b = "id0"
        \/ n = 2 /\ m = 1 /\ b = "id1"
        \/ n = 1 /\ m = 0 /\ b = "AA"
    BY <1>6, <1>10, <2>1, OwnOps
  <2>3. a.port = "cfg" /\ a.op # "put"
    BY <1>6, <1>10, OwnOps
  <2>4. Heard(c, d, Here, b)
    BY <1>1, <2>1, <2>3 DEF Effect
  <2>5. CASE c.kind \notin {"ite", "none"}
    <3>1. c.kind \in Hears(family)
      BY <1>1, <1>8, <2>5 DEF Kind
    <3>2. NctTurn(c, d, b)
      BY <2>4, <2>5 DEF Heard
    <3>3. n \in 1 .. 4 => NctHeard(c, 5 - n)
      BY <1>7, <3>1 DEF ModeAfter
    <3>4. CASE n # 1
      <4>1. PICK k : k = 5 - n
        OBVIOUS
      <4>2. NctHeard(c, k)
        <5>1. CASE n = 5
          BY <4>1, <5>1 DEF NctHeard
        <5>2. QED
          BY <2>2, <3>3, <4>1, <5>1
      <4>3. NctHeard(d, k + 1)
        BY <1>1, <2>2, <2>5, <3>2, <3>4, <4>1, <4>2, NctListens
      <4>4. k + 1 = 5 - m /\ m \in 1 .. 4
        BY <2>2, <3>4, <4>1
      <4>5. NctHeard(d, 5 - m)
        BY <4>3, <4>4
      <4>6. QED
        BY <1>1, <1>2, <1>3, <3>1, <4>4, <4>5 DEF ModeAfter
    <3>5. CASE n = 1
      <4>1. c.mode = "config"
        BY <3>3, <3>5 DEF NctHeard
      <4>2. m = 0 /\ b = "AA"
        BY <2>2, <3>5
      <4>3. Quiet(d)
        BY <2>4, <2>5, <4>1, <4>2, GoesOut
      <4>4. QED
        BY <1>1, <1>2, <1>3, <3>1, <4>2, <4>3 DEF ModeAfter
    <3>6. QED
      BY <3>4, <3>5
  <2>6. CASE c.kind = "ite"
    <3>1. IteTurn(c, d, Here, b)
      BY <2>4, <2>6 DEF Heard
    <3>2. Deaf(c, n \in 3 .. 4)
      BY <1>7, <1>8, <1>10, <2>6 DEF ModeAfter
    <3>3. Deaf(d, m \in 3 .. 4)
      BY <1>1, <2>2, <3>1, <3>2, DetectDeaf
    <3>4. m # 6
      BY <2>2
    <3>5. QED
      BY <1>1, <1>2, <1>3, <1>8, <2>6, <3>3, <3>4 DEF ModeAfter
  <2>7. CASE c.kind = "none"
    BY <1>1, <1>3, <1>8, <2>7 DEF ModeAfter
  <2>8. QED
    BY <2>5, <2>6, <2>7
<1>11. QED
  BY <1>9, <1>10

LEMMA ModesLeave ==
  ASSUME Base, Modes, Transfer, ~cut', ~cut, Here # "162", pc = "leave"
  PROVE  ModeAfter(Here1, Left)'
<1>1. PICK a, c, d :
        /\ a = Head(todo) /\ c = Here1 /\ d = Here1'
        /\ ChipOk(c, Here) /\ ChipOk(d, Here) /\ Effect(c, d, a) /\ Fitting(a)
        /\ c.mode \in {"run", "config"} /\ c.key \in 0 .. 3 /\ c.kind \in Kind
        /\ c.kind \notin {"ite", "none"} => c.key <= 1
        /\ d.kind = c.kind
  BY CleanSteps
<1>2. PICK n, m : n = Left /\ m = Left'
  OBVIOUS
<1>3. todo # <<>> /\ pc' = pc /\ family' = family /\ Here' = Here /\ was' = was
  BY TransferIs
<1>4. todo \in IF family = "ite" THEN Ends1(Leave) ELSE Ends1(Send("AA"))
  BY DEF Base, Queue
<1>5. todo' = Tail(todo)
  BY CleanTransfer
<1>6. n = 1 /\ m = 0 /\ a = IF family = "ite" THEN Leave ELSE Send("AA")
  BY <1>1, <1>2, <1>3, <1>4, <1>5, Next1 DEF Left
<1>7. ModeAfter(c, n)
  BY <1>1, <1>2 DEF Modes
<1>8. Calm' = Calm
  BY TamedSame, TransferBase DEF Base
<1>9. c.kind \in Hears(family) => c.mode = "config"
  BY <1>6, <1>7 DEF ModeAfter
<1>10. c.kind \notin Hears(family) /\ Calm => Quiet(c)
  BY <1>6, <1>7 DEF ModeAfter
<1>11. c.kind \in Hears(family) \/ Calm => Quiet(d)
  <2>1. CASE family = "ite"
    <3>1. Written(c, d, "ctl", "leave")
      BY <1>1, <1>6, <2>1, OwnOps DEF Effect
    <3>2. c.mode = "run" \/ c.kind = "ite" => Quiet(d)
      BY <1>1, <3>1, ToldToLeave
    <3>3. QED
      BY <1>10, <2>1, <3>2 DEF Hears, Quiet
  <2>2. CASE family = "nct"
    <3>1. Heard(c, d, Here, "AA")
      BY <1>1, <1>6, <2>2, OwnOps DEF Effect
    <3>2. CASE c.kind \in Hears(family)
      BY <1>9, <2>2, <3>1, <3>2, GoesOut DEF Hears
    <3>3. ASSUME c.kind \notin Hears(family), Calm
          PROVE  Quiet(d)
      <4>1. Quiet(c) /\ c.kind \in {"ite", "none"}
        BY <1>1, <1>10, <2>2, <3>3 DEF Hears, Kind
      <4>2. CASE c.kind = "none"
        BY <1>1, <4>2 DEF ChipOk
      <4>3. CASE c.kind = "ite"
        BY <3>1, <4>1, <4>3 DEF Heard, IteTurn, Quiet
      <4>4. QED
        BY <4>1, <4>2, <4>3
    <3>4. QED
      BY <3>2, <3>3
  <2>3. QED
    BY <2>1, <2>2 DEF Base, TypeInv, CallTyped
<1>12. QED
  BY <1>1, <1>2, <1>3, <1>6, <1>8, <1>11 DEF ModeAfter

\* A chip in configuration mode stays there through accesses to registers.
LEMMA StaysThrough ==
  ASSUME NEW c, NEW d, NEW a, c.mode = "config", c.kind # "none", Effect(c, d, a),
         a.port = "cfg", a.reg # "AA", a.op = "put" => a.reg # "ctl"
  PROVE  d.mode = "config"
<1>1. CASE a.op = "put"
  BY <1>1 DEF Effect, Written
<1>2. CASE a.op # "put"
  <2>1. Heard(c, d, Here, a.reg)
    BY <1>2 DEF Effect
  <2>2. PICK r : r = a.reg
    OBVIOUS
  <2>3. QED
    BY <2>1, <2>2, StaysInside
<1>3. QED
  BY <1>1, <1>2

LEMMA ModesFound ==
  ASSUME Base, Modes, Transfer, ~cut', ~cut, Here # "162", Finding,
         family = "ite"
  PROVE  ModeAfter(Here1, Left)'
<1>1. PICK a, c, d :
        /\ a = Head(todo) /\ c = Here1 /\ d = Here1'
        /\ ChipOk(c, Here) /\ ChipOk(d, Here) /\ Effect(c, d, a) /\ Fitting(a)
        /\ c.mode \in {"run", "config"} /\ c.key \in 0 .. 3 /\ c.kind \in Kind
        /\ c.kind \notin {"ite", "none"} => c.key <= 1
        /\ d.kind = c.kind
  BY CleanSteps
<1>2. PICK n, m : n = Left /\ m = Left'
  OBVIOUS
<1>3. todo # <<>> /\ pc' = pc /\ family' = family /\ Here' = Here
  BY TransferIs
<1>4. todo \in FoundThen(Leave) /\ c.kind = "ite"
  BY <1>1 DEF Base, Queue, Speaks, Finding
<1>5. todo' = Tail(todo)
  BY CleanTransfer
<1>11. PICK w : w = Put("cfg", "ldn", "mon")
  OBVIOUS
<1>12. todo \in Ends5(w, Get("cfg", "active"), Get("cfg", "base0"), Get("cfg", "base1"),
                      Leave)
  BY <1>4, <1>11 DEF FoundThen
<1>6. \/ n = 5 /\ m = 4 /\ a = w
      \/ n = 4 /\ m = 3 /\ a = Get("cfg", "active")
      \/ n = 3 /\ m = 2 /\ a = Get("cfg", "base0")
      \/ n = 2 /\ m = 1 /\ a = Get("cfg", "base1")
      \/ n = 1 /\ m = 0 /\ a = Leave
  BY <1>1, <1>2, <1>3, <1>5, <1>12, Next5 DEF Left
<1>7. ModeAfter(c, n)
  BY <1>1, <1>2 DEF Modes
<1>14. IF n >= 1 THEN c.mode = "config" ELSE Quiet(c)
  BY <1>7, Zenon DEF ModeAfter, Finding
<1>8. c.mode = "config"
  BY <1>6, <1>14
<1>9. ASSUME n = 1
      PROVE  ~(m >= 1) /\ Quiet(d)
  <2>1. Written(c, d, "ctl", "leave")
    BY <1>1, <1>6, <1>9, OwnOps DEF Effect
  <2>2. Quiet(d)
    BY <1>1, <1>4, <2>1, ToldToLeave
  <2>3. ~(m >= 1)
    BY <1>6, <1>9
  <2>4. QED
    BY <2>2, <2>3
<1>10. ASSUME n # 1
       PROVE  m >= 1 /\ d.mode = "config"
  <2>1. a.port = "cfg" /\ a.reg \notin {"AA", "ctl"}
    BY <1>6, <1>10, <1>11, OwnOps, OpsAre
  <2>2. d.mode = "config"
    BY <1>1, <1>4, <1>8, <2>1, StaysThrough
  <2>3. m >= 1
    BY <1>6, <1>10
  <2>4. QED
    BY <2>2, <2>3
<1>13. IF m >= 1 THEN d.mode = "config" ELSE Quiet(d)
  BY <1>9, <1>10
<1>15. QED
  BY <1>1, <1>2, <1>3, <1>13, Zenon DEF ModeAfter, Finding

\* The lock register is written and the chip is left.
LEMMA LockingModes ==
  ASSUME Base, Transfer, ~cut', Here # "162", Locking, Here1.mode = "config",
         Here1.kind \notin {"ite", "none"}
  PROVE  \/ Left' = 1 /\ Here1'.mode = "config" /\ todo' = <<Send("AA")>>
         \/ Left' = 0 /\ Quiet(Here1') /\ todo' = <<>>
<1>1. PICK a, c, d :
        /\ a = Head(todo) /\ c = Here1 /\ d = Here1'
        /\ ChipOk(c, Here) /\ ChipOk(d, Here) /\ Effect(c, d, a) /\ Fitting(a)
        /\ c.mode \in {"run", "config"} /\ c.key \in 0 .. 3 /\ c.kind \in Kind
        /\ c.kind \notin {"ite", "none"} => c.key <= 1
        /\ d.kind = c.kind
  BY CleanSteps
<1>2. todo # <<>> /\ todo' = Tail(todo)
  BY TransferIs, CleanTransfer
<1>3. CASE /\ todo = <<Send("AA")>> /\ Head(todo) = Send("AA") /\ Tail(todo) = <<>>
           /\ Left = 1
  <2>1. Heard(c, d, Here, "AA")
    BY <1>1, <1>3, OwnOps DEF Effect
  <2>2. Quiet(d)
    BY <1>1, <2>1, GoesOut
  <2>3. Left' = 0
    BY <1>2, <1>3 DEF Left, Size
  <2>4. QED
    BY <1>1, <1>2, <1>3, <2>2, <2>3
<1>4. ASSUME NEW v \in Byte \ {"none"}, Head(todo) = Put("cfg", "lock", v),
             Tail(todo) = <<Send("AA")>>
      PROVE  Left' = 1 /\ Here1'.mode = "config" /\ todo' = <<Send("AA")>>
  <2>1. a.port = "cfg" /\ a.reg = "lock"
    BY <1>1, <1>4, OpsAre
  <2>2. d.mode = "config"
    BY <1>1, <2>1, StaysThrough
  <2>3. Left' = 1
    BY <1>2, <1>4 DEF Left, Size
  <2>4. QED
    BY <1>1, <1>2, <1>4, <2>2, <2>3
<1>5. QED
  BY <1>2, <1>3, <1>4, LockingNext

LEMMA ModesNctOpen ==
  ASSUME Base, Modes, Transfer, ~cut', ~cut, Here # "162", pc = "open", family = "nct"
  PROVE  ModeAfter(Here1, Left)'
<1>1. /\ todo # <<>> /\ pc' = pc
  BY TransferIs
<1>2. Locking /\ Here1.kind \notin {"ite", "none"}
  BY <1>1 DEF Base, Queue, Speaks
<1>3. Left \in 1 .. 2
  BY <1>1, <1>2, LockingNext
<1>4. Here1.mode = "config"
  BY <1>3 DEF Modes, ModeAfter
<1>5. \/ Left' = 1 /\ Here1'.mode = "config" /\ todo' = <<Send("AA")>>
      \/ Left' = 0 /\ Quiet(Here1') /\ todo' = <<>>
  BY <1>2, <1>4, LockingModes
<1>6. PICK d, m : d = Here1' /\ m = Left'
  OBVIOUS
<1>7. \/ m = 1 /\ d.mode = "config"
      \/ m = 0 /\ Quiet(d)
  BY <1>5, <1>6
<1>8. IF m >= 1 THEN d.mode = "config" ELSE Quiet(d)
  BY <1>7
<1>9. QED
  BY <1>1, <1>6, <1>8 DEF ModeAfter

LEMMA ModesUnlock ==
  ASSUME Base, Modes, Transfer, ~cut', ~cut, Here # "162", pc = "unlock"
  PROVE  ModeAfter(Here1, Left)'
<1>1. PICK a, c, d :
        /\ a = Head(todo) /\ c = Here1 /\ d = Here1'
        /\ ChipOk(c, Here) /\ ChipOk(d, Here) /\ Effect(c, d, a) /\ Fitting(a)
        /\ c.mode \in {"run", "config"} /\ c.key \in 0 .. 3 /\ c.kind \in Kind
        /\ c.kind \notin {"ite", "none"} => c.key <= 1
        /\ d.kind = c.kind
  BY CleanSteps
<1>2. PICK n, m : n = Left /\ m = Left'
  OBVIOUS
<1>3. todo # <<>> /\ pc' = pc /\ family' = family /\ Here' = Here /\ os' = os
  BY TransferIs
<1>4. todo' = Tail(todo)
  BY CleanTransfer
<1>5. ModeAfter(c, n)
  BY <1>1, <1>2 DEF Modes
<1>6. c.kind \in {"nct", "older"}
  BY <1>1 DEF Base, Queue, Speaks
<1>7. CASE os = "windows"
  <2>1. todo \in Ends3(Key("87"), Key("87"), Get("cfg", "lock"))
    BY <1>7 DEF Base, Queue
  <2>2. \/ n = 3 /\ m = 2 /\ a = Key("87")
        \/ n = 2 /\ m = 1 /\ a = Key("87")
        \/ n = 1 /\ m = 0 /\ a = Get("cfg", "lock")
    BY <1>1, <1>2, <1>3, <1>4, <2>1, Next3 DEF Left
  <2>3. PICK b, k : b = a.reg /\ k = 3 - n
    OBVIOUS
  <2>4. \/ n = 3 /\ m = 2 /\ b = "87"
        \/ n = 2 /\ m = 1 /\ b = "87"
        \/ n = 1 /\ m = 0 /\ b = "lock"
    BY <2>2, <2>3, OwnOps
  <2>5. a.port = "cfg" /\ a.op # "put"
    BY <2>2, OwnOps
  <2>6. NctTurn(c, d, b)
    BY <1>1, <1>6, <2>3, <2>5 DEF Effect, Heard
  <2>7. NctHeard(c, k)
    BY <1>5, <1>7, <2>3 DEF ModeAfter
  <2>8. NctHeard(d, k + 1)
    BY <1>1, <1>6, <2>3, <2>4, <2>6, <2>7, NctListens
  <2>9. k + 1 = 3 - m
    BY <2>3, <2>4
  <2>10. NctHeard(d, 3 - m)
    BY <2>8, <2>9
  <2>11. QED
    BY <1>1, <1>2, <1>3, <1>7, <2>10 DEF ModeAfter
<1>8. CASE os = "linux"
  <2>1. c.mode = "config"
    BY <1>5, <1>8 DEF ModeAfter
  <2>2. PICK w : w = Put("cfg", "ldn", "mon")
    OBVIOUS
  <2>3. \/ todo \in Ends5(w, Get("cfg", "active"), Get("cfg", "base0"),
                          Get("cfg", "base1"), Get("cfg", "lock"))
        \/ todo \in Ends4(w, Get("cfg", "active"), Get("cfg", "base0"), Get("cfg", "base1"))
    BY <1>8, <2>2 DEF Base, Queue, FoundThen, Found
  <2>4. \/ a = w \/ a = Get("cfg", "active") \/ a = Get("cfg", "base0")
        \/ a = Get("cfg", "base1") \/ a = Get("cfg", "lock")
    <3>1. CASE todo \in Ends5(w, Get("cfg", "active"), Get("cfg", "base0"),
                              Get("cfg", "base1"), Get("cfg", "lock"))
      <4>1. PICK t : t = todo
        OBVIOUS
      <4>2. \/ Head(t) = w \/ Head(t) = Get("cfg", "active") \/ Head(t) = Get("cfg", "base0")
            \/ Head(t) = Get("cfg", "base1") \/ Head(t) = Get("cfg", "lock")
        BY <1>3, <3>1, <4>1, Next5
      <4>3. QED
        BY <1>1, <4>1, <4>2
    <3>2. CASE todo \in Ends4(w, Get("cfg", "active"), Get("cfg", "base0"),
                              Get("cfg", "base1"))
      <4>1. PICK t : t = todo
        OBVIOUS
      <4>2. \/ Head(t) = w \/ Head(t) = Get("cfg", "active") \/ Head(t) = Get("cfg", "base0")
            \/ Head(t) = Get("cfg", "base1")
        BY <1>3, <3>2, <4>1, Next4
      <4>3. QED
        BY <1>1, <4>1, <4>2
    <3>3. QED
      BY <2>3, <3>1, <3>2
  <2>5. a.port = "cfg" /\ a.reg \notin {"AA", "ctl"}
    BY <2>2, <2>4, OwnOps, OpsAre
  <2>6. d.mode = "config"
    BY <1>1, <1>6, <2>1, <2>5, StaysThrough
  <2>7. QED
    BY <1>1, <1>2, <1>3, <1>8, <2>6 DEF ModeAfter
<1>9. QED
  BY <1>7, <1>8 DEF Base, TypeInv, BoardTyped

\* The accesses to the monitor leave the mode alone.
LEMMA ModesMonitor ==
  ASSUME Base, Modes, Transfer, ~cut', ~cut, Here # "162",
         pc \in {"bank", "fields", "finish"}, ~NctOnWindows
  PROVE  ModeAfter(Here1, Left)'
<1>1. PICK a, c, d :
        /\ a = Head(todo) /\ c = Here1 /\ d = Here1'
        /\ ChipOk(c, Here) /\ ChipOk(d, Here) /\ Effect(c, d, a) /\ Fitting(a)
        /\ c.mode \in {"run", "config"} /\ c.key \in 0 .. 3 /\ c.kind \in Kind
        /\ c.kind \notin {"ite", "none"} => c.key <= 1
        /\ d.kind = c.kind
  BY CleanSteps
<1>2. PICK n, m : n = Left /\ m = Left'
  OBVIOUS
<1>3. todo # <<>> /\ pc' = pc /\ NctOnWindows' = NctOnWindows
  BY TransferIs
<1>4. ModeAfter(c, n)
  BY <1>1, <1>2 DEF Modes
<1>5. a.port = "mon"
  <2>1. CASE pc = "bank"
    <3>1. todo \in Ends1(Get("mon", "bank"))
      BY <2>1 DEF Base, Queue
    <3>2. a = Get("mon", "bank")
      BY <1>1, <1>3, <3>1, Next1
    <3>3. QED
      BY <3>2, OwnOps
  <2>2. CASE pc = "finish"
    <3>1. todo = <<Put("mon", "bank", got.bank)>>
      BY <1>3, <2>2 DEF Base, Queue
    <3>2. a = Put("mon", "bank", got.bank)
      BY <1>1, <3>1
    <3>3. QED
      BY <3>2, OpsAre
  <2>3. CASE pc = "fields"
    <3>1. PICK r : r = NextReg
      OBVIOUS
    <3>2. \/ todo = <<Put("mon", "bank", ReadBank(got.bank))>>
          \/ todo \in Ends2(Put("mon", "bank", r[1]), Cell("mon", r[2]))
          \/ todo = <<Cell("mon", r[2])>>
      BY <1>3, <2>3, <3>1 DEF Base, Queue, FieldsQueue
    <3>3. PICK e, f, g : /\ e = Put("mon", "bank", r[1]) /\ f = Cell("mon", r[2])
                         /\ g = Put("mon", "bank", ReadBank(got.bank))
      OBVIOUS
    <3>4. \/ todo = <<g>> \/ todo \in Ends2(e, f) \/ todo = <<f>>
      BY <3>2, <3>3
    <3>5. a \in {e, f, g}
      BY <1>1, <1>3, <3>4, Next2
    <3>6. e.port = "mon" /\ f.port = "mon" /\ g.port = "mon"
      BY <3>3, OpsAre
    <3>7. QED
      BY <3>5, <3>6
  <2>4. QED
    BY <2>1, <2>2, <2>3
<1>6. d.mode = c.mode /\ d.key = c.key
  BY <1>1, <1>5 DEF Effect, Visited
<1>7. Tamed(Here, tried)' = Tamed(Here, tried)
  BY TamedSame, TransferBase DEF Base
<1>8. Tamed(Here, tried) => Quiet(c)
  BY <1>3, <1>4 DEF ModeAfter
<1>9. Tamed(Here, tried)' => Quiet(d)
  BY <1>6, <1>7, <1>8 DEF Quiet
<1>10. Tamed(Here, tried)' => d.mode = "run"
  BY <1>9 DEF Quiet
<1>11. QED
  BY <1>1, <1>2, <1>3, <1>9, <1>10 DEF ModeAfter

\* A Nuvoton chip that is read through its configuration ports after it was
\* left stays out of configuration mode.
LEMMA ModesOverIndex ==
  ASSUME Base, Modes, Transfer, ~cut', ~cut, Here # "162", pc = "fields", NctOnWindows
  PROVE  ModeAfter(Here1, Left)'
<1>1. PICK a, c, d :
        /\ a = Head(todo) /\ c = Here1 /\ d = Here1'
        /\ ChipOk(c, Here) /\ ChipOk(d, Here) /\ Effect(c, d, a) /\ Fitting(a)
        /\ c.mode \in {"run", "config"} /\ c.key \in 0 .. 3 /\ c.kind \in Kind
        /\ c.kind \notin {"ite", "none"} => c.key <= 1
        /\ d.kind = c.kind
  BY CleanSteps
<1>2. PICK n, m : n = Left /\ m = Left'
  OBVIOUS
<1>3. todo # <<>> /\ pc' = pc /\ NctOnWindows' = NctOnWindows
  BY TransferIs
<1>4. todo' = Tail(todo)
  BY CleanTransfer
<1>5. ModeAfter(c, n)
  BY <1>1, <1>2 DEF Modes
<1>6. c.kind \in {"nct", "older"} /\ family = "nct" /\ os = "windows"
  BY <1>1 DEF Base, Queue, Speaks, NctOnWindows
<1>7. CASE Locking
  <2>1. c.mode = "config"
    BY <1>5, <1>7 DEF ModeAfter
  <2>2. \/ m = 1 /\ d.mode = "config" /\ todo' = <<Send("AA")>>
        \/ m = 0 /\ Quiet(d) /\ todo' = <<>>
    BY <1>1, <1>2, <1>6, <1>7, <2>1, LockingModes
  <2>3. CASE m = 1 /\ d.mode = "config" /\ todo' = <<Send("AA")>>
    <3>1. "clear" \in Byte \ {"none"}
      BY Bytes
    <3>2. Locking'
      BY <2>3, <3>1 DEF Locking
    <3>3. QED
      BY <1>1, <1>2, <1>3, <2>3, <3>2 DEF ModeAfter
  <2>4. CASE m = 0 /\ Quiet(d) /\ todo' = <<>>
    <3>1. ~Locking'
      BY <2>4 DEF Locking
    <3>2. d.mode = "run" /\ m # 1
      BY <2>4 DEF Quiet
    <3>3. QED
      BY <1>1, <1>2, <1>3, <3>1, <3>2 DEF ModeAfter
  <2>5. QED
    BY <2>2, <2>3, <2>4
<1>8. CASE ~Locking
  <2>1. c.mode = "run" /\ (n = 1 => c.key = 0)
    BY <1>3, <1>5, <1>8 DEF ModeAfter
  <2>2. PICK r : r = NextReg
    OBVIOUS
  <2>3. PICK e, f : e = Put("cfg", "bank", r[1]) /\ f = Cell("cfg", r[2])
    OBVIOUS
  <2>4. todo \in Ends2(e, f)
    BY <1>3, <1>6, <1>8, <2>2, <2>3 DEF Base, Queue, FieldsQueue, NctOnWindows, NctOnLinux
  <2>5. \/ n = 2 /\ m = 1 /\ a = e
        \/ n = 1 /\ m = 0 /\ a = f
    BY <1>1, <1>2, <1>3, <1>4, <2>4, Next2 DEF Left
  <2>6. todo' \in {<<f>>, <<>>}
    <3>1. CASE todo = <<e, f>>
      BY <1>4, <3>1
    <3>2. CASE todo = <<f>>
      BY <1>4, <3>2
    <3>3. QED
      BY <1>3, <2>4, <3>1, <3>2 DEF Ends2, Ends1
  <2>7. ~Locking'
    <3>1. f.op = "cell" /\ Send("AA").op = "send"
      BY <2>3, OpsAre
    <3>2. ~\E g, h : <<f>> = <<g, h>>
      OBVIOUS
    <3>3. todo' # <<Send("AA")>>
      BY <2>6, <3>1
    <3>4. \A g, h : todo' # <<g, h>>
      BY <2>6, <3>2
    <3>5. QED
      BY <3>3, <3>4 DEF Locking
  <2>8. d.mode = "run" /\ (m = 1 => d.key = 0)
    <3>1. CASE a = e
      <4>1. Written(c, d, "bank", r[1])
        <5>1. a.port = "cfg" /\ a.op = "put" /\ a.reg = "bank" /\ a.val = r[1]
          BY <2>3, <3>1, OpsAre
        <5>2. QED
          BY <1>1, <5>1 DEF Effect
      <4>2. QED
        BY <2>1, <4>1 DEF Written
    <3>2. CASE a = f /\ n = 1 /\ m = 0
      <4>1. a.port = "cfg" /\ a.op # "put"
        BY <2>3, <3>2, OpsAre
      <4>2. NctTurn(c, d, a.reg)
        BY <1>1, <1>6, <4>1 DEF Effect, Heard
      <4>3. QED
        BY <2>1, <3>2, <4>2 DEF NctTurn
    <3>3. QED
      BY <2>5, <3>1, <3>2
  <2>9. QED
    BY <1>1, <1>2, <1>3, <2>7, <2>8 DEF ModeAfter
<1>9. QED
  BY <1>7, <1>8

LEMMA TransferModes ==
  ASSUME Base, Modes, Transfer
  PROVE  Modes'
<1>1. SUFFICES ASSUME ~cut'
               PROVE  Others' /\ (Here' # "162" => got'.key # "cut" /\ ModeAfter(Here1, Left)')
  BY DEF Modes
<1>2. /\ todo # <<>> /\ pc' = pc /\ Here' = Here /\ was' = was
      /\ \E a, f, v : Moves(a, f, v)
  BY TransferIs
<1>3. ~cut
  BY <1>1, <1>2 DEF Moves
<1>4. TypeInv /\ Here \in Pair
  BY HereIs DEF Base, TypeInv, BoardTyped, CallTyped
<1>5. \A p \in Pair \ {Here} : chip'[p] = chip[p]
  BY <1>2, <1>4 DEF Moves, TypeInv, BoardTyped
<1>6. \A p \in Pair : Tamed(p, tried)' = Tamed(p, tried)
  BY TamedSame, TransferBase DEF Base
<1>7. Others
  BY <1>3 DEF Modes
<1>8. Others'
  BY <1>2, <1>5, <1>6, <1>7 DEF Others
<1>9. ASSUME Here' # "162"
      PROVE  ModeAfter(Here1, Left)'
  <2>1. pc \in Procedure /\ family \in {"ite", "nct"}
    BY DEF Base, TypeInv, CallTyped
  <2>2. pc \notin {"idle", "returned"}
    BY <1>2 DEF Base, Queue
  <2>3. CASE pc \in {"ite", "probe"} /\ family = "ite"
    BY <1>1, <1>2, <1>3, <1>9, <2>3, ModesIteKeyed
  <2>4. CASE pc = "probe" /\ family = "nct"
    BY <1>1, <1>2, <1>3, <1>9, <2>4, ModesNctKeyed
  <2>5. CASE pc = "detect"
    BY <1>1, <1>2, <1>3, <1>9, <2>5, ModesDetect
  <2>6. CASE pc = "leave"
    BY <1>1, <1>2, <1>3, <1>9, <2>6, ModesLeave
  <2>7. CASE Finding /\ family = "ite"
    BY <1>1, <1>2, <1>3, <1>9, <2>7, ModesFound, Zenon
  <2>8. CASE pc = "open" /\ family = "nct"
    BY <1>1, <1>2, <1>3, <1>9, <2>8, ModesNctOpen
  <2>9. CASE pc = "unlock"
    BY <1>1, <1>2, <1>3, <1>9, <2>9, ModesUnlock
  <2>10. CASE pc \in {"bank", "fields", "finish"} /\ ~NctOnWindows
    BY <1>1, <1>2, <1>3, <1>9, <2>10, ModesMonitor
  <2>11. CASE pc = "fields" /\ NctOnWindows
    BY <1>1, <1>2, <1>3, <1>9, <2>11, ModesOverIndex
  <2>12. pc = "ite" => family = "ite"
    BY DEF Base, Queue
  <2>13. pc = "ite find" => family = "ite"
    BY Zenon DEF Base, Queue
  <2>14. pc \in {"bank", "finish"} => ~NctOnWindows
    BY <1>2 DEF Base, Queue, NctOnWindows
  <2>15. QED
    BY <2>1, <2>2, <2>3, <2>4, <2>5, <2>6, <2>7, <2>8, <2>9, <2>10, <2>11, <2>12, <2>13,
       <2>14, Zenon DEF Procedure, Finding
<1>10. ASSUME Here' # "162"
       PROVE  got'.key # "cut"
  BY <1>1, <1>2, <1>3, <1>10, CleanTransfer DEF Modes
<1>11. QED
  BY <1>8, <1>9, <1>10

\* Every tamed chip is quiet.
AtRest == \A p \in Pair : Tamed(p, tried) => Quiet(chip[p])

LEMMA RestIs ==
  ASSUME Base, Others, Here # "162" /\ Tamed(Here, tried) => Quiet(Here1)
  PROVE  AtRest
<1>1. Quiet(chip["162"])
  BY DEF Base, Outside
<1>2. QED
  BY <1>1 DEF AtRest, Others, Here1

\* From there on to a pair, which may be the same.
LEMMA OnToPair ==
  ASSUME AtRest, chip' = chip, was' = was, Here' \in Pair,
         tried' \subseteq tried \cup {<<Here', family'>>}
  PROVE  Others' /\ (Calm' => Quiet(chip'[Here'])) /\ (Tamed(Here', tried) => Quiet(chip'[Here']))
<1>2. ASSUME NEW p \in Pair \ {Here'}, Tamed(p, tried)'
      PROVE  Quiet(chip'[p])
  <2>2. Tamed(p, tried)
    BY <1>2 DEF Tamed
  <2>3. QED
    BY <2>2 DEF AtRest, Quiet
<1>3. Others'
  BY <1>2 DEF Others
<1>4. ASSUME Calm'
      PROVE  Quiet(chip'[Here'])
  <2>1. Tamed(Here', tried)
    BY <1>4 DEF Calm, Tamed
  <2>2. QED
    BY <2>1 DEF AtRest, Quiet
<1>5. ASSUME Tamed(Here', tried)
      PROVE  Quiet(chip'[Here'])
  BY <1>5 DEF AtRest, Quiet
<1>6. QED
  BY <1>3, <1>4, <1>5

\* A step at the same pair leaves the others alone.
LEMMA OthersStay ==
  ASSUME Others, chip' = chip, was' = was, Here' = Here,
         tried' \subseteq tried \cup {Here} \X {"ite", "nct"}
  PROVE  Others'
<1>1. ASSUME NEW p \in Pair \ {Here}, Tamed(p, tried)'
      PROVE  Quiet(chip'[p])
  <2>1. Tamed(p, tried)
    BY <1>1 DEF Tamed
  <2>2. QED
    BY <2>1 DEF Others, Quiet
<1>2. QED
  BY <1>1 DEF Others

LEMMA WinProbedModes ==
  ASSUME Base, Base', Modes, WinProbed
  PROVE  Modes'
<1>1. SUFFICES ASSUME ~cut'
               PROVE  Others' /\ (Here' # "162" => got'.key # "cut" /\ ModeAfter(Here1, Left)')
  BY DEF Modes
<1>2. /\ os = "windows" /\ pc = "ite" /\ todo = <<>> /\ family = "ite"
  BY DEF WinProbed, Done, Base, Queue
<1>3. /\ cut' = cut /\ chip' = chip /\ was' = was /\ os' = os
  BY DEF WinProbed, device
<1>4. ~cut /\ Others /\ (Here # "162" => got.key # "cut" /\ ModeAfter(Here1, Left))
  BY <1>1, <1>3 DEF Modes
<1>5. Left = 0 /\ at' = at
  BY <1>2 DEF Left, Size, WinProbed, Try
<1>6. Here' = Here /\ Here1' = Here1
  BY <1>3, <1>5, HereSame DEF Here1
<1>7. PICK c, m : c = Here1 /\ m = Left'
  OBVIOUS
<1>8. Here # "162" => IF c.kind = "ite" THEN c.mode = "config" ELSE Calm => Quiet(c)
  BY <1>2, <1>4, <1>5, <1>7 DEF ModeAfter, Hears, IteHeard, Deaf, Quiet
<1>9. got' = Nothing
  BY DEF WinProbed, Begin
<1>10. got'.key # "cut"
  BY <1>9 DEF Nothing, Slot
<1>11. CASE IsKind(Speaks("ite"))
  <2>1. /\ pc' = "ite find" /\ todo' = IteFind /\ family' = family /\ tried' = tried
    BY <1>11 DEF WinProbed, Begin
  <2>2. Others'
    BY <1>3, <1>4, <1>6, <2>1, OthersStay
  <2>3. m = 5
    BY <1>7, <2>1, IteFindIs DEF Left, Size
  <2>4. c.kind = "ite"
    BY <1>7, <1>11 DEF IsKind, Speaks, Here1
  <2>5. Here # "162" => IF m >= 1 THEN c.mode = "config" ELSE Quiet(c)
    BY <1>8, <2>3, <2>4
  <2>6. Here # "162" => ModeAfter(Here1, Left)'
    BY <1>6, <1>7, <2>1, <2>5, Zenon DEF ModeAfter
  <2>7. QED
    BY <1>6, <1>10, <2>2, <2>6
<1>12. CASE ~IsKind(Speaks("ite"))
  <2>1. /\ pc' = "detect" /\ family' = "nct"
        /\ todo' = (IF got.key = "cut" THEN <<>> ELSE IteExit) \o Detect
        /\ tried' = tried \cup {<<Here, "nct">>}
    BY <1>12 DEF WinProbed, Begin, Try, Here
  <2>2. Others'
    <3>1. tried' \subseteq tried \cup {Here} \X {"ite", "nct"}
      BY <2>1
    <3>2. QED
      BY <1>3, <1>4, <1>6, <3>1, OthersStay
  <2>3. ASSUME Here # "162"
        PROVE  ModeAfter(Here1, Left)'
    <3>1. todo' = IteExit \o Detect
      BY <1>4, <2>1, <2>3
    <3>2. m = 6
      BY <1>7, <3>1, DetectIs DEF Left, Size
    <3>3. Quiet(was[Here]) => Calm
      BY DEF Calm, Tamed
    <3>4. Hears(family') = {"nct", "older", "unknown"}
      BY <2>1 DEF Hears
    <3>5. c.kind \in Hears(family') => (Quiet(was[Here]) => Quiet(c))
      BY <1>8, <2>3, <3>3, <3>4
    <3>6. QED
      BY <1>3, <1>6, <1>7, <1>8, <2>1, <2>3, <3>2, <3>4, <3>5 DEF ModeAfter
  <2>4. QED
    BY <1>6, <1>10, <2>2, <2>3
<1>13. QED
  BY <1>11, <1>12

\* A call that returns from a pair whose chip is at rest.
LEMMA ReturnModes ==
  ASSUME Others, ~cut => (Here # "162" => (Tamed(Here, tried) => Here1.mode = "run")),
         NEW r, Return(r)
  PROVE  Modes'
<1>1. /\ pc' = "returned" /\ todo' = <<>> /\ got' = Nothing
      /\ device' = device /\ family' = family /\ at' = at /\ tried' = tried
  BY DEF Return
<1>2. cut' = cut /\ chip' = chip /\ was' = was /\ os' = os
  BY <1>1 DEF device
<1>3. Here' = Here /\ Here1' = Here1
  BY <1>1, <1>2, HereSame DEF Here1
<1>4. Others'
  BY <1>1, <1>2, <1>3, OthersStay
<1>5. got'.key # "cut"
  BY <1>1 DEF Nothing, Slot
<1>6. Tamed(Here, tried)' => Tamed(Here, tried)
  BY <1>1, <1>2, <1>3 DEF Tamed
<1>7. ASSUME ~cut', Here' # "162"
      PROVE  ModeAfter(Here1, Left)'
  BY <1>1, <1>2, <1>3, <1>6, <1>7 DEF ModeAfter
<1>8. QED
  BY <1>4, <1>5, <1>7 DEF Modes

LEMMA WinIteFoundModes ==
  ASSUME Base, Base', Modes, WinIteFound
  PROVE  Modes'
<1>1. os = "windows" /\ pc = "ite find" /\ todo = <<>> /\ family = "ite"
  BY Zenon DEF WinIteFound, Done, Base, Queue
<1>2. Left = 0
  BY <1>1 DEF Left, Size
<1>3. ~cut => Others /\ (Here # "162" => got.key # "cut" /\ Quiet(Here1))
  <2>1. ~cut => Others /\ (Here # "162" => got.key # "cut" /\ ModeAfter(Here1, Left))
    BY DEF Modes
  <2>2. ModeAfter(Here1, Left) => IF Left >= 1 THEN Here1.mode = "config" ELSE Quiet(Here1)
    BY <1>1, Zenon DEF ModeAfter
  <2>3. ~(Left >= 1)
    BY <1>2
  <2>4. QED
    BY <2>1, <2>2, <2>3
<1>4. CASE Return(<<>>)
  <2>1. ~cut => (Here # "162" => (Tamed(Here, tried) => Here1.mode = "run"))
    BY <1>3 DEF Quiet
  <2>2. cut' = cut
    BY <1>4 DEF Return, device
  <2>3. CASE cut
    BY <2>2, <2>3 DEF Modes
  <2>4. QED
    BY <1>3, <1>4, <2>1, <2>3, ReturnModes
<1>5. CASE /\ base' = WinBase
           /\ Begin("bank", <<Get("mon", "bank")>>)
           /\ UNCHANGED <<device, faults, what, family, at, reading, res, tried>>
  <2>1. /\ pc' = "bank" /\ got' = Nothing /\ family' = family /\ at' = at /\ tried' = tried
        /\ cut' = cut /\ chip' = chip /\ was' = was /\ os' = os
    BY <1>5 DEF Begin, device
  <2>2. Here' = Here /\ Here1' = Here1
    BY <2>1, HereSame DEF Here1
  <2>3. got'.key # "cut"
    BY <2>1 DEF Nothing, Slot
  <2>4. ASSUME ~cut'
        PROVE  Others'
    BY <1>3, <2>1, <2>2, <2>4, OthersStay
  <2>5. ASSUME ~cut', Here' # "162"
        PROVE  ModeAfter(Here1, Left)'
    <3>1. Quiet(Here1')
      BY <1>3, <2>1, <2>2, <2>5
    <3>2. PICK c, m : c = Here1' /\ m = Left'
      OBVIOUS
    <3>3. Quiet(c)
      BY <3>1, <3>2
    <3>4. QED
      BY <2>1, <3>2, <3>3 DEF ModeAfter
  <2>6. QED
    BY <2>3, <2>4, <2>5 DEF Modes
<1>6. QED
  BY <1>4, <1>5 DEF WinIteFound

\* The next reader or pair begins with the key at a chip that is at rest.
LEMMA BeginsIte ==
  ASSUME NEW c, Calm' => Quiet(c), c = Here1', Left' = 6, family' = "ite",
         pc' = "ite" \/ pc' = "probe"
  PROVE  ModeAfter(Here1, Left)'
<1>1. IteHeard(c, 6 - Left')
  BY DEF IteHeard
<1>2. Calm' => Deaf(c, Left' = 5)
  BY DEF Deaf, Quiet
<1>3. QED
  BY <1>1, <1>2 DEF ModeAfter

LEMMA BeginsNct ==
  ASSUME NEW c, Calm' => Quiet(c), c = Here1', Left' = 4, family' = "nct", pc' = "probe"
  PROVE  ModeAfter(Here1, Left)'
<1>1. NctHeard(c, 4 - Left')
  BY DEF NctHeard
<1>2. Calm' => Deaf(c, Left' \in 2 .. 3)
  BY DEF Deaf, Quiet
<1>3. QED
  BY <1>1, <1>2 DEF ModeAfter

LEMMA WinDetectedModes ==
  ASSUME Base, Base', Modes, WinDetected
  PROVE  Modes'
<1>1. os = "windows" /\ pc = "detect" /\ todo = <<>> /\ family = "nct"
  BY DEF WinDetected, Done, Base, Queue
<1>2. at \in 1 .. Len(PortPairs) /\ Here \in Pair
  BY <1>1, HereIs DEF Base, TypeInv, CallTyped
<1>3. Left = 0
  BY <1>1 DEF Left, Size
<1>4. ASSUME ~cut, Here # "162"
      PROVE  Quiet(Here1)
  <2>1. PICK c : c = Here1
    OBVIOUS
  <2>2. ModeAfter(c, 0)
    BY <1>3, <1>4, <2>1 DEF Modes
  <2>3. ChipOk(c, Here)
    BY <1>2, <2>1 DEF Base, TypeInv, BoardTyped, Here1
  <2>4. c.kind \in Kind
    BY <2>3, ChipFields DEF ChipOk
  <2>5. CASE c.kind \in {"nct", "older", "unknown"}
    BY <1>1, <2>1, <2>2, <2>5 DEF ModeAfter, Hears
  <2>6. CASE c.kind = "ite"
    <3>1. Deaf(c, 0 \in 3 .. 4)
      BY <1>1, <2>2, <2>6 DEF ModeAfter, Hears
    <3>2. QED
      BY <2>1, <3>1 DEF Deaf, Quiet
  <2>7. CASE c.kind = "none"
    BY <2>1, <2>3, <2>7 DEF ChipOk
  <2>8. QED
    BY <2>4, <2>5, <2>6, <2>7 DEF Kind
<1>5. ~cut => Others
  BY DEF Modes
<1>6. ~cut => AtRest
  BY <1>4, <1>5, RestIs
<1>7. CASE /\ IsKind(Speaks("nct"))
           /\ Begin("unlock", Unlock)
           /\ UNCHANGED <<device, faults, what, family, at, base, reading, res, tried>>
  <2>1. /\ pc' = "unlock" /\ todo' = Unlock /\ got' = Nothing /\ family' = family
        /\ at' = at /\ tried' = tried
        /\ cut' = cut /\ chip' = chip /\ was' = was /\ os' = os
    BY <1>7 DEF Begin, device
  <2>2. Here' = Here /\ Here1' = Here1
    BY <2>1, HereSame DEF Here1
  <2>3. got'.key # "cut"
    BY <2>1 DEF Nothing, Slot
  <2>4. ASSUME ~cut'
        PROVE  Others'
    BY <1>5, <2>1, <2>2, <2>4, OthersStay
  <2>5. Left' = 3
    BY <2>1, UnlockIs DEF Left, Size
  <2>6. NctHeard(Here1', 3 - Left')
    BY <2>5 DEF NctHeard
  <2>7. ModeAfter(Here1, Left)'
    BY <1>1, <2>1, <2>6 DEF ModeAfter
  <2>8. QED
    BY <2>3, <2>4, <2>7 DEF Modes
<1>8. CASE /\ ~IsKind(Speaks("nct")) /\ at < Len(PortPairs)
           /\ Try("ite", at + 1)
           /\ Begin("ite", IteProbe(PortPairs[at + 1]))
           /\ UNCHANGED <<device, faults, what, base, reading, res>>
  <2>1. /\ pc' = "ite" /\ todo' = IteProbe(PortPairs[at + 1]) /\ got' = Nothing
        /\ family' = "ite" /\ at' = at + 1
        /\ tried' = tried \cup {<<PortPairs[at + 1], "ite">>}
        /\ cut' = cut /\ chip' = chip /\ was' = was /\ os' = os
    BY <1>8 DEF Begin, Try, device
  <2>2. Here' = PortPairs[at + 1] /\ Here' \in Pair
    <3>1. PortPairs' = PortPairs
      BY <2>1 DEF PortPairs
    <3>2. Here' = PortPairs[at + 1]
      BY <2>1, <3>1 DEF Here
    <3>3. Here' \in Pair
      <4>1. os' \in {"windows", "linux"} /\ at' \in 1 .. Len(PortPairs')
        BY DEF Base, TypeInv, BoardTyped, CallTyped
      <4>2. QED
        BY <1>1, <2>1, <4>1 DEF Here, PortPairs, Pair
    <3>4. QED
      BY <3>2, <3>3
  <2>3. got'.key # "cut"
    BY <2>1 DEF Nothing, Slot
  <2>4. ASSUME ~cut'
        PROVE  Others' /\ (Calm' => Quiet(chip'[Here']))
    <3>1. tried' \subseteq tried \cup {<<Here', family'>>}
      BY <2>1, <2>2
    <3>2. QED
      BY <1>6, <2>1, <2>2, <2>4, <3>1, OnToPair
  <2>5. Left' = 6
    <3>1. todo' = IteProbe(Here')
      BY <2>1, <2>2
    <3>2. QED
      <4>1. PICK p \in Pair : p = Here'
        BY <2>2
      <4>2. PICK k : k = IF p = "4E" THEN "AA" ELSE "55"
        OBVIOUS
      <4>3. todo' = <<Key("87"), Key("01"), Key("55"), Key(k), Get("cfg", "id0"),
                      Get("cfg", "id1")>>
        BY <3>1, <4>1, <4>2, IteProbeIs
      <4>4. QED
        BY <4>3 DEF Left, Size
  <2>6. ASSUME ~cut'
        PROVE  ModeAfter(Here1, Left)'
    <3>1. PICK c : c = Here1'
      OBVIOUS
    <3>2. Calm' => Quiet(c)
      BY <2>4, <2>6, <3>1 DEF Here1
    <3>3. QED
      BY <2>1, <2>5, <3>1, <3>2, BeginsIte
  <2>7. QED
    BY <2>3, <2>4, <2>6 DEF Modes
<1>9. CASE Return(<<>>)
  <2>1. ~cut => (Here # "162" => (Tamed(Here, tried) => Here1.mode = "run"))
    BY <1>4 DEF Quiet
  <2>2. cut' = cut
    BY <1>9 DEF Return, device
  <2>3. CASE cut
    BY <2>2, <2>3 DEF Modes
  <2>4. QED
    BY <1>5, <1>9, <2>1, <2>3, ReturnModes
<1>10. QED
  BY <1>7, <1>8, <1>9 DEF WinDetected

LEMMA WinUnlockedModes ==
  ASSUME Base, Base', Modes, WinUnlocked
  PROVE  Modes'
<1>1. os = "windows" /\ pc = "unlock" /\ todo = <<>> /\ family = "nct" /\ Here # "162"
  BY DEF WinUnlocked, Done, Base, Queue, Outside
<1>2. /\ pc' = "fields" /\ got' = Nothing /\ family' = family /\ at' = at /\ tried' = tried
      /\ cut' = cut /\ chip' = chip /\ was' = was /\ os' = os
      /\ todo' = IF got.key = "cut" THEN <<>>
                 ELSE <<Put("cfg", "lock", LockCleared)>> \o NctExit
  BY DEF WinUnlocked, device
<1>3. Here' = Here /\ Here1' = Here1
  BY <1>2, HereSame DEF Here1
<1>4. SUFFICES ASSUME ~cut'
               PROVE  Others' /\ (Here' # "162" => got'.key # "cut" /\ ModeAfter(Here1, Left)')
  BY DEF Modes
<1>5. Others /\ got.key # "cut" /\ ModeAfter(Here1, Left) /\ Left = 0
  BY <1>1, <1>2, <1>4 DEF Modes, Left, Size
<1>6. Here1.mode = "config"
  BY <1>1, <1>5 DEF ModeAfter, NctHeard
<1>7. Others'
  BY <1>2, <1>3, <1>5, OthersStay
<1>8. got'.key # "cut"
  BY <1>2 DEF Nothing, Slot
<1>9. Locking'
  <2>1. LockCleared \in Byte \ {"none"}
    <3>1. got.lock \in Byte
      BY NothingIs DEF Base, TypeInv, CallTyped
    <3>2. QED
      BY <3>1, Bytes DEF LockCleared
  <2>2. PICK v \in Byte \ {"none"} : v = LockCleared
    BY <2>1
  <2>3. todo' = <<Put("cfg", "lock", v)>> \o NctExit
    BY <1>2, <1>5, <2>2
  <2>4. todo' = <<Put("cfg", "lock", v), Send("AA")>>
    BY <2>3, LockIs
  <2>5. QED
    BY <1>1, <1>2, <2>4 DEF Locking
<1>10. NctOnWindows'
  BY <1>1, <1>2 DEF NctOnWindows
<1>11. ModeAfter(Here1, Left)'
  BY <1>2, <1>3, <1>6, <1>9, <1>10 DEF ModeAfter
<1>12. QED
  BY <1>7, <1>8, <1>11

LEMMA WinFinishModes ==
  ASSUME Base, Base', Modes, WinFinish
  PROVE  Modes'
<1>1. pc = "finish" /\ Return(res)
  BY DEF WinFinish, Done
<1>2. ~cut => Others /\ (Here # "162" => ModeAfter(Here1, Left))
  BY DEF Modes
<1>3. ~cut => (Here # "162" => (Tamed(Here, tried) => Here1.mode = "run"))
  BY <1>1, <1>2 DEF ModeAfter
<1>4. cut' = cut
  BY <1>1 DEF Return, device
<1>5. CASE cut
  BY <1>4, <1>5 DEF Modes
<1>6. QED
  BY <1>1, <1>2, <1>3, <1>5, ReturnModes

LEMMA LinuxProbedModes ==
  ASSUME Base, Base', Modes, LinuxProbed
  PROVE  Modes'
<1>1. /\ os = "linux" /\ pc = "probe" /\ todo = <<>> /\ family \in {"ite", "nct"}
      /\ Here # "162"
  BY DEF LinuxProbed, Done, Base, TypeInv, CallTyped, Outside
<1>2. /\ device' = device /\ family' = family /\ at' = at /\ tried' = tried
  BY DEF LinuxProbed
<1>3. /\ cut' = cut /\ chip' = chip /\ was' = was /\ os' = os
  BY <1>2 DEF device
<1>4. Here' = Here /\ Here1' = Here1 /\ Left = 0
  BY <1>1, <1>2, <1>3, HereSame DEF Here1, Left, Size
<1>5. SUFFICES ASSUME ~cut'
               PROVE  Others' /\ (Here' # "162" => got'.key # "cut" /\ ModeAfter(Here1, Left)')
  BY DEF Modes
<1>6. Others /\ ModeAfter(Here1, 0)
  BY <1>1, <1>3, <1>4, <1>5 DEF Modes
<1>7. Others'
  BY <1>2, <1>3, <1>4, <1>6, OthersStay
<1>8. PICK c : c = Here1
  OBVIOUS
<1>9. IF c.kind \in Hears(family) THEN c.mode = "config" ELSE Calm => Quiet(c)
  <2>1. CASE family = "ite"
    BY <1>1, <1>6, <1>8, <2>1 DEF ModeAfter, IteHeard, Deaf, Quiet
  <2>2. CASE family = "nct"
    BY <1>1, <1>6, <1>8, <2>2 DEF ModeAfter, NctHeard, Deaf, Quiet
  <2>3. QED
    BY <1>1, <2>1, <2>2
<1>10. Calm' => Calm
  BY <1>2, <1>3, <1>4 DEF Calm, Tamed
<1>11. \/ IsKind(Speaks(family)) /\ family = "ite" /\ Begin("open", LinuxFind \o IteExit)
       \/ IsKind(Speaks(family)) /\ family = "nct" /\ \E ops : Begin("unlock", ops)
       \/ family = "ite" /\ Begin("leave", IteExit)
       \/ family = "nct" /\ Begin("leave", NctExit)
  <2>1. CASE family = "ite"
    <3>1. CASE IsKind(Speaks(family))
      <4>1. chip[Here].kind # "nct"
        BY <2>1, <3>1 DEF IsKind, Speaks
      <4>2. Begin("open", LinuxFind \o IteExit)
        BY <2>1, <3>1, <4>1, Zenon DEF LinuxProbed
      <4>3. QED
        BY <2>1, <3>1, <4>2
    <3>2. CASE ~IsKind(Speaks(family))
      BY <2>1, <3>2, Zenon DEF LinuxProbed
    <3>3. QED
      BY <3>1, <3>2
  <2>2. CASE family = "nct"
    BY <2>2 DEF LinuxProbed
  <2>3. QED
    BY <1>1, <2>1, <2>2
<1>12. got'.key # "cut"
  BY <1>11 DEF Begin, Nothing, Slot
<1>13. IsKind(Speaks(family)) => c.mode = "config"
  BY <1>8, <1>9 DEF IsKind, Speaks, Hears, Here1
<1>14. CASE IsKind(Speaks(family)) /\ family = "ite" /\ Begin("open", LinuxFind \o IteExit)
  <2>1. /\ pc' = "open"
        /\ todo' = <<Put("cfg", "ldn", "mon"), Get("cfg", "active"),
                     Get("cfg", "base0"), Get("cfg", "base1"), Leave>>
    BY <1>14, IteFindIs, Zenon DEF Begin
  <2>3. Left' = 5
    BY <2>1 DEF Left, Size
  <2>2. QED
    BY <1>2, <1>4, <1>7, <1>8, <1>12, <1>13, <1>14, <2>1, <2>3 DEF ModeAfter
<1>15. CASE IsKind(Speaks(family)) /\ family = "nct" /\ \E ops : Begin("unlock", ops)
  <2>1. pc' = "unlock"
    BY <1>15 DEF Begin
  <2>2. QED
    BY <1>1, <1>2, <1>3, <1>4, <1>7, <1>8, <1>12, <1>13, <1>15, <2>1 DEF ModeAfter
<1>16. ASSUME pc' = "leave", Left' = 1
       PROVE  ModeAfter(Here1, Left)'
  BY <1>2, <1>4, <1>8, <1>9, <1>10, <1>16 DEF ModeAfter
<1>17. CASE family = "ite" /\ Begin("leave", IteExit)
  BY <1>7, <1>12, <1>16, <1>17 DEF Begin, Left, Size, IteExit
<1>18. CASE family = "nct" /\ Begin("leave", NctExit)
  BY <1>7, <1>12, <1>16, <1>18 DEF Begin, Left, Size, NctExit
<1>19. QED
  BY <1>11, <1>14, <1>15, <1>17, <1>18

LEMMA LinuxLeftModes ==
  ASSUME Base, Base', Modes, LinuxLeft
  PROVE  Modes'
<1>1. /\ os = "linux" /\ pc = "leave" /\ todo = <<>> /\ family \in {"ite", "nct"}
      /\ at \in 1 .. Len(PortPairs) /\ Here # "162" /\ Here \in Pair
  BY HereIs DEF LinuxLeft, Done, Base, TypeInv, CallTyped, Outside
<1>2. /\ device' = device /\ cut' = cut /\ chip' = chip /\ was' = was /\ os' = os
  BY DEF LinuxLeft, device
<1>3. Left = 0
  BY <1>1 DEF Left, Size
<1>4. SUFFICES ASSUME ~cut'
               PROVE  Others' /\ (Here' # "162" => got'.key # "cut" /\ ModeAfter(Here1, Left)')
  BY DEF Modes
<1>5. Others /\ ModeAfter(Here1, 0)
  BY <1>1, <1>2, <1>3, <1>4 DEF Modes
<1>6. Tamed(Here, tried) => Quiet(Here1)
  <2>1. IF Here1.kind \in Hears(family) THEN Quiet(Here1) ELSE Calm => Quiet(Here1)
    BY <1>1, <1>5 DEF ModeAfter
  <2>2. Tamed(Here, tried) /\ Here1.kind \notin Hears(family) => Calm
    BY DEF Calm, Tamed, Here1
  <2>3. QED
    BY <2>1, <2>2
<1>7. AtRest
  BY <1>5, <1>6, RestIs
<1>8. CASE /\ at < Len(PortPairs)
           /\ Try(family, at + 1) /\ Begin("probe", Probe(family, PortPairs[at + 1]))
  <2>1. /\ pc' = "probe" /\ todo' = Probe(family, PortPairs[at + 1]) /\ got' = Nothing
        /\ family' = family /\ at' = at + 1
        /\ tried' = tried \cup {<<PortPairs[at + 1], family>>}
    BY <1>8 DEF Begin, Try
  <2>2. Here' = PortPairs[at + 1] /\ Here' \in Pair
    <3>1. PortPairs' = PortPairs
      BY <1>2 DEF PortPairs
    <3>2. QED
      BY <1>1, <1>8, <2>1, <3>1, NextPair
  <2>3. got'.key # "cut"
    BY <2>1 DEF Nothing, Slot
  <2>4. Others' /\ (Calm' => Quiet(chip'[Here']))
    <3>1. tried' \subseteq tried \cup {<<Here', family'>>}
      BY <2>1, <2>2
    <3>2. QED
      BY <1>2, <1>7, <2>2, <3>1, OnToPair
  <2>5. PICK p \in Pair : p = Here'
    BY <2>2
  <2>6. PICK c : c = Here1'
    OBVIOUS
  <2>7. Calm' => Quiet(c)
    BY <2>4, <2>6 DEF Here1
  <2>8. CASE family = "ite"
    <3>1. PICK k : k = IF p = "4E" THEN "AA" ELSE "55"
      OBVIOUS
    <3>2. todo' = <<Key("87"), Key("01"), Key("55"), Key(k), Get("cfg", "id0"),
                    Get("cfg", "id1")>>
      BY <2>1, <2>2, <2>5, <2>8, <3>1, IteProbeIs
    <3>3. Left' = 6
      BY <3>2 DEF Left, Size
    <3>4. QED
      BY <2>1, <2>3, <2>4, <2>6, <2>7, <2>8, <3>3, BeginsIte
  <2>9. CASE family = "nct"
    <3>1. todo' = <<Key("87"), Key("87"), Get("cfg", "id0"), Get("cfg", "id1")>>
      BY <2>1, <2>2, <2>5, <2>9, NctProbeIs
    <3>2. Left' = 4
      BY <3>1 DEF Left, Size
    <3>3. QED
      BY <2>1, <2>3, <2>4, <2>6, <2>7, <2>9, <3>2, BeginsNct
  <2>10. QED
    BY <1>1, <2>8, <2>9
<1>9. CASE Begin("finish", <<>>) /\ UNCHANGED <<family, at, tried>>
  <2>1. pc' = "finish" /\ got' = Nothing /\ family' = family /\ at' = at /\ tried' = tried
    BY <1>9 DEF Begin
  <2>2. Here' = Here /\ Here1' = Here1
    BY <1>2, <2>1, HereSame DEF Here1
  <2>3. Others'
    BY <1>2, <1>5, <2>1, <2>2, OthersStay
  <2>4. got'.key # "cut"
    BY <2>1 DEF Nothing, Slot
  <2>5. PICK c : c = Here1
    OBVIOUS
  <2>6. Tamed(Here, tried)' => Tamed(Here, tried)
    BY <1>2, <2>1, <2>2 DEF Tamed
  <2>7. Tamed(Here, tried)' => Quiet(c) /\ c.mode = "run"
    BY <1>6, <2>5, <2>6 DEF Quiet
  <2>8. ModeAfter(Here1, Left)'
    BY <2>1, <2>2, <2>5, <2>7 DEF ModeAfter
  <2>9. QED
    BY <2>3, <2>4, <2>8
<1>10. QED
  BY <1>8, <1>9 DEF LinuxLeft

LEMMA LinuxUnlockedModes ==
  ASSUME Base, Base', Modes, LinuxUnlocked
  PROVE  Modes'
<1>1. /\ os = "linux" /\ pc = "unlock" /\ todo = <<>> /\ family = "nct"
      /\ Here # "162"
  BY DEF LinuxUnlocked, Done, Base, Queue, Outside
<1>2. /\ pc' = "open" /\ got' = got /\ family' = family /\ at' = at /\ tried' = tried
      /\ cut' = cut /\ chip' = chip /\ was' = was /\ os' = os
  BY DEF LinuxUnlocked, device
<1>3. Here' = Here /\ Here1' = Here1
  BY <1>2, HereSame DEF Here1
<1>4. SUFFICES ASSUME ~cut'
               PROVE  Others' /\ (Here' # "162" => got'.key # "cut" /\ ModeAfter(Here1, Left)')
  BY DEF Modes
<1>5. Others /\ ModeAfter(Here1, Left) /\ got.key # "cut"
  BY <1>1, <1>2, <1>4 DEF Modes
<1>6. Here1.mode = "config"
  BY <1>1, <1>5 DEF ModeAfter
<1>7. Others'
  BY <1>2, <1>3, <1>5, OthersStay
<1>8. Left' >= 1
  <2>1. Queue' /\ family' = "nct" /\ pc' = "open"
    BY <1>1, <1>2 DEF Base
  <2>2. todo' = <<>> \/ Locking'
    BY <2>1 DEF Queue
  <2>3. PICK ops \in LinuxUnlock : todo' = ops \o NctExit
    BY DEF LinuxUnlocked
  <2>4. PICK v : ops = <<>> \/ ops = <<Put("cfg", "lock", v)>>
    BY <2>3 DEF LinuxUnlock
  <2>5. CASE ops = <<>>
    <3>1. "clear" \in Byte
      BY Bytes
    <3>2. todo' = <<Send("AA")>>
      BY <2>3, <2>5, <3>1, LockIs
    <3>3. QED
      BY <3>2 DEF Left, Size
  <2>6. CASE ops = <<Put("cfg", "lock", v)>>
    <3>1. todo' # <<>>
      <4>1. PICK s, t : s = ops /\ t = NctExit
        OBVIOUS
      <4>2. s \o t # <<>>
        BY <2>6, <4>1 DEF NctExit
      <4>3. QED
        BY <2>3, <4>1, <4>2
    <3>2. Locking'
      BY <2>2, <3>1
    <3>3. QED
      BY <3>2 DEF Locking, Left, Size
  <2>7. QED
    BY <2>4, <2>5, <2>6
<1>9. ModeAfter(Here1, Left)'
  BY <1>2, <1>3, <1>6, <1>8 DEF ModeAfter
<1>10. QED
  BY <1>2, <1>5, <1>7, <1>9

LEMMA LinuxOpenedModes ==
  ASSUME Base, Base', Modes, LinuxOpened
  PROVE  Modes'
<1>1. /\ os = "linux" /\ pc = "open" /\ todo = <<>> /\ Here # "162"
  BY DEF LinuxOpened, Done, Base, Outside
<1>2. /\ pc' \in {"bank", "finish"} /\ got' = Nothing /\ family' = family /\ at' = at
      /\ tried' = tried /\ cut' = cut /\ chip' = chip /\ was' = was /\ os' = os
  BY DEF LinuxOpened, Begin, device
<1>3. Here' = Here /\ Here1' = Here1 /\ Left = 0
  BY <1>1, <1>2, HereSame DEF Here1, Left, Size
<1>4. SUFFICES ASSUME ~cut'
               PROVE  Others' /\ (Here' # "162" => got'.key # "cut" /\ ModeAfter(Here1, Left)')
  BY DEF Modes
<1>5. Others /\ ModeAfter(Here1, 0)
  BY <1>1, <1>2, <1>3, <1>4 DEF Modes
<1>6. Quiet(Here1)
  BY <1>1, <1>5 DEF ModeAfter
<1>7. Others'
  BY <1>2, <1>3, <1>5, OthersStay
<1>8. got'.key # "cut"
  BY <1>2 DEF Nothing, Slot
<1>9. Here1.mode = "run"
  BY <1>6 DEF Quiet
<1>10. ModeAfter(Here1, Left)'
  BY <1>2, <1>3, <1>6, <1>9 DEF ModeAfter
<1>11. QED
  BY <1>7, <1>8, <1>10

\* A step between the procedures that speak to the monitor.
LEMMA MonitorModes ==
  ASSUME Modes, device' = device, got' = got, family' = family, at' = at, tried' = tried,
         ~NctOnWindows, pc \in {"bank", "fields", "finish"},
         pc' \in {"bank", "fields", "finish"}
  PROVE  Modes'
<1>1. cut' = cut /\ chip' = chip /\ was' = was /\ os' = os
  BY DEF device
<1>2. Here' = Here /\ Here1' = Here1 /\ NctOnWindows' = NctOnWindows
  BY <1>1, HereSame, FamilySame DEF Here1
<1>3. SUFFICES ASSUME ~cut'
               PROVE  Others' /\ (Here' # "162" => got'.key # "cut" /\ ModeAfter(Here1, Left)')
  BY DEF Modes
<1>4. Others /\ (Here # "162" => got.key # "cut" /\ ModeAfter(Here1, Left))
  BY <1>1, <1>3 DEF Modes
<1>5. Others'
  BY <1>1, <1>2, <1>4, OthersStay
<1>6. Tamed(Here, tried)' => Tamed(Here, tried)
  BY <1>1, <1>2 DEF Tamed
<1>7. PICK c : c = Here1
  OBVIOUS
<1>8. ASSUME Here # "162", Tamed(Here, tried)'
      PROVE  Quiet(c) /\ c.mode = "run"
  BY <1>4, <1>6, <1>7, <1>8 DEF ModeAfter, Quiet
<1>9. ASSUME Here # "162"
      PROVE  ModeAfter(Here1, Left)'
  BY <1>2, <1>7, <1>8, <1>9 DEF ModeAfter
<1>10. QED
  BY <1>2, <1>4, <1>5, <1>9

LEMMA LinuxFinishModes ==
  ASSUME Base, Base', Modes, LinuxFinish
  PROVE  Modes'
<1>1. os = "linux" /\ pc = "finish" /\ Here # "162"
  BY DEF LinuxFinish, Done, Base, Outside
<1>2. ~cut => Others /\ ModeAfter(Here1, Left)
  BY <1>1 DEF Modes
<1>3. ~cut => (Tamed(Here, tried) => Quiet(Here1))
  BY <1>1, <1>2 DEF ModeAfter, NctOnWindows
<1>4. CASE Return(res)
  <2>1. ~cut => (Here # "162" => (Tamed(Here, tried) => Here1.mode = "run"))
    BY <1>3 DEF Quiet
  <2>2. cut' = cut
    BY <1>4 DEF Return, device
  <2>3. CASE cut
    BY <2>2, <2>3 DEF Modes
  <2>4. QED
    BY <1>2, <1>4, <2>1, <2>3, ReturnModes
<1>5. CASE /\ family = "ite" /\ Start("nct", tried) /\ base' = "none"
           /\ UNCHANGED <<device, what, reading, res>>
  <2>1. /\ got' = Nothing /\ family' = "nct" /\ at' = 1
        /\ cut' = cut /\ chip' = chip /\ was' = was /\ os' = os
        /\ \/ /\ pc' = "probe" /\ todo' = Probe("nct", "2E")
              /\ tried' = tried \cup {<<"2E", "nct">>}
           \/ /\ pc' = "finish" /\ todo' = <<>> /\ tried' = tried
    BY <1>5 DEF Start, Begin, device
  <2>2. Here' = "2E"
    BY <2>1 DEF Here, PortPairs
  <2>3. SUFFICES ASSUME ~cut'
                 PROVE  Others' /\ (Here' # "162" => got'.key # "cut" /\ ModeAfter(Here1, Left)')
    BY DEF Modes
  <2>4. AtRest
    BY <1>2, <1>3, <2>1, <2>3, RestIs
  <2>5. /\ Others' /\ (Calm' => Quiet(chip'[Here']))
        /\ Tamed(Here', tried) => Quiet(chip'[Here'])
    <3>1. tried' \subseteq tried \cup {<<Here', family'>>} /\ Here' \in Pair
      BY <2>1, <2>2 DEF Pair
    <3>2. QED
      BY <2>1, <2>4, <3>1, OnToPair
  <2>6. got'.key # "cut"
    BY <2>1 DEF Nothing, Slot
  <2>7. PICK c : c = Here1'
    OBVIOUS
  <2>8. CASE /\ pc' = "probe" /\ todo' = Probe("nct", "2E")
             /\ tried' = tried \cup {<<"2E", "nct">>}
    <3>1. todo' = <<Key("87"), Key("87"), Get("cfg", "id0"), Get("cfg", "id1")>>
      BY <2>8, NctProbeIs DEF Pair
    <3>2. Left' = 4
      BY <3>1 DEF Left, Size
    <3>3. Calm' => Quiet(c)
      BY <2>5, <2>7 DEF Here1
    <3>4. QED
      BY <2>1, <2>5, <2>6, <2>7, <2>8, <3>2, <3>3, BeginsNct
  <2>9. CASE pc' = "finish" /\ todo' = <<>> /\ tried' = tried
    <3>1. Tamed(Here, tried)' => Tamed(Here', tried)
      BY <2>1, <2>9 DEF Tamed
    <3>2. Tamed(Here, tried)' => Quiet(c) /\ c.mode = "run"
      BY <2>5, <2>7, <3>1 DEF Here1, Quiet
    <3>3. ModeAfter(Here1, Left)'
      BY <2>7, <2>9, <3>2 DEF ModeAfter
    <3>4. QED
      BY <2>5, <2>6, <3>3
  <2>10. QED
    BY <2>1, <2>8, <2>9
<1>6. QED
  BY <1>4, <1>5 DEF LinuxFinish

LEMMA DecodeModes ==
  ASSUME Base, Base', Modes, DecodeStep
  PROVE  Modes'
<1>1. /\ device' = device /\ got' = got /\ family' = family /\ at' = at /\ tried' = tried
      /\ pc \in {"bank", "fields"} /\ pc' \in {"fields", "finish"} /\ todo = <<>>
      /\ pc = "bank" => family = "ite"
  BY DEF DecodeStep, NextCell, FieldDone, IteBank, RestoreBank, Done
<1>2. CASE ~NctOnWindows
  BY <1>1, <1>2, MonitorModes
<1>3. CASE NctOnWindows
  <2>1. /\ pc = "fields" /\ family = "nct" /\ os = "windows" /\ Here # "162"
    BY <1>1, <1>3 DEF NctOnWindows, Base, Outside
  <2>2. cut' = cut /\ chip' = chip /\ was' = was /\ os' = os
    BY <1>1 DEF device
  <2>3. Here' = Here /\ Here1' = Here1 /\ NctOnWindows'
    BY <1>1, <1>3, <2>2, HereSame, FamilySame DEF Here1
  <2>4. SUFFICES ASSUME ~cut'
                 PROVE  Others' /\ (Here' # "162" => got'.key # "cut" /\ ModeAfter(Here1, Left)')
    BY DEF Modes
  <2>5. Others /\ got.key # "cut" /\ ModeAfter(Here1, Left)
    BY <2>1, <2>2, <2>4 DEF Modes
  <2>6. Others'
    BY <1>1, <2>2, <2>3, <2>5, OthersStay
  <2>7. ~Locking
    BY <1>1 DEF Locking
  <2>8. Here1.mode = "run"
    BY <1>3, <2>1, <2>5, <2>7 DEF ModeAfter
  <2>9. ~Locking' /\ Left' # 1
    <3>1. CASE todo' = <<>>
      BY <3>1 DEF Locking, Left, Size
    <3>2. CASE todo' # <<>>
      <4>1. NextCell
        BY <1>1, <2>1, <3>2, <1>3 DEF DecodeStep, FieldDone, IteBank, RestoreBank, NctOnLinux,
              NctOnWindows, Done
      <4>2. PICK r : todo' = WinNctRead(r)
        BY <1>3, <4>1 DEF NextCell
      <4>3. PICK e, f : e = Put("cfg", "bank", r[1]) /\ f = Cell("cfg", r[2])
        OBVIOUS
      <4>4. todo' = <<e, f>>
        BY <4>2, <4>3 DEF WinNctRead
      <4>5. Left' = 2
        BY <4>4 DEF Left, Size
      <4>6. e.reg = "bank"
        BY <4>3, OpsAre
      <4>7. ASSUME NEW v, <<e, f>> = <<Put("cfg", "lock", v), Send("AA")>>
            PROVE  FALSE
        <5>1. e = Put("cfg", "lock", v)
          BY <4>7
        <5>2. QED
          BY <4>6, <5>1, OpsAre
      <4>8. ~Locking'
        <5>1. todo' # <<Send("AA")>>
          BY <4>4
        <5>2. QED
          BY <4>4, <4>7, <5>1 DEF Locking
      <4>9. QED
        BY <4>5, <4>8
    <3>3. QED
      BY <3>1, <3>2
  <2>10. ModeAfter(Here1, Left)'
    BY <1>1, <2>3, <2>8, <2>9 DEF ModeAfter
  <2>11. QED
    BY <1>1, <2>5, <2>6, <2>10
<1>4. QED
  BY <1>2, <1>3


LEMMA DieModes ==
  ASSUME Die
  PROVE  Modes'
<1>1. /\ pc' = "idle" /\ got' = Nothing /\ was' = chip /\ chip' = chip /\ tried' = {}
  BY DEF Die
<1>2. Others'
  BY <1>1 DEF Others, Tamed, Quiet
<1>3. got'.key # "cut"
  BY <1>1 DEF Nothing, Slot
<1>4. ModeAfter(Here1, Left)'
  BY <1>1 DEF ModeAfter
<1>5. QED
  BY <1>2, <1>3, <1>4 DEF Modes

LEMMA CallModes ==
  ASSUME Base, Call
  PROVE  Modes'
<1>1. /\ Base' /\ at' = 1 /\ was' = chip /\ chip' = chip /\ os' = os /\ got' = Nothing
      /\ family' = "ite"
      /\ \/ /\ os = "windows" /\ pc' = "ite" /\ tried' = {<<"2E", "ite">>}
            /\ todo' = IteProbe("2E")
         \/ /\ os = "linux" /\ pc' = "probe" /\ tried' = {<<"2E", "ite">>}
            /\ todo' = Probe("ite", "2E")
         \/ os = "linux" /\ pc' = "finish" /\ tried' = {} /\ todo' = <<>>
  BY Calls
<1>2. Here' = "2E"
  BY <1>1 DEF Here, PortPairs
<1>3. Others'
  <2>1. \A p \in Pair \ {"2E"} : \A f : <<p, f>> \notin tried'
    BY <1>1
  <2>2. QED
    BY <1>1, <1>2, <2>1 DEF Others, Tamed, Quiet
<1>4. got'.key # "cut"
  BY <1>1 DEF Nothing, Slot
<1>5. PICK c : c = Here1'
  OBVIOUS
<1>6. Quiet(was'[Here']) => Quiet(c)
  BY <1>1, <1>5 DEF Here1, Quiet
<1>7. CASE pc' \in {"ite", "probe"}
  <2>1. tried' = {<<"2E", "ite">>} /\ todo' = IteProbe("2E")
    BY <1>1, <1>7, IteProbeIs DEF Pair
  <2>2. Calm' => Quiet(c)
    <3>1. tried' \ {<<Here', family'>>} = {}
      BY <1>1, <1>2, <2>1
    <3>2. QED
      BY <1>6, <3>1 DEF Calm, Tamed
  <2>3. PICK k : k = IF "2E" = "4E" THEN "AA" ELSE "55"
    OBVIOUS
  <2>4. todo' = <<Key("87"), Key("01"), Key("55"), Key(k), Get("cfg", "id0"),
                  Get("cfg", "id1")>>
    BY <2>1, <2>3, IteProbeIs DEF Pair
  <2>5. Left' = 6
    BY <2>4 DEF Left, Size
  <2>6. ModeAfter(Here1, Left)'
    BY <1>1, <1>5, <1>7, <2>2, <2>5, BeginsIte
  <2>7. QED
    BY <1>3, <1>4, <2>6 DEF Modes
<1>8. CASE pc' = "finish" /\ tried' = {}
  <2>1. Tamed(Here, tried)' => Quiet(c)
    BY <1>6, <1>8 DEF Tamed
  <2>2. Tamed(Here, tried)' => c.mode = "run"
    BY <2>1 DEF Quiet
  <2>3. ModeAfter(Here1, Left)'
    BY <1>5, <1>8, <2>1, <2>2 DEF ModeAfter
  <2>4. QED
    BY <1>3, <1>4, <2>3 DEF Modes
<1>9. QED
  BY <1>1, <1>7, <1>8

LEMMA InitModes ==
  ASSUME Init
  PROVE  Modes
<1>1. pc = "idle" /\ got = Nothing /\ was = chip /\ tried = {}
  BY DEF Init
<1>2. Others
  BY <1>1 DEF Others, Tamed, Quiet
<1>3. got.key # "cut"
  BY <1>1 DEF Nothing, Slot
<1>4. ModeAfter(Here1, Left)
  BY <1>1 DEF ModeAfter
<1>5. QED
  BY <1>2, <1>3, <1>4 DEF Modes

LEMMA NextModes ==
  ASSUME Base, Base', Modes, Next
  PROVE  Modes'
<1>1. Call \/ Transfer \/ DecodeStep \/ WindowsStep \/ LinuxStep \/ Die
  BY DEF Next, Step
<1>2. CASE WindowsStep
  BY <1>2, WinProbedModes, WinIteFoundModes, WinDetectedModes, WinUnlockedModes,
     WinFinishModes DEF WindowsStep
<1>3. CASE LinuxNctBank
  <2>1. /\ device' = device /\ got' = got /\ family' = family /\ at' = at /\ tried' = tried
        /\ pc = "bank" /\ pc' = "fields" /\ os = "linux"
    BY <1>3 DEF LinuxNctBank, Done
  <2>2. ~NctOnWindows
    BY <2>1 DEF NctOnWindows
  <2>3. QED
    BY <2>1, <2>2, MonitorModes
<1>4. CASE LinuxStep
  BY <1>3, <1>4, LinuxProbedModes, LinuxLeftModes, LinuxUnlockedModes, LinuxOpenedModes,
     LinuxFinishModes DEF LinuxStep
<1>5. QED
  BY <1>1, <1>2, <1>4, CallModes, TransferModes, DecodeModes, DieModes

\* A step that changes nothing.
LEMMA StutterModes ==
  ASSUME Modes, UNCHANGED vars
  PROVE  Modes'
<1>1. /\ os' = os /\ chip' = chip /\ was' = was /\ cut' = cut /\ pc' = pc
      /\ family' = family /\ at' = at /\ todo' = todo /\ got' = got /\ tried' = tried
  BY DEF vars, device
<1>2. Here' = Here /\ Here1' = Here1 /\ NctOnWindows' = NctOnWindows
  BY <1>1, HereSame, FamilySame DEF Here1
<1>3. \A p, T : Tamed(p, T)' = Tamed(p, T)
  BY <1>1 DEF Tamed
<1>4. Calm' = Calm /\ Tamed(Here, tried)' = Tamed(Here, tried)
  BY <1>1, <1>2 DEF Calm, Tamed
<1>5. Others' = Others
  BY <1>1, <1>2 DEF Others, Tamed, Quiet
<1>6. Locking' = Locking /\ Left' = Left
  BY <1>1 DEF Locking, Left
<1>7. ModeAfter(Here1, Left)' = ModeAfter(Here1, Left)
  BY <1>1, <1>2, <1>4, <1>6, ZenonT(60) DEF ModeAfter
<1>8. QED
  BY <1>1, <1>2, <1>5, <1>7 DEF Modes

\* Unless a write of it failed, a call leaves no chip in configuration mode.
THEOREM ConfigModeLeft == Spec => []LeavesConfigMode
<1>1. Init => Base /\ Modes
  BY InitBase, InitModes
<1>2. Base /\ Modes /\ [Next]_vars => (Base /\ Modes)'
  BY NextBase, NextModes, StutterBase, StutterModes
<1>3. ASSUME Base, Modes
      PROVE  LeavesConfigMode
  <2>1. SUFFICES ASSUME Returned, ~cut, NEW p \in Pair,
                        \/ Quiet(was[p])
                        \/ \E f \in {"ite", "nct"} :
                             <<p, f>> \in tried /\ chip[p].kind \in Speaks(f)
                 PROVE  chip[p].mode = "run"
    BY <1>3 DEF LeavesConfigMode, Base, TypeInv, BoardTyped
  <2>2. Tamed(p, tried)
    BY <2>1 DEF Tamed, Speaks, Hears
  <2>3. CASE p = "162"
    BY <1>3, <2>3 DEF Base, Outside, Quiet
  <2>4. CASE p # Here
    BY <1>3, <2>1, <2>2, <2>4 DEF Modes, Others, Quiet
  <2>5. CASE p = Here /\ p # "162"
    BY <1>3, <2>1, <2>2, <2>5 DEF Modes, ModeAfter, Returned, Here1
  <2>6. QED
    BY <2>3, <2>4, <2>5
<1>4. QED
  BY <1>1, <1>2, <1>3, PTL DEF Spec

\* The next access is one of the list.
LEMMA Head3 ==
  ASSUME NEW d, NEW e, NEW f, NEW s \in Ends3(d, e, f), s # <<>>
  PROVE  Head(s) = d \/ Head(s) = e \/ Head(s) = f
BY Next3

LEMMA Head4 ==
  ASSUME NEW c, NEW d, NEW e, NEW f, NEW s \in Ends4(c, d, e, f), s # <<>>
  PROVE  Head(s) = c \/ Head(s) = d \/ Head(s) = e \/ Head(s) = f
BY Next4

LEMMA Head5 ==
  ASSUME NEW b, NEW c, NEW d, NEW e, NEW f, NEW s \in Ends5(b, c, d, e, f), s # <<>>
  PROVE  Head(s) = b \/ Head(s) = c \/ Head(s) = d \/ Head(s) = e \/ Head(s) = f
BY Next5

LEMMA Head6 ==
  ASSUME NEW a, NEW b, NEW c, NEW d, NEW e, NEW f, NEW s \in Ends6(a, b, c, d, e, f), s # <<>>
  PROVE  Head(s) = a \/ Head(s) = b \/ Head(s) = c \/ Head(s) = d \/ Head(s) = e \/ Head(s) = f
BY Next6

\* The procedures that speak to the monitor use its ports.
LEMMA MonitorPort ==
  ASSUME Base, todo # <<>>, pc \in {"bank", "fields", "finish"}, ~NctOnWindows
  PROVE  Head(todo).port = "mon"
<1>1. PICK a : a = Head(todo)
  OBVIOUS
<1>2. CASE pc = "bank"
  <2>1. todo \in Ends1(Get("mon", "bank"))
    BY <1>2 DEF Base, Queue
  <2>2. a = Get("mon", "bank")
    BY <1>1, <2>1, Next1
  <2>3. QED
    BY <1>1, <2>2, OwnOps
<1>3. CASE pc = "finish"
  <2>1. todo = <<Put("mon", "bank", got.bank)>>
    BY <1>3 DEF Base, Queue
  <2>2. a = Put("mon", "bank", got.bank)
    BY <1>1, <2>1
  <2>3. QED
    BY <1>1, <2>2, OpsAre
<1>4. CASE pc = "fields"
  <2>1. PICK r : r = NextReg
    OBVIOUS
  <2>2. \/ todo = <<Put("mon", "bank", ReadBank(got.bank))>>
        \/ todo \in Ends2(Put("mon", "bank", r[1]), Cell("mon", r[2]))
        \/ todo = <<Cell("mon", r[2])>>
    BY <1>4, <2>1 DEF Base, Queue, FieldsQueue
  <2>3. PICK e, f, g : /\ e = Put("mon", "bank", r[1]) /\ f = Cell("mon", r[2])
                       /\ g = Put("mon", "bank", ReadBank(got.bank))
    OBVIOUS
  <2>4. \/ todo = <<g>> \/ todo \in Ends2(e, f) \/ todo = <<f>>
    BY <2>2, <2>3
  <2>5. a \in {e, f, g}
    BY <1>1, <2>4, Next2
  <2>6. e.port = "mon" /\ f.port = "mon" /\ g.port = "mon"
    <3>1. e.port = "mon" /\ g.port = "mon"
      BY <2>3, OpsAre
    <3>2. f.port = "mon"
      BY <2>3, OpsAre
    <3>3. QED
      BY <3>1, <3>2
  <2>7. QED
    BY <1>1, <2>5, <2>6
<1>5. QED
  BY <1>2, <1>3, <1>4

\* A transfer leaves the other pairs alone.
LEMMA ElsewhereSame ==
  ASSUME TypeInv, Transfer
  PROVE  \A p \in Pair \ {Here} : chip'[p] = chip[p]
<1>1. PICK a, f, v : Moves(a, f, v)
  BY TransferIs
<1>2. Here \in Pair /\ chip \in [Pair -> ChipType]
  BY HereIs DEF TypeInv, BoardTyped, CallTyped
<1>3. QED
  BY <1>1, <1>2 DEF Moves

-----------------------------------------------------------------------------
(* What is written to the chips' registers. *)

\* The only writes to the configuration, and where they are made.
LEMMA PutsAre ==
  ASSUME Base, todo # <<>>, NEW a, a = Head(todo), a.op = "put", a.port = "cfg"
  PROVE  \/ a.reg = "ldn" /\ a.val = "mon" /\ (pc = "unlock" \/ Finding)
         \/ /\ a.reg = "ctl" /\ a.val = "leave"
            /\ \/ family = "ite" /\ (pc = "leave" \/ Finding)
               \/ pc = "detect" /\ Left = 6
         \/ /\ a.reg = "lock" /\ a.val \in Byte /\ pc \in {"open", "fields"} /\ family = "nct"
            /\ todo = <<Put("cfg", "lock", a.val), Send("AA")>>
         \/ a.reg = "bank" /\ pc = "fields" /\ NctOnWindows /\ ~Locking
<1>1. pc \in Procedure /\ family \in {"ite", "nct"} /\ os \in {"windows", "linux"}
  BY DEF Base, TypeInv, CallTyped, BoardTyped
<1>2. PICK w, k : w = Put("cfg", "ldn", "mon") /\ k = Key(IF Here = "4E" THEN "AA" ELSE "55")
  OBVIOUS
<1>3. PICK s : s = todo
  OBVIOUS
<1>4. a = Head(s) /\ s # <<>> /\ k.op = "key"
  BY <1>2, <1>3, OpsAre
<1>5. CASE pc \in {"ite", "probe"} /\ family = "ite"
  <2>1. s \in Ends6(Key("87"), Key("01"), Key("55"), k, Get("cfg", "id0"), Get("cfg", "id1"))
    BY <1>2, <1>3, <1>5 DEF Base, Queue, IteKeyed
  <2>2. \/ Head(s) = Key("87")
        \/ Head(s) = Key("01")
        \/ Head(s) = Key("55")
        \/ Head(s) = k
        \/ Head(s) = Get("cfg", "id0")
        \/ Head(s) = Get("cfg", "id1")
    BY <1>4, <2>1, Head6
  <2>3. QED
    BY <1>4, <2>2, OwnOps
<1>6. CASE pc = "probe" /\ family = "nct"
  <2>1. s \in Ends4(Key("87"), Key("87"), Get("cfg", "id0"), Get("cfg", "id1"))
    BY <1>3, <1>6 DEF Base, Queue, NctKeyed
  <2>2. \/ Head(s) = Key("87")
        \/ Head(s) = Get("cfg", "id0")
        \/ Head(s) = Get("cfg", "id1")
    BY <1>4, <2>1, Head4
  <2>3. QED
    BY <1>4, <2>2, OwnOps
<1>7. CASE pc = "detect"
  <2>1. s \in Detected
    BY <1>3, <1>7 DEF Base, Queue
  <2>2. \/ Size(s) = 6 /\ a = Leave
        \/ a \in {Key("87"), Get("cfg", "id0"), Get("cfg", "id1"), Send("AA")}
    BY <1>4, <2>1, Next6, SMTT(30) DEF Detected
  <2>3. QED
    BY <1>3, <1>7, <2>2, OwnOps DEF Left
<1>8. CASE pc = "leave"
  <2>1. s \in IF family = "ite" THEN Ends1(Leave) ELSE Ends1(Send("AA"))
    BY <1>3, <1>8 DEF Base, Queue
  <2>2. a = IF family = "ite" THEN Leave ELSE Send("AA")
    BY <1>4, <2>1, Next1
  <2>3. QED
    BY <1>8, <2>2, OwnOps
<1>9. CASE Finding /\ family = "ite"
  <2>1. s \in FoundThen(Leave)
    BY <1>3, <1>9 DEF Base, Queue, Finding
  <2>2. s \in Ends5(w, Get("cfg", "active"), Get("cfg", "base0"), Get("cfg", "base1"), Leave)
    BY <1>2, <2>1 DEF FoundThen
  <2>3. \/ Head(s) = w
        \/ Head(s) = Get("cfg", "active")
        \/ Head(s) = Get("cfg", "base0")
        \/ Head(s) = Get("cfg", "base1")
        \/ Head(s) = Leave
    BY <1>4, <2>2, Head5
  <2>4. QED
    BY <1>2, <1>4, <1>9, <2>3, OwnOps
<1>10. CASE pc = "unlock"
  <2>1. CASE os = "windows"
    <3>1. s \in Ends3(Key("87"), Key("87"), Get("cfg", "lock"))
      BY <1>3, <1>10, <2>1 DEF Base, Queue
    <3>2. \/ Head(s) = Key("87")
          \/ Head(s) = Get("cfg", "lock")
      BY <1>4, <3>1, Head3
    <3>3. QED
      BY <1>4, <3>2, OwnOps
  <2>2. CASE os = "linux"
    <3>1. \/ s \in Ends5(w, Get("cfg", "active"), Get("cfg", "base0"),
                         Get("cfg", "base1"), Get("cfg", "lock"))
          \/ s \in Ends4(w, Get("cfg", "active"), Get("cfg", "base0"), Get("cfg", "base1"))
      BY <1>2, <1>3, <1>10, <2>2 DEF Base, Queue, FoundThen, Found
    <3>2. \/ Head(s) = w
          \/ Head(s) = Get("cfg", "active")
          \/ Head(s) = Get("cfg", "base0")
          \/ Head(s) = Get("cfg", "base1")
          \/ Head(s) = Get("cfg", "lock")
      <4>1. CASE s \in Ends5(w, Get("cfg", "active"), Get("cfg", "base0"),
                             Get("cfg", "base1"), Get("cfg", "lock"))
        BY <1>4, <4>1, Head5
      <4>2. CASE s \in Ends4(w, Get("cfg", "active"), Get("cfg", "base0"), Get("cfg", "base1"))
        BY <1>4, <4>2, Head4
      <4>3. QED
        BY <3>1, <4>1, <4>2
    <3>3. QED
      BY <1>2, <1>4, <1>10, <3>2, OwnOps
  <2>3. QED
    BY <1>1, <2>1, <2>2
<1>11. ASSUME Locking, pc \in {"open", "fields"}, family = "nct"
       PROVE  /\ a.reg = "lock" /\ a.val \in Byte
              /\ todo = <<Put("cfg", "lock", a.val), Send("AA")>>
  <2>1. CASE a = Send("AA")
    BY <2>1, OwnOps
  <2>2. ASSUME NEW v \in Byte, a = Put("cfg", "lock", v),
               todo = <<Put("cfg", "lock", v), Send("AA")>>
        PROVE  /\ a.reg = "lock" /\ a.val \in Byte
               /\ todo = <<Put("cfg", "lock", a.val), Send("AA")>>
    BY <2>2, OpsAre
  <2>3. QED
    BY <1>11, <2>1, <2>2, LockingNext
<1>12. CASE pc = "open" /\ family = "nct"
  <2>1. Locking
    BY <1>12 DEF Base, Queue
  <2>2. QED
    BY <1>11, <1>12, <2>1
<1>13. CASE pc \in {"bank", "fields", "finish"} /\ ~NctOnWindows
  BY <1>13, MonitorPort
<1>14. CASE pc = "fields" /\ NctOnWindows
  <2>1. family = "nct"
    BY <1>14 DEF NctOnWindows
  <2>2. CASE Locking
    BY <1>11, <1>14, <2>1, <2>2
  <2>3. CASE ~Locking
    <3>1. PICK r : r = NextReg
      OBVIOUS
    <3>2. PICK e, f : e = Put("cfg", "bank", r[1]) /\ f = Cell("cfg", r[2])
      OBVIOUS
    <3>3. s \in Ends2(e, f)
      BY <1>3, <1>4, <1>14, <2>1, <2>3, <3>1, <3>2 DEF Base, Queue, FieldsQueue, NctOnWindows,
         NctOnLinux
    <3>4. a = e \/ a = f
      BY <1>4, <3>3, Next2
    <3>5. QED
      BY <1>14, <2>3, <3>2, <3>4, OpsAre
  <2>4. QED
    BY <2>2, <2>3
<1>15. pc \notin {"idle", "returned"} /\ (pc = "ite" => family = "ite")
       /\ (pc \in {"bank", "finish"} => ~NctOnWindows)
  BY DEF Base, Queue, NctOnWindows
<1>16. pc = "ite find" => family = "ite"
  BY Zenon DEF Base, Queue
<1>17. QED
  BY <1>1, <1>5, <1>6, <1>7, <1>8, <1>9, <1>10, <1>12, <1>13, <1>14, <1>15, <1>16, Zenon
     DEF Procedure, Finding

\* Steps that leave the chips alone.
LEMMA StepDevice ==
  ASSUME DecodeStep \/ WindowsStep \/ LinuxStep
  PROVE  device' = device
<1>1. DecodeStep => device' = device
  BY DEF DecodeStep, NextCell, FieldDone, IteBank, RestoreBank
<1>2. WindowsStep => device' = device
  BY DEF WindowsStep, WinProbed, WinIteFound, WinDetected, WinUnlocked, WinFinish, Return
<1>3. LinuxStep => device' = device
  BY DEF LinuxStep, LinuxProbed, LinuxLeft, LinuxUnlocked, LinuxOpened, LinuxNctBank,
     LinuxFinish, Return
<1>4. QED
  BY <1>1, <1>2, <1>3

\* Chips and history at the beginning of a call.
LEMMA Begun ==
  ASSUME Base, Call \/ Die
  PROVE  was' = chip /\ chip' = chip /\ base' = "none" /\ pc' \notin {"bank", "fields", "unlock", "open"}
         /\ os' = os /\ (pc' = "finish" => todo' = <<>>)
<1>1. CASE Call
  <2>1. /\ was' = chip /\ chip' = chip /\ os' = os /\ pc' \in {"ite", "probe", "finish"}
        /\ pc' = "finish" => todo' = <<>>
    BY <1>1, Calls
  <2>2. base' = base /\ pc \in {"idle", "returned"}
    BY <1>1 DEF Call, WinCall, LinuxCall, NewCall
  <2>3. base = "none"
    BY <2>2 DEF Base, Queue
  <2>4. QED
    BY <2>1, <2>2, <2>3
<1>2. CASE Die
  BY <1>2 DEF Die
<1>3. QED
  BY <1>1, <1>2

-----------------------------------------------------------------------------
(* Nothing is overwritten that the library has no business with. *)

\* A chip that takes the exit sequence of the other family for a write was
\* not quiet when the call began.
LEMMA LeftWrongly ==
  ASSUME Base, Modes, ~cut, Here # "162", Here1.mode = "config", Here1.kind # "ite",
         \/ family = "ite" /\ (pc = "leave" \/ Finding)
         \/ pc = "detect" /\ Left = 6
  PROVE  ~Quiet(was[Here])
<1>1. PICK c : c = Here1
  OBVIOUS
<1>2. ModeAfter(c, Left)
  BY <1>1 DEF Modes
<1>3. Here \in Pair
  BY HereIs DEF Base, TypeInv, BoardTyped, CallTyped
<1>4. ChipOk(c, Here)
  BY <1>1, <1>3 DEF Base, TypeInv, BoardTyped, Here1
<1>5. c.kind \in Kind \ {"none"} /\ ~Quiet(c)
  <2>1. ~Quiet(c)
    BY <1>1 DEF Quiet
  <2>2. c.kind \in Kind
    BY <1>4, ChipFields DEF ChipOk
  <2>3. QED
    BY <1>4, <2>1, <2>2 DEF ChipOk
<1>6. c.kind \in {"nct", "older", "unknown"}
  BY <1>1, <1>5 DEF Kind
<1>7. CASE pc = "detect" /\ Left = 6
  <2>1. family = "nct"
    BY <1>7 DEF Base, Queue
  <2>2. c.kind \in Hears(family)
    BY <1>6, <2>1 DEF Hears
  <2>3. Quiet(was[Here]) => Quiet(c)
    BY <1>2, <1>7, <2>2 DEF ModeAfter
  <2>4. QED
    BY <1>5, <2>3
<1>8. CASE pc = "leave" /\ family = "ite"
  <2>1. c.kind \notin Hears(family)
    BY <1>6, <1>8 DEF Hears
  <2>2. Calm => Quiet(c)
    BY <1>2, <1>8, <2>1 DEF ModeAfter
  <2>3. QED
    BY <1>5, <2>2 DEF Calm, Tamed
<1>9. CASE Finding /\ family = "ite"
  <2>1. Here1.kind \in Speaks(family)
    BY <1>9 DEF Finding, Base, Queue
  <2>2. QED
    BY <1>9, <2>1 DEF Speaks
<1>10. QED
  BY <1>7, <1>8, <1>9

LEMMA TransferHurts ==
  ASSUME Base, Modes, Hurts, Transfer
  PROVE  Hurts'
<1>1. SUFFICES ASSUME ~cut', NEW p \in Pair
               PROVE  chip'[p].hurt \subseteq
                        was[p].hurt \cup (IF Quiet(was[p]) THEN {} ELSE {"ctl"})
  <2>1. was' = was
    BY TransferIs
  <2>2. QED
    BY <1>1, <2>1 DEF Hurts, Quiet
<1>2. todo # <<>>
  BY TransferIs
<1>3. ~cut
  BY <1>1, TransferIs, Zenon DEF Moves
<1>4. chip[p].hurt \subseteq was[p].hurt \cup (IF Quiet(was[p]) THEN {} ELSE {"ctl"})
  BY <1>3 DEF Hurts
<1>5. CASE chip'[p] = chip[p]
  BY <1>4, <1>5
<1>6. CASE Here # "162" /\ p = Here
  <2>1. PICK a, c, d :
          /\ a = Head(todo) /\ c = Here1 /\ d = Here1'
          /\ ChipOk(c, Here) /\ ChipOk(d, Here) /\ Effect(c, d, a) /\ Fitting(a)
          /\ c.mode \in {"run", "config"} /\ c.key \in 0 .. 3 /\ c.kind \in Kind
          /\ c.kind \notin {"ite", "none"} => c.key <= 1
          /\ d.kind = c.kind
    BY <1>1, <1>6, CleanSteps
  <2>2. d = chip'[p] /\ c = chip[p]
    BY <1>1, <1>6, <2>1, CleanTransfer DEF Here1
  <2>3. CASE d.hurt = c.hurt
    BY <1>4, <2>2, <2>3
  <2>4. CASE d.hurt # c.hurt
    <3>1. a.op = "put" /\ a.port = "cfg"
      BY <2>1, <2>4 DEF Effect, Visited, Heard, Same, Fitting, Proper, Request
    <3>2. Written(c, d, a.reg, a.val)
      BY <2>1, <3>1 DEF Effect
    <3>3. /\ c.mode = "config" /\ a.reg \notin {"ldn", "lock"}
          /\ ~(a.reg = "ctl" /\ c.kind = "ite" /\ a.val = "leave")
          /\ d.hurt = c.hurt \cup {a.reg}
      BY <2>1, <2>4, <3>2 DEF Written
    <3>4. CASE a.reg = "bank" /\ pc = "fields" /\ NctOnWindows /\ ~Locking
      <4>1. c.mode = "run"
        BY <1>3, <1>6, <2>1, <3>4 DEF Modes, ModeAfter
      <4>2. QED
        BY <3>3, <4>1
    <3>5. CASE /\ a.reg = "ctl" /\ a.val = "leave"
               /\ \/ family = "ite" /\ (pc = "leave" \/ Finding)
                  \/ pc = "detect" /\ Left = 6
      <4>1. ~Quiet(was[Here])
        BY <1>3, <1>6, <2>1, <3>3, <3>5, LeftWrongly
      <4>2. QED
        BY <1>4, <1>6, <2>2, <3>3, <3>5, <4>1
    <3>6. QED
      BY <1>2, <2>1, <3>1, <3>3, <3>4, <3>5, PutsAre
  <2>5. QED
    BY <2>3, <2>4
<1>7. CASE Here = "162"
  <2>1. chip' = chip
    BY <1>7, TransferOutside DEF Base
  <2>2. QED
    BY <1>5, <2>1
<1>8. CASE p # Here
  <2>1. chip'[p] = chip[p]
    BY <1>8, ElsewhereSame DEF Base
  <2>2. QED
    BY <1>5, <2>1
<1>9. QED
  BY <1>6, <1>7, <1>8

LEMMA NextHurts ==
  ASSUME Base, Modes, Hurts, [Next]_vars
  PROVE  Hurts'
<1>1. CASE Transfer
  BY <1>1, TransferHurts
<1>2. CASE device' = device
  BY <1>2 DEF device, Hurts, Quiet
<1>3. CASE Call \/ Die
  BY <1>3, Begun DEF Hurts
<1>4. CASE UNCHANGED vars
  BY <1>2, <1>4 DEF vars
<1>5. CASE DecodeStep \/ WindowsStep \/ LinuxStep
  BY <1>2, <1>5, StepDevice
<1>6. QED
  BY <1>1, <1>3, <1>4, <1>5 DEF Next, Step

-----------------------------------------------------------------------------
(* The lock register. *)

\* A write of it is not left over by another access.
LEMMA ShortTail ==
  ASSUME Base, todo # <<>>, pc \in {"open", "fields"}, family = "nct"
  PROVE  \A e, f : Tail(todo) # <<e, f>>
<1>1. CASE Locking
  <2>1. Tail(todo) = <<>> \/ Tail(todo) = <<Send("AA")>>
    BY <1>1, LockingNext
  <2>2. \A e, f : <<>> # <<e, f>> /\ <<Send("AA")>> # <<e, f>>
    OBVIOUS
  <2>3. QED
    BY <2>1, <2>2
<1>2. CASE pc = "fields" /\ ~Locking
  <2>1. PICK p, r : \/ todo \in Ends2(Put("cfg", "bank", r[1]), Cell("cfg", r[2]))
                    \/ todo \in Ends2(Put("mon", "bank", r[1]), Cell("mon", r[2]))
    BY <1>2 DEF Base, Queue, FieldsQueue
  <2>2. ASSUME NEW x, NEW y, todo \in Ends2(x, y), NEW e, NEW f
        PROVE  Tail(todo) # <<e, f>>
    <3>1. CASE todo = <<x, y>>
      BY <3>1
    <3>2. CASE todo = <<y>>
      BY <3>2
    <3>3. QED
      BY <2>2, <3>1, <3>2 DEF Ends2, Ends1
  <2>3. QED
    BY <2>1, <2>2
<1>3. QED
  BY <1>1, <1>2 DEF Base, Queue

\* What may become of the register adds up.
LEMMA Loosening ==
  ASSUME NEW u, NEW v, NEW w
  PROVE  /\ Loosened(u, u)
         /\ Loosened(u, v) /\ Loosened(v, w) => Loosened(u, w)
         /\ os' = os /\ lost \subseteq lost' /\ Loosened(u, v) => Loosened(u, v)'
BY DEF Loosened

\* No byte that was read is forgotten within a call.
LEMMA LostGrows ==
  ASSUME Transfer
  PROVE  lost \subseteq lost'
<1>1. PICK a, f, v : Moves(a, f, v)
  BY TransferIs
<1>2. QED
  BY <1>1 DEF Moves

\* A chip that is asked for its lock register in configuration mode.
LEMMA SaysLock ==
  ASSUME NEW c, NEW d, c.mode = "config", c.kind \notin {"ite", "none"},
         Heard(c, d, Here, "lock")
  PROVE  Say(d) = d.lock /\ d.lock = c.lock
<1>1. NctTurn(c, d, "lock") /\ d.lock = c.lock
  BY DEF Heard, Same
<1>2. d.mode = "config" /\ d.index = "lock"
  BY <1>1 DEF NctTurn
<1>3. QED
  BY <1>1, <1>2 DEF Say

\* While the lock register is read, and the monitor looked for before.
LEMMA UnlockReads ==
  ASSUME Base, Modes, Transfer, ~cut, ~cut', pc = "unlock", LockHere
  PROVE  LockHere'
<1>1. Here # "162"
  BY DEF Base, Outside
<1>2. PICK a, c, d :
        /\ a = Head(todo) /\ c = Here1 /\ d = Here1'
        /\ ChipOk(c, Here) /\ ChipOk(d, Here) /\ Effect(c, d, a) /\ Fitting(a)
        /\ c.mode \in {"run", "config"} /\ c.key \in 0 .. 3 /\ c.kind \in Kind
        /\ c.kind \notin {"ite", "none"} => c.key <= 1
        /\ d.kind = c.kind
  BY <1>1, CleanSteps
<1>3. PICK n, m : n = Left /\ m = Left'
  OBVIOUS
<1>4. todo # <<>> /\ pc' = pc /\ os' = os /\ Here' = Here
  BY TransferIs
<1>5. /\ todo' = Tail(todo) /\ lost \subseteq lost' /\ (a.op # "get" => got' = got)
      /\ a.op = "get" => \E s : /\ got' = [got EXCEPT ![a.reg] = s]
                                /\ Answers(d, a, s, a.reg \in lost')
  BY <1>1, <1>2, CleanTransfer
<1>6. ModeAfter(c, n)
  BY <1>1, <1>2, <1>3 DEF Modes
<1>7. c.kind \in {"nct", "older"} /\ (os = "windows" \/ os = "linux")
  BY <1>2 DEF Base, Queue, Speaks, TypeInv, BoardTyped
<1>8. got \in [Slot -> Byte] /\ "lock" \in Slot
  BY NothingIs DEF Base, TypeInv, CallTyped
<1>9. got.lock \in {"none", c.lock}
  BY <1>2 DEF LockHere
<1>10. PICK w : w = Put("cfg", "ldn", "mon")
  OBVIOUS
<1>11. \/ a = w \/ a.op = "key" \/ (a.op = "get" /\ a.reg # "lock")
       \/ /\ a = Get("cfg", "lock") /\ n = 1 /\ c.mode = "config"
  <2>1. CASE os = "windows"
    <3>1. todo \in Ends3(Key("87"), Key("87"), Get("cfg", "lock"))
      BY <2>1 DEF Base, Queue
    <3>2. \/ n = 3 /\ a = Key("87")
          \/ n = 2 /\ a = Key("87")
          \/ n = 1 /\ a = Get("cfg", "lock")
      BY <1>2, <1>3, <1>4, <3>1, Next3, SMTT(30) DEF Left
    <3>3. n = 1 => NctHeard(c, 2)
      BY <1>6, <2>1 DEF ModeAfter
    <3>4. QED
      BY <3>2, <3>3, OwnOps DEF NctHeard
  <2>2. CASE os = "linux"
    <3>1. c.mode = "config"
      BY <1>6, <2>2 DEF ModeAfter
    <3>2. \/ todo \in Ends5(w, Get("cfg", "active"), Get("cfg", "base0"),
                            Get("cfg", "base1"), Get("cfg", "lock"))
          \/ todo \in Ends4(w, Get("cfg", "active"), Get("cfg", "base0"), Get("cfg", "base1"))
      BY <1>10, <2>2 DEF Base, Queue, FoundThen, Found
    <3>3. \/ a = w \/ a = Get("cfg", "active") \/ a = Get("cfg", "base0")
          \/ a = Get("cfg", "base1") \/ (a = Get("cfg", "lock") /\ n = 1)
      <4>1. CASE todo \in Ends5(w, Get("cfg", "active"), Get("cfg", "base0"),
                                Get("cfg", "base1"), Get("cfg", "lock"))
        BY <1>2, <1>3, <1>4, <4>1, Next5, SMTT(30) DEF Left
      <4>2. CASE todo \in Ends4(w, Get("cfg", "active"), Get("cfg", "base0"),
                                Get("cfg", "base1"))
        <5>1. PICK s : s = todo
          OBVIOUS
        <5>2. \/ Head(s) = w
              \/ Head(s) = Get("cfg", "active")
              \/ Head(s) = Get("cfg", "base0")
              \/ Head(s) = Get("cfg", "base1")
          BY <1>4, <4>2, <5>1, Head4
        <5>3. QED
          BY <1>2, <5>1, <5>2
      <4>3. QED
        BY <3>2, <4>1, <4>2
    <3>4. QED
      BY <3>1, <3>3, OwnOps
  <2>3. QED
    BY <1>7, <2>1, <2>2
<1>12. a.op # "put" \/ a = w
  BY <1>11, OwnOps
<1>13. d.lock = c.lock
  <2>1. CASE a = w
    BY <1>2, <1>10, <2>1, OwnOps DEF Effect, Written
  <2>2. CASE a.op # "put"
    BY <1>2, <2>2 DEF Effect, Visited, Heard, Same
  <2>3. QED
    BY <1>12, <2>1, <2>2
<1>14. CASE a = Get("cfg", "lock") /\ n = 1 /\ c.mode = "config"
  <2>1. PICK s : /\ got' = [got EXCEPT !["lock"] = s]
                 /\ Answers(d, a, s, "lock" \in lost')
    BY <1>5, <1>14, OwnOps
  <2>2. Heard(c, d, Here, "lock")
    BY <1>2, <1>14, OwnOps DEF Effect
  <2>3. Say(d) = d.lock
    BY <1>7, <1>14, <2>2, SaysLock
  <2>4. \/ s = "none" /\ "lock" \in lost'
        \/ s = c.lock
    BY <1>13, <1>14, <2>1, <2>3, OwnOps DEF Answers
  <2>5. got'.lock = s
    BY <1>8, <2>1
  <2>6. c.lock # "none"
    BY <1>2 DEF ChipOk
  <2>7. got'.lock \in {"none", d.lock} /\ (got'.lock # "none" \/ "lock" \in lost')
    BY <1>13, <2>4, <2>5, <2>6
  <2>8. QED
    BY <1>2, <1>4, <2>7 DEF LockHere
<1>15. CASE ~(a = Get("cfg", "lock") /\ n = 1 /\ c.mode = "config")
  <2>1. a = w \/ a.op = "key" \/ (a.op = "get" /\ a.reg # "lock")
    BY <1>11, <1>15
  <2>2. got'.lock = got.lock
    <3>1. CASE a.op = "get"
      <4>1. a.reg # "lock"
        BY <1>10, <2>1, <3>1, OwnOps
      <4>2. QED
        BY <1>5, <1>8, <3>1, <4>1
    <3>2. QED
      BY <1>5, <3>1
  <2>3. os = "windows" \/ c.kind = "nct" => m >= 1
    <3>1. a # Get("cfg", "lock")
      BY <1>10, <2>1, OwnOps
    <3>2. CASE os = "windows"
      <4>1. todo \in Ends3(Key("87"), Key("87"), Get("cfg", "lock"))
        BY <3>2 DEF Base, Queue
      <4>2. \/ n = 3 /\ m = 2 /\ a = Key("87")
            \/ n = 2 /\ m = 1 /\ a = Key("87")
            \/ n = 1 /\ m = 0 /\ a = Get("cfg", "lock")
        BY <1>2, <1>3, <1>4, <1>5, <4>1, Next3 DEF Left
      <4>3. QED
        BY <3>1, <4>2
    <3>3. CASE os = "linux" /\ c.kind = "nct"
      <4>1. todo \in Ends5(w, Get("cfg", "active"), Get("cfg", "base0"),
                           Get("cfg", "base1"), Get("cfg", "lock"))
        BY <1>2, <1>10, <3>3 DEF Base, Queue, FoundThen
      <4>2. \/ m = 4 \/ m = 3 \/ m = 2 \/ m = 1
            \/ m = 0 /\ a = Get("cfg", "lock")
        BY <1>2, <1>3, <1>4, <1>5, <4>1, Next5 DEF Left
      <4>3. QED
        BY <3>1, <4>2
    <3>4. QED
      BY <1>7, <3>2, <3>3
  <2>4. QED
    BY <1>2, <1>3, <1>4, <1>9, <1>13, <2>2, <2>3 DEF LockHere
<1>16. QED
  BY <1>14, <1>15

LEMMA TransferLocks ==
  ASSUME Base, Modes, Locks, Transfer
  PROVE  Locks'
<1>1. SUFFICES ASSUME ~cut'
               PROVE  LockHere' /\ \A p \in Pair : Loosened(was[p].lock, chip[p].lock)'
  BY DEF Locks
<1>2. /\ todo # <<>> /\ pc' = pc /\ was' = was /\ os' = os /\ family' = family
  BY TransferIs
<1>3. ~cut
  BY <1>1, TransferIs, Zenon DEF Moves
<1>4. LockHere /\ \A p \in Pair : Loosened(was[p].lock, chip[p].lock)
  BY <1>3 DEF Locks
<1>5. lost \subseteq lost'
  BY LostGrows
<1>6. LockHere'
  <2>1. CASE pc = "unlock"
    BY <1>1, <1>3, <1>4, <2>1, UnlockReads
  <2>2. CASE pc \in {"open", "fields"} /\ family = "nct"
    <3>1. Here # "162"
      BY <2>2 DEF Base, Outside
    <3>2. todo' = Tail(todo)
      BY <1>1, <3>1, CleanTransfer
    <3>3. \A e, f : todo' # <<e, f>>
      BY <1>2, <2>2, <3>2, ShortTail
    <3>4. QED
      BY <1>2, <2>2, <3>3 DEF LockHere
  <2>3. QED
    BY <1>2, <2>1, <2>2 DEF LockHere
<1>7. ASSUME NEW p \in Pair
      PROVE  Loosened(was[p].lock, chip[p].lock)'
  <2>1. PICK u, v, w : u = was[p].lock /\ v = chip[p].lock /\ w = chip'[p].lock
    OBVIOUS
  <2>2. Loosened(u, v)
    BY <1>4, <2>1
  <2>3. Loosened(v, w)
    <3>1. CASE chip'[p] = chip[p]
      BY <2>1, <3>1, Loosening
    <3>2. CASE p # Here
      BY <3>1, <3>2, ElsewhereSame DEF Base
    <3>3. CASE Here = "162"
      BY <3>1, <3>3, TransferOutside DEF Base
    <3>4. CASE p = Here /\ Here # "162"
      <4>1. PICK a, c, d :
              /\ a = Head(todo) /\ c = Here1 /\ d = Here1'
              /\ ChipOk(c, Here) /\ ChipOk(d, Here) /\ Effect(c, d, a) /\ Fitting(a)
              /\ c.mode \in {"run", "config"} /\ c.key \in 0 .. 3 /\ c.kind \in Kind
              /\ c.kind \notin {"ite", "none"} => c.key <= 1
              /\ d.kind = c.kind
        BY <1>1, <3>4, CleanSteps
      <4>2. d = chip'[p] /\ c = chip[p]
        BY <1>1, <3>4, <4>1, CleanTransfer DEF Here1
      <4>3. CASE a.op = "put" /\ a.port = "cfg" /\ a.reg = "lock"
        <5>1. /\ a.val \in Byte /\ pc \in {"open", "fields"} /\ family = "nct"
              /\ todo = <<Put("cfg", "lock", a.val), Send("AA")>>
          BY <1>2, <4>1, <4>3, PutsAre
        <5>2. Loosened(c.lock, a.val)
          BY <1>4, <4>1, <5>1 DEF LockHere
        <5>3. d.lock = c.lock \/ d.lock = a.val
          BY <4>1, <4>3 DEF Effect, Written
        <5>4. QED
          BY <2>1, <4>2, <5>2, <5>3, Loosening
      <4>4. CASE ~(a.op = "put" /\ a.port = "cfg" /\ a.reg = "lock")
        <5>1. d.lock = c.lock
          <6>1. CASE a.port = "mon"
            BY <4>1, <6>1 DEF Effect, Visited
          <6>2. CASE a.port # "mon" /\ a.op = "put"
            <7>1. Written(c, d, a.reg, a.val) /\ a.reg # "lock"
              BY <4>1, <4>4, <6>2 DEF Effect, Fitting, Proper, Request
            <7>2. PICK r, x : r = a.reg /\ x = a.val
              OBVIOUS
            <7>3. Written(c, d, r, x) /\ r # "lock"
              BY <7>1, <7>2
            <7>4. QED
              BY <4>1, <7>3 DEF Written
          <6>3. CASE a.port # "mon" /\ a.op # "put"
            BY <4>1, <6>3 DEF Effect, Heard, Same
          <6>4. QED
            BY <6>1, <6>2, <6>3
        <5>2. QED
          BY <2>1, <4>2, <5>1, Loosening
      <4>5. QED
        BY <4>3, <4>4
    <3>5. QED
      BY <3>2, <3>3, <3>4
  <2>4. Loosened(u, w)
    BY <2>2, <2>3, Loosening
  <2>5. Loosened(u, w)'
    BY <1>2, <1>5, <2>4 DEF Loosened
  <2>6. QED
    BY <1>2, <2>1, <2>5 DEF Loosened
<1>8. QED
  BY <1>6, <1>7

\* Nothing is written to the register but by a procedure that unlocks it.
LEMMA NoLocking ==
  ASSUME \/ pc' \notin {"open", "fields", "unlock"}
         \/ pc' # "unlock" /\ family' # "nct"
         \/ pc' # "unlock" /\ todo' = <<>>
  PROVE  LockHere'
<1>1. \A e, f : <<>> # <<e, f>>
  OBVIOUS
<1>2. QED
  BY <1>1 DEF LockHere

\* The value written is the one that was put together.
LEMMA ValueOf ==
  ASSUME NEW u, NEW v, NEW x, <<Put("cfg", "lock", u), x>> = <<Put("cfg", "lock", v), x>>
  PROVE  u = v
<1>1. Put("cfg", "lock", u) = Put("cfg", "lock", v)
  <2>1. PICK e, f : e = Put("cfg", "lock", u) /\ f = Put("cfg", "lock", v)
    OBVIOUS
  <2>2. <<e, x>> = <<f, x>>
    BY <2>1
  <2>3. e = f
    BY <2>2
  <2>4. QED
    BY <2>1, <2>3
<1>2. Put("cfg", "lock", u).val = u /\ Put("cfg", "lock", v).val = v
  BY OpsAre
<1>3. QED
  BY <1>1, <1>2

LEMMA WinUnlockedLocks ==
  ASSUME Base, LockHere, WinUnlocked
  PROVE  LockHere'
<1>1. /\ os = "windows" /\ pc = "unlock" /\ todo = <<>> /\ pc' = "fields"
      /\ os' = os /\ chip' = chip /\ lost' = lost /\ at' = at /\ family' = family
  BY DEF WinUnlocked, Done, device
<1>2. Here1' = Here1
  BY <1>1 DEF Here1, Here, PortPairs
<1>3. todo' = IF got.key = "cut" THEN <<>> ELSE <<Put("cfg", "lock", LockCleared)>> \o NctExit
  BY DEF WinUnlocked
<1>4. got \in [Slot -> Byte] /\ "lock" \in Slot
  BY NothingIs DEF Base, TypeInv, CallTyped
<1>5. got.lock \in Byte
  BY <1>4
<1>6. PICK w : w = LockCleared
  OBVIOUS
<1>7. w = IF got.lock = "none" THEN "wiped" ELSE IF got.lock = "set" THEN "clear" ELSE got.lock
  BY <1>6, Zenon DEF LockCleared
<1>8. w \in Byte
  BY <1>5, <1>7, Bytes
<1>9. Loosened(Here1.lock, w)
  <2>1. Left = 0
    BY <1>1, Sizes DEF Left
  <2>2. got.lock \in {"none", Here1.lock} /\ (got.lock # "none" \/ "lock" \in lost)
    BY <1>1, <2>1 DEF LockHere
  <2>3. QED
    BY <1>1, <1>7, <2>2 DEF Loosened
<1>10. Loosened(Here1.lock, w)'
  BY <1>1, <1>2, <1>9 DEF Loosened
<1>11. CASE got.key = "cut"
  <2>1. todo' = <<>> /\ pc' # "unlock"
    BY <1>1, <1>3, <1>11
  <2>2. QED
    BY <2>1, NoLocking
<1>12. CASE got.key # "cut"
  <2>1. todo' = <<Put("cfg", "lock", w), Send("AA")>>
    BY <1>3, <1>6, <1>8, <1>12, LockIs
  <2>2. ASSUME NEW v \in Byte, todo' = <<Put("cfg", "lock", v), Send("AA")>>
        PROVE  v = w
    BY <2>1, <2>2, ValueOf
  <2>3. \A v \in Byte :
          todo' = <<Put("cfg", "lock", v), Send("AA")>> => Loosened(Here1.lock, v)'
    <3>1. ASSUME NEW v \in Byte, todo' = <<Put("cfg", "lock", v), Send("AA")>>
          PROVE  Loosened(Here1.lock, v)'
      <4>1. v = w
        BY <2>2, <3>1
      <4>2. QED
        BY <1>1, <1>2, <1>9, <4>1 DEF Loosened
    <3>2. QED
      BY <3>1
  <2>4. QED
    BY <1>1, <2>3 DEF LockHere
<1>13. QED
  BY <1>11, <1>12

LEMMA LinuxUnlockedLocks ==
  ASSUME Base, LockHere, LinuxUnlocked
  PROVE  LockHere'
<1>1. /\ os = "linux" /\ pc = "unlock" /\ todo = <<>> /\ pc' = "open"
      /\ os' = os /\ chip' = chip /\ lost' = lost /\ at' = at /\ family' = family
  BY DEF LinuxUnlocked, Done, device
<1>2. Here1' = Here1
  BY <1>1 DEF Here1, Here, PortPairs
<1>3. PICK ops \in LinuxUnlock : todo' = ops \o NctExit
  BY DEF LinuxUnlocked
<1>4. Here \in Pair
  BY HereIs DEF Base, TypeInv, BoardTyped, CallTyped
<1>5. ChipOk(Here1, Here)
  BY <1>4 DEF Base, TypeInv, BoardTyped, Here1
<1>6. Here1.lock \in {"set", "clear", "wiped", "mon", "leave"}
  BY <1>1, <1>5 DEF ChipOk
<1>7. got.lock \in {"none", Here1.lock}
  BY <1>1 DEF LockHere
<1>8. CASE got.lock = "set"
  <2>1. LinuxUnlock = {<<Put("cfg", "lock", "clear")>>}
    BY <1>8, Zenon DEF LinuxUnlock
  <2>2. todo' = <<Put("cfg", "lock", "clear"), Send("AA")>>
    BY <1>3, <2>1, LockIs, Bytes
  <2>3. \A v \in Byte :
          todo' = <<Put("cfg", "lock", v), Send("AA")>> => Loosened(Here1.lock, v)'
    <3>1. ASSUME NEW v \in Byte, todo' = <<Put("cfg", "lock", v), Send("AA")>>
          PROVE  Loosened(Here1.lock, v)'
      <4>1. v = "clear"
        BY <2>2, <3>1, ValueOf
      <4>2. QED
        BY <1>1, <1>2, <1>7, <1>8, <4>1 DEF Loosened
    <3>2. QED
      BY <3>1
  <2>4. QED
    BY <1>1, <2>3 DEF LockHere
<1>9. CASE got.lock # "set"
  <2>1. got.lock \in {"none", "clear", "wiped", "mon", "leave"}
    BY <1>6, <1>7, <1>9
  <2>2. LinuxUnlock = {<<>>}
    BY <1>9, <2>1, Zenon DEF LinuxUnlock
  <2>3. todo' = <<Send("AA")>>
    <3>1. ops = <<>>
      BY <1>3, <2>2
    <3>2. QED
      BY <1>3, <3>1, LockIs, Bytes
  <2>4. \A e, f : <<Send("AA")>> # <<e, f>>
    OBVIOUS
  <2>5. QED
    BY <1>1, <2>3, <2>4 DEF LockHere
<1>10. QED
  BY <1>8, <1>9

\* A procedure that asks for the register starts with nothing in hand.
LEMMA UnlockBegins ==
  ASSUME got' = Nothing, pc' = "unlock",
         os' = "windows" \/ Here1'.kind = "nct" => Left' >= 1
  PROVE  LockHere'
<1>1. got'.lock = "none"
  BY NothingIs
<1>2. QED
  BY <1>1 DEF LockHere

LEMMA WinDetectedLocks ==
  ASSUME WinDetected
  PROVE  LockHere'
<1>1. CASE pc' = "unlock"
  <2>1. Begin("unlock", Unlock)
    BY <1>1 DEF WinDetected, Begin, Return
  <2>2. got' = Nothing /\ Left' = 3
    BY <2>1, UnlockIs, Sizes DEF Begin, Left
  <2>3. 3 >= 1
    OBVIOUS
  <2>4. QED
    BY <1>1, <2>2, <2>3, UnlockBegins
<1>2. CASE pc' # "unlock"
  <2>1. pc' \in {"ite", "returned"}
    BY <1>2 DEF WinDetected, Begin, Return
  <2>2. QED
    BY <2>1, NoLocking
<1>3. QED
  BY <1>1, <1>2

LEMMA LinuxProbedLocks ==
  ASSUME Base, LinuxProbed
  PROVE  LockHere'
<1>1. /\ os = "linux" /\ family' = family /\ os' = os /\ chip' = chip /\ at' = at
  BY DEF LinuxProbed, device
<1>2. Here1' = Here1
  BY <1>1 DEF Here1, Here, PortPairs
<1>3. family \in {"ite", "nct"}
  BY DEF Base, TypeInv, CallTyped
<1>4. CASE IsKind(Speaks(family))
  <2>1. CASE family = "ite"
    <3>1. pc' = "open"
      <4>1. chip[Here].kind # "nct"
        BY <1>4, <2>1 DEF IsKind, Speaks
      <4>2. Begin("open", LinuxFind \o IteExit)
        BY <1>4, <2>1, <4>1, Zenon DEF LinuxProbed
      <4>3. QED
        BY <4>2 DEF Begin
    <3>2. QED
      BY <1>1, <2>1, <3>1, NoLocking
  <2>2. CASE family = "nct" /\ Here1.kind = "nct"
    <3>1. Begin("unlock", LinuxFind \o <<Get("cfg", "lock")>>)
      BY <1>4, <2>2, Zenon DEF LinuxProbed, Here1
    <3>2. todo' = <<Put("cfg", "ldn", "mon"), Get("cfg", "active"), Get("cfg", "base0"),
                    Get("cfg", "base1"), Get("cfg", "lock")>>
      BY <3>1, FindIs, OwnRequests DEF Begin
    <3>3. Left' = 5 /\ got' = Nothing /\ pc' = "unlock"
      BY <3>1, <3>2, Sizes DEF Begin, Left
    <3>4. 5 >= 1
      OBVIOUS
    <3>5. QED
      BY <3>3, <3>4, UnlockBegins
  <2>3. CASE family = "nct" /\ Here1.kind # "nct"
    <3>1. Begin("unlock", LinuxFind)
      BY <1>4, <2>3, Zenon DEF LinuxProbed, Here1
    <3>2. got' = Nothing /\ pc' = "unlock"
      BY <3>1 DEF Begin
    <3>3. os' # "windows" /\ Here1'.kind # "nct"
      BY <1>1, <1>2, <2>3
    <3>4. QED
      BY <3>2, <3>3, UnlockBegins
  <2>4. QED
    BY <1>3, <2>1, <2>2, <2>3
<1>5. CASE ~IsKind(Speaks(family))
  <2>1. pc' = "leave"
    BY <1>5 DEF LinuxProbed, Begin
  <2>2. QED
    BY <2>1, NoLocking
<1>6. QED
  BY <1>4, <1>5

LEMMA NextCellLocks ==
  ASSUME Base, NextCell
  PROVE  LockHere'
<1>1. pc' = "fields"
  BY DEF NextCell, Done
<1>2. FieldsQueue' /\ CellDue
  BY <1>1, NextCellBase DEF Base, Queue
<1>3. PICK r : r = NextReg /\ r \in Register
  BY <1>2, NextRegIs DEF Base, TypeInv
<1>4. r[1] \in Bank /\ r[2] \in Offset
  BY <1>3 DEF Register
<1>5. \/ todo' = <<Put("cfg", "bank", r[1]), Cell("cfg", r[2])>>
      \/ todo' = <<Put("mon", "bank", r[1]), Cell("mon", r[2])>>
      \/ todo' = <<Cell("mon", r[2])>>
  BY <1>3, <1>4, LinuxReadIs DEF NextCell, WinNctRead, LinuxNctRead, IteRead, NextReg
<1>6. ASSUME NEW v, todo' = <<Put("cfg", "lock", v), Send("AA")>>
      PROVE  FALSE
  <2>1. PICK x, y, z : x = Cell("cfg", r[2]) /\ y = Cell("mon", r[2]) /\ z = Send("AA")
    OBVIOUS
  <2>2. z.op = "send" /\ x.op = "cell" /\ y.op = "cell"
    BY <2>1, OpsAre
  <2>3. PICK e, f, g : /\ e = Put("cfg", "bank", r[1]) /\ f = Put("mon", "bank", r[1])
                       /\ g = Put("cfg", "lock", v)
    OBVIOUS
  <2>4. <<e, x>> = <<g, z>> \/ <<f, y>> = <<g, z>> \/ <<y>> = <<g, z>>
    BY <1>5, <1>6, <2>1, <2>3
  <2>5. x = z \/ y = z
    BY <2>4
  <2>6. QED
    BY <2>2, <2>5
<1>7. QED
  BY <1>1, <1>6 DEF LockHere

LEMMA StepLocks ==
  ASSUME Base, LockHere, DecodeStep \/ WindowsStep \/ LinuxStep
  PROVE  LockHere'
<1>1. CASE DecodeStep
  <2>1. CASE FieldDone
    BY <2>1, NoLocking DEF FieldDone, Done
  <2>2. CASE IteBank
    BY <2>2, NoLocking DEF IteBank, Done
  <2>3. CASE RestoreBank
    BY <2>3, NoLocking DEF RestoreBank
  <2>4. QED
    BY <1>1, <2>1, <2>2, <2>3, NextCellLocks DEF DecodeStep
<1>2. CASE WindowsStep
  <2>1. CASE WinProbed
    BY <2>1, NoLocking DEF WinProbed, Begin
  <2>2. CASE WinIteFound
    BY <2>2, NoLocking DEF WinIteFound, Begin, Return
  <2>3. CASE WinFinish
    BY <2>3, NoLocking DEF WinFinish, Return
  <2>4. QED
    BY <1>2, <2>1, <2>2, <2>3, WinUnlockedLocks, WinDetectedLocks DEF WindowsStep
<1>3. CASE LinuxStep
  <2>1. CASE LinuxLeft
    BY <2>1, NoLocking DEF LinuxLeft, Begin
  <2>2. CASE LinuxOpened
    BY <2>2, NoLocking DEF LinuxOpened, Begin
  <2>3. CASE LinuxNctBank
    BY <2>3, NoLocking DEF LinuxNctBank, Done
  <2>4. CASE LinuxFinish
    BY <2>4, NoLocking DEF LinuxFinish, Begin, Start, Return
  <2>5. QED
    BY <1>3, <2>1, <2>2, <2>3, <2>4, LinuxProbedLocks, LinuxUnlockedLocks DEF LinuxStep
<1>4. QED
  BY <1>1, <1>2, <1>3

LEMMA NextLocks ==
  ASSUME Base, Modes, Locks, [Next]_vars
  PROVE  Locks'
<1>1. CASE Transfer
  BY <1>1, TransferLocks
<1>2. CASE device' = device /\ (LockHere => LockHere')
  BY <1>2 DEF device, Locks, Loosened
<1>3. CASE DecodeStep \/ WindowsStep \/ LinuxStep
  <2>1. device' = device
    BY <1>3, StepDevice
  <2>2. LockHere => LockHere'
    BY <1>3, StepLocks
  <2>3. QED
    BY <1>2, <2>1, <2>2
<1>4. CASE Call \/ Die
  <2>1. was' = chip /\ chip' = chip /\ pc' \notin {"open", "fields", "unlock"}
    BY <1>4, Begun
  <2>2. LockHere'
    BY <2>1, NoLocking
  <2>3. \A p \in Pair : Loosened(was[p].lock, chip[p].lock)'
    BY <2>1 DEF Loosened
  <2>4. QED
    BY <2>2, <2>3 DEF Locks
<1>5. CASE UNCHANGED vars
  <2>1. device' = device /\ LockHere' = LockHere
    BY <1>5 DEF vars, device, LockHere, Left, Size, Loosened, Here1, Here, PortPairs
  <2>2. QED
    BY <1>2, <2>1
<1>6. QED
  BY <1>1, <1>3, <1>4, <1>5 DEF Next, Step

-----------------------------------------------------------------------------
(* The monitor's bank. *)

\* Every chip has its bank, or may have lost it.
Settled == \A p \in Pair : BankFine(p, chip[p].bank)

\* An address is known while the monitor is read, and then only.
LEMMA BaseTime ==
  ASSUME Base, base # "none"
  PROVE  pc \in {"bank", "fields", "finish"} /\ ~NctOnWindows
BY DEF Base, Queue

LEMMA SettledNow ==
  ASSUME Base, Banks, ~cut,
         base = "none" \/ pc = "bank" \/ (pc = "finish" /\ todo = <<>>)
  PROVE  Settled
<1>1. BankHere /\ \A p \in Pair \ {Here} : BankFine(p, chip[p].bank)
  BY DEF Banks
<1>2. BankFine(Here, Here1.bank)
  BY <1>1 DEF BankHere, Reached
<1>3. QED
  BY <1>1, <1>2 DEF Settled, Here1

LEMMA SettledThen ==
  ASSUME cut' \/ Settled',
         \/ base' = "none" /\ pc' # "bank" /\ (pc' = "fields" => NctOnWindows')
         \/ pc' = "finish" /\ todo' = <<>>
         \/ pc' = "bank" /\ got'.bank = "none" /\ Left' >= 1,
         Here' \in Pair
  PROVE  Banks'
<1>1. SUFFICES ASSUME ~cut'
               PROVE  BankHere' /\ \A p \in Pair \ {Here'} : BankFine(p, chip[p].bank)'
  BY DEF Banks
<1>2. Settled'
  BY <1>1
<1>3. \A p \in Pair : BankFine(p, chip[p].bank)'
  BY <1>2 DEF Settled
<1>4. BankFine(Here, Here1.bank)'
  BY <1>3 DEF Here1, BankFine
<1>5. BankHere'
  BY <1>4 DEF BankHere, Reached
<1>6. QED
  BY <1>3, <1>5

LEMMA SettledSame ==
  ASSUME Settled, device' = device
  PROVE  Settled'
BY DEF Settled, device, BankFine

LEMMA HereNext ==
  ASSUME Base'
  PROVE  Here' \in Pair
<1>1. os' \in {"windows", "linux"} /\ at' \in 1 .. Len(PortPairs')
  BY DEF Base, TypeInv, BoardTyped, CallTyped
<1>2. CASE os' = "windows"
  BY <1>1, <1>2 DEF Here, PortPairs, Pair
<1>3. CASE os' = "linux"
  BY <1>1, <1>3 DEF Here, PortPairs, Pair
<1>4. QED
  BY <1>1, <1>2, <1>3

\* From one settled state to the next.
LEMMA SettledStep ==
  ASSUME Base, Base', Banks, device' = device,
         base = "none" \/ pc = "bank" \/ (pc = "finish" /\ todo = <<>>),
         \/ base' = "none" /\ pc' # "bank" /\ (pc' = "fields" => NctOnWindows')
         \/ pc' = "finish" /\ todo' = <<>>
         \/ pc' = "bank" /\ got'.bank = "none" /\ Left' >= 1
  PROVE  Banks'
<1>1. cut' \/ Settled'
  BY SettledNow, SettledSame DEF device
<1>2. Here' \in Pair
  BY HereNext
<1>3. QED
  BY <1>1, <1>2, SettledThen

\* The bank is asked for with nothing in hand.
LEMMA BankBegins ==
  ASSUME Begin("bank", <<Get("mon", "bank")>>)
  PROVE  pc' = "bank" /\ got'.bank = "none" /\ Left' >= 1
<1>1. Left' = 1
  BY Sizes DEF Begin, Left
<1>2. 1 >= 1
  OBVIOUS
<1>3. QED
  BY <1>1, <1>2, NothingIs DEF Begin

LEMMA WindowsBanks ==
  ASSUME Base, Base', Banks, WindowsStep
  PROVE  Banks'
<1>1. device' = device
  BY StepDevice
<1>2. pc \in {"ite", "ite find", "detect", "unlock", "finish"} /\ todo = <<>>
  BY DEF WindowsStep, WinProbed, WinIteFound, WinDetected, WinUnlocked, WinFinish, Done
<1>3. base = "none" \/ (pc = "finish" /\ todo = <<>>)
  BY <1>2 DEF Base, Queue
<1>4. CASE WinProbed
  <2>1. base' = base /\ pc = "ite" /\ pc' \in {"ite find", "detect"}
    BY <1>4 DEF WinProbed, Begin, Done
  <2>2. QED
    BY <1>1, <1>3, <2>1, SettledStep
<1>5. CASE WinIteFound
  <2>1. CASE Return(<<>>)
    BY <1>1, <1>3, <2>1, SettledStep DEF Return
  <2>2. CASE Begin("bank", <<Get("mon", "bank")>>)
    <3>1. pc' = "bank" /\ got'.bank = "none" /\ Left' >= 1
      BY <2>2, BankBegins
    <3>2. QED
      BY <1>1, <1>3, <3>1, SettledStep
  <2>3. QED
    BY <1>5, <2>1, <2>2 DEF WinIteFound
<1>6. CASE WinDetected
  <2>1. pc = "detect" /\ pc' \in {"unlock", "ite", "returned"} /\ (base' = base \/ base' = "none")
    BY <1>6 DEF WinDetected, Begin, Return, Done
  <2>2. QED
    BY <1>1, <1>3, <2>1, SettledStep
<1>7. CASE WinUnlocked
  <2>1. /\ os = "windows" /\ pc = "unlock" /\ pc' = "fields" /\ base' = base
        /\ family' = family /\ os' = os
    BY <1>7 DEF WinUnlocked, Done, device
  <2>2. family = "nct"
    BY <2>1 DEF Base, Queue
  <2>3. NctOnWindows'
    BY <2>1, <2>2 DEF NctOnWindows
  <2>4. QED
    BY <1>1, <1>3, <2>1, <2>3, SettledStep
<1>8. CASE WinFinish
  <2>1. base' = "none" /\ pc' = "returned"
    BY <1>8 DEF WinFinish, Return
  <2>2. QED
    BY <1>1, <1>3, <2>1, SettledStep
<1>9. QED
  BY <1>4, <1>5, <1>6, <1>7, <1>8 DEF WindowsStep

\* The reader of the Nuvoton chips takes the bank for the one it found.
LEMMA LinuxNctBankBanks ==
  ASSUME Base, Banks, LinuxNctBank
  PROVE  Banks'
<1>1. /\ pc = "bank" /\ todo = <<>> /\ family = "nct" /\ pc' = "fields" /\ cache' = got.bank
      /\ family' = family /\ at' = at /\ got' = got /\ base' = base /\ todo' = todo
      /\ os' = os /\ chip' = chip /\ was' = was /\ lost' = lost /\ cut' = cut
  BY DEF LinuxNctBank, Done, device
<1>2. Here' = Here /\ Here1' = Here1 /\ Reached' = Reached
  BY <1>1 DEF Here1, Here, PortPairs, Reached
<1>3. SUFFICES ASSUME ~cut
               PROVE  BankHere' /\ \A p \in Pair \ {Here} : BankFine(p, chip[p].bank)'
  BY <1>1, <1>2 DEF Banks
<1>4. BankHere /\ \A p \in Pair \ {Here} : BankFine(p, chip[p].bank)
  BY <1>3 DEF Banks
<1>5. \A p \in Pair \ {Here} : BankFine(p, chip[p].bank)'
  BY <1>1, <1>4 DEF BankFine
<1>6. Left = 0
  BY <1>1, Sizes DEF Left
<1>7. /\ BankFine(Here, Here1.bank) /\ (Reached => got.bank \in {"none", Here1.bank})
      /\ got.bank # "none" \/ "bank" \in lost
  BY <1>1, <1>4, <1>6 DEF BankHere
<1>8. \A b : BankFine(Here, b)' <=> BankFine(Here, b)
  BY <1>1, <1>2 DEF BankFine
<1>9. BankFine(Here, Here1.bank)' /\ (got'.bank # "none" /\ Reached => BankFine(Here, got.bank)')
  BY <1>1, <1>2, <1>7, <1>8 DEF BankFine
<1>10. Reached => Selected'
  BY <1>1, <1>2, <1>7 DEF Selected
<1>11. BankHere'
  BY <1>1, <1>2, <1>7, <1>9, <1>10 DEF BankHere
<1>12. QED
  BY <1>5, <1>11

LEMMA LinuxBanks ==
  ASSUME Base, Base', Banks, LinuxStep
  PROVE  Banks'
<1>1. device' = device
  BY StepDevice
<1>2. pc \in {"probe", "leave", "unlock", "open", "bank", "finish"} /\ todo = <<>>
  BY DEF LinuxStep, LinuxProbed, LinuxLeft, LinuxUnlocked, LinuxOpened, LinuxNctBank,
     LinuxFinish, Done
<1>3. base = "none" \/ pc = "bank" \/ (pc = "finish" /\ todo = <<>>)
  BY <1>2 DEF Base, Queue
<1>4. CASE LinuxProbed
  <2>1. base' = base /\ pc = "probe" /\ pc' \notin {"bank", "fields", "finish"}
    <3>1. base' = base /\ pc = "probe"
      BY <1>4 DEF LinuxProbed, Done
    <3>2. pc' \in {"open", "unlock", "leave"}
      <4>1. family \in {"ite", "nct"}
        BY DEF Base, TypeInv, CallTyped
      <4>2. CASE IsKind(Speaks(family))
        <5>1. CASE family = "ite"
          <6>1. chip[Here].kind # "nct"
            BY <4>2, <5>1 DEF IsKind, Speaks
          <6>2. Begin("open", LinuxFind \o IteExit)
            BY <1>4, <4>2, <5>1, <6>1, Zenon DEF LinuxProbed
          <6>3. QED
            BY <6>2 DEF Begin
        <5>2. CASE family = "nct" /\ chip[Here].kind = "nct"
          <6>1. Begin("unlock", LinuxFind \o <<Get("cfg", "lock")>>)
            BY <1>4, <4>2, <5>2, Zenon DEF LinuxProbed
          <6>2. QED
            BY <6>1 DEF Begin
        <5>3. CASE family = "nct" /\ chip[Here].kind # "nct"
          <6>1. Begin("unlock", LinuxFind)
            BY <1>4, <4>2, <5>3, Zenon DEF LinuxProbed
          <6>2. QED
            BY <6>1 DEF Begin
        <5>4. QED
          BY <4>1, <5>1, <5>2, <5>3
      <4>3. CASE ~IsKind(Speaks(family))
        BY <1>4, <4>3 DEF LinuxProbed, Begin
      <4>4. QED
        BY <4>2, <4>3
    <3>3. QED
      BY <3>1, <3>2
  <2>2. QED
    BY <1>1, <1>3, <2>1, SettledStep
<1>5. CASE LinuxLeft
  <2>1. /\ base' = base /\ pc = "leave"
        /\ pc' = "probe" \/ (pc' = "finish" /\ todo' = <<>>)
    BY <1>5 DEF LinuxLeft, Begin, Done
  <2>2. QED
    BY <1>1, <1>3, <2>1, SettledStep
<1>6. CASE LinuxUnlocked
  <2>1. base' = base /\ pc = "unlock" /\ pc' = "open"
    BY <1>6 DEF LinuxUnlocked, Done
  <2>2. QED
    BY <1>1, <1>3, <2>1, SettledStep
<1>7. CASE LinuxOpened
  <2>1. \/ Begin("bank", <<Get("mon", "bank")>>)
        \/ Begin("finish", <<>>)
    BY <1>7 DEF LinuxOpened
  <2>2. \/ pc' = "bank" /\ got'.bank = "none" /\ Left' >= 1
        \/ pc' = "finish" /\ todo' = <<>>
    BY <2>1, BankBegins DEF Begin
  <2>3. QED
    BY <1>1, <1>3, <2>2, SettledStep
<1>8. CASE LinuxFinish
  <2>1. base' = "none" /\ pc' \in {"probe", "finish", "returned"}
    BY <1>8 DEF LinuxFinish, Start, Begin, Return
  <2>2. QED
    BY <1>1, <1>3, <2>1, SettledStep
<1>9. QED
  BY <1>4, <1>5, <1>6, <1>7, <1>8, LinuxNctBankBanks DEF LinuxStep

\* From the reading of fields to more of it, or to its end.
LEMMA ReadingBanks ==
  ASSUME Base, Banks, pc = "fields", todo = <<>>, ~NctOnWindows, device' = device,
         family' = family, at' = at, base' = base, got' = got,
         \/ pc' = "fields" /\ (Selected => Putting' \/ Selected')
         \/ pc' = "finish" /\ todo' = <<>> /\ (Selected => got.bank \in {"none", Here1.bank})
         \/ pc' = "finish" /\ todo' # <<>> /\ got.bank # "none"
  PROVE  Banks'
<1>1. os' = os /\ chip' = chip /\ was' = was /\ lost' = lost /\ cut' = cut
  BY DEF device
<1>2. Here' = Here /\ Here1' = Here1 /\ Reached' = Reached
  BY <1>1 DEF Here1, Here, PortPairs, Reached
<1>3. SUFFICES ASSUME ~cut
               PROVE  BankHere' /\ \A p \in Pair \ {Here} : BankFine(p, chip[p].bank)'
  BY <1>1, <1>2 DEF Banks
<1>4. BankHere /\ \A p \in Pair \ {Here} : BankFine(p, chip[p].bank)
  BY <1>3 DEF Banks
<1>5. \A p \in Pair \ {Here} : BankFine(p, chip[p].bank)'
  BY <1>1, <1>4 DEF BankFine
<1>6. \A b : BankFine(Here, b)' <=> BankFine(Here, b)
  BY <1>1, <1>2 DEF BankFine
<1>7. BankFine(Here, Here1.bank)' <=> BankFine(Here, Here1.bank)
  BY <1>1, <1>2 DEF BankFine
<1>8. BankFine(Here, got.bank)' <=> BankFine(Here, got.bank)
  BY <1>1, <1>2 DEF BankFine
<1>9. ~Putting
  BY DEF Putting
<1>10. /\ ~Reached => BankFine(Here, Here1.bank)
       /\ got.bank # "none" \/ "bank" \in lost
       /\ Reached /\ got.bank # "none" => BankFine(Here, got.bank)
       /\ Reached => Selected
  BY <1>4, <1>9 DEF BankHere
<1>11. CASE pc' = "fields" /\ (Selected => Putting' \/ Selected')
  BY <1>5, <1>1, <1>2, <1>7, <1>8, <1>10, <1>11 DEF BankHere
<1>12. CASE pc' = "finish" /\ todo' = <<>> /\ (Selected => got.bank \in {"none", Here1.bank})
  <2>1. Reached => BankFine(Here, Here1.bank)
    <3>1. CASE Reached /\ got.bank = "none"
      <4>1. "bank" \in lost
        BY <1>10, <3>1
      <4>2. os = "linux"
        BY <3>1 DEF Base, BankKnown, TypeInv, CallTyped, BoardTyped, NctOnWindows
      <4>3. QED
        BY <4>1, <4>2 DEF BankFine
    <3>2. CASE Reached /\ got.bank # "none"
      BY <1>10, <1>12, <3>2
    <3>3. QED
      BY <3>1, <3>2
  <2>2. QED
    BY <1>5, <1>1, <1>2, <1>7, <1>10, <1>12, <2>1 DEF BankHere
<1>13. CASE pc' = "finish" /\ todo' # <<>> /\ got.bank # "none"
  BY <1>5, <1>1, <1>2, <1>7, <1>8, <1>10, <1>13 DEF BankHere
<1>14. QED
  BY <1>5, <1>11, <1>12, <1>13

LEMMA NextCellBanks ==
  ASSUME Base, Banks, NextCell, ~NctOnWindows
  PROVE  Banks'
<1>1. /\ pc = "fields" /\ todo = <<>> /\ fields # <<>>
      /\ device' = device /\ pc' = pc /\ family' = family /\ at' = at /\ base' = base
      /\ got' = got
  BY DEF NextCell, Done
<1>2. Here1' = Here1
  BY <1>1 DEF device, Here1, Here, PortPairs
<1>3. PICK r : r = NextReg /\ r \in Register
  BY NextCellBase, NextRegIs DEF Base, TypeInv
<1>4. r[1] \in Bank /\ r[2] \in Offset /\ r[1] # "none"
  BY <1>3, Bytes DEF Register
<1>5. CASE NctOnLinux
  <2>1. todo' = LinuxNctRead(r) /\ cache' = r[1] /\ family = "nct"
    BY <1>3, <1>5 DEF NextCell, NextReg, NctOnLinux
  <2>2. CASE cache # r[1]
    <3>1. todo' = <<Put("mon", "bank", r[1]), Cell("mon", r[2])>>
      <4>1. LinuxNctRead(r) = <<Put("mon", "bank", r[1])>> \o <<Cell("mon", r[2])>>
        BY <2>2, Zenon DEF LinuxNctRead
      <4>2. QED
        BY <1>4, <2>1, <4>1, LinuxReadIs, Zenon
    <3>2. PICK e, f : e = Put("mon", "bank", r[1]) /\ f = Cell("mon", r[2])
      OBVIOUS
    <3>3. todo' # <<>> /\ Head(todo') = e
      BY <3>1, <3>2
    <3>4. e.op = "put"
      BY <3>2, OpsAre
    <3>5. Putting'
      BY <3>3, <3>4 DEF Putting
    <3>6. QED
      BY <1>1, <3>5, ReadingBanks
  <2>3. CASE cache = r[1]
    <3>1. Selected => Selected'
      BY <1>1, <1>2, <1>4, <2>1, <2>3 DEF Selected
    <3>2. QED
      BY <1>1, <3>1, ReadingBanks
  <2>4. QED
    BY <2>2, <2>3
<1>6. CASE ~NctOnLinux
  <2>1. cache' = cache
    BY <1>6 DEF NextCell
  <2>2. Selected => Selected'
    BY <1>1, <1>2, <2>1 DEF Selected
  <2>3. QED
    BY <1>1, <2>2, ReadingBanks
<1>7. QED
  BY <1>5, <1>6

LEMMA IteBankBanks ==
  ASSUME Base, Base', Banks, IteBank
  PROVE  Banks'
<1>1. /\ pc = "bank" /\ todo = <<>> /\ family = "ite" /\ device' = device
      /\ family' = family /\ at' = at /\ got' = got /\ base' = base
      /\ os' = os /\ chip' = chip /\ was' = was /\ lost' = lost /\ cut' = cut
  BY DEF IteBank, Done, device
<1>2. Here' = Here /\ Here1' = Here1 /\ Reached' = Reached
  BY <1>1 DEF Here1, Here, PortPairs, Reached
<1>3. CASE got.bank = "none"
  <2>1. pc' = "finish" /\ todo' = <<>>
    BY <1>1, <1>3 DEF IteBank
  <2>2. QED
    BY <1>1, <2>1, SettledStep
<1>4. CASE got.bank # "none" /\ ~cut
  <2>1. /\ pc' = "fields"
        /\ todo' = IF got.bank \in DOMAIN Cleared
                   THEN <<Put("mon", "bank", ReadBank(got.bank))>> ELSE <<>>
    BY <1>4 DEF IteBank
  <2>2. BankHere /\ \A p \in Pair \ {Here} : BankFine(p, chip[p].bank)
    BY <1>4 DEF Banks
  <2>3. \A p \in Pair \ {Here} : BankFine(p, chip[p].bank)'
    BY <1>1, <2>2 DEF BankFine
  <2>4. BankFine(Here, Here1.bank) /\ (Reached => got.bank = Here1.bank)
    BY <1>1, <1>4, <2>2 DEF BankHere
  <2>5. BankFine(Here, Here1.bank)' /\ (Reached => BankFine(Here, got.bank)')
    BY <1>1, <1>2, <2>4 DEF BankFine
  <2>6. Reached => Putting' \/ Selected'
    <3>1. CASE got.bank \in DOMAIN Cleared
      <4>1. PICK e : e = Put("mon", "bank", ReadBank(got.bank))
        OBVIOUS
      <4>2. todo' = <<e>>
        BY <2>1, <3>1, <4>1
      <4>3. todo' # <<>> /\ Head(todo') = e
        BY <4>2
      <4>4. e.op = "put"
        BY <4>1, OpsAre
      <4>5. QED
        BY <4>3, <4>4 DEF Putting
    <3>2. CASE got.bank \notin DOMAIN Cleared
      BY <1>1, <1>2, <2>4, <3>2 DEF Selected, ReadBank
    <3>3. QED
      BY <3>1, <3>2
  <2>7. BankHere'
    BY <1>1, <1>2, <1>4, <2>1, <2>5, <2>6 DEF BankHere
  <2>8. QED
    BY <1>2, <2>3, <2>7 DEF Banks
<1>5. CASE cut
  BY <1>1, <1>5 DEF Banks
<1>6. QED
  BY <1>3, <1>4, <1>5

LEMMA RestoreBankBanks ==
  ASSUME Base, Banks, RestoreBank, ~NctOnWindows
  PROVE  Banks'
<1>1. /\ pc = "fields" /\ todo = <<>> /\ device' = device /\ pc' = "finish"
      /\ family' = family /\ at' = at /\ base' = base /\ got' = got
  BY DEF RestoreBank, Done
<1>2. \/ family = "ite" /\ got.bank # "none"
      \/ NctOnLinux /\ family = "nct"
  BY <1>1 DEF Base, BankKnown, TypeInv, CallTyped, BoardTyped, NctOnLinux, NctOnWindows
<1>3. PICK e : e = Put("mon", "bank", got.bank)
  OBVIOUS
<1>4. CASE family = "ite"
  <2>1. todo' = IF got.bank \in DOMAIN Cleared THEN <<e>> ELSE <<>>
    BY <1>3, <1>4 DEF RestoreBank, NctOnLinux, NctOnWindows
  <2>2. CASE got.bank \in DOMAIN Cleared
    <3>1. todo' # <<>>
      BY <2>1, <2>2
    <3>2. QED
      BY <1>1, <1>2, <1>4, <3>1, ReadingBanks DEF NctOnLinux
  <2>3. CASE got.bank \notin DOMAIN Cleared
    <3>1. todo' = <<>> /\ (Selected => got.bank \in {"none", Here1.bank})
      BY <1>4, <2>1, <2>3 DEF Selected, ReadBank
    <3>2. QED
      BY <1>1, <3>1, ReadingBanks
  <2>4. QED
    BY <2>2, <2>3
<1>5. CASE NctOnLinux /\ family = "nct"
  <2>1. todo' = IF got.bank # "none" /\ cache # got.bank THEN <<e>> ELSE <<>>
    BY <1>3, <1>5 DEF RestoreBank, NctOnLinux, NctOnWindows
  <2>2. CASE got.bank # "none" /\ cache # got.bank
    <3>1. todo' # <<>>
      BY <2>1, <2>2
    <3>2. QED
      BY <1>1, <2>2, <3>1, ReadingBanks
  <2>3. CASE ~(got.bank # "none" /\ cache # got.bank)
    <3>1. todo' = <<>> /\ (Selected => got.bank \in {"none", Here1.bank})
      BY <1>5, <2>1, <2>3 DEF Selected
    <3>2. QED
      BY <1>1, <3>1, ReadingBanks
  <2>4. QED
    BY <2>2, <2>3
<1>6. QED
  BY <1>2, <1>4, <1>5

LEMMA DecodeBanks ==
  ASSUME Base, Base', Banks, DecodeStep
  PROVE  Banks'
<1>1. device' = device
  BY StepDevice
<1>2. CASE NctOnWindows /\ (NextCell \/ FieldDone \/ RestoreBank)
  <2>1. /\ pc = "fields" /\ pc' \in {"fields", "finish"} /\ base' = base
        /\ family' = family /\ os' = os
    BY <1>2 DEF NextCell, FieldDone, RestoreBank, Done, device
  <2>2. base = "none" /\ NctOnWindows'
    BY <1>2, <2>1, BaseTime DEF NctOnWindows
  <2>3. QED
    BY <1>1, <2>1, <2>2, SettledStep
<1>3. CASE FieldDone /\ ~NctOnWindows
  <2>1. /\ pc = "fields" /\ todo = <<>> /\ pc' = "fields" /\ base' = base /\ got' = got
        /\ family' = family /\ at' = at /\ cache' = cache
    BY <1>3 DEF FieldDone, Done
  <2>2. Here1' = Here1
    BY <1>1, <2>1 DEF device, Here1, Here, PortPairs
  <2>3. Selected => Selected'
    BY <2>1, <2>2 DEF Selected
  <2>4. QED
    BY <1>1, <1>3, <2>1, <2>3, ReadingBanks
<1>4. QED
  BY <1>2, <1>3, NextCellBanks, IteBankBanks, RestoreBankBanks DEF DecodeStep

\* The bank changes in the monitor's own write of it.
LEMMA BankSame ==
  ASSUME NEW c, NEW d, NEW a, Fitting(a), Effect(c, d, a),
         a.op # "put" \/ a.port = "cfg" \/ ~(base = "mon" /\ MonOpen(c))
  PROVE  d.bank = c.bank
<1>1. CASE a.port = "mon" /\ a.op = "put"
  <2>1. a.reg = "bank"
    BY <1>1 DEF Fitting, Proper
  <2>2. QED
    BY <1>1, <2>1 DEF Effect, Visited
<1>2. CASE a.port = "mon" /\ a.op # "put"
  BY <1>2 DEF Effect, Visited
<1>3. CASE a.port = "cfg" /\ a.op = "put"
  BY <1>3 DEF Effect, Written
<1>4. CASE a.port = "cfg" /\ a.op # "put"
  BY <1>4 DEF Effect, Heard, Same
<1>5. a.port \in {"cfg", "mon"}
  BY DEF Fitting, Proper, Request
<1>6. QED
  BY <1>1, <1>2, <1>3, <1>4, <1>5

\* The monitor stays open while it is spoken to.
LEMMA StaysOpen ==
  ASSUME NEW c, NEW d, NEW a, Effect(c, d, a), a.port = "mon"
  PROVE  MonOpen(d) <=> MonOpen(c)
BY DEF Effect, Visited, MonOpen

\* While the bank is asked for.
LEMMA AskingBank ==
  ASSUME Base, Transfer, ~cut', Here # "162", pc = "bank", BankHere,
         BankFine(Here, Here1.bank)'
  PROVE  BankHere'
<1>1. PICK a, c, d :
        /\ a = Head(todo) /\ c = Here1 /\ d = Here1'
        /\ ChipOk(c, Here) /\ ChipOk(d, Here) /\ Effect(c, d, a) /\ Fitting(a)
  BY CleanSteps
<1>2. /\ todo # <<>> /\ pc' = pc /\ base' = base /\ Here' = Here
  BY TransferIs
<1>3. todo \in Ends1(Get("mon", "bank"))
  BY DEF Base, Queue
<1>4. a = Get("mon", "bank")
  BY <1>1, <1>2, <1>3, Next1
<1>5. a.op = "get" /\ a.port = "mon" /\ a.reg = "bank"
  BY <1>4, OwnOps
<1>6. PICK s : /\ got' = [got EXCEPT ![a.reg] = s]
               /\ Answers(d, a, s, a.reg \in lost')
  BY <1>1, <1>5, CleanTransfer
<1>7. got \in [Slot -> Byte] /\ "bank" \in Slot
  BY NothingIs DEF Base, TypeInv, CallTyped
<1>8. got'.bank = s
  BY <1>5, <1>6, <1>7
<1>9. \/ s = "none" /\ "bank" \in lost'
      \/ s = IF base = "mon" /\ MonOpen(d) THEN d.bank ELSE "junk"
  BY <1>5, <1>6 DEF Answers
<1>10. d.bank # "none"
  BY <1>1 DEF ChipOk
<1>11. Reached' => got'.bank \in {"none", d.bank}
  BY <1>1, <1>2, <1>8, <1>9 DEF Reached
<1>12. got'.bank # "none" \/ "bank" \in lost'
  BY <1>8, <1>9, <1>10
<1>13. QED
  BY <1>1, <1>2, <1>11, <1>12 DEF BankHere

\* While the fields are read.
LEMMA ReadingFields ==
  ASSUME Base, Transfer, ~cut', Here # "162", pc = "fields", ~NctOnWindows, BankHere,
         ~Reached' => BankFine(Here, Here1.bank)'
  PROVE  BankHere'
<1>1. PICK a, c, d :
        /\ a = Head(todo) /\ c = Here1 /\ d = Here1'
        /\ ChipOk(c, Here) /\ ChipOk(d, Here) /\ Effect(c, d, a) /\ Fitting(a)
  BY CleanSteps
<1>2. /\ todo # <<>> /\ pc' = pc /\ base' = base /\ Here' = Here /\ os' = os /\ was' = was
      /\ family' = family /\ cache' = cache /\ NctOnWindows' = NctOnWindows
  BY TransferIs
<1>3. PICK r : r = NextReg
  OBVIOUS
<1>4. PICK e, f, g : /\ e = Put("mon", "bank", r[1]) /\ f = Cell("mon", r[2])
                     /\ g = Put("mon", "bank", ReadBank(got.bank))
  OBVIOUS
<1>5. \/ family = "ite" /\ todo = <<g>>
      \/ NctOnLinux /\ cache = r[1] /\ todo \in Ends2(e, f)
      \/ family = "ite" /\ todo = <<f>>
  BY <1>2, <1>3, <1>4 DEF Base, Queue, FieldsQueue
<1>6. /\ e.op = "put" /\ e.port = "mon" /\ e.reg = "bank" /\ e.val = r[1]
      /\ g.op = "put" /\ g.port = "mon" /\ g.reg = "bank" /\ g.val = ReadBank(got.bank)
      /\ f.op = "cell" /\ f.port = "mon"
  <2>1. e.op = "put" /\ e.port = "mon" /\ e.reg = "bank" /\ e.val = r[1]
    BY <1>4, OpsAre
  <2>2. g.op = "put" /\ g.port = "mon" /\ g.reg = "bank" /\ g.val = ReadBank(got.bank)
    BY <1>4, OpsAre
  <2>3. f.op = "cell" /\ f.port = "mon"
    BY <1>4, OpsAre
  <2>4. QED
    BY <2>1, <2>2, <2>3
<1>7. \/ family = "ite" /\ a = g
      \/ NctOnLinux /\ cache = r[1] /\ a = e
      \/ a = f
  <2>1. CASE family = "ite" /\ todo = <<g>>
    BY <1>1, <2>1
  <2>2. CASE NctOnLinux /\ cache = r[1] /\ todo \in Ends2(e, f)
    BY <1>1, <1>2, <2>2, Next2
  <2>3. CASE family = "ite" /\ todo = <<f>>
    BY <1>1, <2>3
  <2>4. QED
    BY <1>5, <2>1, <2>2, <2>3
<1>8. a.port = "mon" /\ a.op # "get"
  BY <1>6, <1>7
<1>9. got' = got /\ lost \subseteq lost'
  BY <1>1, <1>8, CleanTransfer
<1>10. MonOpen(d) <=> MonOpen(c)
  BY <1>1, <1>8, StaysOpen
<1>11. Reached' <=> Reached
  BY <1>1, <1>2, <1>10 DEF Reached
<1>12. /\ got.bank # "none" \/ "bank" \in lost
       /\ Reached /\ got.bank # "none" => BankFine(Here, got.bank)
       /\ Reached => Putting \/ Selected
  BY DEF BankHere
<1>13. Reached /\ got.bank # "none" => BankFine(Here, got.bank)'
  BY <1>2, <1>9, <1>12 DEF BankFine
<1>14. Reached => Selected'
  <2>1. CASE family = "ite" /\ a = g
    <3>1. /\ Visited(c, d, a) /\ a.op = "put" /\ a.reg = "bank"
          /\ a.val = ReadBank(got.bank)
      BY <1>1, <1>6, <2>1 DEF Effect
    <3>2. Reached => d.bank = ReadBank(got.bank)
      BY <1>1, <3>1 DEF Visited, Reached
    <3>3. QED
      BY <1>1, <1>2, <1>9, <2>1, <3>2 DEF Selected
  <2>2. CASE NctOnLinux /\ cache = r[1] /\ a = e
    <3>1. Visited(c, d, a) /\ a.op = "put" /\ a.reg = "bank" /\ a.val = r[1]
      BY <1>1, <1>6, <2>2 DEF Effect
    <3>2. Reached => d.bank = r[1]
      BY <1>1, <3>1 DEF Visited, Reached
    <3>3. QED
      BY <1>1, <1>2, <1>9, <2>2, <3>2 DEF Selected, NctOnLinux
  <2>3. CASE a = f
    <3>1. a.op # "put" /\ ~Putting
      BY <1>1, <1>6, <2>3 DEF Putting
    <3>2. d.bank = c.bank
      BY <1>1, <3>1, BankSame
    <3>3. Reached => Selected
      BY <1>12, <3>1
    <3>4. QED
      BY <1>1, <1>2, <1>9, <3>2, <3>3 DEF Selected
  <2>4. QED
    BY <1>7, <2>1, <2>2, <2>3
<1>15. QED
  BY <1>1, <1>2, <1>9, <1>11, <1>12, <1>13, <1>14 DEF BankHere

\* While the bank is restored.
LEMMA RestoringBank ==
  ASSUME Base, Transfer, ~cut', Here # "162", pc = "finish", BankHere,
         ~Reached' => BankFine(Here, Here1.bank)'
  PROVE  BankHere'
<1>1. PICK a, c, d :
        /\ a = Head(todo) /\ c = Here1 /\ d = Here1'
        /\ ChipOk(c, Here) /\ ChipOk(d, Here) /\ Effect(c, d, a) /\ Fitting(a)
  BY CleanSteps
<1>2. /\ todo # <<>> /\ pc' = pc /\ base' = base /\ Here' = Here /\ os' = os /\ was' = was
  BY TransferIs
<1>3. todo = <<Put("mon", "bank", got.bank)>>
  BY <1>2 DEF Base, Queue
<1>4. a = Put("mon", "bank", got.bank) /\ Tail(todo) = <<>>
  BY <1>1, <1>3
<1>5. a.op = "put" /\ a.port = "mon" /\ a.reg = "bank" /\ a.val = got.bank
  BY <1>4, OpsAre
<1>6. todo' = <<>> /\ lost \subseteq lost'
  BY <1>1, <1>4, CleanTransfer
<1>7. MonOpen(d) <=> MonOpen(c)
  BY <1>1, <1>5, StaysOpen
<1>8. Reached' <=> Reached
  BY <1>1, <1>2, <1>7 DEF Reached
<1>9. Reached => BankFine(Here, got.bank)
  BY <1>2 DEF BankHere
<1>10. Visited(c, d, a)
  BY <1>1, <1>5 DEF Effect
<1>11. Reached => d.bank = got.bank
  BY <1>1, <1>5, <1>10 DEF Visited, Reached
<1>12. Reached => BankFine(Here, Here1.bank)'
  BY <1>1, <1>2, <1>6, <1>9, <1>11 DEF BankFine
<1>13. QED
  BY <1>2, <1>6, <1>8, <1>12 DEF BankHere

LEMMA TransferBanks ==
  ASSUME Base, Base', Banks, Transfer
  PROVE  Banks'
<1>1. SUFFICES ASSUME ~cut'
               PROVE  BankHere' /\ \A p \in Pair \ {Here'} : BankFine(p, chip[p].bank)'
  BY DEF Banks
<1>2. /\ todo # <<>> /\ pc' = pc /\ was' = was /\ os' = os /\ base' = base /\ Here' = Here
      /\ NctOnWindows' = NctOnWindows
  BY TransferIs
<1>3. ~cut
  BY <1>1, TransferIs, Zenon DEF Moves
<1>4. BankHere /\ \A p \in Pair \ {Here} : BankFine(p, chip[p].bank)
  BY <1>3 DEF Banks
<1>5. lost \subseteq lost'
  BY LostGrows
<1>6. \A p \in Pair \ {Here'} : BankFine(p, chip[p].bank)'
  <2>1. \A p \in Pair \ {Here} : chip'[p] = chip[p]
    BY ElsewhereSame DEF Base
  <2>2. QED
    BY <1>2, <1>4, <1>5, <2>1 DEF BankFine
<1>7. ASSUME Here1'.bank = Here1.bank, BankFine(Here, Here1.bank)
      PROVE  BankFine(Here, Here1.bank)'
  BY <1>2, <1>5, <1>7 DEF BankFine
<1>8. CASE Here = "162"
  <2>1. chip' = chip
    BY <1>8, TransferOutside DEF Base
  <2>2. Here1' = Here1
    BY <1>2, <2>1 DEF Here1
  <2>3. pc \notin {"bank", "fields", "finish"} /\ base = "none"
    <3>1. pc \notin {"bank", "fields", "finish"}
      BY <1>8 DEF Base, Outside
    <3>2. QED
      BY <3>1, BaseTime
  <2>4. BankFine(Here, Here1.bank)'
    BY <1>4, <1>7, <2>2, <2>3 DEF BankHere, Reached
  <2>5. QED
    BY <1>2, <1>6, <2>3, <2>4 DEF BankHere, Reached
<1>9. CASE Here # "162"
  <2>1. PICK a, c, d :
          /\ a = Head(todo) /\ c = Here1 /\ d = Here1'
          /\ Effect(c, d, a) /\ Fitting(a)
    BY <1>1, <1>9, CleanSteps
  <2>2. ~(base = "mon" /\ MonOpen(c)) => d.bank = c.bank
    BY <2>1, BankSame
  <2>3. ~Reached => BankFine(Here, Here1.bank)'
    BY <1>4, <1>7, <2>1, <2>2 DEF BankHere, Reached
  <2>4. CASE pc \notin {"bank", "fields", "finish"} \/ NctOnWindows
    <3>1. base = "none" /\ pc # "bank"
      BY <2>4, BaseTime DEF Base, Queue, NctOnWindows
    <3>2. QED
      BY <1>2, <1>6, <2>3, <2>4, <3>1 DEF BankHere, Reached
  <2>5. CASE pc \in {"bank", "fields", "finish"} /\ ~NctOnWindows
    <3>1. a.port = "mon"
      BY <1>2, <2>1, <2>5, MonitorPort
    <3>2. MonOpen(d) <=> MonOpen(c)
      BY <2>1, <3>1, StaysOpen
    <3>3. Reached' <=> Reached
      BY <1>2, <2>1, <3>2 DEF Reached
    <3>4. ~Reached' => BankFine(Here, Here1.bank)'
      BY <2>3, <3>3
    <3>5. CASE pc = "bank"
      <4>1. a = Get("mon", "bank")
        <5>1. todo \in Ends1(Get("mon", "bank"))
          BY <3>5 DEF Base, Queue
        <5>2. QED
          BY <1>2, <2>1, <5>1, Next1
      <4>2. d.bank = c.bank
        BY <2>1, <4>1, OwnOps, BankSame
      <4>3. BankFine(Here, Here1.bank)'
        BY <1>4, <1>7, <2>1, <3>5, <4>2 DEF BankHere
      <4>4. QED
        BY <1>1, <1>4, <1>6, <1>9, <3>5, <4>3, AskingBank
    <3>6. CASE pc = "fields"
      BY <1>1, <1>4, <1>6, <1>9, <2>5, <3>4, <3>6, ReadingFields
    <3>7. CASE pc = "finish"
      BY <1>1, <1>4, <1>6, <1>9, <3>4, <3>7, RestoringBank
    <3>8. QED
      BY <2>5, <3>5, <3>6, <3>7
  <2>6. QED
    BY <2>4, <2>5
<1>10. QED
  BY <1>8, <1>9

LEMMA NextBanks ==
  ASSUME Base, Base', Banks, [Next]_vars
  PROVE  Banks'
<1>1. CASE Transfer
  BY <1>1, TransferBanks
<1>2. CASE DecodeStep \/ WindowsStep \/ LinuxStep
  BY <1>2, DecodeBanks, WindowsBanks, LinuxBanks
<1>3. CASE Call \/ Die
  <2>1. /\ was' = chip /\ chip' = chip /\ base' = "none" /\ pc' \notin {"bank", "fields"}
    BY <1>3, Begun
  <2>2. Settled'
    BY <2>1 DEF Settled, BankFine
  <2>3. Here' \in Pair
    BY HereNext
  <2>4. QED
    BY <2>1, <2>2, <2>3, SettledThen
<1>4. CASE UNCHANGED vars
  <2>1. /\ os' = os /\ chip' = chip /\ was' = was /\ cut' = cut /\ lost' = lost
        /\ pc' = pc /\ family' = family /\ at' = at /\ todo' = todo /\ got' = got
        /\ base' = base /\ cache' = cache
    BY <1>4 DEF vars, device, reading
  <2>2. Here' = Here /\ Here1' = Here1 /\ Left' = Left
    BY <2>1 DEF Here1, Here, PortPairs, Left, Size
  <2>3. BankHere' = BankHere
    BY <2>1, <2>2 DEF BankHere, Reached, BankFine, Putting, Selected, NctOnWindows
  <2>4. QED
    BY <2>1, <2>2, <2>3 DEF Banks, BankFine
<1>5. QED
  BY <1>1, <1>2, <1>3, <1>4 DEF Next, Step

-----------------------------------------------------------------------------
(* A call leaves the registers as it found them. *)

LEMMA InitRegisters ==
  ASSUME Init
  PROVE  Hurts /\ Locks /\ Banks
<1>1. /\ was = chip /\ pc = "idle" /\ base = "none"
  BY DEF Init
<1>2. Hurts
  BY <1>1 DEF Hurts
<1>3. Locks
  BY <1>1 DEF Locks, LockHere, Loosened
<1>4. Banks
  BY <1>1 DEF Banks, BankHere, BankFine, Reached, Here1
<1>5. QED
  BY <1>2, <1>3, <1>4

\* Unless a write of it failed, a call leaves every register of every chip as
\* it was, the bank, the lock register and all others, but for the exceptions
\* that RegistersKept names.
THEOREM RegistersAsFound == Spec => []RegistersKept
<1>1. Init => Base /\ Modes /\ Hurts /\ Locks /\ Banks
  BY InitBase, InitModes, InitRegisters
<1>2. ASSUME Base, Modes, Hurts, Locks, Banks, [Next]_vars
      PROVE  Base' /\ Modes' /\ Hurts' /\ Locks' /\ Banks'
  <2>1. Base'
    BY <1>2, NextBase, StutterBase
  <2>2. Modes'
    BY <1>2, <2>1, NextModes, StutterModes
  <2>3. QED
    BY <1>2, <2>1, <2>2, NextHurts, NextLocks, NextBanks
<1>3. ASSUME Base, Hurts, Locks, Banks
      PROVE  RegistersKept
  <2>1. SUFFICES ASSUME Returned, ~cut, NEW p \in Pair
                 PROVE  /\ chip[p].bank # was[p].bank => os = "linux" /\ "bank" \in lost
                        /\ chip[p].lock # was[p].lock =>
                             \/ was[p].lock = "set" /\ chip[p].lock = "clear"
                             \/ os = "windows" /\ "lock" \in lost
                        /\ chip[p].hurt \ was[p].hurt \subseteq
                             (IF Quiet(was[p]) THEN {} ELSE {"ctl"})
    BY <1>3 DEF RegistersKept, Base, TypeInv, BoardTyped
  <2>2. base = "none"
    BY <1>3, <2>1, BaseTime DEF Returned
  <2>3. Settled
    BY <1>3, <2>1, <2>2, SettledNow
  <2>4. Loosened(was[p].lock, chip[p].lock)
    BY <1>3, <2>1 DEF Locks
  <2>5. QED
    BY <1>3, <2>1, <2>3, <2>4 DEF Settled, BankFine, Loosened, Hurts
<1>4. QED
  BY <1>1, <1>2, <1>3, PTL DEF Spec

-----------------------------------------------------------------------------
(* Where the monitor is taken to be. *)

\* The registers of the monitor that are read.
Found3 == {"active", "base0", "base1"}

\* A chip that is asked for one of them in configuration mode.
LEMMA SaysFound ==
  ASSUME NEW c, NEW d, NEW r \in Found3, c.mode = "config", c.kind # "none",
         Heard(c, d, Here, r)
  PROVE  /\ Say(d) # "none" /\ d.ldn = c.ldn
         /\ c.ldn = "mon" /\ r \notin c.hurt =>
              Say(d) = IF r = "active" THEN IF c.on THEN "on" ELSE "off" ELSE r
<1>1. d.ldn = c.ldn /\ d.hurt = c.hurt /\ d.on = c.on
  BY DEF Heard, Same
<1>2. d.mode = "config" /\ d.index = r
  <2>1. CASE c.kind = "ite"
    BY <2>1 DEF Heard, IteTurn
  <2>2. CASE c.kind \notin {"ite", "none"}
    BY <2>2 DEF Heard, NctTurn, Found3
  <2>3. QED
    BY <2>1, <2>2
<1>3. CASE r = "active"
  BY <1>1, <1>2, <1>3 DEF Say
<1>4. CASE r = "base0"
  BY <1>1, <1>2, <1>4 DEF Say
<1>5. CASE r = "base1"
  BY <1>1, <1>2, <1>5 DEF Say
<1>6. QED
  BY <1>3, <1>4, <1>5 DEF Found3

\* Nothing has overwritten them unless an earlier call did.
LEMMA Undamaged ==
  ASSUME Base, Hurts, ~cut, ~Damaged
  PROVE  Here1.hurt \cap Found3 = {}
<1>1. Here \in Pair /\ DOMAIN was = Pair
  BY HereIs DEF Base, TypeInv, BoardTyped, CallTyped
<1>2. was[Here].hurt \cap Found3 = {}
  BY <1>1 DEF Damaged, Found3
<1>3. Here1.hurt \subseteq was[Here].hurt \cup {"ctl"}
  BY <1>1 DEF Hurts, Here1
<1>4. QED
  BY <1>2, <1>3 DEF Found3

\* The chip that is searched is in configuration mode.
LEMMA SeekingMode ==
  ASSUME Base, Modes, ~cut, Seeking, Left >= 1
  PROVE  Here1.mode = "config" /\ Here1.kind # "none" /\ Here # "162"
<1>1. Here # "162" /\ Here1.kind \in Speaks(family)
  BY Zenon DEF Base, Outside, Queue, Seeking, Finding
<1>2. PICK c, n : c = Here1 /\ n = Left
  OBVIOUS
<1>3. ModeAfter(c, n) /\ n >= 1
  BY <1>1, <1>2 DEF Modes
<1>4. CASE Finding
  <2>1. IF n >= 1 THEN c.mode = "config" ELSE Quiet(c)
    BY <1>3, <1>4, Zenon DEF ModeAfter, Finding
  <2>2. QED
    BY <1>1, <1>2, <1>3, <2>1 DEF Speaks
<1>5. CASE pc = "unlock" /\ os = "linux"
  BY <1>1, <1>2, <1>3, <1>5 DEF ModeAfter, Speaks
<1>6. QED
  BY <1>4, <1>5 DEF Seeking

\* The search for a monitor, access by access.
LEMMA SeekSteps ==
  ASSUME Base, Transfer, ~cut', Seeking, NEW a, a = Head(todo),
         Here1'.kind = Here1.kind
  PROVE  /\ Left >= 1
         /\ \/ Ahead = 5 /\ Ahead' = 4 /\ a = Put("cfg", "ldn", "mon")
            \/ Ahead = 4 /\ Ahead' = 3 /\ a = Get("cfg", "active")
            \/ Ahead = 3 /\ Ahead' = 2 /\ a = Get("cfg", "base0")
            \/ Ahead = 2 /\ Ahead' = 1 /\ a = Get("cfg", "base1")
            \/ Ahead = 1 /\ Ahead' = 0 /\ a \in {Leave, Get("cfg", "lock")}
            \/ /\ Ahead = 0 /\ Ahead' = 0
               /\ a = Send("AA") \/ \E v : a = Put("cfg", "lock", v)
<1>1. /\ todo # <<>> /\ pc' = pc /\ family' = family /\ Here' = Here /\ os' = os
  BY TransferIs
<1>2. Here # "162"
  BY Zenon DEF Base, Outside, Seeking, Finding
<1>3. todo' = Tail(todo)
  BY <1>2, CleanTransfer
<1>4. PICK n, m, s, w : n = Left /\ m = Left' /\ s = todo /\ w = Put("cfg", "ldn", "mon")
  OBVIOUS
<1>5. n = Size(s) /\ m = Size(Tail(s)) /\ a = Head(s) /\ s # <<>>
  BY <1>1, <1>3, <1>4 DEF Left
<1>6. ASSUME NEW z, s \in Ends5(w, Get("cfg", "active"), Get("cfg", "base0"),
                                Get("cfg", "base1"), z)
      PROVE  \/ n = 5 /\ m = 4 /\ a = w
             \/ n = 4 /\ m = 3 /\ a = Get("cfg", "active")
             \/ n = 3 /\ m = 2 /\ a = Get("cfg", "base0")
             \/ n = 2 /\ m = 1 /\ a = Get("cfg", "base1")
             \/ n = 1 /\ m = 0 /\ a = z
  BY <1>5, <1>6, Next5, SMTT(30)
<1>7. family \in {"ite", "nct"}
  BY DEF Base, TypeInv, CallTyped
<1>8. CASE Finding /\ family = "ite"
  <2>1. s \in FoundThen(Leave)
    BY <1>4, <1>8 DEF Base, Queue, Finding
  <2>2. Ahead = n /\ Ahead' = m
    BY <1>1, <1>4, <1>8, Zenon DEF Ahead, Finding
  <2>3. QED
    BY <1>4, <1>6, <2>1, <2>2 DEF FoundThen
<1>9. CASE pc = "unlock" /\ os = "linux" /\ Here1.kind = "nct"
  <2>1. s \in FoundThen(Get("cfg", "lock"))
    BY <1>4, <1>9 DEF Base, Queue
  <2>2. Ahead = n /\ Ahead' = m
    BY <1>1, <1>4, <1>9 DEF Ahead
  <2>3. QED
    BY <1>4, <1>6, <2>1, <2>2 DEF FoundThen
<1>10. CASE pc = "unlock" /\ os = "linux" /\ Here1.kind # "nct"
  <2>1. s \in Ends4(w, Get("cfg", "active"), Get("cfg", "base0"), Get("cfg", "base1"))
    BY <1>4, <1>10 DEF Base, Queue, Found
  <2>2. Ahead = n + 1 /\ Ahead' = m + 1
    BY <1>1, <1>4, <1>10 DEF Ahead
  <2>3. \/ n = 4 /\ m = 3 /\ a = w
        \/ n = 3 /\ m = 2 /\ a = Get("cfg", "active")
        \/ n = 2 /\ m = 1 /\ a = Get("cfg", "base0")
        \/ n = 1 /\ m = 0 /\ a = Get("cfg", "base1")
    BY <1>5, <2>1, Next4, SMTT(30)
  <2>4. QED
    BY <1>4, <2>2, <2>3
<1>11. CASE pc = "open" /\ family = "nct"
  <2>1. Locking
    BY <1>1, <1>11 DEF Base, Queue
  <2>2. Ahead = 0 /\ Ahead' = 0
    BY <1>1, <1>11 DEF Ahead
  <2>3. a = Send("AA") \/ \E v : a = Put("cfg", "lock", v)
    BY <1>1, <2>1, LockingNext
  <2>4. Left >= 1
    BY <1>1, <2>1, LockingNext
  <2>5. QED
    BY <2>2, <2>3, <2>4
<1>12. Finding => pc = "open" \/ family = "ite"
  BY Zenon DEF Base, Queue, Finding
<1>13. QED
  BY <1>7, <1>8, <1>9, <1>10, <1>11, <1>12 DEF Seeking

\* A slot that is left alone, and one that is read.
LEMMA SlotKept ==
  ASSUME NEW s, NEW v, NEW m, NEW n, SlotFine(s, v, m), got'[s] = got[s],
         lost \subseteq lost', Damaged' = Damaged, m => n
  PROVE  SlotFine(s, v, n)'
BY DEF SlotFine

LEMMA SlotRead ==
  ASSUME NEW s, NEW v, NEW n, NEW x, got'[s] = x, x = "none" => s \in lost',
         ~Damaged' => x \in {"none", v}
  PROVE  SlotFine(s, v, n)'
BY DEF SlotFine

\* What Addressed says when n accesses are left and the chip is c.
LEMMA AddressedIs ==
  ASSUME Addressed, ~cut, Seeking
  PROVE  /\ Ahead <= 4 => Here1.ldn = "mon"
         /\ SlotFine("active", IF Here1.on THEN "on" ELSE "off", Ahead >= 4)
         /\ SlotFine("base0", "base0", Ahead >= 3)
         /\ SlotFine("base1", "base1", Ahead >= 2)
BY DEF Addressed

LEMMA ToAddressed ==
  ASSUME NEW n, NEW o, n = Ahead', o = IF Here1'.on THEN "on" ELSE "off",
         cut' \/ ~Seeking' \/
           /\ n <= 4 => Here1'.ldn = "mon"
           /\ SlotFine("active", o, n >= 4)'
           /\ SlotFine("base0", "base0", n >= 3)'
           /\ SlotFine("base1", "base1", n >= 2)'
  PROVE  Addressed'
BY DEF Addressed, SlotFine

LEMMA TransferAddressed ==
  ASSUME Base, Modes, Hurts, Addressed, Transfer
  PROVE  Addressed'
<1>1. SUFFICES ASSUME ~cut', Seeking'
               PROVE  Addressed'
  BY DEF Addressed
<1>2. /\ todo # <<>> /\ pc' = pc /\ was' = was /\ os' = os /\ Here' = Here
  BY TransferIs
<1>3. Seeking /\ ~cut
  <2>1. Seeking
    BY <1>1, <1>2 DEF Seeking, Finding
  <2>2. QED
    BY <1>1, <2>1, TransferIs, Zenon DEF Moves
<1>4. Here # "162"
  BY <1>3, Zenon DEF Base, Outside, Seeking, Finding
<1>5. PICK a, c, d :
        /\ a = Head(todo) /\ c = Here1 /\ d = Here1'
        /\ ChipOk(c, Here) /\ ChipOk(d, Here) /\ Effect(c, d, a) /\ Fitting(a)
        /\ c.mode \in {"run", "config"} /\ c.key \in 0 .. 3 /\ c.kind \in Kind
        /\ c.kind \notin {"ite", "none"} => c.key <= 1
        /\ d.kind = c.kind
  BY <1>1, <1>4, CleanSteps
<1>6. PICK n, m, o : n = Ahead /\ m = Ahead' /\ o = IF c.on THEN "on" ELSE "off"
  OBVIOUS
<1>7. /\ Left >= 1
      /\ \/ n = 5 /\ m = 4 /\ a = Put("cfg", "ldn", "mon")
         \/ n = 4 /\ m = 3 /\ a = Get("cfg", "active")
         \/ n = 3 /\ m = 2 /\ a = Get("cfg", "base0")
         \/ n = 2 /\ m = 1 /\ a = Get("cfg", "base1")
         \/ n = 1 /\ m = 0 /\ a \in {Leave, Get("cfg", "lock")}
         \/ n = 0 /\ m = 0 /\ (a = Send("AA") \/ \E v : a = Put("cfg", "lock", v))
  BY <1>1, <1>3, <1>5, <1>6, SeekSteps
<1>8. c.mode = "config" /\ c.kind # "none"
  BY <1>3, <1>5, <1>7, SeekingMode
<1>9. /\ n <= 4 => c.ldn = "mon"
      /\ SlotFine("active", o, n >= 4)
      /\ SlotFine("base0", "base0", n >= 3)
      /\ SlotFine("base1", "base1", n >= 2)
  BY <1>3, <1>5, <1>6, AddressedIs
<1>10. lost \subseteq lost' /\ (a.op # "get" => got' = got)
       /\ (a.op = "get" => \E s : /\ got' = [got EXCEPT ![a.reg] = s]
                                  /\ Answers(d, a, s, a.reg \in lost'))
  BY <1>1, <1>4, <1>5, CleanTransfer
<1>11. Damaged' = Damaged
  BY <1>2 DEF Damaged
<1>12. d.on = c.on
  BY <1>5 DEF Effect, Visited, Written, Heard, Same
<1>13. o = IF Here1'.on THEN "on" ELSE "off"
  BY <1>5, <1>6, <1>12
<1>14. got \in [Slot -> Byte] /\ Found3 \cup {"lock"} \subseteq Slot
  BY NothingIs DEF Base, TypeInv, CallTyped, Found3
<1>15. ASSUME NEW r \in Found3, a = Get("cfg", r), c.ldn = "mon",
              NEW v, v = IF r = "active" THEN o ELSE r
       PROVE  /\ d.ldn = "mon" /\ SlotFine(r, v, FALSE)'
              /\ \A s \in Found3 \ {r} : got'[s] = got[s]
  <2>1. a.op = "get" /\ a.port = "cfg" /\ a.reg = r
    BY <1>15, OpsAre
  <2>2. Heard(c, d, Here, r)
    BY <1>5, <2>1 DEF Effect
  <2>3. PICK x : got' = [got EXCEPT ![r] = x] /\ Answers(d, a, x, r \in lost')
    BY <1>10, <2>1
  <2>4. r \in Slot
    BY <1>14
  <2>5. got'[r] = x /\ \A s \in Found3 \ {r} : got'[s] = got[s]
    BY <1>14, <2>3, <2>4
  <2>6. Say(d) # "none" /\ d.ldn = "mon" /\ (r \notin c.hurt => Say(d) = v)
    BY <1>6, <1>8, <1>15, <2>2, SaysFound
  <2>7. (x = "none" /\ r \in lost') \/ x = Say(d)
    BY <2>1, <2>3 DEF Answers
  <2>8. ~Damaged' => r \notin c.hurt
    BY <1>3, <1>5, <1>11, Undamaged
  <2>9. x = "none" => r \in lost'
    BY <2>6, <2>7
  <2>10. ~Damaged' => x \in {"none", v}
    BY <2>6, <2>7, <2>8
  <2>11. SlotFine(r, v, FALSE)'
    BY <2>5, <2>9, <2>10, SlotRead
  <2>12. QED
    BY <2>5, <2>6, <2>11
<1>16. ASSUME \A s \in Found3 : got'[s] = got[s], m <= 4 => d.ldn = "mon",
              n >= 4 => m >= 4, n >= 3 => m >= 3, n >= 2 => m >= 2
       PROVE  Addressed'
  <2>1. "active" \in Found3 /\ "base0" \in Found3 /\ "base1" \in Found3
    BY DEF Found3
  <2>2. SlotFine("active", o, m >= 4)'
    <3>1. got'["active"] = got["active"]
      BY <1>16, <2>1
    <3>2. PICK x, y, z : x = "active" /\ y = (n >= 4) /\ z = (m >= 4)
      OBVIOUS
    <3>3. SlotFine(x, o, z)'
      BY <1>9, <1>10, <1>11, <1>16, <3>1, <3>2, SlotKept
    <3>4. QED
      BY <3>2, <3>3
  <2>3. SlotFine("base0", "base0", m >= 3)'
    BY <1>9, <1>10, <1>11, <1>16, <2>1, SlotKept
  <2>4. SlotFine("base1", "base1", m >= 2)'
    BY <1>9, <1>10, <1>11, <1>16, <2>1, SlotKept
  <2>5. QED
    BY <1>5, <1>6, <1>13, <1>16, <2>2, <2>3, <2>4, ToAddressed
<1>17. "active" \in Found3 /\ "base0" \in Found3 /\ "base1" \in Found3 /\ "lock" \notin Found3
  BY DEF Found3
<1>18. CASE n = 5 /\ m = 4 /\ a = Put("cfg", "ldn", "mon")
  <2>1. a.op = "put" /\ a.port = "cfg" /\ a.reg = "ldn" /\ a.val = "mon"
    BY <1>18, OwnOps
  <2>2. Written(c, d, "ldn", "mon")
    BY <1>5, <2>1 DEF Effect
  <2>3. d.ldn = "mon"
    BY <1>8, <2>2 DEF Written
  <2>4. got' = got
    BY <1>10, <2>1
  <2>5. (n >= 4 => m >= 4) /\ (n >= 3 => m >= 3) /\ (n >= 2 => m >= 2)
    BY <1>18
  <2>6. QED
    BY <1>16, <2>3, <2>4, <2>5
<1>19. CASE n = 4 /\ m = 3 /\ a = Get("cfg", "active")
  <2>1. c.ldn = "mon"
    BY <1>9, <1>19
  <2>2. /\ d.ldn = "mon" /\ SlotFine("active", o, FALSE)'
        /\ got'["base0"] = got["base0"] /\ got'["base1"] = got["base1"]
    BY <1>15, <1>17, <1>19, <2>1
  <2>3. ~(m >= 4) /\ (n >= 3 => m >= 3) /\ (n >= 2 => m >= 2)
    BY <1>19
  <2>4. SlotFine("base0", "base0", m >= 3)'
    BY <1>9, <1>10, <1>11, <2>2, <2>3, SlotKept
  <2>5. SlotFine("base1", "base1", m >= 2)'
    BY <1>9, <1>10, <1>11, <2>2, <2>3, SlotKept
  <2>6. SlotFine("active", o, m >= 4)'
    BY <2>2 DEF SlotFine
  <2>7. QED
    BY <1>5, <1>6, <1>13, <2>2, <2>4, <2>5, <2>6, ToAddressed
<1>20. CASE n = 3 /\ m = 2 /\ a = Get("cfg", "base0")
  <2>1. c.ldn = "mon"
    BY <1>9, <1>20
  <2>2. /\ d.ldn = "mon" /\ SlotFine("base0", "base0", FALSE)'
        /\ got'["active"] = got["active"] /\ got'["base1"] = got["base1"]
    BY <1>15, <1>17, <1>20, <2>1
  <2>3. (n >= 4 => m >= 4) /\ (n >= 2 => m >= 2)
    BY <1>20
  <2>4. SlotFine("active", o, m >= 4)'
    BY <1>9, <1>10, <1>11, <2>2, <2>3, SlotKept
  <2>5. SlotFine("base1", "base1", m >= 2)'
    BY <1>9, <1>10, <1>11, <2>2, <2>3, SlotKept
  <2>6. SlotFine("base0", "base0", m >= 3)'
    BY <2>2 DEF SlotFine
  <2>7. QED
    BY <1>5, <1>6, <1>13, <2>2, <2>4, <2>5, <2>6, ToAddressed
<1>21. CASE n = 2 /\ m = 1 /\ a = Get("cfg", "base1")
  <2>1. c.ldn = "mon"
    BY <1>9, <1>21
  <2>2. /\ d.ldn = "mon" /\ SlotFine("base1", "base1", FALSE)'
        /\ got'["active"] = got["active"] /\ got'["base0"] = got["base0"]
    BY <1>15, <1>17, <1>21, <2>1
  <2>3. (n >= 4 => m >= 4) /\ (n >= 3 => m >= 3)
    BY <1>21
  <2>4. SlotFine("active", o, m >= 4)'
    BY <1>9, <1>10, <1>11, <2>2, <2>3, SlotKept
  <2>5. SlotFine("base0", "base0", m >= 3)'
    BY <1>9, <1>10, <1>11, <2>2, <2>3, SlotKept
  <2>6. SlotFine("base1", "base1", m >= 2)'
    BY <2>2 DEF SlotFine
  <2>7. QED
    BY <1>5, <1>6, <1>13, <2>2, <2>4, <2>5, <2>6, ToAddressed
<1>22. CASE n \in {0, 1} /\ m = 0
  <2>1. (n >= 4 => m >= 4) /\ (n >= 3 => m >= 3) /\ (n >= 2 => m >= 2)
    BY <1>22
  <2>2. c.ldn = "mon"
    BY <1>9, <1>22
  <2>3. a.port = "cfg" /\ (a.op = "get" => a.reg = "lock") /\ (a.op = "put" => a.reg # "ldn")
    <3>1. a \in {Leave, Get("cfg", "lock"), Send("AA")} \/ \E v : a = Put("cfg", "lock", v)
      BY <1>7, <1>22
    <3>2. ASSUME NEW v, a = Put("cfg", "lock", v)
          PROVE  a.port = "cfg" /\ a.op = "put" /\ a.reg = "lock"
      BY <3>2, OpsAre
    <3>3. QED
      BY <3>1, <3>2, OwnOps
  <2>4. d.ldn = c.ldn
    <3>1. CASE a.op = "put"
      <4>1. PICK r, v : r = a.reg /\ v = a.val
        OBVIOUS
      <4>2. Written(c, d, r, v) /\ r # "ldn"
        BY <1>5, <2>3, <3>1, <4>1 DEF Effect
      <4>3. QED
        BY <1>8, <4>2 DEF Written
    <3>2. CASE a.op # "put"
      BY <1>5, <2>3, <3>2 DEF Effect, Heard, Same
    <3>3. QED
      BY <3>1, <3>2
  <2>5. \A s \in Found3 : got'[s] = got[s]
    <3>1. CASE a.op = "get"
      <4>1. \E x : got' = [got EXCEPT !["lock"] = x]
        BY <1>10, <2>3, <3>1
      <4>2. QED
        BY <1>14, <1>17, <4>1
    <3>2. CASE a.op # "get"
      BY <1>10, <3>2
    <3>3. QED
      BY <3>1, <3>2
  <2>6. QED
    BY <1>16, <2>1, <2>2, <2>4, <2>5
<1>23. QED
  BY <1>7, <1>18, <1>19, <1>20, <1>21, <1>22

\* A search starts with everything before it.
LEMMA SeekBegins ==
  ASSUME got' = Nothing, Ahead' = 5
  PROVE  Addressed'
<1>1. got'.active = "none" /\ got'.base0 = "none" /\ got'.base1 = "none"
  BY NothingIs
<1>2. ~(5 <= 4) /\ 5 >= 4 /\ 5 >= 3 /\ 5 >= 2
  OBVIOUS
<1>3. QED
  BY <1>1, <1>2 DEF Addressed, SlotFine

LEMMA NotSeeking ==
  ASSUME pc' \notin {"ite find", "open", "unlock"} \/ (pc' = "unlock" /\ os' = "windows")
  PROVE  Addressed'
BY DEF Addressed, Seeking, Finding

LEMMA WinProbedAddressed ==
  ASSUME WinProbed
  PROVE  Addressed'
<1>1. CASE Begin("ite find", IteFind)
  <2>1. got' = Nothing /\ Left' = 5
    BY <1>1, IteFindIs, Sizes DEF Begin, Left
  <2>2. pc' # "open" /\ pc' # "unlock"
    BY <1>1 DEF Begin
  <2>3. Ahead' = 5
    BY <2>1, <2>2 DEF Ahead
  <2>4. QED
    BY <2>1, <2>3, SeekBegins
<1>2. CASE pc' = "detect"
  BY <1>2, NotSeeking
<1>3. QED
  BY <1>1, <1>2 DEF WinProbed, Begin

LEMMA LinuxProbedAddressed ==
  ASSUME Base, LinuxProbed
  PROVE  Addressed'
<1>1. /\ os = "linux" /\ family' = family /\ os' = os /\ chip' = chip /\ at' = at
  BY DEF LinuxProbed, device
<1>2. Here1' = Here1
  BY <1>1 DEF Here1, Here, PortPairs
<1>3. family \in {"ite", "nct"}
  BY DEF Base, TypeInv, CallTyped
<1>4. CASE IsKind(Speaks(family))
  <2>1. CASE family = "ite"
    <3>1. chip[Here].kind # "nct"
      BY <1>4, <2>1 DEF IsKind, Speaks
    <3>2. Begin("open", LinuxFind \o IteExit)
      BY <1>4, <2>1, <3>1, Zenon DEF LinuxProbed
    <3>3. Left' = 5 /\ got' = Nothing /\ pc' = "open"
      <4>1. LinuxFind \o IteExit = IteFind
        BY IteFindIs
      <4>2. QED
        BY <3>2, <4>1, IteFindIs, Sizes DEF Begin, Left
    <3>4. Ahead' = 5
      BY <1>1, <2>1, <3>3 DEF Ahead
    <3>5. QED
      BY <3>3, <3>4, SeekBegins
  <2>2. CASE family = "nct" /\ Here1.kind = "nct"
    <3>1. Begin("unlock", LinuxFind \o <<Get("cfg", "lock")>>)
      BY <1>4, <2>2, Zenon DEF LinuxProbed, Here1
    <3>2. todo' = <<Put("cfg", "ldn", "mon"), Get("cfg", "active"), Get("cfg", "base0"),
                    Get("cfg", "base1"), Get("cfg", "lock")>>
      BY <3>1, FindIs, OwnRequests DEF Begin
    <3>3. Left' = 5 /\ got' = Nothing /\ pc' = "unlock"
      BY <3>1, <3>2, Sizes DEF Begin, Left
    <3>4. Ahead' = 5
      BY <1>2, <2>2, <3>3 DEF Ahead
    <3>5. QED
      BY <3>3, <3>4, SeekBegins
  <2>3. CASE family = "nct" /\ Here1.kind # "nct"
    <3>1. Begin("unlock", LinuxFind)
      BY <1>4, <2>3, Zenon DEF LinuxProbed, Here1
    <3>2. Left' = 4 /\ got' = Nothing /\ pc' = "unlock"
      BY <3>1, Sizes DEF Begin, Left, LinuxFind
    <3>3. Ahead' = 5
      BY <1>2, <2>3, <3>2 DEF Ahead
    <3>4. QED
      BY <3>2, <3>3, SeekBegins
  <2>4. QED
    BY <1>3, <2>1, <2>2, <2>3
<1>5. CASE ~IsKind(Speaks(family))
  <2>1. pc' = "leave"
    BY <1>5 DEF LinuxProbed, Begin
  <2>2. QED
    BY <2>1, NotSeeking
<1>6. QED
  BY <1>4, <1>5

\* What was found stays known while the lock is cleared.
LEMMA LinuxUnlockedAddressed ==
  ASSUME Base, Addressed, LinuxUnlocked
  PROVE  Addressed'
<1>1. /\ os = "linux" /\ pc = "unlock" /\ todo = <<>> /\ pc' = "open" /\ got' = got
      /\ os' = os /\ chip' = chip /\ was' = was /\ lost' = lost /\ cut' = cut
      /\ at' = at /\ family' = family
  BY DEF LinuxUnlocked, Done, device
<1>2. Here1' = Here1 /\ Damaged' = Damaged
  BY <1>1 DEF Here1, Here, PortPairs, Damaged
<1>3. family = "nct"
  BY <1>1 DEF Base, Queue
<1>4. Left = 0
  BY <1>1, Sizes DEF Left
<1>5. Ahead = 0 \/ Ahead = 1
  BY <1>1, <1>4 DEF Ahead
<1>6. Ahead' = 0
  BY <1>1, <1>3 DEF Ahead
<1>7. PICK n, o, c : n = Ahead /\ o = (IF c.on THEN "on" ELSE "off") /\ c = Here1
  OBVIOUS
<1>8. n <= 4 /\ ~(n >= 4) /\ ~(n >= 3) /\ ~(n >= 2)
  BY <1>5, <1>7
<1>9. CASE cut
  BY <1>1, <1>9 DEF Addressed
<1>10. CASE ~cut
  <2>1. Seeking
    BY <1>1 DEF Seeking
  <2>2. /\ c.ldn = "mon" /\ SlotFine("active", o, n >= 4)
        /\ SlotFine("base0", "base0", n >= 3) /\ SlotFine("base1", "base1", n >= 2)
    BY <1>7, <1>8, <1>10, <2>1, AddressedIs
  <2>3. PICK m : m = 0
    OBVIOUS
  <2>4. SlotFine("active", o, m >= 4)'
    BY <1>1, <1>2, <1>8, <2>2 DEF SlotFine
  <2>5. SlotFine("base0", "base0", m >= 3)'
    BY <1>1, <1>2, <1>8, <2>2 DEF SlotFine
  <2>6. SlotFine("base1", "base1", m >= 2)'
    BY <1>1, <1>2, <1>8, <2>2 DEF SlotFine
  <2>7. QED
    BY <1>2, <1>6, <1>7, <2>2, <2>3, <2>4, <2>5, <2>6, ToAddressed
<1>11. QED
  BY <1>9, <1>10

LEMMA NextAddressed ==
  ASSUME Base, Base', Modes, Hurts, Addressed, [Next]_vars
  PROVE  Addressed'
<1>1. CASE Transfer
  BY <1>1, TransferAddressed
<1>2. CASE DecodeStep
  BY <1>2, NotSeeking DEF DecodeStep, NextCell, FieldDone, IteBank, RestoreBank, Done
<1>3. CASE WindowsStep
  <2>1. CASE WinIteFound
    BY <2>1, NotSeeking DEF WinIteFound, Begin, Return
  <2>2. CASE WinDetected
    <3>1. pc' \in {"unlock", "ite", "returned"} /\ os = "windows" /\ os' = os
      BY <2>2 DEF WinDetected, Begin, Return, device
    <3>2. QED
      BY <3>1, NotSeeking
  <2>3. CASE WinUnlocked
    BY <2>3, NotSeeking DEF WinUnlocked
  <2>4. CASE WinFinish
    BY <2>4, NotSeeking DEF WinFinish, Return
  <2>5. QED
    BY <1>3, <2>1, <2>2, <2>3, <2>4, WinProbedAddressed DEF WindowsStep
<1>4. CASE LinuxStep
  <2>1. CASE LinuxLeft
    BY <2>1, NotSeeking DEF LinuxLeft, Begin
  <2>2. CASE LinuxOpened
    BY <2>2, NotSeeking DEF LinuxOpened, Begin
  <2>3. CASE LinuxNctBank
    BY <2>3, NotSeeking DEF LinuxNctBank
  <2>4. CASE LinuxFinish
    BY <2>4, NotSeeking DEF LinuxFinish, Begin, Start, Return
  <2>5. QED
    BY <1>4, <2>1, <2>2, <2>3, <2>4, LinuxProbedAddressed, LinuxUnlockedAddressed DEF LinuxStep
<1>5. CASE Call \/ Die
  <2>1. pc' \in {"ite", "probe", "finish", "idle"}
    BY <1>5, Calls DEF Die
  <2>2. QED
    BY <2>1, NotSeeking
<1>6. CASE UNCHANGED vars
  <2>1. /\ os' = os /\ chip' = chip /\ was' = was /\ cut' = cut /\ lost' = lost
        /\ pc' = pc /\ family' = family /\ at' = at /\ todo' = todo /\ got' = got
    BY <1>6 DEF vars, device
  <2>2. Here1' = Here1 /\ Left' = Left /\ Damaged' = Damaged
    BY <2>1 DEF Here1, Here, PortPairs, Left, Size, Damaged
  <2>3. Ahead' = Ahead /\ Seeking' = Seeking
    BY <2>1, <2>2, Zenon DEF Ahead, Seeking, Finding
  <2>4. QED
    BY <2>1, <2>2, <2>3 DEF Addressed, SlotFine
<1>7. QED
  BY <1>1, <1>2, <1>3, <1>4, <1>5, <1>6 DEF Next, Step

-----------------------------------------------------------------------------
(* Accesses to the monitor go to its address. *)

\* Before an address is known, and for Nuvoton chips on Windows, every access
\* is one to the configuration ports.
LEMMA ConfigPort ==
  ASSUME Base, todo # <<>>, pc \notin {"bank", "fields", "finish"} \/ NctOnWindows
  PROVE  Head(todo).port = "cfg"
<1>1. PICK a, s : a = Head(todo) /\ s = todo
  OBVIOUS
<1>2. SUFFICES a.port = "cfg"
  BY <1>1
<1>3. pc \in Procedure /\ family \in {"ite", "nct"} /\ os \in {"windows", "linux"}
  BY DEF Base, TypeInv, BoardTyped, CallTyped
<1>4. pc \notin {"idle", "returned", "bank", "finish"}
  BY <1>1, Zenon DEF Base, Queue, NctOnWindows
<1>5. CASE pc = "ite" \/ (pc = "probe" /\ family = "ite")
  <2>1. s \in IteKeyed
    BY <1>1, <1>5 DEF Base, Queue
  <2>2. PICK x : x = Key(IF Here = "4E" THEN "AA" ELSE "55")
    OBVIOUS
  <2>3. \/ a = Key("87") \/ a = Key("01") \/ a = Key("55") \/ a = x
        \/ a = Get("cfg", "id0") \/ a = Get("cfg", "id1")
    BY <1>1, <2>1, <2>2, Head6 DEF IteKeyed
  <2>4. x.port = "cfg"
    BY <2>2, OpsAre
  <2>5. QED
    BY <2>3, <2>4, OwnOps
<1>6. CASE pc = "probe" /\ family = "nct"
  <2>1. s \in NctKeyed
    BY <1>1, <1>6 DEF Base, Queue
  <2>2. a = Key("87") \/ a = Get("cfg", "id0") \/ a = Get("cfg", "id1")
    BY <1>1, <2>1, Head4 DEF NctKeyed
  <2>3. QED
    BY <2>2, OwnOps
<1>7. CASE pc = "detect"
  <2>1. s \in Detected
    BY <1>1, <1>7 DEF Base, Queue
  <2>2. \/ a = Leave \/ a = Key("87") \/ a = Get("cfg", "id0") \/ a = Get("cfg", "id1")
        \/ a = Send("AA")
    BY <1>1, <2>1, Head6 DEF Detected
  <2>3. QED
    BY <2>2, OwnOps
<1>8. CASE pc = "leave"
  <2>1. s \in Ends1(Leave) \/ s \in Ends1(Send("AA"))
    BY <1>1, <1>3, <1>8 DEF Base, Queue
  <2>2. a = Leave \/ a = Send("AA")
    BY <1>1, <2>1, Next1
  <2>3. QED
    BY <2>2, OwnOps
<1>9. ASSUME NEW z, z.port = "cfg", s \in FoundThen(z)
      PROVE  a.port = "cfg"
  <2>1. \/ a = Put("cfg", "ldn", "mon") \/ a = Get("cfg", "active")
        \/ a = Get("cfg", "base0") \/ a = Get("cfg", "base1") \/ a = z
    BY <1>1, <1>9, Head5 DEF FoundThen
  <2>2. QED
    BY <1>9, <2>1, OwnOps
<1>10. CASE Finding /\ family = "ite"
  <2>1. s \in FoundThen(Leave)
    BY <1>1, <1>10, Zenon DEF Base, Queue, Finding
  <2>2. QED
    BY <1>9, <2>1, OwnOps
<1>11. CASE pc = "unlock"
  <2>1. \/ s \in Ends3(Key("87"), Key("87"), Get("cfg", "lock"))
        \/ s \in FoundThen(Get("cfg", "lock")) \/ s \in Found
    BY <1>1, <1>11 DEF Base, Queue
  <2>2. CASE s \in Ends3(Key("87"), Key("87"), Get("cfg", "lock"))
    <3>1. a = Key("87") \/ a = Get("cfg", "lock")
      BY <1>1, <2>2, Head3
    <3>2. QED
      BY <3>1, OwnOps
  <2>3. CASE s \in Found
    <3>1. \/ a = Put("cfg", "ldn", "mon") \/ a = Get("cfg", "active")
          \/ a = Get("cfg", "base0") \/ a = Get("cfg", "base1")
      BY <1>1, <2>3, Head4 DEF Found
    <3>2. QED
      BY <3>1, OwnOps
  <2>4. QED
    BY <1>9, <2>1, <2>2, <2>3, OwnOps
<1>12. ASSUME Locking
       PROVE  a.port = "cfg"
  <2>1. a = Send("AA") \/ \E v : a = Put("cfg", "lock", v)
    BY <1>1, <1>12, LockingNext
  <2>2. QED
    BY <2>1, OwnOps, OpsAre
<1>13. CASE Finding /\ family = "nct"
  <2>1. Locking
    BY <1>1, <1>13, Zenon DEF Base, Queue, Finding
  <2>2. QED
    BY <1>12, <2>1
<1>14. CASE pc = "fields"
  <2>1. NctOnWindows
    BY <1>14
  <2>2. family # "ite" /\ ~NctOnLinux
    BY <2>1 DEF NctOnWindows, NctOnLinux
  <2>3. Locking \/ todo \in Ends2(Put("cfg", "bank", NextReg[1]), Cell("cfg", NextReg[2]))
    BY <1>14, <2>1, <2>2 DEF Base, Queue, FieldsQueue
  <2>4. PICK x, y : x = Put("cfg", "bank", NextReg[1]) /\ y = Cell("cfg", NextReg[2])
    OBVIOUS
  <2>5. CASE s \in Ends2(x, y)
    <3>1. a = x \/ a = y
      BY <1>1, <2>5, Next2
    <3>2. x.port = "cfg" /\ y.port = "cfg"
      BY <2>4, OpsAre
    <3>3. QED
      BY <3>1, <3>2
  <2>6. QED
    BY <1>1, <1>12, <2>3, <2>4, <2>5
<1>15. Finding \/ pc \notin {"ite find", "open"}
  BY Zenon DEF Finding
<1>16. pc = "ite" \/ pc = "probe" \/ pc = "detect" \/ pc = "leave" \/ pc = "unlock"
       \/ pc = "fields" \/ Finding
  BY <1>3, <1>4, <1>15, Zenon DEF Procedure
<1>17. QED
  BY <1>3, <1>5, <1>6, <1>7, <1>8, <1>10, <1>11, <1>13, <1>14, <1>16

\* An address is taken from registers that were read right.
LEMMA WinIteFoundBaseKnown ==
  ASSUME Base, Addressed, WinIteFound
  PROVE  BaseKnown'
<1>1. /\ os = "windows" /\ Finding /\ todo = <<>> /\ os' = os /\ was' = was /\ cut' = cut
      /\ lost' = lost
  BY Zenon DEF WinIteFound, Done, Finding, Return, device
<1>2. CASE base' = "none"
  BY <1>2 DEF BaseKnown
<1>3. CASE base' # "none"
  <2>1. base' = WinBase
    BY <1>3 DEF WinIteFound, Return
  <2>2. SUFFICES ASSUME base' = "wrong", ~cut, ~Damaged
                 PROVE  "base1" \in lost
    BY <1>1 DEF BaseKnown, Damaged
  <2>3. Seeking
    BY <1>1 DEF Seeking
  <2>4. Left = 0 /\ pc # "unlock"
    BY <1>1, Sizes, Zenon DEF Left, Finding
  <2>5. Ahead = 0
    BY <2>4 DEF Ahead
  <2>6. PICK n : n = Ahead
    OBVIOUS
  <2>7. SlotFine("base0", "base0", n >= 3) /\ SlotFine("base1", "base1", n >= 2)
    BY <2>2, <2>3, <2>6, AddressedIs
  <2>8. /\ got.base0 \in {"none", "base0"} /\ got.base1 \in {"none", "base1"}
        /\ got.base1 # "none" \/ "base1" \in lost
    BY <2>2, <2>5, <2>6, <2>7 DEF SlotFine
  <2>9. got.base1 # "base1"
    BY <2>1, <2>2, <2>8, Zenon DEF WinBase
  <2>10. QED
    BY <2>8, <2>9
<1>4. QED
  BY <1>2, <1>3

LEMMA LinuxOpenedBaseKnown ==
  ASSUME Base, Addressed, BaseKnown, LinuxOpened
  PROVE  BaseKnown'
<1>1. /\ os = "linux" /\ Finding /\ pc = "open" /\ todo = <<>> /\ os' = os /\ was' = was
      /\ cut' = cut /\ lost' = lost
  BY Zenon DEF LinuxOpened, Done, Finding, device
<1>2. CASE base' = base
  BY <1>1, <1>2 DEF BaseKnown, Damaged
<1>3. CASE base' # base
  <2>1. base' = LinuxBase
    BY <1>3 DEF LinuxOpened
  <2>2. SUFFICES ASSUME base' = "wrong", ~cut, ~Damaged
                 PROVE  FALSE
    BY <1>1 DEF BaseKnown, Damaged
  <2>3. Seeking
    BY <1>1 DEF Seeking
  <2>4. PICK n : n = Ahead
    OBVIOUS
  <2>5. SlotFine("base0", "base0", n >= 3) /\ SlotFine("base1", "base1", n >= 2)
    BY <2>2, <2>3, <2>4, AddressedIs
  <2>6. got.base0 \in {"none", "base0"} /\ got.base1 \in {"none", "base1"}
    BY <2>2, <2>5 DEF SlotFine
  <2>7. QED
    BY <2>1, <2>2, <2>6, Zenon DEF LinuxBase
<1>4. QED
  BY <1>2, <1>3

\* The address of any other step is the one before, or none.
LEMMA BaseSame ==
  ASSUME base' = base \/ base' = "none", os' = os, was' = was, cut => cut',
         lost \subseteq lost', BaseKnown
  PROVE  BaseKnown'
BY DEF BaseKnown, Damaged

LEMMA NextBaseKnown ==
  ASSUME Base, Addressed, BaseKnown, [Next]_vars
  PROVE  BaseKnown'
<1>1. CASE Transfer
  <2>1. cut => cut'
    BY <1>1, TransferIs DEF Moves
  <2>2. QED
    BY <1>1, <2>1, TransferIs, LostGrows, BaseSame
<1>2. CASE DecodeStep \/ WindowsStep \/ LinuxStep
  <2>1. os' = os /\ was' = was /\ cut' = cut /\ lost' = lost
    BY <1>2, StepDevice DEF device
  <2>2. CASE WinIteFound \/ LinuxOpened
    BY <2>2, WinIteFoundBaseKnown, LinuxOpenedBaseKnown
  <2>3. CASE ~(WinIteFound \/ LinuxOpened)
    <3>1. base' = base \/ base' = "none"
      <4>1. CASE DecodeStep
        BY <4>1 DEF DecodeStep, NextCell, FieldDone, IteBank, RestoreBank
      <4>2. CASE WindowsStep
        BY <2>3, <4>2 DEF WindowsStep, WinProbed, WinDetected, WinUnlocked, WinFinish, Return
      <4>3. CASE LinuxStep
        <5>1. CASE LinuxProbed \/ LinuxLeft \/ LinuxUnlocked \/ LinuxNctBank
          BY <5>1 DEF LinuxProbed, LinuxLeft, LinuxUnlocked, LinuxNctBank
        <5>2. CASE LinuxFinish
          BY <5>2 DEF LinuxFinish, Return
        <5>3. QED
          BY <2>3, <4>3, <5>1, <5>2 DEF LinuxStep
      <4>4. QED
        BY <1>2, <4>1, <4>2, <4>3
    <3>2. QED
      BY <2>1, <3>1, BaseSame
  <2>4. QED
    BY <2>2, <2>3
<1>3. CASE Call \/ Die
  BY <1>3, Begun DEF BaseKnown
<1>4. CASE UNCHANGED vars
  BY <1>4, BaseSame DEF vars, device
<1>5. QED
  BY <1>1, <1>2, <1>3, <1>4 DEF Next, Step

LEMMA NextStray ==
  ASSUME Base, BaseKnown, BaseKnown', StaysOnChip, [Next]_vars
  PROVE  StaysOnChip'
<1>1. CASE Transfer
  <2>1. PICK a, f, v : Moves(a, f, v)
    BY <1>1, TransferIs
  <2>2. /\ todo # <<>> /\ os' = os /\ was' = was /\ base' = base /\ (cut => cut')
        /\ lost \subseteq lost' /\ a = Head(todo) /\ f \in Outcome(a)
    BY <1>1, <2>1, TransferIs, LostGrows DEF Moves
  <2>3. SUFFICES ASSUME stray'
                 PROVE  cut' \/ Damaged \/ (os = "windows" /\ "base1" \in lost')
    BY <2>2 DEF StaysOnChip, Damaged
  <2>4. CASE stray
    BY <2>2, <2>4 DEF StaysOnChip
  <2>5. CASE ~stray
    <3>1. a.port # "cfg" /\ base # "mon" /\ f # "both"
      BY <2>1, <2>3, <2>5 DEF Moves, Arrives
    <3>2. pc \in {"bank", "fields", "finish"} /\ ~NctOnWindows
      BY <2>2, <3>1, ConfigPort
    <3>3. base # "far"
      BY <2>2, <3>1 DEF Outcome, Barred
    <3>4. base # "none"
      <4>1. CASE pc \in {"bank", "fields"}
        BY <3>2, <4>1 DEF Base, Queue
      <4>2. CASE pc = "finish"
        BY <2>2, <3>2, <4>2 DEF Base, Queue
      <4>3. QED
        BY <3>2, <4>1, <4>2
    <3>5. base = "wrong"
      BY <3>1, <3>3, <3>4 DEF Base, TypeInv, CallTyped
    <3>6. QED
      BY <2>2, <3>5 DEF BaseKnown, Damaged
  <2>6. QED
    BY <2>4, <2>5 DEF Base, TypeInv, BoardTyped
<1>2. CASE DecodeStep \/ WindowsStep \/ LinuxStep
  <2>1. device' = device
    BY <1>2, StepDevice
  <2>2. QED
    BY <2>1 DEF device, StaysOnChip, Damaged
<1>3. CASE Call \/ Die
  <2>1. stray' = FALSE
    BY <1>3, Calls DEF Die
  <2>2. QED
    BY <2>1 DEF StaysOnChip
<1>4. CASE UNCHANGED vars
  BY <1>4 DEF vars, device, StaysOnChip, Damaged
<1>5. QED
  BY <1>1, <1>2, <1>3, <1>4 DEF Next, Step

LEMMA InitAddressed ==
  ASSUME Init
  PROVE  Addressed /\ BaseKnown /\ StaysOnChip
<1>1. pc = "idle" /\ base = "none" /\ stray = FALSE
  BY DEF Init
<1>2. ~Seeking
  BY <1>1, Zenon DEF Seeking, Finding
<1>3. QED
  BY <1>1, <1>2 DEF Addressed, BaseKnown, StaysOnChip

\* Unless a write failed or an earlier call had overwritten the address, no
\* byte goes to ports of another device; the exception on Windows, where the
\* low byte of the address could not be read, is the one StaysOnChip names.
THEOREM BytesStayOnChip == Spec => []StaysOnChip
<1>1. Init => Base /\ Modes /\ Hurts /\ Addressed /\ BaseKnown /\ StaysOnChip
  BY InitBase, InitModes, InitRegisters, InitAddressed
<1>2. ASSUME Base, Modes, Hurts, Addressed, BaseKnown, StaysOnChip, [Next]_vars
      PROVE  Base' /\ Modes' /\ Hurts' /\ Addressed' /\ BaseKnown' /\ StaysOnChip'
  <2>1. Base'
    BY <1>2, NextBase, StutterBase
  <2>2. Modes'
    BY <1>2, <2>1, NextModes, StutterModes
  <2>3. Hurts'
    BY <1>2, NextHurts
  <2>4. Addressed'
    BY <1>2, <2>1, NextAddressed
  <2>5. BaseKnown'
    BY <1>2, NextBaseKnown
  <2>6. QED
    BY <1>2, <2>1, <2>2, <2>3, <2>4, <2>5, NextStray
<1>3. QED
  BY <1>1, <1>2, PTL DEF Spec

-----------------------------------------------------------------------------
(* What is read comes from the registers that were asked for. *)

LEMMA WholeBefore ==
  ASSUME Transfer, Whole'
  PROVE  Whole /\ ~cut /\ ~cut'
<1>1. /\ was' = was /\ (cut => cut') /\ lost \subseteq lost'
  BY TransferIs, LostGrows DEF Moves
<1>2. QED
  BY <1>1 DEF Whole, Damaged

LEMMA WholeSame ==
  ASSUME device' = device
  PROVE  Whole' <=> Whole
BY DEF device, Whole, Damaged

LEMMA ExemptSame ==
  ASSUME os' = os, was' = was, family' = family, at' = at
  PROVE  Exempt' <=> Exempt
<1>1. Here' = Here /\ NctOnWindows' = NctOnWindows
  BY HereSame, FamilySame
<1>2. Stuck' <=> Stuck
  BY <1>1 DEF Stuck, ReadBank
<1>3. QED
  BY <1>1, <1>2 DEF Exempt

\* The access that reads a register of a monitor.
LEMMA CellAccess ==
  ASSUME Base, pc = "fields", ~NctOnWindows, todo # <<>>, Head(todo).op = "cell"
  PROVE  /\ CellDue /\ Head(todo) = Cell("mon", NextReg[2])
         /\ family = "ite" \/ cache = NextReg[1]
<1>1. PICK a, s, x, y, z : /\ a = Head(todo) /\ s = todo
                           /\ z = Put("mon", "bank", ReadBank(got.bank))
                           /\ x = Put("mon", "bank", NextReg[1])
                           /\ y = Cell("mon", NextReg[2])
  OBVIOUS
<1>2. a.op = "cell" /\ x.op = "put" /\ z.op = "put"
  BY <1>1, OpsAre
<1>3. \/ s = <<z>>
      \/ CellDue /\ cache = NextReg[1] /\ s \in Ends2(x, y)
      \/ CellDue /\ family = "ite" /\ s = <<y>>
  BY <1>1 DEF Base, Queue, FieldsQueue
<1>4. s # <<z>>
  BY <1>1, <1>2
<1>5. CASE CellDue /\ cache = NextReg[1] /\ s \in Ends2(x, y)
  <2>1. s \in Ends2(x, y) /\ s # <<>> /\ a = Head(s)
    BY <1>1, <1>5
  <2>2. a = x \/ a = y
    BY <2>1, Next2
  <2>3. QED
    BY <1>1, <1>2, <1>5, <2>2
<1>6. CASE CellDue /\ family = "ite" /\ s = <<y>>
  BY <1>1, <1>6
<1>7. QED
  BY <1>3, <1>4, <1>5, <1>6

\* A monitor that is asked for a register answers in the bank it is in.
LEMMA MonAnswers ==
  ASSUME NEW c \in ChipType, NEW r \in Byte, MonOpen(c)
  PROVE  MonSay(MonHear(c, r)) = <<c.bank, r>>
<1>1. PICK d : d = Monitors(c, r)
  OBVIOUS
<1>2. MonHear(c, r) = d
  BY <1>1, MonIs
<1>3. d.bank = c.bank /\ d.mon = r /\ d.on = c.on /\ d.kind = c.kind /\ d.lock = c.lock
  BY <1>1, MonWrites
<1>4. MonOpen(d)
  BY <1>3 DEF MonOpen
<1>5. QED
  BY <1>2, <1>3, <1>4 DEF MonSay

LEMMA CellRead ==
  ASSUME Base, Banks, Transfer, Whole, ~cut', pc = "fields", ~Exempt, Reached,
         Head(todo).op = "cell"
  PROVE  CellDue /\ \E v : v \in {Missing, NextReg} /\ cells' = Append(cells, v)
<1>1. PICK a, f, v : Moves(a, f, v)
  BY TransferIs
<1>2. todo # <<>> /\ a = Head(todo) /\ v = ValueRead(a, f) /\ base = "mon" /\ MonOpen(Here1)
  BY <1>1, TransferIs DEF Moves, Reached
<1>3. PICK r, c : r = NextReg /\ c = Here1
  OBVIOUS
<1>4. CellDue /\ a = Cell("mon", r[2]) /\ (family = "ite" \/ cache = r[1])
  BY <1>2, <1>3, CellAccess DEF Exempt
<1>5. r \in Register /\ (family = "ite" => r[1] = "b0")
  BY <1>3, <1>4, NextRegIs DEF Base, TypeInv
<1>6. r = <<r[1], r[2]>> /\ r[1] \in Bank /\ r[2] \in Byte
  BY <1>5, Bytes DEF Register
<1>7. a.op = "cell" /\ a.port = "mon" /\ a.reg = r[2]
  BY <1>4, OpsAre
<1>8. c.bank = r[1]
  <2>1. Selected /\ (got.bank # "none" => BankFine(Here, got.bank))
    BY <1>2, <1>7 DEF Banks, BankHere, Putting, Whole
  <2>2. CASE family = "ite"
    <3>1. got.bank = was[Here].bank
      BY <2>1, <2>2 DEF Base, BankKnown, BankFine, Whole
    <3>2. ReadBank(got.bank) = "b0"
      BY <2>2, <3>1 DEF Exempt, Stuck
    <3>3. QED
      BY <1>3, <1>5, <2>1, <2>2, <3>2 DEF Selected
  <2>3. CASE family # "ite"
    BY <1>3, <1>4, <1>6, <2>1, <2>3, Bytes DEF Selected
  <2>4. QED
    BY <2>2, <2>3
<1>9. f \notin {"first", "both"}
  <2>1. ~Barred(a)
    BY <1>2, <1>7 DEF Barred
  <2>2. ~WriteFailed(a, f)
    BY <1>1, <2>1 DEF Moves
  <2>3. QED
    BY <2>2 DEF WriteFailed
<1>10. c \in ChipType /\ c = chip[Here]
  BY <1>3, HereIs DEF Here1, Base, TypeInv, BoardTyped, CallTyped
<1>11. v \in {Missing, r}
  <2>1. CASE f = "second"
    BY <1>2, <2>1 DEF ValueRead
  <2>2. CASE f # "second"
    <3>1. Arrives(a)
      BY <1>2 DEF Arrives
    <3>2. AfterIndex(a, f) = MonHear(c, r[2])
      BY <1>7, <1>9, <1>10, <3>1 DEF AfterIndex
    <3>3. v = MonSay(AfterIndex(a, f))
      BY <1>2, <1>7, <1>9, <2>2, <3>1 DEF ValueRead
    <3>4. MonSay(MonHear(c, r[2])) = <<c.bank, r[2]>>
      BY <1>2, <1>3, <1>6, <1>10, MonAnswers
    <3>5. QED
      BY <1>6, <1>8, <3>2, <3>3, <3>4
  <2>3. QED
    BY <2>1, <2>2
<1>12. cells' = Append(cells, v)
  BY <1>1, <1>7 DEF Moves
<1>13. QED
  BY <1>3, <1>4, <1>11, <1>12

LEMMA TransferUnlocked ==
  ASSUME Base, Modes, Unlocked, Transfer, ~cut, ~cut'
  PROVE  Unlocked'
<1>1. SUFFICES ASSUME pc' = "open", Here1'.kind = "nct"
               PROVE  Here1'.lock # "set" \/ Left' = 2
  BY DEF Unlocked
<1>2. todo # <<>> /\ pc = "open"
  BY <1>1, TransferIs
<1>3. Here1.kind = "nct"
  BY <1>1, TransferKeeps DEF Base
<1>4. family = "nct" /\ Locking /\ os = "linux"
  <2>1. Finding
    BY <1>2, Zenon DEF Finding
  <2>2. Here1.kind \in Speaks(family)
    BY <2>1, Zenon DEF Base, Queue, Finding
  <2>3. family = "nct"
    BY <1>3, <2>2 DEF Speaks, Base, TypeInv, CallTyped
  <2>4. QED
    BY <1>2, <2>3 DEF Base, Queue
<1>5. Here # "162"
  BY <1>2 DEF Base, Outside
<1>6. PICK a, c, d : /\ a = Head(todo) /\ c = Here1 /\ d = Here1' /\ Effect(c, d, a)
  BY <1>5, CleanSteps
<1>7. CASE a = Send("AA") /\ Left = 1
  <2>1. c.lock # "set"
    BY <1>2, <1>3, <1>6, <1>7 DEF Unlocked
  <2>2. Heard(c, d, Here, "AA")
    BY <1>6, <1>7, OwnOps DEF Effect
  <2>3. QED
    BY <1>6, <2>1, <2>2 DEF Heard, Same
<1>8. ASSUME NEW w \in {"clear", "wiped"}, a = Put("cfg", "lock", w), Left = 2
      PROVE  d.lock # "set"
  <2>1. Written(c, d, "lock", w)
    BY <1>6, <1>8, OpsAre DEF Effect
  <2>2. Seeking
    BY <1>2, Zenon DEF Seeking, Finding
  <2>3. c.mode = "config"
    BY <1>6, <1>8, <2>2, SeekingMode
  <2>4. QED
    BY <2>1, <2>3 DEF Written
<1>9. QED
  BY <1>2, <1>4, <1>6, <1>7, <1>8, LockingNext

LEMMA TransferReaching ==
  ASSUME Base, Reaching, Transfer, ~cut', ~NctOnWindows
  PROVE  Reaching'
<1>1. SUFFICES ASSUME pc' \in {"bank", "fields"}
               PROVE  Reached'
  BY DEF Reaching
<1>2. /\ todo # <<>> /\ pc \in {"bank", "fields"} /\ base' = base
  BY <1>1, TransferIs
<1>3. Here # "162"
  BY <1>2 DEF Base, Outside
<1>4. PICK a, c, d : /\ a = Head(todo) /\ c = Here1 /\ d = Here1' /\ Effect(c, d, a)
  BY <1>3, CleanSteps
<1>5. a.port = "mon"
  BY <1>2, <1>4, MonitorPort
<1>6. base = "mon" /\ MonOpen(c)
  BY <1>2, <1>4 DEF Reaching, Reached
<1>7. MonOpen(d)
  BY <1>4, <1>5, <1>6, StaysOpen
<1>8. QED
  BY <1>2, <1>4, <1>6, <1>7 DEF Reached

LEMMA TransferCells ==
  ASSUME Base, Banks, Reaching, CellsOwn, Transfer, Whole, ~cut', ~Exempt
  PROVE  CellsOwn'
<1>1. SUFFICES ASSUME pc' = "fields", fields' # <<>>
               PROVE  \A i \in 1 .. Len(cells') : cells'[i] \in {Missing, Head(fields').regs[i]}
  BY DEF CellsOwn
<1>2. todo # <<>> /\ pc = "fields" /\ fields' = fields
  BY <1>1, TransferIs
<1>3. PICK g, s : g = Head(fields).regs /\ s = cells
  OBVIOUS
<1>4. \A i \in 1 .. Len(s) : s[i] \in {Missing, g[i]}
  BY <1>1, <1>2, <1>3 DEF CellsOwn
<1>5. s \in Seq(Value)
  BY <1>3 DEF Base, TypeInv, FieldsTyped
<1>6. CASE Head(todo).op # "cell"
  <2>1. cells' = cells
    BY <1>6, TransferIs DEF Moves
  <2>2. QED
    BY <1>2, <1>3, <1>4, <2>1
<1>7. CASE Head(todo).op = "cell"
  <2>1. Reached
    BY <1>2 DEF Reaching
  <2>2. PICK v : v \in {Missing, NextReg} /\ cells' = Append(cells, v)
    BY <1>2, <1>7, <2>1, CellRead
  <2>3. v \in {Missing, g[Len(s) + 1]} /\ cells' = Append(s, v)
    BY <1>3, <2>2 DEF NextReg
  <2>4. PICK t : t = Append(s, v)
    OBVIOUS
  <2>5. /\ Len(t) = Len(s) + 1 /\ t[Len(s) + 1] = v
        /\ \A i \in 1 .. Len(s) : t[i] = s[i]
    BY <1>5, <2>4
  <2>6. ASSUME NEW i \in 1 .. Len(t)
        PROVE  t[i] \in {Missing, g[i]}
    <3>1. Len(s) \in Nat
      BY <1>5
    <3>2. i \in 1 .. Len(s) \/ i = Len(s) + 1
      BY <2>5, <2>6, <3>1
    <3>3. QED
      BY <1>4, <2>3, <2>5, <3>2
  <2>7. QED
    BY <1>2, <1>3, <2>3, <2>4, <2>6
<1>8. QED
  BY <1>6, <1>7

LEMMA TransferOwn ==
  ASSUME Base, Modes, Banks, OwnCells, Transfer
  PROVE  OwnCells'
<1>1. SUFFICES ASSUME Whole', ~Exempt'
               PROVE  Unlocked' /\ Reaching' /\ CellsOwn' /\ ResOwn'
  BY DEF OwnCells
<1>2. Whole /\ ~cut /\ ~cut' /\ ~Exempt /\ ~NctOnWindows /\ res' = res
  BY <1>1, WholeBefore, TransferIs, ExemptSame DEF Exempt
<1>3. Unlocked /\ Reaching /\ CellsOwn /\ ResOwn
  BY <1>2 DEF OwnCells
<1>4. ResOwn'
  BY <1>2, <1>3 DEF ResOwn
<1>5. QED
  BY <1>2, <1>3, <1>4, TransferUnlocked, TransferReaching, TransferCells

\* A step after which nothing of the monitor is read.
LEMMA ElsewhereOwn ==
  ASSUME pc' \notin {"open", "bank", "fields"}, Whole' /\ ~Exempt' => ResOwn'
  PROVE  OwnCells'
BY DEF OwnCells, Unlocked, Reaching, CellsOwn

LEMMA ResKept ==
  ASSUME OwnCells, device' = device, res' = res,
         res = <<>> \/ (family' = family /\ at' = at)
  PROVE  Whole' /\ ~Exempt' => ResOwn'
<1>1. CASE res = <<>>
  BY <1>1 DEF ResOwn
<1>2. CASE family' = family /\ at' = at
  <2>1. Exempt' <=> Exempt
    BY <1>2, ExemptSame DEF device
  <2>2. QED
    BY <2>1, WholeSame DEF OwnCells, ResOwn
<1>3. QED
  BY <1>1, <1>2

LEMMA NoReadings ==
  ASSUME Base, pc \notin {"fields", "finish", "returned"}
  PROVE  res = <<>>
BY DEF Base, TypeInv, FieldsTyped

\* What is returned is what was read, or nothing.
LEMMA ReturnOwn ==
  ASSUME Base, OwnCells, NEW r, r = <<>> \/ r = res, Return(r)
  PROVE  OwnCells'
<1>1. /\ pc' = "returned" /\ family' = family /\ at' = at /\ device' = device
      /\ res' = [i \in 1 .. Len(r) |-> IF r[i].kind = what THEN r[i] ELSE Blank]
  BY DEF Return
<1>2. SUFFICES ASSUME Whole', ~Exempt'
               PROVE  ResOwn'
  BY <1>1, ElsewhereOwn
<1>3. Exempt' <=> Exempt
  BY <1>1, ExemptSame DEF device
<1>4. \A i \in 1 .. Len(res) : res[i].cells = res[i].regs
  BY <1>1, <1>2, <1>3, WholeSame DEF OwnCells, ResOwn
<1>5. r \in Seq(Result)
  <2>1. res \in Seq(Result)
    BY DEF Base, TypeInv, FieldsTyped
  <2>2. <<>> \in Seq(Result)
    OBVIOUS
  <2>3. QED
    BY <2>1, <2>2
<1>6. Len(res') = Len(r) /\ Len(r) \in Nat
  BY <1>1, <1>5
<1>7. ASSUME NEW i \in 1 .. Len(res')
      PROVE  res'[i].cells = res'[i].regs
  <2>1. i \in 1 .. Len(r)
    BY <1>6, <1>7
  <2>2. r[i].cells = r[i].regs
    BY <1>4, <2>1
  <2>3. res'[i] = IF r[i].kind = what THEN r[i] ELSE Blank
    BY <1>1, <2>1
  <2>4. Blank.cells = <<>> /\ Blank.regs = <<>>
    BY DEF Blank
  <2>5. QED
    BY <2>2, <2>3, <2>4
<1>8. QED
  BY <1>7 DEF ResOwn

\* A monitor whose registers could all be read is reached.
LEMMA FoundRight ==
  ASSUME Base, Addressed, Whole, Finding, todo = <<>>
  PROVE  /\ got.active = IF Here1.on THEN "on" ELSE "off"
         /\ got.base0 = "base0" /\ got.base1 = "base1"
<1>1. Seeking /\ ~cut /\ ~Damaged /\ lost \subseteq {"cell"}
  BY DEF Seeking, Whole
<1>2. pc # "unlock"
  BY Zenon DEF Finding
<1>3. Left = 0
  BY Sizes DEF Left
<1>4. Ahead = 0
  BY <1>2, <1>3 DEF Ahead
<1>5. PICK n, o : n = Ahead /\ o = IF Here1.on THEN "on" ELSE "off"
  OBVIOUS
<1>6. /\ SlotFine("active", o, n >= 4) /\ SlotFine("base0", "base0", n >= 3)
      /\ SlotFine("base1", "base1", n >= 2)
  BY <1>1, <1>5, AddressedIs
<1>7. ~(n >= 4) /\ ~(n >= 3) /\ ~(n >= 2)
  BY <1>4, <1>5
<1>8. ASSUME NEW s \in Found3, NEW v, SlotFine(s, v, FALSE)
      PROVE  got[s] = v
  BY <1>1, <1>8 DEF SlotFine, Found3
<1>9. SlotFine("active", o, FALSE) /\ SlotFine("base0", "base0", FALSE)
      /\ SlotFine("base1", "base1", FALSE)
  BY <1>6, <1>7 DEF SlotFine
<1>10. got["active"] = o /\ got["base0"] = "base0" /\ got["base1"] = "base1"
  BY <1>8, <1>9 DEF Found3
<1>11. got.active = o /\ got.base0 = "base0" /\ got.base1 = "base1"
  BY <1>10
<1>12. QED
  BY <1>5, <1>11

LEMMA WinIteFoundOwn ==
  ASSUME Base, Addressed, OwnCells, WinIteFound
  PROVE  OwnCells'
<1>1. pc = "ite find" /\ todo = <<>>
  BY DEF WinIteFound, Done
<1>2. CASE Return(<<>>)
  BY <1>2, ReturnOwn
<1>3. CASE ~Return(<<>>)
  <2>1. /\ got.active \notin {"none", "off"} /\ base' = WinBase /\ pc' = "bank"
        /\ device' = device /\ family' = family /\ at' = at /\ res' = res
    BY <1>3 DEF WinIteFound, Begin
  <2>2. SUFFICES ASSUME Whole'
                 PROVE  Reached' /\ ResOwn'
    BY <2>1 DEF OwnCells, Unlocked, Reaching, CellsOwn
  <2>3. Finding /\ Whole /\ res = <<>>
    BY <1>1, <2>1, <2>2, WholeSame, NoReadings, Zenon DEF Finding
  <2>4. Here1.on /\ got.base0 = "base0" /\ got.base1 = "base1"
    BY <1>1, <2>1, <2>3, FoundRight
  <2>5. base' = "mon"
    BY <2>1, <2>4, Zenon DEF WinBase
  <2>6. Here1.kind = "ite"
    <3>1. Here1.kind \in Speaks(family) /\ family = "ite"
      BY <1>1, Zenon DEF Base, Queue
    <3>2. QED
      BY <3>1 DEF Speaks
  <2>7. Here1' = Here1
    BY <2>1 DEF Here1, Here, PortPairs, device
  <2>8. QED
    BY <2>1, <2>3, <2>4, <2>5, <2>6, <2>7 DEF Reached, MonOpen, ResOwn
<1>4. QED
  BY <1>2, <1>3

LEMMA LinuxOpenedOwn ==
  ASSUME Base, Addressed, OwnCells, LinuxOpened
  PROVE  OwnCells'
<1>1. /\ pc = "open" /\ todo = <<>> /\ os = "linux" /\ device' = device /\ res' = res
      /\ family' = family /\ at' = at
  BY DEF LinuxOpened, Done
<1>2. CASE LinuxActive
  <2>1. got.active # "off" /\ base' = LinuxBase /\ pc' = "bank"
    BY <1>2 DEF LinuxOpened, LinuxActive, Begin
  <2>2. SUFFICES ASSUME Whole', ~Exempt'
                 PROVE  Reached' /\ ResOwn'
    BY <2>1 DEF OwnCells, Unlocked, Reaching, CellsOwn
  <2>3. Finding /\ Whole /\ res = <<>>
    BY <1>1, <2>2, WholeSame, NoReadings, Zenon DEF Finding
  <2>10. ~Exempt
    BY <1>1, <2>2, ExemptSame DEF device
  <2>4. Here1.on /\ got.base0 = "base0" /\ got.base1 = "base1"
    BY <1>1, <2>1, <2>3, FoundRight
  <2>5. base' = "mon"
    BY <2>1, <2>4, Zenon DEF LinuxBase
  <2>6. Left = 0
    BY <1>1, Sizes DEF Left
  <2>7. ~(Here1.kind = "nct" /\ Here1.lock = "set")
    BY <1>1, <2>3, <2>6, <2>10 DEF OwnCells, Unlocked
  <2>8. Here1' = Here1
    BY <1>1 DEF Here1, Here, PortPairs, device
  <2>9. QED
    BY <1>1, <2>3, <2>4, <2>5, <2>7, <2>8 DEF Reached, MonOpen, ResOwn
<1>3. CASE ~LinuxActive
  <2>1. pc' = "finish"
    BY <1>3 DEF LinuxOpened, Begin
  <2>2. QED
    BY <1>1, <2>1, ElsewhereOwn, ResKept
<1>4. QED
  BY <1>2, <1>3

\* The lock register that was read, if nothing failed, tells whether to write it.
LEMMA LinuxUnlockedOwn ==
  ASSUME Base, Locks, OwnCells, LinuxUnlocked
  PROVE  OwnCells'
<1>1. /\ pc = "unlock" /\ todo = <<>> /\ os = "linux" /\ device' = device /\ res' = res
      /\ family' = family /\ at' = at /\ pc' = "open"
  BY DEF LinuxUnlocked, Done
<1>2. SUFFICES ASSUME Whole'
               PROVE  Unlocked' /\ ResOwn'
  BY <1>1 DEF OwnCells, Reaching, CellsOwn
<1>3. Whole /\ res = <<>>
  BY <1>1, <1>2, WholeSame, NoReadings
<1>4. Here1' = Here1
  BY <1>1 DEF Here1, Here, PortPairs, device
<1>5. Left = 0
  BY <1>1, Sizes DEF Left
<1>6. ASSUME Here1.kind = "nct", Here1.lock = "set"
      PROVE  Left' = 2
  <2>1. LockHere /\ "lock" \notin lost
    BY <1>3 DEF Locks, Whole
  <2>2. got.lock \in {"none", "set"} /\ got.lock # "none"
    BY <1>1, <1>5, <1>6, <2>1 DEF LockHere
  <2>3. LinuxUnlock = {<<Put("cfg", "lock", "clear")>>}
    BY <2>2, Zenon DEF LinuxUnlock
  <2>4. todo' = <<Put("cfg", "lock", "clear")>> \o NctExit
    BY <2>3 DEF LinuxUnlocked
  <2>5. todo' = <<Put("cfg", "lock", "clear"), Send("AA")>>
    BY <2>4, LockIs, Bytes
  <2>6. QED
    BY <2>5, Sizes DEF Left
<1>7. QED
  BY <1>1, <1>3, <1>4, <1>6 DEF Unlocked, ResOwn

\* A field that is reported has been read to its end, and nothing is missing.
LEMMA UsableOwn ==
  ASSUME Base, fields # <<>>, CellsOwn, pc = "fields", NEW g, g = Head(fields),
         Complete(g), Usable(g)
  PROVE  cells = g.regs
<1>1. g \in Field /\ cells \in Seq(Value)
  BY DEF Base, TypeInv, FieldsTyped
<1>2. PICK s, r : s = cells /\ r = g.regs
  OBVIOUS
<1>3. s \in Seq(Value) /\ r \in Seq(Register)
  BY <1>1, <1>2 DEF Field, Register
<1>4. Len(s) = Len(r)
  BY <1>2 DEF Complete, Usable
<1>5. ASSUME NEW i \in 1 .. Len(s)
      PROVE  s[i] = r[i]
  <2>1. s[i] \in {Missing, r[i]}
    BY <1>2, <1>5 DEF CellsOwn
  <2>2. s[i] \notin Dead \cup {Missing}
    BY <1>2, <1>5 DEF Usable
  <2>3. QED
    BY <2>1, <2>2
<1>6. s = r
  BY <1>3, <1>4, <1>5
<1>7. QED
  BY <1>2, <1>6

LEMMA FieldDoneOwn ==
  ASSUME Base, OwnCells, FieldDone
  PROVE  OwnCells'
<1>1. /\ pc = "fields" /\ pc' = "fields" /\ fields # <<>> /\ device' = device /\ base' = base
      /\ family' = family /\ at' = at /\ cells' = <<>> /\ Complete(Head(fields))
  BY DEF FieldDone, Done
<1>2. SUFFICES ASSUME Whole', ~Exempt'
               PROVE  Reached' /\ ResOwn'
  <2>1. \A i \in 1 .. Len(cells') : FALSE
    BY <1>1
  <2>2. CellsOwn' /\ Unlocked'
    BY <1>1, <2>1 DEF CellsOwn, Unlocked
  <2>3. QED
    BY <1>1, <2>2 DEF OwnCells, Reaching
<1>3. Whole /\ ~Exempt /\ ~NctOnWindows
  BY <1>1, <1>2, WholeSame, ExemptSame DEF Exempt, device
<1>4. Reached /\ CellsOwn /\ ResOwn
  BY <1>1, <1>3 DEF OwnCells, Reaching
<1>5. Reached'
  BY <1>1, <1>4 DEF Reached, Here1, Here, PortPairs, device
<1>6. PICK g, q : g = Head(fields) /\ q = res
  OBVIOUS
<1>7. q \in Seq(Result) /\ \A i \in 1 .. Len(q) : q[i].cells = q[i].regs
  BY <1>4, <1>6 DEF Base, TypeInv, FieldsTyped, ResOwn
<1>8. res' = IF Usable(g) THEN Append(q, Reading(g)) ELSE q
  BY <1>3, <1>6 DEF FieldDone
<1>9. CASE Usable(g)
  <2>1. cells = g.regs
    BY <1>1, <1>4, <1>6, <1>9, UsableOwn
  <2>2. PICK x, t : x = Reading(g) /\ t = Append(q, x)
    OBVIOUS
  <2>3. x.cells = x.regs
    BY <2>1, <2>2 DEF Reading
  <2>4. /\ Len(t) = Len(q) + 1 /\ t[Len(q) + 1] = x /\ Len(q) \in Nat
        /\ \A i \in 1 .. Len(q) : t[i] = q[i]
    BY <1>7, <2>2
  <2>5. ASSUME NEW i \in 1 .. Len(t)
        PROVE  t[i].cells = t[i].regs
    <3>1. i \in 1 .. Len(q) \/ i = Len(q) + 1
      BY <2>4, <2>5
    <3>2. QED
      BY <1>7, <2>3, <2>4, <3>1
  <2>6. res' = t
    BY <1>8, <1>9, <2>2
  <2>7. QED
    BY <1>5, <2>5, <2>6 DEF ResOwn
<1>10. CASE ~Usable(g)
  BY <1>5, <1>7, <1>8, <1>10 DEF ResOwn
<1>11. QED
  BY <1>9, <1>10

\* Steps that go on in the same monitor.
LEMMA GoesOnOwn ==
  ASSUME OwnCells, device' = device, family' = family, at' = at, base' = base, res' = res,
         pc \in {"bank", "fields"}, pc' \in {"fields", "finish"},
         pc' = "fields" /\ Whole /\ CellsOwn => CellsOwn'
  PROVE  OwnCells'
<1>1. SUFFICES ASSUME Whole', ~Exempt'
               PROVE  (pc' = "fields" => Reached') /\ CellsOwn' /\ ResOwn'
  BY DEF OwnCells, Unlocked, Reaching
<1>2. Whole /\ ~Exempt
  BY <1>1, WholeSame, ExemptSame DEF device
<1>3. Reached /\ CellsOwn /\ ResOwn
  BY <1>2 DEF OwnCells, Reaching
<1>4. Reached'
  BY <1>3 DEF Reached, Here1, Here, PortPairs, device
<1>5. CellsOwn'
  BY <1>2, <1>3 DEF CellsOwn
<1>6. QED
  BY <1>3, <1>4, <1>5 DEF ResOwn

LEMMA DecodeOwn ==
  ASSUME Base, OwnCells, DecodeStep
  PROVE  OwnCells'
<1>1. device' = device
  BY StepDevice
<1>2. CASE NextCell
  <2>1. /\ pc = "fields" /\ pc' = pc /\ family' = family /\ at' = at /\ base' = base
        /\ res' = res /\ cells' = cells /\ fields' = fields
    BY <1>2 DEF NextCell, Done
  <2>2. CellsOwn => CellsOwn'
    BY <2>1 DEF CellsOwn
  <2>3. QED
    BY <1>1, <2>1, <2>2, GoesOnOwn
<1>3. CASE IteBank \/ RestoreBank
  <2>1. /\ pc \in {"bank", "fields"} /\ pc' \in {"fields", "finish"} /\ family' = family
        /\ at' = at /\ base' = base /\ res' = res /\ cells' = cells
        /\ pc' = "fields" => pc = "bank"
    BY <1>3 DEF IteBank, RestoreBank, Done, reading
  <2>2. pc' = "fields" => cells' = <<>>
    BY <2>1, FieldsOnly DEF Base, TypeInv
  <2>3. pc' = "fields" => CellsOwn'
    <3>1. cells' = <<>> => \A i \in 1 .. Len(cells') : FALSE
      OBVIOUS
    <3>2. QED
      BY <2>2, <3>1 DEF CellsOwn
  <2>4. QED
    BY <1>1, <2>1, <2>3, GoesOnOwn
<1>4. QED
  BY <1>2, <1>3, FieldDoneOwn DEF DecodeStep

LEMMA WindowsOwn ==
  ASSUME Base, Addressed, OwnCells, WindowsStep
  PROVE  OwnCells'
<1>1. CASE WinProbed
  <2>1. device' = device /\ res' = res /\ res = <<>> /\ pc' \in {"ite find", "detect"}
    BY <1>1, NoReadings DEF WinProbed, Begin, Done
  <2>2. QED
    BY <2>1, ElsewhereOwn, ResKept
<1>2. CASE WinDetected
  <2>1. CASE Return(<<>>)
    BY <2>1, ReturnOwn
  <2>2. CASE ~Return(<<>>)
    <3>1. device' = device /\ res' = res /\ res = <<>> /\ pc' \in {"unlock", "ite"}
      BY <1>2, <2>2, NoReadings DEF WinDetected, Begin, Done
    <3>2. QED
      BY <3>1, ElsewhereOwn, ResKept
  <2>3. QED
    BY <2>1, <2>2
<1>3. CASE WinUnlocked
  <2>1. os' = os /\ family' = family /\ pc = "unlock" /\ os = "windows"
    BY <1>3 DEF WinUnlocked, Done, device
  <2>2. family = "nct"
    BY <2>1 DEF Base, Queue
  <2>3. NctOnWindows'
    BY <2>1, <2>2 DEF NctOnWindows
  <2>4. QED
    BY <2>3 DEF OwnCells, Exempt
<1>4. CASE WinFinish
  BY <1>4, ReturnOwn DEF WinFinish
<1>5. QED
  BY <1>1, <1>2, <1>3, <1>4, WinIteFoundOwn DEF WindowsStep

LEMMA LinuxOwn ==
  ASSUME Base, Addressed, Locks, OwnCells, LinuxStep
  PROVE  OwnCells'
<1>1. device' = device
  BY StepDevice
<1>2. CASE LinuxProbed
  <2>1. res' = res /\ family' = family /\ at' = at
    BY <1>2 DEF LinuxProbed
  <2>2. CASE pc' # "open"
    <3>1. pc' \in {"unlock", "leave"}
      <4>1. CASE IsKind(Speaks(family)) /\ family = "ite"
        <5>1. pc' = "open"
          <6>1. chip[Here].kind # "nct"
            BY <4>1 DEF IsKind, Speaks
          <6>2. Begin("open", LinuxFind \o IteExit)
            BY <1>2, <4>1, <6>1, Zenon DEF LinuxProbed
          <6>3. QED
            BY <6>2 DEF Begin
        <5>2. QED
          BY <2>2, <5>1
      <4>2. CASE IsKind(Speaks(family)) /\ family # "ite"
        <5>1. CASE chip[Here].kind = "nct"
          <6>1. Begin("unlock", LinuxFind \o <<Get("cfg", "lock")>>)
            BY <1>2, <4>2, <5>1, Zenon DEF LinuxProbed
          <6>2. QED
            BY <6>1 DEF Begin
        <5>2. CASE chip[Here].kind # "nct"
          <6>1. Begin("unlock", LinuxFind)
            BY <1>2, <4>2, <5>2, Zenon DEF LinuxProbed
          <6>2. QED
            BY <6>1 DEF Begin
        <5>3. QED
          BY <5>1, <5>2
      <4>3. CASE ~IsKind(Speaks(family))
        BY <1>2, <4>3 DEF LinuxProbed, Begin
      <4>4. QED
        BY <4>1, <4>2, <4>3
    <3>2. QED
      BY <1>1, <2>1, <3>1, ElsewhereOwn, ResKept
  <2>3. CASE pc' = "open"
    <3>1. Here1' = Here1
      BY <1>1, <1>2 DEF LinuxProbed, Here1, Here, PortPairs, device
    <3>2. Here1.kind # "nct"
      <4>1. CASE Here1.kind = "nct" /\ IsKind(Speaks(family))
        <5>1. family # "ite"
          BY <4>1 DEF IsKind, Speaks, Here1
        <5>2. Begin("unlock", LinuxFind \o <<Get("cfg", "lock")>>)
          BY <1>2, <4>1, <5>1, Zenon DEF LinuxProbed, Here1
        <5>3. QED
          BY <2>3, <5>2 DEF Begin
      <4>2. CASE ~IsKind(Speaks(family))
        BY <1>2, <2>3, <4>2 DEF LinuxProbed, Begin
      <4>3. QED
        BY <4>1, <4>2
    <3>3. Unlocked' /\ Reaching' /\ CellsOwn'
      BY <2>3, <3>1, <3>2 DEF Unlocked, Reaching, CellsOwn
    <3>4. QED
      BY <1>1, <2>1, <3>3, ResKept DEF OwnCells
  <2>4. QED
    BY <2>2, <2>3
<1>3. CASE LinuxLeft
  <2>1. res' = res /\ res = <<>> /\ pc' \in {"probe", "finish"}
    BY <1>3, NoReadings DEF LinuxLeft, Begin, Done
  <2>2. QED
    BY <1>1, <2>1, ElsewhereOwn, ResKept
<1>4. CASE LinuxNctBank
  <2>1. /\ pc = "bank" /\ pc' = "fields" /\ family' = family /\ at' = at /\ base' = base
        /\ res' = res /\ cells' = cells
    BY <1>4 DEF LinuxNctBank, Done
  <2>2. cells' = <<>>
    BY <2>1, FieldsOnly DEF Base, TypeInv
  <2>3. CellsOwn'
    <3>1. cells' = <<>> => \A i \in 1 .. Len(cells') : FALSE
      OBVIOUS
    <3>2. QED
      BY <2>2, <3>1 DEF CellsOwn
  <2>4. QED
    BY <1>1, <2>1, <2>3, GoesOnOwn
<1>5. CASE LinuxFinish
  <2>1. CASE Return(res)
    BY <2>1, ReturnOwn
  <2>2. CASE ~Return(res)
    <3>1. res' = res /\ res = <<>> /\ pc' \in {"probe", "finish"}
      BY <1>5, <2>2 DEF LinuxFinish, Start, Begin
    <3>2. QED
      BY <1>1, <3>1, ElsewhereOwn, ResKept
  <2>3. QED
    BY <2>1, <2>2
<1>6. QED
  BY <1>2, <1>3, <1>4, <1>5, LinuxUnlockedOwn, LinuxOpenedOwn DEF LinuxStep

LEMMA NextOwn ==
  ASSUME Base, Modes, Locks, Banks, Addressed, OwnCells, [Next]_vars
  PROVE  OwnCells'
<1>1. CASE Call \/ Die
  <2>1. res' = <<>> /\ pc' \notin {"open", "bank", "fields"}
    BY <1>1, Calls DEF Die
  <2>2. QED
    BY <2>1, ElsewhereOwn DEF ResOwn
<1>2. CASE UNCHANGED vars
  <2>1. /\ device' = device /\ family' = family /\ at' = at /\ base' = base /\ res' = res
        /\ pc' = pc /\ fields' = fields /\ cells' = cells /\ todo' = todo
    BY <1>2 DEF vars, reading
  <2>2. Here1' = Here1 /\ Left' = Left /\ NctOnWindows' = NctOnWindows
    BY <2>1 DEF Here1, Here, PortPairs, device, Left, Size, NctOnWindows
  <2>3. /\ Unlocked' = Unlocked /\ Reaching' = Reaching /\ CellsOwn' = CellsOwn
        /\ ResOwn' = ResOwn
    BY <2>1, <2>2 DEF Unlocked, Reaching, Reached, CellsOwn, ResOwn
  <2>4. QED
    BY <2>1, <2>2, <2>3, WholeSame, ExemptSame DEF OwnCells, device
<1>3. QED
  BY <1>1, <1>2, TransferOwn, DecodeOwn, WindowsOwn, LinuxOwn DEF Next, Step

\* Each value that is reported was computed from the field's own registers, in
\* the field's own bank, whichever registers could not be read and whichever
\* bank was selected before, but for an ITE chip in one that clearing 0x60 does
\* not leave for bank 0 and for the other exceptions ReadingsOwn names.
THEOREM ReadingsFromOwn == Spec => []ReadingsOwn
<1>1. Init => Base /\ Modes /\ Hurts /\ Locks /\ Banks /\ Addressed /\ OwnCells
  <2>1. Init => OwnCells
    BY DEF Init, OwnCells, Unlocked, Reaching, CellsOwn, ResOwn
  <2>2. QED
    BY <2>1, InitBase, InitModes, InitRegisters, InitAddressed
<1>2. ASSUME Base, Modes, Hurts, Locks, Banks, Addressed, OwnCells, [Next]_vars
      PROVE  Base' /\ Modes' /\ Hurts' /\ Locks' /\ Banks' /\ Addressed' /\ OwnCells'
  <2>1. Base'
    BY <1>2, NextBase, StutterBase
  <2>2. Modes'
    BY <1>2, <2>1, NextModes, StutterModes
  <2>3. Hurts' /\ Locks' /\ Banks'
    BY <1>2, <2>1, NextHurts, NextLocks, NextBanks
  <2>4. Addressed'
    BY <1>2, <2>1, NextAddressed
  <2>5. OwnCells'
    BY <1>2, NextOwn
  <2>6. QED
    BY <2>1, <2>2, <2>3, <2>4, <2>5
<1>3. OwnCells => ReadingsOwn
  BY DEF OwnCells, Exempt, Whole, ResOwn, ReadingsOwn
<1>4. QED
  BY <1>1, <1>2, <1>3, PTL DEF Spec

-----------------------------------------------------------------------------
(* The temperature sources of a Nuvoton chip on Linux. *)

\* Nothing failed in this call, nor spoiled a chip before it.
Pure == ~cut /\ ~Damaged /\ lost = {}

\* On Linux the ITE reader has its turn first.
IteFirst == os = "linux" /\ family = "ite" => \A p \in Pair : <<p, "nct">> \notin tried

\* A chip the reader is for identifies itself, and another one is left.
Known ==
  pc = "probe" /\ Here1.kind \in Speaks("nct") =>
    (Left <= 1 => got.id0 = "id0") /\ (Left = 0 => got.id1 = "id1")

Ruled == pc = "leave" => Here1.kind \notin Speaks("nct")

NoneMissing == pc = "fields" => \A i \in 1 .. Len(cells) : cells[i] # Missing

\* The readings of source s.
Rows(s) == {i \in 1 .. Len(res) : res[i].source = s}

\* Field i has a valid temperature of source s.
Valid(i, s) ==
  /\ NctFields[i].sel /\ Source[NctFields[i].regs[1]] = s
  /\ \A j \in 1 .. Len(NctFields[i].regs) : NctFields[i].regs[j] \notin Dead

\* Of the first k fields each source is reported once.
Counted(k) ==
  \A s \in Nat \ {0} :
    IF \E i \in 1 .. k : Valid(i, s) THEN \E n \in 1 .. Len(res) : Rows(s) = {n} ELSE Rows(s) = {}

\* The first k fields have been read.
Past(k) ==
  /\ Len(fields) + k = Len(NctFields)
  /\ \A j \in 1 .. Len(fields) : fields[j] = NctFields[k + j]

Counting == pc = "fields" => \E k \in 0 .. Len(NctFields) : Past(k) /\ Counted(k)

\* The value of a field is read after its source.
Deeper ==
  /\ fields # <<>> /\ Head(fields).sel
  /\ Len(cells) >= 2 \/ (Len(cells) = 1 /\ todo # <<>>)

\* That is done only for a source that has not been reported.
Fresh == pc = "fields" /\ Deeper => Source[Head(fields).regs[1]] \notin Reported \cup {0}

Temperatures == \A i \in 1 .. Len(res) : res[i].source # 0 => res[i].kind = "temp"

\* The chip of the last pair is one for the reader, and was tried.
Sought == <<Here, family>> \in tried /\ Here1.on /\ Here1.kind \in Speaks("nct")

Summed ==
  (pc = "finish" \/ (pc = "returned" /\ what = "temp")) /\ Sought =>
    Counted(Len(NctFields))

SourcesTold ==
  Pure /\ NctOnLinux =>
    Known /\ Ruled /\ NoneMissing /\ Counting /\ Fresh /\ Temperatures /\ Summed

LEMMA PureBefore ==
  ASSUME Transfer, Pure'
  PROVE  Pure /\ ~cut /\ ~cut' /\ lost' = {} /\ Whole
<1>1. /\ was' = was /\ (cut => cut') /\ lost \subseteq lost'
  BY TransferIs, LostGrows DEF Moves
<1>2. QED
  BY <1>1 DEF Pure, Whole, Damaged

LEMMA PureSame ==
  ASSUME device' = device
  PROVE  Pure' <=> Pure
BY DEF device, Pure, Damaged

\* The identity that is read of a chip in configuration mode.
LEMMA SaysId ==
  ASSUME NEW c, NEW d, NEW r \in {"id0", "id1"}, NEW a, a = Get("cfg", r),
         c.kind \in {"nct", "older"}, c.mode = "config", Effect(c, d, a)
  PROVE  Say(d) = r
<1>1. a.port = "cfg" /\ a.op = "get" /\ a.reg = r
  BY OwnOps
<1>2. Heard(c, d, Here, r)
  BY <1>1 DEF Effect
<1>3. NctTurn(c, d, r)
  BY <1>2 DEF Heard
<1>4. d.mode = "config" /\ d.index = r
  BY <1>3 DEF NctTurn
<1>5. QED
  BY <1>4 DEF Say

LEMMA TransferKnown ==
  ASSUME Base, Modes, Known, Transfer, Pure', NctOnLinux
  PROVE  Known'
<1>1. SUFFICES ASSUME pc' = "probe", Here1'.kind \in Speaks("nct")
               PROVE  (Left' <= 1 => got'.id0 = "id0") /\ (Left' = 0 => got'.id1 = "id1")
  BY DEF Known
<1>2. /\ todo # <<>> /\ pc = "probe" /\ family = "nct" /\ lost' = {} /\ ~cut /\ ~cut'
      /\ Here' = Here
  BY <1>1, TransferIs, PureBefore DEF NctOnLinux
<1>3. todo \in NctKeyed /\ Here # "162"
  BY <1>2 DEF Base, Queue, Outside
<1>4. PICK a, c, d :
        /\ a = Head(todo) /\ c = Here1 /\ d = Here1'
        /\ ChipOk(c, Here) /\ ChipOk(d, Here) /\ Effect(c, d, a) /\ Fitting(a)
        /\ c.mode \in {"run", "config"} /\ c.key \in 0 .. 3 /\ c.kind \in Kind
        /\ c.kind \notin {"ite", "none"} => c.key <= 1
        /\ d.kind = c.kind
  BY <1>2, <1>3, CleanSteps
<1>5. PICK n, m : n = Left /\ m = Left'
  OBVIOUS
<1>6. /\ todo' = Tail(todo) /\ (a.op # "get" => got' = got)
      /\ a.op = "get" => \E s : /\ got' = [got EXCEPT ![a.reg] = s]
                                /\ Answers(d, a, s, a.reg \in lost')
  BY <1>2, <1>3, <1>4, CleanTransfer
<1>7. c.kind \in {"nct", "older"} /\ c.kind \in Hears("nct")
  BY <1>1, <1>4 DEF Speaks, Hears
<1>8. \/ n = 4 /\ m = 3 /\ a = Key("87")
      \/ n = 3 /\ m = 2 /\ a = Key("87")
      \/ n = 2 /\ m = 1 /\ a = Get("cfg", "id0")
      \/ n = 1 /\ m = 0 /\ a = Get("cfg", "id1")
  BY <1>2, <1>3, <1>4, <1>5, <1>6, Next4 DEF NctKeyed, Left
<1>9. n <= 2 => c.mode = "config"
  <2>1. ModeAfter(c, n)
    BY <1>2, <1>3, <1>4, <1>5 DEF Modes
  <2>2. NctHeard(c, 4 - n)
    BY <1>2, <1>7, <2>1 DEF ModeAfter
  <2>3. n <= 2 => 4 - n >= 2
    BY <1>8
  <2>4. QED
    BY <2>2, <2>3 DEF NctHeard
<1>10. got \in [Slot -> Byte] /\ {"id0", "id1"} \subseteq Slot
  BY DEF Base, TypeInv, CallTyped, Slot
<1>11. ASSUME NEW r \in {"id0", "id1"}, a = Get("cfg", r), n <= 2
       PROVE  got' = [got EXCEPT ![r] = r]
  <2>1. Say(d) = r
    BY <1>4, <1>7, <1>9, <1>11, SaysId
  <2>2. a.op = "get" /\ a.reg = r /\ a.port = "cfg"
    BY <1>11, OwnOps
  <2>3. PICK s : got' = [got EXCEPT ![r] = s] /\ Answers(d, a, s, r \in lost')
    BY <1>6, <2>2
  <2>4. s = r
    BY <1>2, <2>1, <2>2, <2>3 DEF Answers
  <2>5. QED
    BY <2>3, <2>4
<1>12. CASE m = 1
  <2>1. got' = [got EXCEPT !["id0"] = "id0"]
    BY <1>8, <1>11, <1>12
  <2>2. QED
    BY <1>5, <1>10, <1>12, <2>1
<1>13. CASE m = 0
  <2>1. got' = [got EXCEPT !["id1"] = "id1"]
    BY <1>8, <1>11, <1>13
  <2>2. got.id0 = "id0"
    BY <1>1, <1>2, <1>4, <1>5, <1>7, <1>8, <1>13 DEF Known, Speaks
  <2>3. QED
    BY <1>5, <1>10, <2>1, <2>2
<1>14. CASE m \notin {0, 1}
  BY <1>5, <1>8, <1>14
<1>15. QED
  BY <1>12, <1>13, <1>14

LEMMA TransferNoneMissing ==
  ASSUME Base, NoneMissing, Transfer, Pure'
  PROVE  NoneMissing'
<1>1. SUFFICES ASSUME pc' = "fields"
               PROVE  \A i \in 1 .. Len(cells') : cells'[i] # Missing
  BY DEF NoneMissing
<1>2. PICK a, f, v : Moves(a, f, v)
  BY TransferIs
<1>3. pc = "fields" /\ lost' = {}
  BY <1>1, TransferIs, PureBefore
<1>4. PICK s : s = cells
  OBVIOUS
<1>5. s \in Seq(Value) /\ \A i \in 1 .. Len(s) : s[i] # Missing
  BY <1>3, <1>4 DEF Base, TypeInv, FieldsTyped, NoneMissing
<1>6. CASE a.op = "cell"
  <2>1. v # Missing
    BY <1>2, <1>3, <1>6 DEF Moves
  <2>2. PICK t : t = Append(s, v)
    OBVIOUS
  <2>3. /\ Len(t) = Len(s) + 1 /\ t[Len(s) + 1] = v /\ Len(s) \in Nat
        /\ \A i \in 1 .. Len(s) : t[i] = s[i]
    BY <1>5, <2>2
  <2>4. ASSUME NEW i \in 1 .. Len(t)
        PROVE  t[i] # Missing
    <3>1. i \in 1 .. Len(s) \/ i = Len(s) + 1
      BY <2>3, <2>4
    <3>2. QED
      BY <1>5, <2>1, <2>3, <3>1
  <2>5. cells' = t
    BY <1>2, <1>4, <1>6, <2>2 DEF Moves
  <2>6. QED
    BY <2>4, <2>5
<1>7. CASE a.op # "cell"
  <2>1. cells' = s
    BY <1>2, <1>4, <1>7 DEF Moves
  <2>2. QED
    BY <1>5, <2>1
<1>8. QED
  BY <1>6, <1>7

LEMMA TransferFresh ==
  ASSUME Base, Fresh, Transfer, NctOnLinux
  PROVE  Fresh'
<1>1. SUFFICES ASSUME pc' = "fields", Deeper'
               PROVE  Source[Head(fields').regs[1]] \notin Reported' \cup {0}
  BY DEF Fresh
<1>2. /\ pc = "fields" /\ fields' = fields /\ res' = res /\ todo # <<>>
      /\ \E a, f, v : Moves(a, f, v)
  BY <1>1, TransferIs
<1>3. Reported' = Reported
  BY <1>2 DEF Reported
<1>4. todo' = <<>> \/ todo' = Tail(todo)
  BY TransferKeeps DEF Base
<1>5. PICK n, m : n = Len(cells) /\ m = Len(cells')
  OBVIOUS
<1>6. Head(todo).op # "cell" => m = n
  <2>1. Head(todo).op # "cell" => cells' = cells
    BY <1>2 DEF Moves
  <2>2. QED
    BY <1>5, <2>1
<1>7. Head(todo).op = "cell" => m = n + 1
  <2>1. Head(todo).op = "cell" => \E v : cells' = Append(cells, v)
    BY <1>2 DEF Moves
  <2>2. cells \in Seq(Value)
    BY DEF Base, TypeInv, FieldsTyped
  <2>3. QED
    BY <1>5, <2>1, <2>2
<1>8. Head(todo).op = "cell" => todo' = <<>>
  <2>1. SUFFICES ASSUME Head(todo).op = "cell"
                 PROVE  Tail(todo) = <<>>
    BY <1>4
  <2>2. ~NctOnWindows /\ family = "nct"
    BY DEF NctOnWindows, NctOnLinux
  <2>3. PICK s, x, y, z : /\ s = todo /\ z = Put("mon", "bank", ReadBank(got.bank))
                          /\ x = Put("mon", "bank", NextReg[1])
                          /\ y = Cell("mon", NextReg[2])
    OBVIOUS
  <2>4. s \in Ends2(x, y)
    <3>1. FieldsQueue
      BY <1>2 DEF Base, Queue
    <3>2. QED
      BY <1>2, <2>2, <2>3, <3>1 DEF FieldsQueue
  <2>5. x.op = "put"
    BY <2>3, OpsAre
  <2>6. s = <<y>>
    BY <1>2, <2>1, <2>3, <2>4, <2>5 DEF Ends2, Ends1
  <2>7. QED
    BY <2>3, <2>6
<1>9. n \in Nat
  BY <1>5 DEF Base, TypeInv, FieldsTyped
<1>10. n >= 2 \/ n = 1
  <2>1. m >= 2 \/ (m = 1 /\ todo' # <<>>)
    BY <1>1, <1>5 DEF Deeper
  <2>2. QED
    BY <1>6, <1>7, <1>8, <1>9, <2>1
<1>11. Deeper
  BY <1>1, <1>2, <1>5, <1>10 DEF Deeper
<1>12. QED
  BY <1>2, <1>3, <1>11 DEF Fresh

\* The readings count as before if there are no others.
LEMMA CountedSame ==
  ASSUME NEW k, res' = res
  PROVE  Counted(k)' <=> Counted(k)
BY DEF Counted, Rows

LEMMA CountingSame ==
  ASSUME Counting, pc' = pc, fields' = fields, res' = res
  PROVE  Counting'
<1>1. SUFFICES ASSUME pc' = "fields"
               PROVE  \E k \in 0 .. Len(NctFields) : Past(k)' /\ Counted(k)'
  BY DEF Counting
<1>2. PICK k \in 0 .. Len(NctFields) : Past(k) /\ Counted(k)
  BY <1>1 DEF Counting
<1>3. Past(k)'
  BY <1>2 DEF Past
<1>4. QED
  BY <1>2, <1>3, CountedSame

\* In a call no chip is exchanged.
LEMMA OnSame ==
  ASSUME Base, Base', was' = was, at' = at, os' = os
  PROVE  Here' = Here /\ Here1'.on = Here1.on /\ Here1'.kind = Here1.kind
<1>1. Here' = Here /\ Here \in Pair
  BY HereIs DEF Here, PortPairs, Base, TypeInv, BoardTyped, CallTyped
<1>2. /\ was[Here].kind = chip[Here].kind /\ was[Here].on = chip[Here].on
      /\ was'[Here].kind = chip'[Here].kind /\ was'[Here].on = chip'[Here].on
  BY <1>1 DEF Base, TypeInv, BoardTyped
<1>3. QED
  BY <1>1, <1>2 DEF Here1

LEMMA TransferTold ==
  ASSUME Base, Base', Modes, SourcesTold, Transfer
  PROVE  SourcesTold'
<1>1. SUFFICES ASSUME Pure', NctOnLinux'
               PROVE  /\ Known' /\ Ruled' /\ NoneMissing' /\ Counting' /\ Fresh'
                      /\ Temperatures' /\ Summed'
  BY DEF SourcesTold
<1>2. /\ pc' = pc /\ what' = what /\ family' = family /\ tried' = tried /\ fields' = fields
      /\ res' = res /\ was' = was /\ at' = at /\ os' = os /\ NctOnLinux
  BY <1>1, TransferIs
<1>3. Pure
  BY <1>1, PureBefore
<1>4. Known /\ Ruled /\ NoneMissing /\ Counting /\ Fresh /\ Temperatures /\ Summed
  BY <1>2, <1>3 DEF SourcesTold
<1>5. Here' = Here /\ Here1'.on = Here1.on /\ Here1'.kind = Here1.kind
  BY <1>2, OnSame
<1>6. Ruled'
  BY <1>2, <1>4, <1>5 DEF Ruled
<1>7. Temperatures'
  BY <1>2, <1>4 DEF Temperatures
<1>8. Summed'
  <2>1. Sought' => Sought
    BY <1>2, <1>5 DEF Sought
  <2>2. Counted(Len(NctFields)) => Counted(Len(NctFields))'
    BY <1>2, CountedSame
  <2>3. QED
    BY <1>2, <1>4, <2>1, <2>2 DEF Summed
<1>9. QED
  BY <1>1, <1>2, <1>4, <1>6, <1>7, <1>8, TransferKnown, TransferNoneMissing, TransferFresh,
     CountingSame

\* A step after which the fields are not read, and nothing is known of a chip.
LEMMA ElsewhereTold ==
  ASSUME pc' \notin {"probe", "leave", "fields"}, Pure' /\ NctOnLinux' => Temperatures' /\ Summed'
  PROVE  SourcesTold'
BY DEF SourcesTold, Known, Ruled, NoneMissing, Counting, Fresh

LEMMA NoTemperatures ==
  ASSUME res' = <<>>
  PROVE  Temperatures'
BY DEF Temperatures

\* Steps of the reader between the probe and the fields.
LEMMA LinuxProbedTold ==
  ASSUME Base, SourcesTold, LinuxProbed
  PROVE  SourcesTold'
<1>1. /\ pc = "probe" /\ todo = <<>> /\ os = "linux" /\ device' = device /\ res' = res
      /\ family' = family /\ at' = at
  BY DEF LinuxProbed, Done
<1>2. SUFFICES ASSUME Pure', NctOnLinux'
               PROVE  SourcesTold'
  BY DEF SourcesTold
<1>3. Pure /\ family = "nct" /\ Known /\ res = <<>> /\ NctOnLinux
  BY <1>1, <1>2, PureSame, NoReadings DEF SourcesTold, NctOnLinux, device
<1>4. Temperatures'
  BY <1>1, <1>3, NoTemperatures
<1>5. CASE IsKind(Speaks("nct"))
  <2>1. pc' = "unlock"
    <3>1. CASE chip[Here].kind = "nct"
      <4>1. Begin("unlock", LinuxFind \o <<Get("cfg", "lock")>>)
        BY <1>3, <1>5, <3>1, Zenon DEF LinuxProbed
      <4>2. QED
        BY <4>1 DEF Begin
    <3>2. CASE chip[Here].kind # "nct"
      <4>1. Begin("unlock", LinuxFind)
        BY <1>3, <1>5, <3>2, Zenon DEF LinuxProbed
      <4>2. QED
        BY <4>1 DEF Begin
    <3>3. QED
      BY <3>1, <3>2
  <2>2. QED
    BY <1>4, <2>1, ElsewhereTold DEF Summed
<1>6. CASE ~IsKind(Speaks("nct"))
  <2>1. pc' = "leave"
    BY <1>3, <1>6 DEF LinuxProbed, Begin
  <2>2. Left = 0
    BY <1>1, Sizes DEF Left
  <2>3. Here1.kind \notin Speaks("nct")
    BY <1>1, <1>3, <1>6, <2>2 DEF Known, IsKind, Here1
  <2>4. Here1' = Here1
    BY <1>1 DEF Here1, Here, PortPairs, device
  <2>5. QED
    BY <1>4, <2>1, <2>3, <2>4
    DEF SourcesTold, Known, Ruled, NoneMissing, Counting, Fresh, Summed
<1>7. QED
  BY <1>5, <1>6

\* The accesses of a probe have all to be made when it begins.
LEMMA ProbeTold ==
  ASSUME NEW p \in Pair, todo' = Probe("nct", p), pc' = "probe", res' = <<>>
  PROVE  SourcesTold'
<1>1. todo' = <<Key("87"), Key("87"), Get("cfg", "id0"), Get("cfg", "id1")>>
  BY NctProbeIs
<1>2. Left' = 4
  BY <1>1, Sizes DEF Left
<1>3. Known'
  BY <1>2 DEF Known
<1>4. QED
  BY <1>3, NoTemperatures DEF SourcesTold, Ruled, NoneMissing, Counting, Fresh, Summed

LEMMA LinuxLeftTold ==
  ASSUME Base, SourcesTold, LinuxLeft
  PROVE  SourcesTold'
<1>1. /\ pc = "leave" /\ os = "linux" /\ device' = device /\ res' = res /\ family' = family
  BY DEF LinuxLeft, Done, Try
<1>2. SUFFICES ASSUME Pure', NctOnLinux'
               PROVE  SourcesTold'
  BY DEF SourcesTold
<1>3. Pure /\ family = "nct" /\ Ruled /\ res = <<>>
  BY <1>1, <1>2, PureSame, NoReadings DEF SourcesTold, NctOnLinux, device
<1>4. CASE at < Len(PortPairs)
  <2>1. todo' = Probe("nct", PortPairs[at + 1]) /\ pc' = "probe"
    BY <1>3, <1>4 DEF LinuxLeft, Begin
  <2>2. PortPairs[at + 1] \in Pair
    BY <1>1, <1>4 DEF PortPairs, Pair, Base, TypeInv, CallTyped
  <2>3. QED
    BY <1>1, <1>3, <2>1, <2>2, ProbeTold
<1>5. CASE ~(at < Len(PortPairs))
  <2>1. pc' = "finish" /\ at' = at
    BY <1>5 DEF LinuxLeft, Begin
  <2>2. Here1' = Here1
    BY <1>1, <2>1 DEF Here1, Here, PortPairs, device
  <2>3. ~Sought'
    BY <1>1, <1>3, <2>2 DEF Ruled, Sought
  <2>4. Temperatures'
    BY <1>1, <1>3, NoTemperatures
  <2>5. QED
    BY <2>1, <2>3, <2>4, ElsewhereTold DEF Summed
<1>6. QED
  BY <1>4, <1>5

LEMMA LinuxOpenedTold ==
  ASSUME Base, Addressed, SourcesTold, LinuxOpened
  PROVE  SourcesTold'
<1>1. /\ pc = "open" /\ todo = <<>> /\ os = "linux" /\ device' = device /\ res' = res
      /\ family' = family /\ at' = at
  BY DEF LinuxOpened, Done
<1>2. SUFFICES ASSUME Pure', NctOnLinux'
               PROVE  SourcesTold'
  BY DEF SourcesTold
<1>3. Pure /\ Whole /\ Finding /\ res = <<>>
  BY <1>1, <1>2, PureSame, NoReadings, Zenon DEF Pure, Whole, Finding
<1>4. Temperatures'
  BY <1>1, <1>3, NoTemperatures
<1>5. CASE LinuxActive
  <2>1. pc' = "bank"
    BY <1>5 DEF LinuxOpened, Begin
  <2>2. QED
    BY <1>4, <2>1, ElsewhereTold DEF Summed
<1>6. CASE ~LinuxActive
  <2>1. pc' = "finish" /\ got.active = "off"
    BY <1>6 DEF LinuxOpened, LinuxActive, Begin
  <2>2. ~Here1.on
    BY <1>1, <1>3, <2>1, FoundRight
  <2>3. Here1' = Here1
    BY <1>1 DEF Here1, Here, PortPairs, device
  <2>4. ~Sought'
    BY <2>2, <2>3 DEF Sought
  <2>5. QED
    BY <1>4, <2>1, <2>4, ElsewhereTold DEF Summed
<1>7. QED
  BY <1>5, <1>6

\* No field has been read yet.
LEMMA NoneCounted ==
  ASSUME res' = <<>>
  PROVE  Counted(0)'
<1>1. ASSUME NEW s \in Nat \ {0}
      PROVE  Rows(s)' = {} /\ ~(\E i \in 1 .. 0 : Valid(i, s)')
  <2>1. Rows(s)' = {}
    BY DEF Rows
  <2>2. QED
    BY <2>1
<1>2. QED
  BY <1>1 DEF Counted

LEMMA LinuxNctBankTold ==
  ASSUME Base, SourcesTold, LinuxNctBank
  PROVE  SourcesTold'
<1>1. /\ pc = "bank" /\ pc' = "fields" /\ fields' = NctFields /\ cells' = cells /\ res' = res
  BY DEF LinuxNctBank, Done
<1>2. cells' = <<>> /\ res' = <<>>
  BY <1>1, FieldsOnly, NoReadings DEF Base, TypeInv
<1>3. Past(0)'
  <2>1. NctFields \in Seq(Field)
    BY FieldsAssumption
  <2>2. PICK F, n : F = NctFields /\ n = Len(F)
    OBVIOUS
  <2>3. n \in Nat /\ n + 0 = n /\ \A j \in 1 .. n : F[j] = F[0 + j]
    BY <2>1, <2>2
  <2>4. QED
    BY <1>1, <2>2, <2>3 DEF Past
<1>4. Counting'
  <2>1. 0 \in 0 .. Len(NctFields)
    BY FieldsAssumption
  <2>2. QED
    BY <1>2, <1>3, <2>1, NoneCounted DEF Counting
<1>5. NoneMissing' /\ Fresh'
  BY <1>2 DEF NoneMissing, Fresh, Deeper
<1>6. QED
  BY <1>1, <1>2, <1>4, <1>5, NoTemperatures DEF SourcesTold, Known, Ruled, Summed

\* A reading that is added is one of its source's.
LEMMA RowsAdded ==
  ASSUME NEW x, res \in Seq(Result), res' = Append(res, x), NEW s
  PROVE  /\ Rows(s)' = IF x.source = s THEN Rows(s) \cup {Len(res) + 1} ELSE Rows(s)
         /\ Len(res') = Len(res) + 1 /\ Len(res) \in Nat
<1>1. PICK q, n : q = res /\ n = Len(q)
  OBVIOUS
<1>2. n \in Nat /\ q \in Seq(Result)
  BY <1>1
<1>3. PICK t : t = Append(q, x)
  OBVIOUS
<1>4. Len(t) = n + 1 /\ t[n + 1] = x /\ \A i \in 1 .. n : t[i] = q[i]
  BY <1>1, <1>2, <1>3
<1>5. res' = t /\ Rows(s) = {i \in 1 .. n : q[i].source = s}
      /\ Rows(s)' = {i \in 1 .. n + 1 : t[i].source = s}
  BY <1>1, <1>3, <1>4 DEF Rows
<1>6. \A i : i \in 1 .. n + 1 <=> (i \in 1 .. n \/ i = n + 1)
  BY <1>2
<1>7. {i \in 1 .. n + 1 : t[i].source = s} =
        IF x.source = s THEN {i \in 1 .. n : q[i].source = s} \cup {n + 1}
        ELSE {i \in 1 .. n : q[i].source = s}
  BY <1>4, <1>6
<1>8. QED
  BY <1>1, <1>2, <1>4, <1>5, <1>7

\* One more field keeps the count.
LEMMA CountedNext ==
  ASSUME NEW k \in Nat, res \in Seq(Result), Counted(k),
         \/ res' = res /\ \A s \in Nat \ {0} : Valid(k + 1, s) => Rows(s) # {}
         \/ \E x : /\ res' = Append(res, x)
                   /\ x.source = 0 \/ Rows(x.source) = {}
                   /\ \A s \in Nat \ {0} : Valid(k + 1, s) <=> x.source = s
  PROVE  Counted(k + 1)'
<1>1. SUFFICES ASSUME NEW s \in Nat \ {0}
               PROVE  IF \E i \in 1 .. k + 1 : Valid(i, s)
                      THEN \E n \in 1 .. Len(res') : Rows(s)' = {n} ELSE Rows(s)' = {}
  BY DEF Counted
<1>2. \A i : i \in 1 .. k + 1 <=> (i \in 1 .. k \/ i = k + 1)
  OBVIOUS
<1>3. IF \E i \in 1 .. k : Valid(i, s) THEN \E n \in 1 .. Len(res) : Rows(s) = {n}
      ELSE Rows(s) = {}
  BY DEF Counted
<1>4. CASE res' = res /\ \A z \in Nat \ {0} : Valid(k + 1, z) => Rows(z) # {}
  <2>1. Rows(s)' = Rows(s) /\ (Valid(k + 1, s) => Rows(s) # {})
    BY <1>4 DEF Rows
  <2>2. QED
    BY <1>2, <1>3, <1>4, <2>1
<1>5. ASSUME NEW x, res' = Append(res, x), x.source = 0 \/ Rows(x.source) = {},
             \A z \in Nat \ {0} : Valid(k + 1, z) <=> x.source = z
      PROVE  IF \E i \in 1 .. k + 1 : Valid(i, s)
             THEN \E n \in 1 .. Len(res') : Rows(s)' = {n} ELSE Rows(s)' = {}
  <2>1. PICK m : m = Len(res)
    OBVIOUS
  <2>2. /\ Rows(s)' = IF x.source = s THEN Rows(s) \cup {m + 1} ELSE Rows(s)
        /\ Len(res') = m + 1 /\ m \in Nat
    BY <1>5, <2>1, RowsAdded
  <2>3. CASE x.source = s
    <3>1. Rows(s) = {} /\ Valid(k + 1, s)
      BY <1>5, <2>3
    <3>2. Rows(s)' = {m + 1} /\ m + 1 \in 1 .. Len(res')
      BY <2>2, <2>3, <3>1
    <3>3. \E i \in 1 .. k + 1 : Valid(i, s)
      BY <1>2, <3>1
    <3>4. QED
      BY <3>2, <3>3
  <2>4. CASE x.source # s
    <3>1. ~Valid(k + 1, s) /\ Rows(s)' = Rows(s)
      BY <1>5, <2>2, <2>4
    <3>2. \A n \in 1 .. m : n \in 1 .. Len(res')
      BY <2>2
    <3>3. QED
      BY <1>2, <1>3, <2>1, <3>1, <3>2
  <2>5. QED
    BY <2>3, <2>4
<1>6. QED
  BY <1>4, <1>5

\* The field that is read.
LEMMA CountingHead ==
  ASSUME Base, Counting, pc = "fields", fields # <<>>, NEW g, g = Head(fields)
  PROVE  /\ g \in Field
         /\ g.sel => g.kind = "temp" /\ g.regs # <<>> /\ g.regs[1] \in DOMAIN Source
         /\ \E k \in 0 .. Len(NctFields) :
              Past(k) /\ Counted(k) /\ k + 1 \in 1 .. Len(NctFields) /\ g = NctFields[k + 1]
<1>1. PICK k \in 0 .. Len(NctFields) : Past(k) /\ Counted(k)
  BY DEF Counting
<1>2. PICK F, n, q : F = NctFields /\ n = Len(F) /\ q = fields
  OBVIOUS
<1>3. F \in Seq(Field) /\ q \in Seq(Field) /\ q # <<>> /\ g = Head(q)
  BY <1>2, FieldsAssumption DEF Base, TypeInv, FieldsTyped
<1>4. n \in Nat /\ k \in 0 .. n /\ Len(q) + k = n /\ \A j \in 1 .. Len(q) : q[j] = F[k + j]
  BY <1>1, <1>2, <1>3 DEF Past
<1>5. Len(q) \in Nat /\ Len(q) >= 1 /\ g = q[1]
  BY <1>3
<1>6. k + 1 \in 1 .. n /\ g = F[k + 1]
  BY <1>4, <1>5
<1>7. g \in Field
  BY <1>2, <1>3, <1>6
<1>8. g.sel => g.kind = "temp" /\ g.regs # <<>> /\ g.regs[1] \in DOMAIN Source
  BY <1>2, <1>6, FieldsAssumption
<1>9. QED
  BY <1>1, <1>2, <1>6, <1>7, <1>8

\* What was read for a field are its registers.
LEMMA CellsTold ==
  ASSUME CellsOwn, NoneMissing, pc = "fields", fields # <<>>
  PROVE  \A i \in 1 .. Len(cells) : cells[i] = Head(fields).regs[i]
BY DEF CellsOwn, NoneMissing

LEMMA NextCellTold ==
  ASSUME Base, OwnCells, SourcesTold, NextCell
  PROVE  SourcesTold'
<1>1. /\ pc = "fields" /\ todo = <<>> /\ pc' = pc /\ fields' = fields /\ res' = res
      /\ cells' = cells /\ device' = device /\ family' = family /\ fields # <<>>
      /\ ~Complete(Head(fields))
  BY DEF NextCell, Done
<1>2. SUFFICES ASSUME Pure', NctOnLinux'
               PROVE  SourcesTold'
  BY DEF SourcesTold
<1>3. Pure /\ NctOnLinux /\ Whole /\ ~NctOnWindows /\ ~Exempt
  BY <1>1, <1>2, PureSame DEF NctOnLinux, NctOnWindows, Exempt, Stuck, device, Pure, Whole
<1>4. NoneMissing /\ Counting /\ Fresh /\ Temperatures /\ CellsOwn
  BY <1>3 DEF SourcesTold, OwnCells
<1>5. PICK g, s : g = Head(fields) /\ s = cells
  OBVIOUS
<1>6. g.sel => g.regs[1] \in DOMAIN Source
  BY <1>1, <1>4, <1>5, CountingHead
<1>7. s \in Seq(Value) /\ \A i \in 1 .. Len(s) : s[i] = g.regs[i]
  BY <1>1, <1>4, <1>5, CellsTold DEF Base, TypeInv, FieldsTyped
<1>8. ASSUME g.sel, Len(s) >= 1
      PROVE  Source[g.regs[1]] \notin Reported \cup {0}
  <2>1. s # <<>> /\ s[1] = g.regs[1] /\ Len(s) \in Nat
    BY <1>7, <1>8
  <2>2. SourceOf(s[1]) = Source[g.regs[1]]
    BY <1>6, <1>8, <2>1 DEF SourceOf
  <2>3. CASE Len(s) = 1
    <3>1. ~Skipped(g)
      BY <1>1, <1>5 DEF Complete
    <3>2. QED
      BY <1>3, <1>5, <1>8, <2>1, <2>2, <2>3, <3>1 DEF Skipped
  <2>4. CASE Len(s) >= 2
    BY <1>1, <1>4, <1>5, <1>8, <2>4 DEF Fresh, Deeper
  <2>5. Len(s) = 1 \/ Len(s) >= 2
    <3>1. PICK n : n = Len(s)
      OBVIOUS
    <3>2. n \in Nat /\ n >= 1
      BY <1>8, <2>1, <3>1
    <3>3. n = 1 \/ n >= 2
      BY <3>2
    <3>4. QED
      BY <3>1, <3>3
  <2>6. QED
    BY <2>3, <2>4, <2>5
<1>9. Fresh'
  <2>1. Reported' = Reported
    BY <1>1 DEF Reported
  <2>2. Deeper' => g.sel /\ Len(s) >= 1
    BY <1>1, <1>5, <1>7 DEF Deeper
  <2>3. QED
    BY <1>1, <1>5, <1>8, <2>1, <2>2 DEF Fresh
<1>10. NoneMissing' /\ Temperatures'
  BY <1>1, <1>4 DEF NoneMissing, Temperatures
<1>11. QED
  BY <1>1, <1>4, <1>9, <1>10, CountingSame DEF SourcesTold, Known, Ruled, Summed

LEMMA PastNext ==
  ASSUME Base, NEW k \in 0 .. Len(NctFields), Past(k), fields # <<>>, fields' = Tail(fields)
  PROVE  Past(k + 1)'
<1>1. PICK F, n, q, t : F = NctFields /\ n = Len(F) /\ q = fields /\ t = Tail(q)
  OBVIOUS
<1>2. q \in Seq(Field) /\ q # <<>> /\ F \in Seq(Field)
  BY <1>1, FieldsAssumption DEF Base, TypeInv, FieldsTyped
<1>3. /\ Len(q) \in Nat /\ n \in Nat /\ k \in Nat /\ Len(q) + k = n
      /\ \A j \in 1 .. Len(q) : q[j] = F[k + j]
  BY <1>1, <1>2 DEF Past
<1>4. Len(t) = Len(q) - 1 /\ \A j \in 1 .. Len(t) : t[j] = q[j + 1]
  BY <1>1, <1>2
<1>5. Len(t) + (k + 1) = n
  <2>1. PICK a, b : a = Len(q) /\ b = Len(t)
    OBVIOUS
  <2>2. a \in Nat /\ k \in Nat /\ a + k = n /\ b = a - 1
    BY <1>3, <1>4, <2>1
  <2>3. b + (k + 1) = n
    BY <2>2
  <2>4. QED
    BY <2>1, <2>3
<1>6. ASSUME NEW j \in 1 .. Len(t)
      PROVE  t[j] = F[(k + 1) + j]
  <2>1. j + 1 \in 1 .. Len(q) /\ k + (j + 1) = (k + 1) + j
    BY <1>3, <1>4, <1>6
  <2>2. q[j + 1] = F[k + (j + 1)]
    BY <1>3, <2>1
  <2>3. QED
    BY <1>4, <1>6, <2>1, <2>2
<1>7. fields' = t
  BY <1>1
<1>8. QED
  BY <1>1, <1>5, <1>6, <1>7 DEF Past

\* A field that is left out has no value, or one of a source that was reported.
LEMMA LeftOut ==
  ASSUME Base, NctOnLinux, fields # <<>>, pc = "fields", NEW g, g = Head(fields), Complete(g),
         g.sel, g.kind = "temp", g.regs[1] \in DOMAIN Source, CellsOwn, NoneMissing,
         \A j \in 1 .. Len(g.regs) : g.regs[j] \notin Dead, ~Usable(g)
  PROVE  Source[g.regs[1]] \in Reported \cup {0}
<1>1. PICK s : s = cells
  OBVIOUS
<1>2. s \in Seq(Value) /\ \A i \in 1 .. Len(s) : s[i] = g.regs[i] /\ s[i] # Missing
  BY <1>1, CellsTold DEF Base, TypeInv, FieldsTyped, NoneMissing
<1>3. Skipped(g)
  <2>1. SUFFICES ASSUME ~Skipped(g)
                 PROVE  FALSE
    OBVIOUS
  <2>2. Len(s) = Len(g.regs)
    BY <1>1, <2>1 DEF Complete
  <2>3. \A i \in 1 .. Len(s) : s[i] \notin Dead \cup {Missing}
    BY <1>2, <2>2
  <2>4. g.kind # "fan"
    OBVIOUS
  <2>5. QED
    BY <1>1, <2>1, <2>3, <2>4 DEF Usable
<1>4. s # <<>>
  BY <1>1, <1>3 DEF Skipped
<1>5. Len(s) \in Nat /\ Len(s) >= 1
  BY <1>2, <1>4
<1>6. s[Len(s)] # Missing
  BY <1>2, <1>5
<1>7. Len(s) = 1 /\ SourceOf(s[1]) \in Reported \cup {0}
  BY <1>1, <1>3, <1>6 DEF Skipped
<1>8. SourceOf(s[1]) = Source[g.regs[1]]
  BY <1>2, <1>7 DEF SourceOf
<1>9. QED
  BY <1>7, <1>8

\* A field that is used is a valid one, and its source a new one.
LEMMA Used ==
  ASSUME Base, NctOnLinux, fields # <<>>, pc = "fields", todo = <<>>, NEW g, g = Head(fields),
         Complete(g), g.sel => g.regs # <<>> /\ g.regs[1] \in DOMAIN Source,
         CellsOwn, NoneMissing, Fresh, Usable(g)
  PROVE  /\ \A j \in 1 .. Len(g.regs) : g.regs[j] \notin Dead
         /\ Reading(g).source = IF g.sel THEN Source[g.regs[1]] ELSE 0
         /\ Reading(g).kind = g.kind
         /\ g.sel => Source[g.regs[1]] \notin Reported \cup {0}
<1>1. cells = g.regs
  BY UsableOwn
<1>2. PICK s : s = cells
  OBVIOUS
<1>3. s \in Seq(Value)
  BY <1>2 DEF Base, TypeInv, FieldsTyped
<1>4. \A j \in 1 .. Len(g.regs) : g.regs[j] \notin Dead
  <2>1. \A i \in 1 .. Len(s) : s[i] \notin Dead \cup {Missing}
    BY <1>2 DEF Usable
  <2>2. QED
    BY <1>1, <1>2, <2>1
<1>5. g.sel => SourceOf(s[1]) = Source[g.regs[1]]
  BY <1>1, <1>2 DEF SourceOf
<1>6. Reading(g).source = (IF g.sel THEN Source[g.regs[1]] ELSE 0) /\ Reading(g).kind = g.kind
  BY <1>2, <1>5 DEF Reading
<1>7. ASSUME g.sel
      PROVE  Source[g.regs[1]] \notin Reported \cup {0}
  <2>1. s # <<>> /\ Len(s) \in Nat /\ Len(s) >= 1
    BY <1>1, <1>2, <1>3, <1>7
  <2>2. CASE Len(s) = 1
    <3>1. ~Skipped(g)
      BY DEF Usable
    <3>2. QED
      BY <1>2, <1>5, <1>7, <2>1, <2>2, <3>1 DEF Skipped
  <2>3. CASE Len(s) >= 2
    BY <1>2, <1>7, <2>3 DEF Fresh, Deeper
  <2>4. PICK m : m = Len(s)
    OBVIOUS
  <2>5. m = 1 \/ m >= 2
    BY <2>1, <2>4
  <2>6. QED
    BY <2>2, <2>3, <2>4, <2>5
<1>8. QED
  BY <1>4, <1>6, <1>7

LEMMA NotReported ==
  ASSUME NEW s \in Nat \ {0}
  PROVE  s \in Reported <=> Rows(s) # {}
BY DEF Reported, Rows

LEMMA FieldDoneTold ==
  ASSUME Base, OwnCells, SourcesTold, FieldDone
  PROVE  SourcesTold'
<1>1. /\ pc = "fields" /\ todo = <<>> /\ pc' = pc /\ fields # <<>> /\ fields' = Tail(fields)
      /\ cells' = <<>> /\ device' = device /\ family' = family /\ Complete(Head(fields))
  BY DEF FieldDone, Done
<1>2. SUFFICES ASSUME Pure', NctOnLinux'
               PROVE  SourcesTold'
  BY DEF SourcesTold
<1>3. Pure /\ NctOnLinux /\ Whole /\ ~NctOnWindows /\ ~Exempt
  BY <1>1, <1>2, PureSame DEF NctOnLinux, NctOnWindows, Exempt, Stuck, device, Pure, Whole
<1>4. NoneMissing /\ Counting /\ Fresh /\ Temperatures /\ CellsOwn
  BY <1>3 DEF SourcesTold, OwnCells
<1>5. PICK g : g = Head(fields)
  OBVIOUS
<1>6. g.sel => g.kind = "temp" /\ g.regs # <<>> /\ g.regs[1] \in DOMAIN Source
  BY <1>1, <1>4, <1>5, CountingHead
<1>7. PICK k \in 0 .. Len(NctFields) :
        Past(k) /\ Counted(k) /\ k + 1 \in 1 .. Len(NctFields) /\ g = NctFields[k + 1]
  BY <1>1, <1>4, <1>5, CountingHead
<1>8. PICK n : n = Source[g.regs[1]]
  OBVIOUS
<1>9. g.sel => n \in Nat
  BY <1>6, <1>8, SourceAssumption
<1>10. res \in Seq(Result)
  BY DEF Base, TypeInv, FieldsTyped
<1>11. \A s : Valid(k + 1, s) <=>
         g.sel /\ n = s /\ \A j \in 1 .. Len(g.regs) : g.regs[j] \notin Dead
  BY <1>7, <1>8 DEF Valid
<1>12. res' = IF Usable(g) THEN Append(res, Reading(g)) ELSE res
  BY <1>3, <1>5 DEF FieldDone
<1>13. Counted(k + 1)' /\ Temperatures'
  <2>1. CASE Usable(g)
    <3>1. PICK x : x = Reading(g)
      OBVIOUS
    <3>2. /\ \A j \in 1 .. Len(g.regs) : g.regs[j] \notin Dead
          /\ x.source = (IF g.sel THEN n ELSE 0) /\ x.kind = g.kind
          /\ g.sel => n \notin Reported \cup {0}
      BY <1>1, <1>3, <1>4, <1>5, <1>6, <1>8, <2>1, <3>1, Used
    <3>3. x.source = 0 \/ Rows(x.source) = {}
      BY <1>9, <3>2, NotReported
    <3>4. \A s \in Nat \ {0} : Valid(k + 1, s) <=> x.source = s
      BY <1>11, <3>2
    <3>5. res' = Append(res, x)
      BY <1>12, <2>1, <3>1
    <3>6. k \in Nat
      BY <1>7
    <3>7. Counted(k + 1)'
      BY <1>7, <1>10, <3>3, <3>4, <3>5, <3>6, CountedNext
    <3>8. x.source # 0 => x.kind = "temp"
      BY <1>6, <3>2
    <3>9. Temperatures'
      <4>1. PICK q, t : q = res /\ t = Append(q, x)
        OBVIOUS
      <4>2. /\ Len(t) = Len(q) + 1 /\ t[Len(q) + 1] = x /\ Len(q) \in Nat
            /\ \A i \in 1 .. Len(q) : t[i] = q[i]
        BY <1>10, <4>1
      <4>3. ASSUME NEW i \in 1 .. Len(t), t[i].source # 0
            PROVE  t[i].kind = "temp"
        <5>1. i \in 1 .. Len(q) \/ i = Len(q) + 1
          BY <4>2, <4>3
        <5>2. QED
          BY <1>4, <3>8, <4>1, <4>2, <4>3, <5>1 DEF Temperatures
      <4>4. res' = t
        BY <3>5, <4>1
      <4>5. QED
        BY <4>3, <4>4 DEF Temperatures
    <3>10. QED
      BY <3>7, <3>9
  <2>2. CASE ~Usable(g)
    <3>1. res' = res
      BY <1>12, <2>2
    <3>2. ASSUME NEW s \in Nat \ {0}, Valid(k + 1, s)
          PROVE  Rows(s) # {}
      <4>1. g.sel /\ n = s /\ \A j \in 1 .. Len(g.regs) : g.regs[j] \notin Dead
        BY <1>11, <3>2
      <4>2. n \in Reported \cup {0}
        BY <1>1, <1>3, <1>4, <1>5, <1>6, <1>8, <2>2, <4>1, LeftOut
      <4>3. QED
        BY <3>2, <4>1, <4>2, NotReported
    <3>3. k \in Nat
      BY <1>7
    <3>4. Counted(k + 1)'
      BY <1>7, <1>10, <3>1, <3>2, <3>3, CountedNext
    <3>5. Temperatures'
      BY <1>4, <3>1 DEF Temperatures
    <3>6. QED
      BY <3>4, <3>5
  <2>3. QED
    BY <2>1, <2>2
<1>14. Past(k + 1)'
  BY <1>1, <1>7, PastNext
<1>15. Counting'
  <2>1. Len(NctFields) \in Nat
    BY FieldsAssumption
  <2>2. k + 1 \in 0 .. Len(NctFields)
    BY <1>7, <2>1
  <2>3. QED
    BY <1>13, <1>14, <2>2 DEF Counting
<1>16. NoneMissing' /\ Fresh'
  BY <1>1 DEF NoneMissing, Fresh, Deeper
<1>17. QED
  BY <1>1, <1>13, <1>15, <1>16 DEF SourcesTold, Known, Ruled, Summed

\* All the fields have been read.
LEMMA RestoreBankTold ==
  ASSUME Base, SourcesTold, RestoreBank
  PROVE  SourcesTold'
<1>1. /\ pc = "fields" /\ fields = <<>> /\ pc' = "finish" /\ res' = res /\ device' = device
      /\ family' = family
  BY DEF RestoreBank, Done
<1>2. SUFFICES ASSUME Pure', NctOnLinux'
               PROVE  Temperatures' /\ Summed'
  BY <1>1, ElsewhereTold
<1>3. Pure /\ NctOnLinux
  BY <1>1, <1>2, PureSame DEF NctOnLinux, device
<1>4. Counting /\ Temperatures
  BY <1>3 DEF SourcesTold
<1>5. Temperatures'
  BY <1>1, <1>4 DEF Temperatures
<1>6. PICK k \in 0 .. Len(NctFields) : Past(k) /\ Counted(k)
  BY <1>1, <1>4 DEF Counting
<1>7. k = Len(NctFields)
  <2>1. PICK n : n = Len(NctFields)
    OBVIOUS
  <2>2. n \in Nat /\ k \in Nat /\ 0 + k = n
    BY <1>1, <1>6, <2>1, FieldsAssumption DEF Past
  <2>3. QED
    BY <2>1, <2>2
<1>8. Counted(Len(NctFields))'
  BY <1>1, <1>6, <1>7, CountedSame
<1>9. QED
  BY <1>5, <1>8 DEF Summed

\* The readings that are cleared have no source.
LEMMA ReturnTold ==
  ASSUME Base, SourcesTold, Return(res), pc = "finish"
  PROVE  SourcesTold'
<1>1. /\ pc' = "returned" /\ device' = device /\ family' = family /\ what' = what /\ at' = at
      /\ tried' = tried
      /\ res' = [i \in 1 .. Len(res) |-> IF res[i].kind = what THEN res[i] ELSE Blank]
  BY DEF Return
<1>2. SUFFICES ASSUME Pure', NctOnLinux'
               PROVE  Temperatures' /\ Summed'
  BY <1>1, ElsewhereTold
<1>3. Pure /\ NctOnLinux
  BY <1>1, <1>2, PureSame DEF NctOnLinux, device
<1>4. Temperatures /\ Summed
  BY <1>3 DEF SourcesTold
<1>5. PICK q, t, n : q = res /\ t = res' /\ n = Len(q)
  OBVIOUS
<1>6. n \in Nat
  BY <1>5 DEF Base, TypeInv, FieldsTyped
<1>7. Len(t) = n /\ \A i \in 1 .. n : t[i] = IF q[i].kind = what THEN q[i] ELSE Blank
  BY <1>1, <1>5, <1>6
<1>8. Blank.source = 0
  BY DEF Blank
<1>9. \A i \in 1 .. n : q[i].source # 0 => q[i].kind = "temp"
  BY <1>4, <1>5 DEF Temperatures
<1>10. Temperatures'
  BY <1>5, <1>7, <1>8, <1>9 DEF Temperatures
<1>11. ASSUME what = "temp"
       PROVE  Counted(Len(NctFields)) => Counted(Len(NctFields))'
  <2>1. \A i \in 1 .. n : t[i].source = q[i].source
    BY <1>7, <1>8, <1>9, <1>11
  <2>2. ASSUME NEW s
        PROVE  Rows(s)' = Rows(s)
    <3>1. {i \in 1 .. n : t[i].source = s} = {i \in 1 .. n : q[i].source = s}
      BY <2>1
    <3>2. QED
      BY <1>5, <1>7, <3>1 DEF Rows
  <2>3. Len(res') = Len(res)
    BY <1>5, <1>7
  <2>4. QED
    BY <2>2, <2>3 DEF Counted
<1>12. Sought' = Sought
  BY <1>1 DEF Sought, Here1, Here, PortPairs, device
<1>13. QED
  BY <1>1, <1>4, <1>10, <1>11, <1>12 DEF Summed

\* The reader for Nuvoton chips has its turn after the one for ITE chips.
LEMMA LinuxFinishTold ==
  ASSUME Base, IteFirst, SourcesTold, LinuxFinish
  PROVE  SourcesTold'
<1>1. pc = "finish" /\ todo = <<>> /\ os = "linux"
  BY DEF LinuxFinish, Done
<1>2. CASE Return(res)
  BY <1>1, <1>2, ReturnTold
<1>3. CASE ~Return(res)
  <2>1. /\ family = "ite" /\ res = <<>> /\ Start("nct", tried) /\ device' = device /\ res' = res
    BY <1>3 DEF LinuxFinish
  <2>2. CASE pc' = "probe"
    <3>1. todo' = Probe("nct", "2E")
      BY <2>1, <2>2 DEF Start, Begin
    <3>2. QED
      BY <2>1, <2>2, <3>1, ProbeTold DEF Pair
  <2>3. CASE pc' # "probe"
    <3>1. pc' = "finish" /\ tried' = tried /\ at' = 1 /\ family' = "nct" /\ os' = "linux"
      BY <1>1, <2>1, <2>3 DEF Start, Begin, device
    <3>2. Here' = "2E"
      BY <3>1 DEF Here, PortPairs
    <3>3. <<"2E", "nct">> \notin tried
      BY <1>1, <2>1 DEF IteFirst, Pair
    <3>4. ~Sought'
      BY <3>1, <3>2, <3>3 DEF Sought
    <3>5. Temperatures'
      BY <2>1, NoTemperatures
    <3>6. QED
      BY <3>1, <3>4, <3>5, ElsewhereTold DEF Summed
  <2>4. QED
    BY <2>2, <2>3
<1>4. QED
  BY <1>2, <1>3

LEMMA NotNct ==
  ASSUME ~NctOnLinux'
  PROVE  SourcesTold'
BY DEF SourcesTold

LEMMA NextTold ==
  ASSUME Base, Base', Modes, Addressed, OwnCells, IteFirst, SourcesTold, [Next]_vars
  PROVE  SourcesTold'
<1>1. CASE Call
  <2>1. family' = "ite"
    BY <1>1, Calls
  <2>2. QED
    BY <2>1, NotNct DEF NctOnLinux
<1>2. CASE Die
  BY <1>2, NotNct DEF Die, NctOnLinux
<1>3. CASE UNCHANGED vars
  <2>1. /\ device' = device /\ family' = family /\ at' = at /\ res' = res /\ what' = what
        /\ pc' = pc /\ fields' = fields /\ cells' = cells /\ todo' = todo /\ got' = got
        /\ tried' = tried
    BY <1>3 DEF vars, reading
  <2>2. Here1' = Here1 /\ Here' = Here /\ Left' = Left /\ NctOnLinux' = NctOnLinux
    BY <2>1 DEF Here1, Here, PortPairs, device, Left, Size, NctOnLinux
  <2>3. /\ Known' = Known /\ Ruled' = Ruled /\ NoneMissing' = NoneMissing /\ Fresh' = Fresh
        /\ Temperatures' = Temperatures /\ Sought' = Sought
    BY <2>1, <2>2
    DEF Known, Ruled, NoneMissing, Fresh, Deeper, Reported, Temperatures, Sought
  <2>4. (Summed => Summed') /\ (Counting => Counting')
    BY <2>1, <2>3, CountedSame, CountingSame DEF Summed
  <2>5. QED
    BY <2>1, <2>2, <2>3, <2>4, PureSame DEF SourcesTold
<1>4. CASE WindowsStep
  <2>1. os = "windows"
    BY <1>4
    DEF WindowsStep, WinProbed, WinIteFound, WinDetected, WinUnlocked, WinFinish
  <2>2. os' = os
    BY <1>4, StepDevice DEF device
  <2>3. QED
    BY <2>1, <2>2, NotNct DEF NctOnLinux
<1>5. CASE IteBank
  BY <1>5, NotNct DEF IteBank, NctOnLinux
<1>6. CASE LinuxUnlocked
  <2>1. pc = "unlock" /\ pc' = "open" /\ res' = res
    BY <1>6 DEF LinuxUnlocked, Done
  <2>2. res' = <<>>
    BY <2>1, NoReadings
  <2>3. QED
    BY <2>1, <2>2, ElsewhereTold, NoTemperatures DEF Summed
<1>7. CASE Transfer
  BY <1>7, TransferTold
<1>8. CASE DecodeStep /\ ~IteBank
  BY <1>8, NextCellTold, FieldDoneTold, RestoreBankTold DEF DecodeStep
<1>9. CASE LinuxStep /\ ~LinuxUnlocked
  BY <1>9, LinuxProbedTold, LinuxLeftTold, LinuxOpenedTold, LinuxNctBankTold, LinuxFinishTold
  DEF LinuxStep
<1>10. QED
  BY <1>1, <1>2, <1>3, <1>4, <1>5, <1>6, <1>7, <1>8, <1>9 DEF Next, Step

LEMMA NextIteFirst ==
  ASSUME Base, IteFirst, [Next]_vars
  PROVE  IteFirst'
<1>1. SUFFICES ASSUME os' = "linux", family' = "ite"
               PROVE  \A p \in Pair : <<p, "nct">> \notin tried'
  BY DEF IteFirst
<1>2. CASE Call
  <2>1. tried' = {<<"2E", "ite">>} \/ tried' = {}
    BY <1>2, Calls
  <2>2. QED
    BY <2>1
<1>3. CASE Die
  BY <1>3 DEF Die
<1>4. CASE WindowsStep
  <2>1. os = "windows"
    BY <1>4
    DEF WindowsStep, WinProbed, WinIteFound, WinDetected, WinUnlocked, WinFinish
  <2>2. os' = os
    BY <1>4, StepDevice DEF device
  <2>3. QED
    BY <1>1, <2>1, <2>2
<1>5. CASE LinuxLeft
  <2>1. os = "linux" /\ family' = family
    BY <1>5 DEF LinuxLeft, Try
  <2>2. \A p \in Pair : <<p, "nct">> \notin tried
    BY <1>1, <2>1 DEF IteFirst
  <2>3. CASE tried' = tried
    BY <2>2, <2>3
  <2>4. CASE tried' # tried
    <3>1. PICK x : tried' = tried \cup {<<x, "ite">>}
      BY <1>1, <1>5, <2>1, <2>4 DEF LinuxLeft, Try
    <3>2. ASSUME NEW p \in Pair
          PROVE  <<p, "nct">> \notin tried'
      BY <2>2, <3>1, <3>2
    <3>3. QED
      BY <3>2
  <2>5. QED
    BY <2>3, <2>4
<1>6. CASE LinuxFinish
  <2>1. family' = family /\ tried' = tried /\ os = "linux"
    BY <1>1, <1>6 DEF LinuxFinish, Start, Return
  <2>2. QED
    BY <1>1, <2>1 DEF IteFirst
<1>7. CASE Transfer \/ UNCHANGED vars
  <2>1. family' = family /\ tried' = tried /\ os' = os
    BY <1>7, TransferIs DEF vars, device
  <2>2. QED
    BY <1>1, <2>1 DEF IteFirst
<1>8. CASE DecodeStep \/ (LinuxStep /\ ~LinuxLeft /\ ~LinuxFinish)
  <2>1. family' = family /\ tried' = tried
    BY <1>8
    DEF DecodeStep, NextCell, FieldDone, IteBank, RestoreBank, LinuxStep, LinuxProbed,
        LinuxUnlocked, LinuxOpened, LinuxNctBank
  <2>2. os' = os
    BY <1>8, StepDevice DEF device
  <2>3. QED
    BY <1>1, <2>1, <2>2 DEF IteFirst
<1>9. QED
  BY <1>2, <1>3, <1>4, <1>5, <1>6, <1>7, <1>8 DEF Next, Step

\* hwsense_nct_decode reports the temperature of each source once, however many
\* registers show it, and leaves out no source that has a valid temperature.
THEOREM EachSourceOnce == Spec => []SourcesOnce
<1>1. Init => /\ Base /\ Modes /\ Hurts /\ Locks /\ Banks /\ Addressed /\ OwnCells
              /\ IteFirst /\ SourcesTold
  <2>1. Init => OwnCells
    BY DEF Init, OwnCells, Unlocked, Reaching, CellsOwn, ResOwn
  <2>2. Init => IteFirst
    BY DEF Init, IteFirst
  <2>3. Init => SourcesTold
    BY DEF Init, SourcesTold, NctOnLinux
  <2>4. QED
    BY <2>1, <2>2, <2>3, InitBase, InitModes, InitRegisters, InitAddressed
<1>2. ASSUME Base, Modes, Hurts, Locks, Banks, Addressed, OwnCells, IteFirst, SourcesTold,
             [Next]_vars
      PROVE  /\ Base' /\ Modes' /\ Hurts' /\ Locks' /\ Banks' /\ Addressed' /\ OwnCells'
             /\ IteFirst' /\ SourcesTold'
  <2>1. Base'
    BY <1>2, NextBase, StutterBase
  <2>2. Modes'
    BY <1>2, <2>1, NextModes, StutterModes
  <2>3. Hurts' /\ Locks' /\ Banks'
    BY <1>2, <2>1, NextHurts, NextLocks, NextBanks
  <2>4. Addressed'
    BY <1>2, <2>1, NextAddressed
  <2>5. OwnCells'
    BY <1>2, NextOwn
  <2>6. IteFirst' /\ SourcesTold'
    BY <1>2, <2>1, NextIteFirst, NextTold
  <2>7. QED
    BY <2>1, <2>2, <2>3, <2>4, <2>5, <2>6
<1>3. SourcesTold => SourcesOnce
  <2>1. SUFFICES ASSUME SourcesTold, Pure, NctOnLinux, pc = "returned", what = "temp", Sought,
                        NEW s \in {Source[r] : r \in DOMAIN Source} \ {0}
                 PROVE  Cardinality(Rows(s)) =
                          IF \E i \in 1 .. Len(NctFields) : Valid(i, s) THEN 1 ELSE 0
    BY DEF SourcesOnce, Returned, Pure, Sought, Here1, Rows, Valid
  <2>2. s \in Nat \ {0}
    BY SourceAssumption
  <2>3. Counted(Len(NctFields))
    BY <2>1 DEF SourcesTold, Summed
  <2>4. IF \E i \in 1 .. Len(NctFields) : Valid(i, s) THEN \E n : Rows(s) = {n} ELSE Rows(s) = {}
    BY <2>2, <2>3 DEF Counted
  <2>5. QED
    BY <2>4, FS_EmptySet, FS_Singleton
<1>4. QED
  BY <1>1, <1>2, <1>3, PTL DEF Spec

=============================================================================
