---------------------------- MODULE LinuxProofs -----------------------------
(***************************************************************************)
(* Proofs about the Linux readers: the type invariant, and NvmlGuarded, for*)
(* any threads, calls, files and changes of the files, however many        *)
(* devices, inputs and zones there are.                                    *)
(*                                                                         *)
(* Both follow from one inductive invariant, Typed /\ Guarded.  Typed says *)
(* where in its call a thread is and how far its counters are there, which *)
(* is what keeps every loop within its array; Guarded says what nvml_load  *)
(* leaves behind while nobody came to it with another thread inside.       *)
(***************************************************************************)
EXTENDS LinuxSensors, FiniteSetTheorems, TLAPS

-----------------------------------------------------------------------------
(* The inductive invariant. *)

\* The fields of a thread, and the groups of its locations.
Locals == {"pc", "call", "index", "todo", "data", "h", "i", "seen", "type", "best", "list", "vals"}

AtRest == {"idle", "done", "crashed"}
HwmonLocs == {"cpu_name", "cpu_label", "cpu_input"}
ZoneLocs == {"zone_type", "zone_temp"}
BoardLocs == {"board_name", "board_input"}
LoadingLocs == {"nvml_try", "nvml_open", "nvml_symbol", "nvml_init"}
GpuLocs == {"nvml_check", "nvml_device", "nvml_row", "amd_name", "amd_temp", "amd_file", "kgsl"}
               \cup LoadingLocs
SampleLocs == {"load_first", "load_second"}
OneFile == {"smart", "memory", "uptime", "identity"}
Locations ==
  AtRest \cup HwmonLocs \cup ZoneLocs \cup BoardLocs \cup GpuLocs \cup SampleLocs \cup OneFile
    \cup {"msr_target", "msr_status", "nvme_name", "nvme_temp", "board_chip",
          "clock", "clock_cpuinfo", "max_clock"}

IsSequence(s) == s \in Seq(Range(s))

FieldsOf(m) ==
  /\ DOMAIN m = Locals
  /\ m.pc \in Locations
  /\ m.call \in DOMAIN Readings /\ m.index \in Nat
  /\ m.todo \in Seq(Reading) /\ DOMAIN m.data \subseteq Reading
  /\ m.h \in Nat /\ m.i \in Nat
  /\ m.best \in SUBSET Int /\ Cardinality(m.best) <= 1
  /\ IsSequence(m.list)

\* Whose location it is, and how far its counters are there.
Place(m) ==
  LET r == Head(m.todo)
  IN  /\ m.pc \notin AtRest => m.todo # <<>>
      /\ m.pc = "done" => m.todo = <<>>
      /\ m.pc \in HwmonLocs => r = "cpu_temp" /\ m.h < CpuHwmonMax /\ m.list = <<>>
      /\ m.pc \in {"cpu_label", "cpu_input"} => m.i \in 1 .. InputMax
      /\ m.pc \in {"msr_target", "msr_status"} => r = "cpu_temp" /\ m.list = <<>>
      /\ m.pc \in ZoneLocs => /\ r \in {"cpu_temp", "gpu", "zones"} /\ m.h < ZoneMax
                              /\ Len(m.list) < ListMax
      /\ m.pc \in {"nvme_name", "nvme_temp"} => r = "nvme" /\ m.h < HwmonMax
      /\ m.pc \in BoardLocs \cup {"board_chip"} => r \in {"temp", "fan", "in"}
      /\ m.pc \in BoardLocs => m.h < HwmonMax /\ Len(m.list) <= BoardMax
      /\ m.pc = "board_input" => m.i \in FirstInput(r) .. InputMax /\ Len(m.list) < BoardMax
      /\ m.pc = "clock" => r = "clock" /\ m.h < CpuMax /\ Len(m.list) = m.h
      /\ m.pc = "clock_cpuinfo" => r = "clock"
      /\ m.pc = "max_clock" => r = "max_clock"
      /\ m.pc \in SampleLocs => r = "load"
      /\ m.pc \in OneFile => r = m.pc
      /\ m.pc \in GpuLocs => r = "gpu"
      /\ m.pc \in {"nvml_check", "nvml_device"} \cup LoadingLocs => m.best = {} /\ m.list = <<>>
      /\ m.pc \in {"amd_name", "amd_temp", "amd_file"} => m.h < HwmonMax /\ m.list = <<>>
      /\ m.pc = "amd_name" => m.best = {}
      /\ m.pc = "nvml_symbol" => m.i \in 1 .. Len(Symbols)
      /\ m.pc = "nvml_row" => m.i \in 1 .. Len(Rows)
      /\ m.pc = "amd_file" => m.i \in 1 .. AmdFiles
      /\ m.pc = "kgsl" => m.i \in 1 .. KgslFiles

MaxH == Max(Index)
MaxI == Max({InputMax, AmdFiles, Len(Symbols)})
MaxL == Max({BoardMax, ListMax, CpuMax})

Bounded(m) ==
  /\ m.h < MaxH
  /\ m.i <= MaxI
  /\ Len(m.list) <= MaxL

Files(f) ==
  /\ f = [p \in DOMAIN f |-> f[p]]
  /\ Given \subseteq DOMAIN f /\ DOMAIN f \subseteq STRING \X Int \X Int
  /\ \A h \in 0 .. HwmonMax - 1, i \in 1 .. InputMax :
       Input("temp", h, i) \in DOMAIN f => f[Input("temp", h, i)] \in Temperatures
  /\ Stat \in DOMAIN f => f[Stat] \in Samples

Opening == {t \in Thread : me[t].pc \in {"nvml_try", "nvml_open"}}

Shared ==
  /\ nv \in [tried : BOOLEAN, lib : BOOLEAN, fn : SUBSET Range(Symbols), opens : Nat]
  /\ nv.opens + Cardinality(Opening) <= Cardinality(Thread)
  /\ nv.lib => nv.opens > 0
  /\ ~nv.tried => nv.opens = 0
  /\ \A t \in Thread : me[t].pc \in {"nvml_open", "nvml_symbol", "nvml_init"} => nv.tried
  /\ vendor \in {"I", "A", "R", "?"} /\ changes \in 0 .. MaxChanges /\ raced \in BOOLEAN

Good(m) == FieldsOf(m) /\ Place(m) /\ Bounded(m)

Typed ==
  /\ plan \in [Thread -> Seq([call : DOMAIN Readings, index : Nat])]
  /\ DOMAIN me = Thread /\ DOMAIN moments = Thread
  /\ \A t \in Thread : Good(me[t])
  /\ \A t \in Thread : me[t].pc \in AtRest \/ fs \in moments[t]
  /\ Files(fs) /\ Shared

\* While nobody came to nvml_load with another inside it.
Guarded ==
  ~raced =>
    /\ \A t \in Thread : me[t].pc # "crashed"
    /\ \A t \in Thread, u \in Thread : Loading(t) /\ Loading(u) => t = u
    /\ \A t \in Thread :
         /\ me[t].pc = "nvml_try" => ~nv.tried
         /\ me[t].pc \in {"nvml_symbol", "nvml_init"} => nv.lib
         /\ me[t].pc \in {"nvml_device", "nvml_row"} =>
              nv.tried /\ nv.lib /\ \A u \in Thread : ~Loading(u)
    /\ ~nv.tried => ~nv.lib
    /\ nv.lib /\ (\A t \in Thread : ~Loading(t)) => Required \subseteq nv.fn

-----------------------------------------------------------------------------
\* The fields of a thread as a reading begins,
LEMMA BeginFields ==
  ASSUME NEW m, DOMAIN m = Locals
  PROVE  LET b == Begin(m)
         IN  /\ DOMAIN b = Locals
             /\ b.pc = IF m.todo = <<>> THEN "done" ELSE Entry[Head(m.todo)]
             /\ b.call = m.call /\ b.index = m.index /\ b.todo = m.todo /\ b.data = m.data
             /\ b.h = 0 /\ b.i = 0 /\ b.seen = 0 /\ b.type = "none"
             /\ b.best = {} /\ b.list = <<>> /\ b.vals = <<>>
BY DEF Begin, Locals

\* and as a reading of the call ends with v.
LEMMA DoneFields ==
  ASSUME NEW m, NEW v, DOMAIN m = Locals
  PROVE  LET b == Done(m, v)
             r == Head(m.todo)
             todo == Tail(m.todo)
         IN  /\ DOMAIN b = Locals
             /\ b.pc = IF todo = <<>> THEN "done" ELSE Entry[Head(todo)]
             /\ b.call = m.call /\ b.index = m.index /\ b.todo = todo
             /\ DOMAIN b.data = {r} \cup DOMAIN m.data
             /\ b.data[r] = IF m.call = "hwsense_read_all" THEN Stored(r, v, fs) ELSE v
             /\ \A q \in DOMAIN m.data \ {r} : b.data[q] = m.data[q]
             /\ b.h = 0 /\ b.i = 0 /\ b.seen = 0 /\ b.type = "none"
             /\ b.best = {} /\ b.list = <<>> /\ b.vals = <<>>
<1> DEFINE w == IF m.call = "hwsense_read_all" THEN Stored(Head(m.todo), v, fs) ELSE v
           n == [m EXCEPT !.data = With(@, Head(m.todo), w), !.todo = Tail(@)]
           b == Done(m, v)
<1>1. /\ DOMAIN n = Locals /\ n.call = m.call /\ n.index = m.index /\ n.todo = Tail(m.todo)
      /\ n.data = With(m.data, Head(m.todo), w)
  BY DEF Locals
<1>2. b = Begin(n)
  BY DEF Done
<1> HIDE DEF n, b
<1>3. /\ DOMAIN n.data = {Head(m.todo)} \cup DOMAIN m.data
      /\ n.data[Head(m.todo)] = w
      /\ \A q \in DOMAIN m.data \ {Head(m.todo)} : n.data[q] = m.data[q]
  BY <1>1 DEF With
<1>4. /\ DOMAIN b = Locals
      /\ b.pc = IF n.todo = <<>> THEN "done" ELSE Entry[Head(n.todo)]
      /\ b.call = n.call /\ b.index = n.index /\ b.todo = n.todo /\ b.data = n.data
      /\ b.h = 0 /\ b.i = 0 /\ b.seen = 0 /\ b.type = "none"
      /\ b.best = {} /\ b.list = <<>> /\ b.vals = <<>>
  BY <1>1, <1>2, BeginFields
<1>5. QED
  BY <1>1, <1>3, <1>4 DEF b
\* The readings, and where they start.
Names == {"cpu_temp", "clock", "max_clock", "temp", "fan", "in", "gpu", "nvme", "smart", "zones",
          "load", "memory", "uptime", "identity"}

\* Every call is of readings, at least one.
LEMMA EveryReading ==
  /\ Reading \subseteq Names
  /\ \A c \in DOMAIN Readings : Readings[c] \in Seq(Reading) /\ Readings[c] # <<>>
<1>1. ASSUME NEW c \in DOMAIN Readings PROVE Readings[c] \in Seq(Names) /\ Readings[c] # <<>>
  <2>1. \A r \in Names : <<r>> \in Seq(Names) /\ <<r>> # <<>>
    OBVIOUS
  <2>2. CASE c = "hwsense_read_all"
    <3>1. Readings[c] = <<"identity", "cpu_temp", "clock", "max_clock", "load", "memory", "uptime",
                          "fan", "gpu", "nvme">>
      BY <2>2 DEF Readings
    <3>2. QED
      BY <3>1 DEF Names
  <2>3. CASE c # "hwsense_read_all"
    <3>1. \E r \in Names : Readings[c] = <<r>>
      BY <2>3 DEF Readings, Names
    <3>2. QED
      BY <2>1, <3>1
  <2>4. QED
    BY <2>2, <2>3
<1>2. Reading \subseteq Names
  BY <1>1 DEF Reading
<1>3. ASSUME NEW c \in DOMAIN Readings PROVE Readings[c] \in Seq(Reading)
  <2>1. /\ Readings[c] \in [1 .. Len(Readings[c]) -> Names] /\ Len(Readings[c]) \in Nat
        /\ DOMAIN Readings[c] = 1 .. Len(Readings[c])
    BY <1>1
  <2>2. \A n \in 1 .. Len(Readings[c]) : Readings[c][n] \in Reading
    BY <2>1 DEF Reading
  <2>3. Readings[c] \in [1 .. Len(Readings[c]) -> Reading]
    BY <2>1, <2>2
  <2>4. QED
    BY <2>1, <2>3
<1>4. QED
  BY <1>1, <1>2, <1>3

\* The limits of the scans are numbers, and within one another.
LEMMA Limits ==
  /\ HwmonMax \in Nat /\ HwmonMax > 0 /\ ZoneMax \in Nat /\ ZoneMax > 0
  /\ CpuMax \in Nat /\ CpuMax > 0 /\ InputMax \in Nat /\ InputMax > 0
  /\ BoardMax \in Nat /\ BoardMax > 0 /\ ListMax \in Nat /\ ListMax > 0
  /\ CpuHwmonMax \in Nat /\ CpuHwmonMax > 0 /\ CpuHwmonMax <= HwmonMax
  /\ AmdFiles = 7 /\ KgslFiles = 3 /\ Len(Symbols) = 9 /\ Len(Rows) = 7
  /\ MaxH \in Nat /\ MaxH >= HwmonMax /\ MaxH >= ZoneMax /\ MaxH >= CpuMax
  /\ MaxI \in Nat
  /\ MaxI >= InputMax
  /\ MaxI >= 9
  /\ MaxL \in Nat
  /\ MaxL >= BoardMax
  /\ MaxL >= ListMax
  /\ MaxL >= CpuMax
<1>1. ASSUME NEW a \in Nat, NEW b \in Nat, NEW c \in Nat
      PROVE  /\ Max({a, b, c}) \in Nat
             /\ Max({a, b, c}) >= a /\ Max({a, b, c}) >= b /\ Max({a, b, c}) >= c
  <2>1. \E x \in {a, b, c} : \A y \in {a, b, c} : x >= y
    OBVIOUS
  <2>2. QED
    BY <2>1 DEF Max
<1>2. Len(Symbols) = 9 /\ AmdFiles = 7 /\ KgslFiles = 3 /\ Len(Rows) = 7
  BY DEF Symbols, AmdFiles, KgslFiles, Rows
<1>3. /\ HwmonMax \in Nat /\ HwmonMax > 0 /\ ZoneMax \in Nat /\ ZoneMax > 0
      /\ CpuMax \in Nat /\ CpuMax > 0 /\ InputMax \in Nat /\ InputMax > 0
      /\ BoardMax \in Nat /\ BoardMax > 0 /\ ListMax \in Nat /\ ListMax > 0
  BY LimitAssumption
<1>4. CpuHwmonMax \in Nat /\ CpuHwmonMax > 0 /\ CpuHwmonMax <= HwmonMax
  BY LimitAssumption
<1> DEFINE k == Max({HwmonMax, ZoneMax, CpuMax})
<1>5. k \in Nat /\ k >= HwmonMax /\ k >= ZoneMax /\ k >= CpuMax
  BY <1>1, <1>3
<1> HIDE DEF k
<1>6. Index = 0 .. k
  BY DEF Index, k
<1>7. Max(0 .. k) = k
  BY <1>5 DEF Max
<1>8. QED
  BY <1>1, <1>2, <1>3, <1>4, <1>5, <1>6, <1>7 DEF MaxH, MaxI, MaxL

LEMMA IndexRange == Index = 0 .. MaxH
<1> DEFINE k == Max({HwmonMax, ZoneMax, CpuMax})
<1>1. k \in Nat
  <2>1. \E x \in {HwmonMax, ZoneMax, CpuMax} : \A y \in {HwmonMax, ZoneMax, CpuMax} : x >= y
    BY Limits
  <2>2. k \in {HwmonMax, ZoneMax, CpuMax}
    BY <2>1 DEF Max
  <2>3. QED
    BY <2>2, Limits
<1> HIDE DEF k
<1>2. Index = 0 .. k
  BY DEF Index, k
<1>3. Max(0 .. k) = k
  BY <1>1 DEF Max
<1>4. QED
  BY <1>2, <1>3 DEF MaxH

\* Not in nvml_load, nor at the functions it looks up.
Calm(m) == m.pc \notin LoadingLocs \cup {"nvml_device", "nvml_row", "crashed"}

LEMMA EmptyList ==
  ASSUME NEW m, m.list = <<>> PROVE IsSequence(m.list) /\ Len(m.list) = 0
BY DEF IsSequence

\* Where a reading begins.
LEMMA EntryPlaces ==
  ASSUME NEW r \in Names
  PROVE  /\ Entry[r] \in Locations
         /\ Entry[r] \notin LoadingLocs \cup {"nvml_device", "nvml_row", "crashed"}
         /\ Entry[r] \notin AtRest
         /\ \/ r = "cpu_temp" /\ Entry[r] = "cpu_name"
            \/ r = "clock" /\ Entry[r] = "clock"
            \/ r = "max_clock" /\ Entry[r] = "max_clock"
            \/ r \in {"temp", "fan", "in"} /\ Entry[r] = "board_name"
            \/ r = "gpu" /\ Entry[r] = "nvml_check"
            \/ r = "nvme" /\ Entry[r] = "nvme_name"
            \/ r = "zones" /\ Entry[r] = "zone_type"
            \/ r = "load" /\ Entry[r] = "load_first"
            \/ r \in OneFile /\ Entry[r] = r
<1>1. \/ r = "cpu_temp" /\ Entry[r] = "cpu_name"
      \/ r = "clock" /\ Entry[r] = "clock"
      \/ r = "max_clock" /\ Entry[r] = "max_clock"
      \/ r \in {"temp", "fan", "in"} /\ Entry[r] = "board_name"
      \/ r = "gpu" /\ Entry[r] = "nvml_check"
      \/ r = "nvme" /\ Entry[r] = "nvme_name"
      \/ r = "zones" /\ Entry[r] = "zone_type"
      \/ r = "load" /\ Entry[r] = "load_first"
      \/ r \in OneFile /\ Entry[r] = r
  <2>1. /\ Entry["cpu_temp"] = "cpu_name" /\ Entry["clock"] = "clock"
        /\ Entry["max_clock"] = "max_clock" /\ Entry["temp"] = "board_name"
        /\ Entry["fan"] = "board_name" /\ Entry["in"] = "board_name"
        /\ Entry["gpu"] = "nvml_check" /\ Entry["nvme"] = "nvme_name"
        /\ Entry["smart"] = "smart" /\ Entry["zones"] = "zone_type"
        /\ Entry["load"] = "load_first" /\ Entry["memory"] = "memory"
        /\ Entry["uptime"] = "uptime" /\ Entry["identity"] = "identity"
    BY DEF Entry
  <2>2. QED
    BY <2>1 DEF Names, OneFile
<1> DEFINE e == Entry[r]
<1> HIDE DEF e
<1>2. e \in {"cpu_name", "clock", "max_clock", "board_name", "nvml_check", "nvme_name", "zone_type",
             "load_first"} \cup OneFile
  BY <1>1 DEF e
<1>3. e \in Locations /\ e \notin LoadingLocs \cup {"nvml_device", "nvml_row", "crashed"}
      /\ e \notin AtRest
  BY <1>2 DEF Locations, AtRest, HwmonLocs, ZoneLocs, BoardLocs, LoadingLocs, GpuLocs, SampleLocs,
              OneFile
<1>4. QED
  BY <1>1, <1>3 DEF e

\* To begin a reading, to end one, and to move on within one, keeps the
\* locals of the thread good.
LEMMA BeginGood ==
  ASSUME NEW m, DOMAIN m = Locals, m.call \in DOMAIN Readings, m.index \in Nat,
         m.todo \in Seq(Reading), DOMAIN m.data \subseteq Reading
  PROVE  Good(Begin(m)) /\ Calm(Begin(m))
<1> DEFINE b == Begin(m)
<1>1. /\ DOMAIN b = Locals
      /\ b.pc = IF m.todo = <<>> THEN "done" ELSE Entry[Head(m.todo)]
      /\ b.call = m.call /\ b.index = m.index /\ b.todo = m.todo /\ b.data = m.data
      /\ b.h = 0 /\ b.i = 0 /\ b.best = {} /\ b.list = <<>>
  BY BeginFields
<1> SUFFICES Good(b) /\ Calm(b)
  OBVIOUS
<1> HIDE DEF b
<1>2. IsSequence(b.list) /\ Len(b.list) = 0
  BY <1>1, EmptyList
<1>3. b.best \in SUBSET Int /\ Cardinality(b.best) <= 1
  BY <1>1, FS_EmptySet
<1>4. /\ HwmonMax > 0 /\ ZoneMax > 0 /\ CpuMax > 0 /\ ListMax > 0 /\ CpuHwmonMax > 0
      /\ MaxH > 0
      /\ 0 <= MaxI /\ 0 <= MaxL
      /\ 0 <= BoardMax
  BY Limits
<1>5. CASE m.todo = <<>>
  <2>1. b.pc = "done"
    BY <1>1, <1>5
  <2>2. QED
    BY <1>1, <1>2, <1>3, <1>4, <1>5, <2>1
    DEF Good, FieldsOf, Place, Bounded, Calm, Locations, AtRest, HwmonLocs, ZoneLocs, BoardLocs,
        LoadingLocs, GpuLocs, SampleLocs, OneFile
<1>6. CASE m.todo # <<>>
  <2>1. Head(m.todo) \in Names
    BY <1>6, EveryReading
  <2>2. b.pc = Entry[Head(b.todo)] /\ b.todo # <<>> /\ Head(b.todo) \in Names
    BY <1>1, <1>6, <2>1
  <2>3. b.pc \in Locations
    BY <2>2, EntryPlaces
  <2>4. Place(b)
    BY <1>1, <1>2, <1>4, <2>2, EntryPlaces
    DEF Place, AtRest, HwmonLocs, ZoneLocs, BoardLocs, LoadingLocs, GpuLocs, SampleLocs, OneFile
  <2>5. Calm(b)
    BY <2>2, EntryPlaces DEF Calm
  <2>6. QED
    BY <1>1, <1>2, <1>3, <1>4, <2>3, <2>4, <2>5 DEF Good, FieldsOf, Bounded
<1>7. QED
  BY <1>5, <1>6
\* A reading is in turn: the locals between two locations.
InTurn(m, R) ==
  /\ FieldsOf(m) /\ Bounded(m)
  /\ m.todo # <<>> /\ Head(m.todo) \in R

LEMMA DoneGood ==
  ASSUME NEW m, NEW v, FieldsOf(m), m.todo # <<>>
  PROVE  Good(Done(m, v)) /\ Calm(Done(m, v))
<1> DEFINE w == IF m.call = "hwsense_read_all" THEN Stored(Head(m.todo), v, fs) ELSE v
           n == [m EXCEPT !.data = With(@, Head(m.todo), w), !.todo = Tail(@)]
<1>1. /\ DOMAIN n = Locals /\ n.call = m.call /\ n.index = m.index /\ n.todo = Tail(m.todo)
      /\ n.data = With(m.data, Head(m.todo), w)
  BY DEF FieldsOf, Locals
<1>2. Done(m, v) = Begin(n)
  BY DEF Done
<1> HIDE DEF n, w
<1>3. Head(m.todo) \in Reading /\ Tail(m.todo) \in Seq(Reading)
  BY DEF FieldsOf
<1>4. DOMAIN n.data \subseteq Reading
  BY <1>1, <1>3 DEF With, FieldsOf
<1>5. n.call \in DOMAIN Readings /\ n.index \in Nat /\ n.todo \in Seq(Reading)
  BY <1>1, <1>3 DEF FieldsOf
<1>6. QED
  BY <1>1, <1>2, <1>4, <1>5, BeginGood


\* n differs from m in no other locals than those of F.
Kept(n, m, F) == DOMAIN n = Locals /\ \A f \in Locals \ F : n[f] = m[f]

\* The locals that say where a reading is.
Moved == {"pc", "h", "i", "seen", "type", "best", "vals"}

LEMMA MoveGood ==
  ASSUME NEW m, NEW n, FieldsOf(m), Bounded(m), Kept(n, m, Moved),
         n.best = m.best \/ n.best = {},
         n.h = m.h \/ n.h \in 0 .. MaxH - 1,
         n.i = m.i \/ n.i \in 0 .. MaxI,
         n.pc \in Locations, Place(n)
  PROVE  Good(n)
<1>1. n.best \in SUBSET Int /\ Cardinality(n.best) <= 1
  <2>1. CASE n.best = {}
    BY <2>1, FS_EmptySet
  <2>2. CASE n.best = m.best
    BY <2>2 DEF FieldsOf
  <2>3. QED
    BY <2>1, <2>2
<1>2. n.h \in Nat /\ n.h < MaxH
  BY Limits DEF FieldsOf, Bounded
<1>3. n.i \in Nat /\ n.i <= MaxI
  BY Limits DEF FieldsOf, Bounded
<1>4. /\ DOMAIN n = Locals /\ n.call = m.call /\ n.index = m.index /\ n.todo = m.todo
      /\ n.data = m.data /\ n.list = m.list
  BY DEF Kept, Locals, Moved
<1>5. QED
  BY <1>1, <1>2, <1>3, <1>4 DEF FieldsOf, Good, Bounded

\* The locals that hold what a reading has found.
Found == {"seen", "type", "best", "list", "vals"}

\* What a reading has found may change, within bounds, before it moves on.
LEMMA RefillGood ==
  ASSUME NEW m, NEW k, NEW R, InTurn(m, R), Kept(k, m, Found),
         k.best \in SUBSET Int, Cardinality(k.best) <= 1,
         IsSequence(k.list), Len(k.list) <= MaxL
  PROVE  InTurn(k, R) /\ k.pc = m.pc /\ k.h = m.h /\ k.i = m.i /\ k.todo = m.todo
           /\ k.index = m.index
<1>1. /\ DOMAIN k = Locals /\ k.pc = m.pc /\ k.call = m.call /\ k.index = m.index
      /\ k.todo = m.todo /\ k.data = m.data /\ k.h = m.h /\ k.i = m.i
  BY DEF Kept, Locals, Found
<1>2. QED
  BY <1>1 DEF InTurn, FieldsOf, Bounded

LEMMA AppendGood ==
  ASSUME NEW s, IsSequence(s), NEW e
  PROVE  /\ IsSequence(Append(s, e)) /\ Len(s) \in Nat /\ Len(Append(s, e)) = Len(s) + 1
         /\ Append(s, e) # <<>>
<1>1. s \in Seq(Range(s) \cup {e})
  BY DEF IsSequence
<1>2. Append(s, e) \in Seq(Range(s) \cup {e}) /\ Len(Append(s, e)) = Len(s) + 1 /\ Len(s) \in Nat
  BY <1>1
<1>3. Append(s, e) \in Seq(Range(Append(s, e)))
  <2> DEFINE q == Append(s, e)
  <2>0. q \in Seq(Range(s) \cup {e})
    BY <1>2
  <2> HIDE DEF q
  <2>1. q \in [1 .. Len(q) -> Range(s) \cup {e}] /\ Len(q) \in Nat /\ DOMAIN q = 1 .. Len(q)
    BY <2>0
  <2>2. q \in [1 .. Len(q) -> Range(q)]
    BY <2>1 DEF Range
  <2>3. q \in Seq(Range(q))
    BY <2>1, <2>2
  <2>4. QED
    BY <2>3 DEF q
<1>4. QED
  BY <1>2, <1>3 DEF IsSequence

\* One lemma for each place a reading goes to from several actions.
LEMMA ToZonesGood ==
  ASSUME NEW m, InTurn(m, {"cpu_temp", "gpu"}),
         m.list = <<>>
  PROVE  Good(ToZones(m)) /\ Calm(ToZones(m))
<1> DEFINE n == ToZones(m)
<1>0. /\ DOMAIN m = Locals /\ m.todo # <<>> /\ Head(m.todo) \in {"cpu_temp", "gpu"}
      /\ FieldsOf(m) /\ Bounded(m) /\ m.h \in Nat /\ m.i \in Nat /\ Len(m.list) = 0
  BY EmptyList DEF InTurn, FieldsOf
<1>1. Good(n) /\ Calm(n)
  <2>1. Kept(n, m, Moved) /\ n.pc = "zone_type" /\ n.h = 0 /\ n.i = m.i /\ n.best = {}
    BY <1>0 DEF ToZones, Kept, Moved, Locals
  <2> HIDE DEF n
  <2>2. n.todo = m.todo /\ n.list = m.list
    BY <2>1 DEF Kept, Moved, Locals
  <2>3. n.pc \in Locations /\ Calm(n)
    BY <2>1 DEF Locations, AtRest, HwmonLocs, ZoneLocs, BoardLocs, LoadingLocs,
              GpuLocs, SampleLocs, OneFile, Calm
  <2>4. Place(n)
    BY <1>0, <2>1, <2>2, Limits
    DEF Place, AtRest, HwmonLocs, ZoneLocs, BoardLocs, LoadingLocs, GpuLocs,
        SampleLocs, OneFile, FieldsOf, Bounded
  <2>5. (n.h = m.h \/ n.h \in 0 .. MaxH - 1) /\ (n.i = m.i \/ n.i \in 0 .. MaxI)
    BY <1>0, <2>1, Limits
  <2>6. Good(n) /\ Calm(n)
    BY <1>0, <2>1, <2>3, <2>4, <2>5, MoveGood
  <2>7. QED
    BY <2>6 DEF n
<1>2. QED
  BY <1>1

LEMMA NextCpuChipGood ==
  ASSUME NEW m, InTurn(m, {"cpu_temp"}),
         m.list = <<>>,
         m.h < CpuHwmonMax
  PROVE  Good(NextCpuChip(m)) /\ Calm(NextCpuChip(m))
<1> DEFINE n == NextCpuChip(m)
<1>0. /\ DOMAIN m = Locals /\ m.todo # <<>> /\ Head(m.todo) \in {"cpu_temp"}
      /\ FieldsOf(m) /\ Bounded(m) /\ m.h \in Nat /\ m.i \in Nat /\ Len(m.list) = 0
  BY EmptyList DEF InTurn, FieldsOf
<1>1. CASE m.h + 1 < CpuHwmonMax
  <2>1. Kept(n, m, Moved) /\ n.pc = "cpu_name" /\ n.h = m.h + 1 /\ n.i = m.i /\ n.best = m.best
    BY <1>0, <1>1 DEF NextCpuChip, Kept, Moved, Locals
  <2> HIDE DEF n
  <2>2. n.todo = m.todo /\ n.list = m.list
    BY <2>1 DEF Kept, Moved, Locals
  <2>3. n.pc \in Locations /\ Calm(n)
    BY <2>1 DEF Locations, AtRest, HwmonLocs, ZoneLocs, BoardLocs, LoadingLocs,
              GpuLocs, SampleLocs, OneFile, Calm
  <2>4. Place(n)
    BY <1>0, <1>1, <2>1, <2>2, Limits
    DEF Place, AtRest, HwmonLocs, ZoneLocs, BoardLocs, LoadingLocs, GpuLocs,
        SampleLocs, OneFile, FieldsOf, Bounded
  <2>5. (n.h = m.h \/ n.h \in 0 .. MaxH - 1) /\ (n.i = m.i \/ n.i \in 0 .. MaxI)
    BY <1>0, <1>1, <2>1, Limits
  <2>6. Good(n) /\ Calm(n)
    BY <1>0, <1>1, <2>1, <2>3, <2>4, <2>5, MoveGood
  <2>7. QED
    BY <2>6 DEF n
<1>2. CASE ~(m.h + 1 < CpuHwmonMax) /\ vendor = "I"
  <2>1. Kept(n, m, Moved) /\ n.pc = "msr_target" /\ n.h = m.h /\ n.i = m.i /\ n.best = m.best
    BY <1>0, <1>2 DEF NextCpuChip, Kept, Moved, Locals
  <2> HIDE DEF n
  <2>2. n.todo = m.todo /\ n.list = m.list
    BY <2>1 DEF Kept, Moved, Locals
  <2>3. n.pc \in Locations /\ Calm(n)
    BY <2>1 DEF Locations, AtRest, HwmonLocs, ZoneLocs, BoardLocs, LoadingLocs,
              GpuLocs, SampleLocs, OneFile, Calm
  <2>4. Place(n)
    BY <1>0, <1>2, <2>1, <2>2, Limits
    DEF Place, AtRest, HwmonLocs, ZoneLocs, BoardLocs, LoadingLocs, GpuLocs,
        SampleLocs, OneFile, FieldsOf, Bounded
  <2>5. (n.h = m.h \/ n.h \in 0 .. MaxH - 1) /\ (n.i = m.i \/ n.i \in 0 .. MaxI)
    BY <1>0, <1>2, <2>1, Limits
  <2>6. Good(n) /\ Calm(n)
    BY <1>0, <1>2, <2>1, <2>3, <2>4, <2>5, MoveGood
  <2>7. QED
    BY <2>6 DEF n
<1>3. CASE ~(m.h + 1 < CpuHwmonMax) /\ vendor # "I"
  <2>1. n = ToZones(m)
    BY <1>3 DEF NextCpuChip
  <2>2. QED
    BY <1>0, <1>3, <2>1, ToZonesGood DEF InTurn
<1>4. QED
  BY <1>1, <1>2, <1>3

LEMMA NextCpuInputGood ==
  ASSUME NEW m, InTurn(m, {"cpu_temp"}),
         m.list = <<>>,
         m.h < CpuHwmonMax,
         m.i >= 1
  PROVE  Good(NextCpuInput(m)) /\ Calm(NextCpuInput(m))
<1> DEFINE n == NextCpuInput(m)
<1>0. /\ DOMAIN m = Locals /\ m.todo # <<>> /\ Head(m.todo) \in {"cpu_temp"}
      /\ FieldsOf(m) /\ Bounded(m) /\ m.h \in Nat /\ m.i \in Nat /\ Len(m.list) = 0
  BY EmptyList DEF InTurn, FieldsOf
<1>1. CASE m.i < InputMax
  <2>1. Kept(n, m, Moved) /\ n.pc = "cpu_label" /\ n.h = m.h /\ n.i = m.i + 1 /\ n.best = m.best
    BY <1>0, <1>1 DEF NextCpuInput, Kept, Moved, Locals
  <2> HIDE DEF n
  <2>2. n.todo = m.todo /\ n.list = m.list
    BY <2>1 DEF Kept, Moved, Locals
  <2>3. n.pc \in Locations /\ Calm(n)
    BY <2>1 DEF Locations, AtRest, HwmonLocs, ZoneLocs, BoardLocs, LoadingLocs,
              GpuLocs, SampleLocs, OneFile, Calm
  <2>4. Place(n)
    BY <1>0, <1>1, <2>1, <2>2, Limits
    DEF Place, AtRest, HwmonLocs, ZoneLocs, BoardLocs, LoadingLocs, GpuLocs,
        SampleLocs, OneFile, FieldsOf, Bounded
  <2>5. (n.h = m.h \/ n.h \in 0 .. MaxH - 1) /\ (n.i = m.i \/ n.i \in 0 .. MaxI)
    BY <1>0, <1>1, <2>1, Limits
  <2>6. Good(n) /\ Calm(n)
    BY <1>0, <1>1, <2>1, <2>3, <2>4, <2>5, MoveGood
  <2>7. QED
    BY <2>6 DEF n
<1>2. CASE ~(m.i < InputMax) /\ m.best # {}
  <2>1. n = Done(m, m.best)
    BY <1>2 DEF NextCpuInput
  <2>2. QED
    BY <1>0, <1>2, <2>1, DoneGood
<1>3. CASE ~(m.i < InputMax) /\ m.best = {}
  <2>1. n = NextCpuChip(m)
    BY <1>3 DEF NextCpuInput
  <2>2. QED
    BY <1>0, <1>3, <2>1, NextCpuChipGood DEF InTurn
<1>4. QED
  BY <1>1, <1>2, <1>3

LEMMA AfterZonesGood ==
  ASSUME NEW m, InTurn(m, {"cpu_temp", "gpu", "zones"})
  PROVE  Good(AfterZones(m)) /\ Calm(AfterZones(m))
<1> DEFINE n == AfterZones(m)
<1>0. /\ DOMAIN m = Locals /\ m.todo # <<>> /\ Head(m.todo) \in {"cpu_temp", "gpu", "zones"}
      /\ FieldsOf(m) /\ Bounded(m) /\ m.h \in Nat /\ m.i \in Nat
  BY DEF InTurn, FieldsOf
<1>1. CASE Head(m.todo) = "cpu_temp"
  <2>1. n = Done(m, m.best)
    BY <1>1 DEF AfterZones
  <2>2. QED
    BY <1>0, <1>1, <2>1, DoneGood
<1>2. CASE Head(m.todo) = "gpu"
  <2>1. Kept(n, m, Moved) /\ n.pc = "kgsl" /\ n.h = m.h /\ n.i = 1 /\ n.best = m.best
    BY <1>0, <1>2 DEF AfterZones, Kept, Moved, Locals
  <2> HIDE DEF n
  <2>2. n.todo = m.todo /\ n.list = m.list
    BY <2>1 DEF Kept, Moved, Locals
  <2>3. n.pc \in Locations /\ Calm(n)
    BY <2>1 DEF Locations, AtRest, HwmonLocs, ZoneLocs, BoardLocs, LoadingLocs,
              GpuLocs, SampleLocs, OneFile, Calm
  <2>4. Place(n)
    BY <1>0, <1>2, <2>1, <2>2, Limits
    DEF Place, AtRest, HwmonLocs, ZoneLocs, BoardLocs, LoadingLocs, GpuLocs,
        SampleLocs, OneFile, FieldsOf, Bounded
  <2>5. (n.h = m.h \/ n.h \in 0 .. MaxH - 1) /\ (n.i = m.i \/ n.i \in 0 .. MaxI)
    BY <1>0, <1>2, <2>1, Limits
  <2>6. Good(n) /\ Calm(n)
    BY <1>0, <1>2, <2>1, <2>3, <2>4, <2>5, MoveGood
  <2>7. QED
    BY <2>6 DEF n
<1>3. CASE Head(m.todo) = "zones"
  <2>1. n = Done(m, m.list)
    BY <1>3 DEF AfterZones
  <2>2. QED
    BY <1>0, <1>3, <2>1, DoneGood
<1>4. QED
  BY <1>0, <1>1, <1>2, <1>3

LEMMA NextZoneGood ==
  ASSUME NEW m, InTurn(m, {"cpu_temp", "gpu", "zones"}),
         m.h < ZoneMax
  PROVE  Good(NextZone(m)) /\ Calm(NextZone(m))
<1> DEFINE n == NextZone(m)
<1>0. /\ DOMAIN m = Locals /\ m.todo # <<>> /\ Head(m.todo) \in {"cpu_temp", "gpu", "zones"}
      /\ FieldsOf(m) /\ Bounded(m) /\ m.h \in Nat /\ m.i \in Nat
  BY DEF InTurn, FieldsOf
<1>1. CASE m.h + 1 < ZoneMax /\ Len(m.list) < ListMax
  <2>1. Kept(n, m, Moved) /\ n.pc = "zone_type" /\ n.h = m.h + 1 /\ n.i = m.i /\ n.best = m.best
    BY <1>0, <1>1 DEF NextZone, Kept, Moved, Locals
  <2> HIDE DEF n
  <2>2. n.todo = m.todo /\ n.list = m.list
    BY <2>1 DEF Kept, Moved, Locals
  <2>3. n.pc \in Locations /\ Calm(n)
    BY <2>1 DEF Locations, AtRest, HwmonLocs, ZoneLocs, BoardLocs, LoadingLocs,
              GpuLocs, SampleLocs, OneFile, Calm
  <2>4. Place(n)
    BY <1>0, <1>1, <2>1, <2>2, Limits
    DEF Place, AtRest, HwmonLocs, ZoneLocs, BoardLocs, LoadingLocs, GpuLocs,
        SampleLocs, OneFile, FieldsOf, Bounded
  <2>5. (n.h = m.h \/ n.h \in 0 .. MaxH - 1) /\ (n.i = m.i \/ n.i \in 0 .. MaxI)
    BY <1>0, <1>1, <2>1, Limits
  <2>6. Good(n) /\ Calm(n)
    BY <1>0, <1>1, <2>1, <2>3, <2>4, <2>5, MoveGood
  <2>7. QED
    BY <2>6 DEF n
<1>2. CASE ~(m.h + 1 < ZoneMax /\ Len(m.list) < ListMax)
  <2>1. n = AfterZones(m)
    BY <1>2 DEF NextZone
  <2>2. QED
    BY <1>0, <1>2, <2>1, AfterZonesGood DEF InTurn
<1>3. QED
  BY <1>1, <1>2

LEMMA NextDriveGood ==
  ASSUME NEW m, InTurn(m, {"nvme"}),
         m.h < HwmonMax
  PROVE  Good(NextDrive(m)) /\ Calm(NextDrive(m))
<1> DEFINE n == NextDrive(m)
<1>0. /\ DOMAIN m = Locals /\ m.todo # <<>> /\ Head(m.todo) \in {"nvme"}
      /\ FieldsOf(m) /\ Bounded(m) /\ m.h \in Nat /\ m.i \in Nat
  BY DEF InTurn, FieldsOf
<1>1. CASE m.h + 1 < HwmonMax
  <2>1. Kept(n, m, Moved) /\ n.pc = "nvme_name" /\ n.h = m.h + 1 /\ n.i = m.i /\ n.best = m.best
    BY <1>0, <1>1 DEF NextDrive, Kept, Moved, Locals
  <2> HIDE DEF n
  <2>2. n.todo = m.todo /\ n.list = m.list
    BY <2>1 DEF Kept, Moved, Locals
  <2>3. n.pc \in Locations /\ Calm(n)
    BY <2>1 DEF Locations, AtRest, HwmonLocs, ZoneLocs, BoardLocs, LoadingLocs,
              GpuLocs, SampleLocs, OneFile, Calm
  <2>4. Place(n)
    BY <1>0, <1>1, <2>1, <2>2, Limits
    DEF Place, AtRest, HwmonLocs, ZoneLocs, BoardLocs, LoadingLocs, GpuLocs,
        SampleLocs, OneFile, FieldsOf, Bounded
  <2>5. (n.h = m.h \/ n.h \in 0 .. MaxH - 1) /\ (n.i = m.i \/ n.i \in 0 .. MaxI)
    BY <1>0, <1>1, <2>1, Limits
  <2>6. Good(n) /\ Calm(n)
    BY <1>0, <1>1, <2>1, <2>3, <2>4, <2>5, MoveGood
  <2>7. QED
    BY <2>6 DEF n
<1>2. CASE ~(m.h + 1 < HwmonMax)
  <2>1. n = Done(m, {Round(x) : x \in m.best})
    BY <1>2 DEF NextDrive
  <2>2. QED
    BY <1>0, <1>2, <2>1, DoneGood
<1>3. QED
  BY <1>1, <1>2

LEMMA NextChipGood ==
  ASSUME NEW m, InTurn(m, {"temp", "fan", "in"}),
         m.h < HwmonMax,
         Len(m.list) <= BoardMax
  PROVE  Good(NextChip(m)) /\ Calm(NextChip(m))
<1> DEFINE n == NextChip(m)
<1>0. /\ DOMAIN m = Locals /\ m.todo # <<>> /\ Head(m.todo) \in {"temp", "fan", "in"}
      /\ FieldsOf(m) /\ Bounded(m) /\ m.h \in Nat /\ m.i \in Nat
  BY DEF InTurn, FieldsOf
<1>1. CASE m.h + 1 < HwmonMax
  <2>1. Kept(n, m, Moved) /\ n.pc = "board_name" /\ n.h = m.h + 1 /\ n.i = m.i /\ n.best = m.best
    BY <1>0, <1>1 DEF NextChip, Kept, Moved, Locals
  <2> HIDE DEF n
  <2>2. n.todo = m.todo /\ n.list = m.list
    BY <2>1 DEF Kept, Moved, Locals
  <2>3. n.pc \in Locations /\ Calm(n)
    BY <2>1 DEF Locations, AtRest, HwmonLocs, ZoneLocs, BoardLocs, LoadingLocs,
              GpuLocs, SampleLocs, OneFile, Calm
  <2>4. Place(n)
    BY <1>0, <1>1, <2>1, <2>2, Limits
    DEF Place, AtRest, HwmonLocs, ZoneLocs, BoardLocs, LoadingLocs, GpuLocs,
        SampleLocs, OneFile, FieldsOf, Bounded
  <2>5. (n.h = m.h \/ n.h \in 0 .. MaxH - 1) /\ (n.i = m.i \/ n.i \in 0 .. MaxI)
    BY <1>0, <1>1, <2>1, Limits
  <2>6. Good(n) /\ Calm(n)
    BY <1>0, <1>1, <2>1, <2>3, <2>4, <2>5, MoveGood
  <2>7. QED
    BY <2>6 DEF n
<1>2. CASE ~(m.h + 1 < HwmonMax) /\ m.list # <<>>
  <2>1. n = Done(m, {m.list})
    BY <1>2 DEF NextChip
  <2>2. QED
    BY <1>0, <1>2, <2>1, DoneGood
<1>3. CASE ~(m.h + 1 < HwmonMax) /\ m.list = <<>>
  <2>1. Kept(n, m, Moved) /\ n.pc = "board_chip" /\ n.h = m.h /\ n.i = m.i /\ n.best = m.best
    BY <1>0, <1>3 DEF NextChip, Kept, Moved, Locals
  <2> HIDE DEF n
  <2>2. n.todo = m.todo /\ n.list = m.list
    BY <2>1 DEF Kept, Moved, Locals
  <2>3. n.pc \in Locations /\ Calm(n)
    BY <2>1 DEF Locations, AtRest, HwmonLocs, ZoneLocs, BoardLocs, LoadingLocs,
              GpuLocs, SampleLocs, OneFile, Calm
  <2>4. Place(n)
    BY <1>0, <1>3, <2>1, <2>2, Limits
    DEF Place, AtRest, HwmonLocs, ZoneLocs, BoardLocs, LoadingLocs, GpuLocs,
        SampleLocs, OneFile, FieldsOf, Bounded
  <2>5. (n.h = m.h \/ n.h \in 0 .. MaxH - 1) /\ (n.i = m.i \/ n.i \in 0 .. MaxI)
    BY <1>0, <1>3, <2>1, Limits
  <2>6. Good(n) /\ Calm(n)
    BY <1>0, <1>3, <2>1, <2>3, <2>4, <2>5, MoveGood
  <2>7. QED
    BY <2>6 DEF n
<1>4. QED
  BY <1>1, <1>2, <1>3

LEMMA ToMobileGood ==
  ASSUME NEW m, InTurn(m, {"gpu"}),
         m.list = <<>>
  PROVE  Good(ToMobile(m)) /\ Calm(ToMobile(m))
<1> DEFINE n == ToMobile(m)
<1>0. /\ DOMAIN m = Locals /\ m.todo # <<>> /\ Head(m.todo) \in {"gpu"}
      /\ FieldsOf(m) /\ Bounded(m) /\ m.h \in Nat /\ m.i \in Nat /\ Len(m.list) = 0
  BY EmptyList DEF InTurn, FieldsOf
<1>1. CASE m.index = 0
  <2>1. n = ToZones(m)
    BY <1>1 DEF ToMobile
  <2>2. QED
    BY <1>0, <1>1, <2>1, ToZonesGood DEF InTurn
<1>2. CASE m.index # 0
  <2>1. n = Done(m, {})
    BY <1>2 DEF ToMobile
  <2>2. QED
    BY <1>0, <1>2, <2>1, DoneGood
<1>3. QED
  BY <1>1, <1>2

LEMMA ToAmdGood ==
  ASSUME NEW m, InTurn(m, {"gpu"}),
         m.list = <<>>,
         m.best = {}
  PROVE  Good(ToAmd(m)) /\ Calm(ToAmd(m))
<1> DEFINE n == ToAmd(m)
<1>0. /\ DOMAIN m = Locals /\ m.todo # <<>> /\ Head(m.todo) \in {"gpu"}
      /\ FieldsOf(m) /\ Bounded(m) /\ m.h \in Nat /\ m.i \in Nat /\ Len(m.list) = 0
  BY EmptyList DEF InTurn, FieldsOf
<1>1. Good(n) /\ Calm(n)
  <2>1. Kept(n, m, Moved) /\ n.pc = "amd_name" /\ n.h = 0 /\ n.i = m.i /\ n.best = m.best
    BY <1>0 DEF ToAmd, Kept, Moved, Locals
  <2> HIDE DEF n
  <2>2. n.todo = m.todo /\ n.list = m.list
    BY <2>1 DEF Kept, Moved, Locals
  <2>3. n.pc \in Locations /\ Calm(n)
    BY <2>1 DEF Locations, AtRest, HwmonLocs, ZoneLocs, BoardLocs, LoadingLocs,
              GpuLocs, SampleLocs, OneFile, Calm
  <2>4. Place(n)
    BY <1>0, <2>1, <2>2, Limits
    DEF Place, AtRest, HwmonLocs, ZoneLocs, BoardLocs, LoadingLocs, GpuLocs,
        SampleLocs, OneFile, FieldsOf, Bounded
  <2>5. (n.h = m.h \/ n.h \in 0 .. MaxH - 1) /\ (n.i = m.i \/ n.i \in 0 .. MaxI)
    BY <1>0, <2>1, Limits
  <2>6. Good(n) /\ Calm(n)
    BY <1>0, <2>1, <2>3, <2>4, <2>5, MoveGood
  <2>7. QED
    BY <2>6 DEF n
<1>2. QED
  BY <1>1

LEMMA NextCardGood ==
  ASSUME NEW m, InTurn(m, {"gpu"}),
         m.list = <<>>,
         m.best = {},
         m.h < HwmonMax
  PROVE  Good(NextCard(m)) /\ Calm(NextCard(m))
<1> DEFINE n == NextCard(m)
<1>0. /\ DOMAIN m = Locals /\ m.todo # <<>> /\ Head(m.todo) \in {"gpu"}
      /\ FieldsOf(m) /\ Bounded(m) /\ m.h \in Nat /\ m.i \in Nat /\ Len(m.list) = 0
  BY EmptyList DEF InTurn, FieldsOf
<1>1. CASE m.h + 1 < HwmonMax
  <2>1. Kept(n, m, Moved) /\ n.pc = "amd_name" /\ n.h = m.h + 1 /\ n.i = m.i /\ n.best = m.best
    BY <1>0, <1>1 DEF NextCard, Kept, Moved, Locals
  <2> HIDE DEF n
  <2>2. n.todo = m.todo /\ n.list = m.list
    BY <2>1 DEF Kept, Moved, Locals
  <2>3. n.pc \in Locations /\ Calm(n)
    BY <2>1 DEF Locations, AtRest, HwmonLocs, ZoneLocs, BoardLocs, LoadingLocs,
              GpuLocs, SampleLocs, OneFile, Calm
  <2>4. Place(n)
    BY <1>0, <1>1, <2>1, <2>2, Limits
    DEF Place, AtRest, HwmonLocs, ZoneLocs, BoardLocs, LoadingLocs, GpuLocs,
        SampleLocs, OneFile, FieldsOf, Bounded
  <2>5. (n.h = m.h \/ n.h \in 0 .. MaxH - 1) /\ (n.i = m.i \/ n.i \in 0 .. MaxI)
    BY <1>0, <1>1, <2>1, Limits
  <2>6. Good(n) /\ Calm(n)
    BY <1>0, <1>1, <2>1, <2>3, <2>4, <2>5, MoveGood
  <2>7. QED
    BY <2>6 DEF n
<1>2. CASE ~(m.h + 1 < HwmonMax)
  <2>1. n = ToMobile(m)
    BY <1>2 DEF NextCard
  <2>2. QED
    BY <1>0, <1>2, <2>1, ToMobileGood DEF InTurn
<1>3. QED
  BY <1>1, <1>2


\* Thread t takes a step of a reading other than NVML's.
Taken(t) ==
  \E n : Step(t, n) /\ Good(n) /\ Calm(n) /\ Calm(me[t]) /\ me[t].pc \notin AtRest

\* One lemma for each action of a reading: it leads thread t from a good
\* state to one, away from nvml_load.
LEMMA DoneTaken ==
  ASSUME NEW t \in Thread, NEW v, Typed, me[t].pc \notin AtRest, Calm(me[t]),
         Step(t, Done(me[t], v))
  PROVE  Taken(t)
<1>1. FieldsOf(me[t]) /\ me[t].todo # <<>>
  BY DEF Typed, Good, Place
<1>2. Good(Done(me[t], v)) /\ Calm(Done(me[t], v))
  BY <1>1, DoneGood
<1>3. QED
  BY <1>2 DEF Taken

LEMMA CpuNameTaken ==
  ASSUME NEW t \in Thread, Typed, CpuName(t)
  PROVE  Taken(t)
<1> DEFINE m == me[t]
<1>a. Good(m) /\ m.pc = "cpu_name"
  BY DEF CpuName, At, Typed
<1>b. PICK n : Step(t, n) /\ ((n = [m EXCEPT !.pc = "cpu_label", !.i = 1])
        \/ (n = NextCpuChip(m)))
  BY Zenon DEF CpuName
<1> HIDE DEF m
<1>c. m.pc \notin AtRest /\ Calm(m) /\ m.todo # <<>> /\ FieldsOf(m) /\ Bounded(m) /\ Place(m)
  BY <1>a DEF Good, Place, Calm, LoadingLocs, AtRest
<1>0. /\ DOMAIN m = Locals /\ m.todo # <<>> /\ Head(m.todo) \in {"cpu_temp"}
      /\ FieldsOf(m) /\ Bounded(m) /\ m.h \in Nat /\ m.i \in Nat
      /\ m.h < CpuHwmonMax
      /\ m.list = <<>>
  BY <1>a, <1>c DEF FieldsOf, Place, AtRest, HwmonLocs, ZoneLocs, BoardLocs, LoadingLocs, GpuLocs,
     SampleLocs, OneFile
<1>l. Len(m.list) = 0
  BY <1>0, EmptyList
<1>1. Good(n) /\ Calm(n)
  <2>1. CASE n = [m EXCEPT !.pc = "cpu_label", !.i = 1]
    <3>1. Kept(n, m, Moved) /\ n.pc = "cpu_label" /\ n.h = m.h /\ n.i = 1 /\ n.best = m.best
      BY <1>0, <1>l, <2>1 DEF Kept, Moved, Locals
    <3>2. n.todo = m.todo /\ n.list = m.list
      BY <3>1 DEF Kept, Moved, Locals
    <3>3. n.pc \in Locations /\ Calm(n)
      BY <3>1 DEF Locations, AtRest, HwmonLocs, ZoneLocs, BoardLocs, LoadingLocs,
              GpuLocs, SampleLocs, OneFile, Calm
    <3>4. Place(n)
      BY <1>0, <1>l, <2>1, <3>1, <3>2, Limits
      DEF Place, AtRest, HwmonLocs, ZoneLocs, BoardLocs, LoadingLocs, GpuLocs,
        SampleLocs, OneFile, FieldsOf, Bounded
    <3>5. (n.h = m.h \/ n.h \in 0 .. MaxH - 1) /\ (n.i = m.i \/ n.i \in 0 .. MaxI)
      BY <1>0, <1>l, <2>1, <3>1, Limits
    <3>6. Good(n) /\ Calm(n)
      BY <1>0, <1>l, <2>1, <3>1, <3>3, <3>4, <3>5, MoveGood
    <3>7. QED
      BY <3>6
  <2>2. CASE n = NextCpuChip(m)
    BY <1>0, <1>l, <2>2, NextCpuChipGood DEF InTurn
  <2>3. QED
    BY <1>b, <2>1, <2>2
<1>2. QED
  BY <1>b, <1>c, <1>1 DEF Taken, m

LEMMA CpuLabelTaken ==
  ASSUME NEW t \in Thread, Typed, CpuLabel(t)
  PROVE  Taken(t)
<1> DEFINE m == me[t]
<1>a. Good(m) /\ m.pc = "cpu_label"
  BY DEF CpuLabel, At, Typed
<1>b. PICK n : Step(t, n) /\ ((\E x : n = [m EXCEPT !.pc = "cpu_input", !.type = x])
        \/ (n = NextCpuInput(m)))
  BY Zenon DEF CpuLabel
<1> HIDE DEF m
<1>c. m.pc \notin AtRest /\ Calm(m) /\ m.todo # <<>> /\ FieldsOf(m) /\ Bounded(m) /\ Place(m)
  BY <1>a DEF Good, Place, Calm, LoadingLocs, AtRest
<1>0. /\ DOMAIN m = Locals /\ m.todo # <<>> /\ Head(m.todo) \in {"cpu_temp"}
      /\ FieldsOf(m) /\ Bounded(m) /\ m.h \in Nat /\ m.i \in Nat
      /\ m.h < CpuHwmonMax
      /\ m.list = <<>>
      /\ m.i \in 1 .. InputMax
  BY <1>a, <1>c DEF FieldsOf, Place, AtRest, HwmonLocs, ZoneLocs, BoardLocs, LoadingLocs, GpuLocs,
     SampleLocs, OneFile
<1>l. Len(m.list) = 0
  BY <1>0, EmptyList
<1>1. Good(n) /\ Calm(n)
  <2>1. CASE \E x : n = [m EXCEPT !.pc = "cpu_input", !.type = x]
    <3>1. Kept(n, m, Moved) /\ n.pc = "cpu_input" /\ n.h = m.h /\ n.i = m.i /\ n.best = m.best
      BY <1>0, <1>l, <2>1 DEF Kept, Moved, Locals
    <3>2. n.todo = m.todo /\ n.list = m.list
      BY <3>1 DEF Kept, Moved, Locals
    <3>3. n.pc \in Locations /\ Calm(n)
      BY <3>1 DEF Locations, AtRest, HwmonLocs, ZoneLocs, BoardLocs, LoadingLocs,
              GpuLocs, SampleLocs, OneFile, Calm
    <3>4. Place(n)
      BY <1>0, <1>l, <2>1, <3>1, <3>2, Limits
      DEF Place, AtRest, HwmonLocs, ZoneLocs, BoardLocs, LoadingLocs, GpuLocs,
        SampleLocs, OneFile, FieldsOf, Bounded
    <3>5. (n.h = m.h \/ n.h \in 0 .. MaxH - 1) /\ (n.i = m.i \/ n.i \in 0 .. MaxI)
      BY <1>0, <1>l, <2>1, <3>1, Limits
    <3>6. Good(n) /\ Calm(n)
      BY <1>0, <1>l, <2>1, <3>1, <3>3, <3>4, <3>5, MoveGood
    <3>7. QED
      BY <3>6
  <2>2. CASE n = NextCpuInput(m)
    BY <1>0, <1>l, <2>2, NextCpuInputGood DEF InTurn
  <2>3. QED
    BY <1>b, <2>1, <2>2
<1>2. QED
  BY <1>b, <1>c, <1>1 DEF Taken, m

LEMMA MsrTargetTaken ==
  ASSUME NEW t \in Thread, Typed, MsrTarget(t)
  PROVE  Taken(t)
<1> DEFINE m == me[t]
<1>a. Good(m) /\ m.pc = "msr_target"
  BY DEF MsrTarget, At, Typed
<1>b. PICK n : Step(t, n) /\ ((\E x : n = [m EXCEPT !.pc = "msr_status", !.seen = x])
        \/ (n = ToZones(m)))
  BY Zenon DEF MsrTarget
<1> HIDE DEF m
<1>c. m.pc \notin AtRest /\ Calm(m) /\ m.todo # <<>> /\ FieldsOf(m) /\ Bounded(m) /\ Place(m)
  BY <1>a DEF Good, Place, Calm, LoadingLocs, AtRest
<1>0. /\ DOMAIN m = Locals /\ m.todo # <<>> /\ Head(m.todo) \in {"cpu_temp"}
      /\ FieldsOf(m) /\ Bounded(m) /\ m.h \in Nat /\ m.i \in Nat
      /\ m.list = <<>>
  BY <1>a, <1>c DEF FieldsOf, Place, AtRest, HwmonLocs, ZoneLocs, BoardLocs, LoadingLocs, GpuLocs,
     SampleLocs, OneFile
<1>l. Len(m.list) = 0
  BY <1>0, EmptyList
<1>1. Good(n) /\ Calm(n)
  <2>1. CASE \E x : n = [m EXCEPT !.pc = "msr_status", !.seen = x]
    <3>1. Kept(n, m, Moved) /\ n.pc = "msr_status" /\ n.h = m.h /\ n.i = m.i /\ n.best = m.best
      BY <1>0, <1>l, <2>1 DEF Kept, Moved, Locals
    <3>2. n.todo = m.todo /\ n.list = m.list
      BY <3>1 DEF Kept, Moved, Locals
    <3>3. n.pc \in Locations /\ Calm(n)
      BY <3>1 DEF Locations, AtRest, HwmonLocs, ZoneLocs, BoardLocs, LoadingLocs,
              GpuLocs, SampleLocs, OneFile, Calm
    <3>4. Place(n)
      BY <1>0, <1>l, <2>1, <3>1, <3>2, Limits
      DEF Place, AtRest, HwmonLocs, ZoneLocs, BoardLocs, LoadingLocs, GpuLocs,
        SampleLocs, OneFile, FieldsOf, Bounded
    <3>5. (n.h = m.h \/ n.h \in 0 .. MaxH - 1) /\ (n.i = m.i \/ n.i \in 0 .. MaxI)
      BY <1>0, <1>l, <2>1, <3>1, Limits
    <3>6. Good(n) /\ Calm(n)
      BY <1>0, <1>l, <2>1, <3>1, <3>3, <3>4, <3>5, MoveGood
    <3>7. QED
      BY <3>6
  <2>2. CASE n = ToZones(m)
    BY <1>0, <1>l, <2>2, ToZonesGood DEF InTurn
  <2>3. QED
    BY <1>b, <2>1, <2>2
<1>2. QED
  BY <1>b, <1>c, <1>1 DEF Taken, m

LEMMA MsrStatusTaken ==
  ASSUME NEW t \in Thread, Typed, MsrStatus(t)
  PROVE  Taken(t)
<1> DEFINE m == me[t]
<1>a. Good(m) /\ m.pc = "msr_status"
  BY DEF MsrStatus, At, Typed
<1>b. PICK n : Step(t, n) /\ ((n = Done(m, {1000 * (m.seen - fs[Status].readout)}))
        \/ (n = ToZones(m)))
  BY DEF MsrStatus
<1> HIDE DEF m
<1>c. m.pc \notin AtRest /\ Calm(m) /\ m.todo # <<>> /\ FieldsOf(m) /\ Bounded(m) /\ Place(m)
  BY <1>a DEF Good, Place, Calm, LoadingLocs, AtRest
<1>0. /\ DOMAIN m = Locals /\ m.todo # <<>> /\ Head(m.todo) \in {"cpu_temp"}
      /\ FieldsOf(m) /\ Bounded(m) /\ m.h \in Nat /\ m.i \in Nat
      /\ m.list = <<>>
  BY <1>a, <1>c DEF FieldsOf, Place, AtRest, HwmonLocs, ZoneLocs, BoardLocs, LoadingLocs, GpuLocs,
     SampleLocs, OneFile
<1>l. Len(m.list) = 0
  BY <1>0, EmptyList
<1>1. Good(n) /\ Calm(n)
  <2>1. CASE n = Done(m, {1000 * (m.seen - fs[Status].readout)})
    BY <1>0, <1>l, <2>1, DoneGood DEF InTurn
  <2>2. CASE n = ToZones(m)
    BY <1>0, <1>l, <2>2, ToZonesGood DEF InTurn
  <2>3. QED
    BY <1>b, <2>1, <2>2
<1>2. QED
  BY <1>b, <1>c, <1>1 DEF Taken, m

LEMMA ReadZoneTypeTaken ==
  ASSUME NEW t \in Thread, Typed, ReadZoneType(t)
  PROVE  Taken(t)
<1> DEFINE m == me[t]
<1>a. Good(m) /\ m.pc = "zone_type"
  BY DEF ReadZoneType, At, Typed
<1>b. PICK n : Step(t, n) /\ ((\E x : n = [m EXCEPT !.pc = "zone_temp", !.type = x])
        \/ (n = NextZone(m)))
  BY Zenon DEF ReadZoneType
<1> HIDE DEF m
<1>c. m.pc \notin AtRest /\ Calm(m) /\ m.todo # <<>> /\ FieldsOf(m) /\ Bounded(m) /\ Place(m)
  BY <1>a DEF Good, Place, Calm, LoadingLocs, AtRest
<1>0. /\ DOMAIN m = Locals /\ m.todo # <<>> /\ Head(m.todo) \in {"cpu_temp", "gpu", "zones"}
      /\ FieldsOf(m) /\ Bounded(m) /\ m.h \in Nat /\ m.i \in Nat
      /\ m.h < ZoneMax
      /\ Len(m.list) < ListMax
  BY <1>a, <1>c DEF FieldsOf, Place, AtRest, HwmonLocs, ZoneLocs, BoardLocs, LoadingLocs, GpuLocs,
     SampleLocs, OneFile
<1>1. Good(n) /\ Calm(n)
  <2>1. CASE \E x : n = [m EXCEPT !.pc = "zone_temp", !.type = x]
    <3>1. Kept(n, m, Moved) /\ n.pc = "zone_temp" /\ n.h = m.h /\ n.i = m.i /\ n.best = m.best
      BY <1>0, <2>1 DEF Kept, Moved, Locals
    <3>2. n.todo = m.todo /\ n.list = m.list
      BY <3>1 DEF Kept, Moved, Locals
    <3>3. n.pc \in Locations /\ Calm(n)
      BY <3>1 DEF Locations, AtRest, HwmonLocs, ZoneLocs, BoardLocs, LoadingLocs,
              GpuLocs, SampleLocs, OneFile, Calm
    <3>4. Place(n)
      BY <1>0, <2>1, <3>1, <3>2, Limits
      DEF Place, AtRest, HwmonLocs, ZoneLocs, BoardLocs, LoadingLocs, GpuLocs,
        SampleLocs, OneFile, FieldsOf, Bounded
    <3>5. (n.h = m.h \/ n.h \in 0 .. MaxH - 1) /\ (n.i = m.i \/ n.i \in 0 .. MaxI)
      BY <1>0, <2>1, <3>1, Limits
    <3>6. Good(n) /\ Calm(n)
      BY <1>0, <2>1, <3>1, <3>3, <3>4, <3>5, MoveGood
    <3>7. QED
      BY <3>6
  <2>2. CASE n = NextZone(m)
    BY <1>0, <2>2, NextZoneGood DEF InTurn
  <2>3. QED
    BY <1>b, <2>1, <2>2
<1>2. QED
  BY <1>b, <1>c, <1>1 DEF Taken, m

LEMMA NvmeNameTaken ==
  ASSUME NEW t \in Thread, Typed, NvmeName(t)
  PROVE  Taken(t)
<1> DEFINE m == me[t]
<1>a. Good(m) /\ m.pc = "nvme_name"
  BY DEF NvmeName, At, Typed
<1>b. PICK n : Step(t, n) /\ ((n = [m EXCEPT !.pc = "nvme_temp"])
        \/ (n = NextDrive(m)))
  BY Zenon DEF NvmeName
<1> HIDE DEF m
<1>c. m.pc \notin AtRest /\ Calm(m) /\ m.todo # <<>> /\ FieldsOf(m) /\ Bounded(m) /\ Place(m)
  BY <1>a DEF Good, Place, Calm, LoadingLocs, AtRest
<1>0. /\ DOMAIN m = Locals /\ m.todo # <<>> /\ Head(m.todo) \in {"nvme"}
      /\ FieldsOf(m) /\ Bounded(m) /\ m.h \in Nat /\ m.i \in Nat
      /\ m.h < HwmonMax
  BY <1>a, <1>c DEF FieldsOf, Place, AtRest, HwmonLocs, ZoneLocs, BoardLocs, LoadingLocs, GpuLocs,
     SampleLocs, OneFile
<1>1. Good(n) /\ Calm(n)
  <2>1. CASE n = [m EXCEPT !.pc = "nvme_temp"]
    <3>1. Kept(n, m, Moved) /\ n.pc = "nvme_temp" /\ n.h = m.h /\ n.i = m.i /\ n.best = m.best
      BY <1>0, <2>1 DEF Kept, Moved, Locals
    <3>2. n.todo = m.todo /\ n.list = m.list
      BY <3>1 DEF Kept, Moved, Locals
    <3>3. n.pc \in Locations /\ Calm(n)
      BY <3>1 DEF Locations, AtRest, HwmonLocs, ZoneLocs, BoardLocs, LoadingLocs,
              GpuLocs, SampleLocs, OneFile, Calm
    <3>4. Place(n)
      BY <1>0, <2>1, <3>1, <3>2, Limits
      DEF Place, AtRest, HwmonLocs, ZoneLocs, BoardLocs, LoadingLocs, GpuLocs,
        SampleLocs, OneFile, FieldsOf, Bounded
    <3>5. (n.h = m.h \/ n.h \in 0 .. MaxH - 1) /\ (n.i = m.i \/ n.i \in 0 .. MaxI)
      BY <1>0, <2>1, <3>1, Limits
    <3>6. Good(n) /\ Calm(n)
      BY <1>0, <2>1, <3>1, <3>3, <3>4, <3>5, MoveGood
    <3>7. QED
      BY <3>6
  <2>2. CASE n = NextDrive(m)
    BY <1>0, <2>2, NextDriveGood DEF InTurn
  <2>3. QED
    BY <1>b, <2>1, <2>2
<1>2. QED
  BY <1>b, <1>c, <1>1 DEF Taken, m

LEMMA BoardNameTaken ==
  ASSUME NEW t \in Thread, Typed, BoardName(t)
  PROVE  Taken(t)
<1> DEFINE m == me[t]
<1>a. Good(m) /\ m.pc = "board_name"
  BY DEF BoardName, At, Typed
<1>b. PICK n : Step(t, n) /\ ((Len(m.list) < BoardMax /\ n = [m EXCEPT !.pc = "board_input", !.i = FirstInput(Kind(m))])
        \/ (n = NextChip(m)))
  BY Zenon DEF BoardName
<1> HIDE DEF m
<1>c. m.pc \notin AtRest /\ Calm(m) /\ m.todo # <<>> /\ FieldsOf(m) /\ Bounded(m) /\ Place(m)
  BY <1>a DEF Good, Place, Calm, LoadingLocs, AtRest
<1>0. /\ DOMAIN m = Locals /\ m.todo # <<>> /\ Head(m.todo) \in {"temp", "fan", "in"}
      /\ FieldsOf(m) /\ Bounded(m) /\ m.h \in Nat /\ m.i \in Nat
      /\ m.h < HwmonMax
      /\ Len(m.list) <= BoardMax
      /\ FirstInput(Head(m.todo)) \in 0 .. 1
  BY <1>a, <1>c DEF FieldsOf, FirstInput, Place, AtRest, HwmonLocs, ZoneLocs, BoardLocs, LoadingLocs, GpuLocs,
     SampleLocs, OneFile
<1>1. Good(n) /\ Calm(n)
  <2>1. CASE Len(m.list) < BoardMax /\ n = [m EXCEPT !.pc = "board_input", !.i = FirstInput(Kind(m))]
    <3>1. Kept(n, m, Moved) /\ n.pc = "board_input" /\ n.h = m.h /\ n.i = FirstInput(Head(m.todo)) /\ n.best = m.best
      BY <1>0, <2>1 DEF Kind, Kept, Moved, Locals
    <3>2. n.todo = m.todo /\ n.list = m.list
      BY <3>1 DEF Kept, Moved, Locals
    <3>3. n.pc \in Locations /\ Calm(n)
      BY <3>1 DEF Locations, AtRest, HwmonLocs, ZoneLocs, BoardLocs, LoadingLocs,
              GpuLocs, SampleLocs, OneFile, Calm
    <3>7. n.i \in FirstInput(Head(n.todo)) .. InputMax
      BY <1>0, <3>1, <3>2, Limits
    <3>4. Place(n)
      BY <1>0, <2>1, <3>1, <3>2, <3>7
      DEF Place, AtRest, HwmonLocs, ZoneLocs, BoardLocs, LoadingLocs, GpuLocs,
        SampleLocs, OneFile
    <3>5. (n.h = m.h \/ n.h \in 0 .. MaxH - 1) /\ (n.i = m.i \/ n.i \in 0 .. MaxI)
      <4>1. n.i \in 0 .. InputMax
        BY <1>0, <3>1, <3>2, <3>7
      <4>2. QED
        BY <3>1, <4>1, Limits
    <3>6. Good(n) /\ Calm(n)
      BY <1>0, <2>1, <3>1, <3>3, <3>4, <3>5, MoveGood
    <3>8. QED
      BY <3>6
  <2>2. CASE n = NextChip(m)
    BY <1>0, <2>2, NextChipGood DEF InTurn
  <2>3. QED
    BY <1>b, <2>1, <2>2
<1>2. QED
  BY <1>b, <1>c, <1>1 DEF Taken, m

LEMMA LoadFirstTaken ==
  ASSUME NEW t \in Thread, Typed, LoadFirst(t)
  PROVE  Taken(t)
<1> DEFINE m == me[t]
<1>a. Good(m) /\ m.pc = "load_first"
  BY DEF LoadFirst, At, Typed
<1>b. PICK n : Step(t, n) /\ ((\E x : n = [m EXCEPT !.pc = "load_second", !.vals = x])
        \/ (n = Done(m, {})))
  BY Zenon DEF LoadFirst
<1> HIDE DEF m
<1>c. m.pc \notin AtRest /\ Calm(m) /\ m.todo # <<>> /\ FieldsOf(m) /\ Bounded(m) /\ Place(m)
  BY <1>a DEF Good, Place, Calm, LoadingLocs, AtRest
<1>0. /\ DOMAIN m = Locals /\ m.todo # <<>> /\ Head(m.todo) \in {"load"}
      /\ FieldsOf(m) /\ Bounded(m) /\ m.h \in Nat /\ m.i \in Nat
  BY <1>a, <1>c DEF FieldsOf, Place, AtRest, HwmonLocs, ZoneLocs, BoardLocs, LoadingLocs, GpuLocs,
     SampleLocs, OneFile
<1>1. Good(n) /\ Calm(n)
  <2>1. CASE \E x : n = [m EXCEPT !.pc = "load_second", !.vals = x]
    <3>1. Kept(n, m, Moved) /\ n.pc = "load_second" /\ n.h = m.h /\ n.i = m.i /\ n.best = m.best
      BY <1>0, <2>1 DEF Kept, Moved, Locals
    <3>2. n.todo = m.todo /\ n.list = m.list
      BY <3>1 DEF Kept, Moved, Locals
    <3>3. n.pc \in Locations /\ Calm(n)
      BY <3>1 DEF Locations, AtRest, HwmonLocs, ZoneLocs, BoardLocs, LoadingLocs,
              GpuLocs, SampleLocs, OneFile, Calm
    <3>4. Place(n)
      BY <1>0, <2>1, <3>1, <3>2, Limits
      DEF Place, AtRest, HwmonLocs, ZoneLocs, BoardLocs, LoadingLocs, GpuLocs,
        SampleLocs, OneFile, FieldsOf, Bounded
    <3>5. (n.h = m.h \/ n.h \in 0 .. MaxH - 1) /\ (n.i = m.i \/ n.i \in 0 .. MaxI)
      BY <1>0, <2>1, <3>1, Limits
    <3>6. Good(n) /\ Calm(n)
      BY <1>0, <2>1, <3>1, <3>3, <3>4, <3>5, MoveGood
    <3>7. QED
      BY <3>6
  <2>2. CASE n = Done(m, {})
    BY <1>0, <2>2, DoneGood DEF InTurn
  <2>3. QED
    BY <1>b, <2>1, <2>2
<1>2. QED
  BY <1>b, <1>c, <1>1 DEF Taken, m


\* What is read of one file, and one value out of it.
LEMMA OneValue ==
  ASSUME NEW S, NEW x \in Int, S \subseteq {x}
  PROVE  S \in SUBSET Int /\ Cardinality(S) <= 1
<1>1. CASE S = {}
  BY <1>1, FS_EmptySet
<1>2. CASE S = {x}
  BY <1>2, FS_Singleton
<1>3. QED
  BY <1>1, <1>2

LEMMA ReadValue ==
  ASSUME NEW f, NEW p
  PROVE  Read(f, p) = IF p \in DOMAIN f THEN {f[p]} ELSE {}
BY DEF Read

LEMMA ReadTemperature ==
  ASSUME NEW f, Files(f), NEW h \in Nat, h < HwmonMax, NEW i \in 1 .. InputMax
  PROVE  \E x \in Int : Read(f, Input("temp", h, i)) \subseteq {x}
<1>1. h \in 0 .. HwmonMax - 1
  BY Limits
<1>2. CASE Input("temp", h, i) \in DOMAIN f
  <2>1. f[Input("temp", h, i)] \in Int
    BY <1>1, <1>2, ContentsAssumption DEF Files
  <2>2. QED
    BY <1>2, <2>1, ReadValue
<1>3. CASE Input("temp", h, i) \notin DOMAIN f
  BY <1>3, ReadValue
<1>4. QED
  BY <1>2, <1>3

LEMMA RoundInt ==
  ASSUME NEW x \in Int PROVE Round(x) \in Int
BY DEF Round, Divide

LEMMA PlausibleInt ==
  ASSUME NEW raw, Plausible(raw) PROVE Celsius(raw) \in Int
<1>1. Coldest \in Int /\ Warmest \in Int
  BY DEF Coldest, Warmest
<1>2. QED
  BY <1>1 DEF Plausible

\* The readings that are over with their last file.
LEMMA LastFileTaken ==
  ASSUME NEW t \in Thread, Typed,
         \/ NvmeSmart(t)
           \/ BoardChip(t)
           \/ ClockCpuinfo(t)
           \/ MaxClock(t)
           \/ MemoryUse(t)
           \/ ReadUptime(t)
           \/ ReadIdentity(t)
           \/ LoadSecond(t)
  PROVE  Taken(t)
<1>1. CASE NvmeSmart(t)
  <2>1. me[t].pc = "smart" /\ \E v : Step(t, Done(me[t], v))
    BY <1>1 DEF NvmeSmart, At
  <2>2. me[t].pc \notin AtRest /\ Calm(me[t])
    BY <2>1 DEF AtRest, Calm, LoadingLocs
  <2>3. QED
    BY <2>1, <2>2, DoneTaken
<1>2. CASE BoardChip(t)
  <2>1. me[t].pc = "board_chip" /\ \E v : Step(t, Done(me[t], v))
    BY <1>2 DEF BoardChip, At
  <2>2. me[t].pc \notin AtRest /\ Calm(me[t])
    BY <2>1 DEF AtRest, Calm, LoadingLocs
  <2>3. QED
    BY <2>1, <2>2, DoneTaken
<1>3. CASE ClockCpuinfo(t)
  <2>1. me[t].pc = "clock_cpuinfo" /\ \E v : Step(t, Done(me[t], v))
    BY <1>3 DEF ClockCpuinfo, At
  <2>2. me[t].pc \notin AtRest /\ Calm(me[t])
    BY <2>1 DEF AtRest, Calm, LoadingLocs
  <2>3. QED
    BY <2>1, <2>2, DoneTaken
<1>4. CASE MaxClock(t)
  <2>1. me[t].pc = "max_clock" /\ \E v : Step(t, Done(me[t], v))
    BY <1>4 DEF MaxClock, At
  <2>2. me[t].pc \notin AtRest /\ Calm(me[t])
    BY <2>1 DEF AtRest, Calm, LoadingLocs
  <2>3. QED
    BY <2>1, <2>2, DoneTaken
<1>5. CASE MemoryUse(t)
  <2>1. me[t].pc = "memory" /\ \E v : Step(t, Done(me[t], v))
    BY <1>5 DEF MemoryUse, At
  <2>2. me[t].pc \notin AtRest /\ Calm(me[t])
    BY <2>1 DEF AtRest, Calm, LoadingLocs
  <2>3. QED
    BY <2>1, <2>2, DoneTaken
<1>6. CASE ReadUptime(t)
  <2>1. me[t].pc = "uptime" /\ \E v : Step(t, Done(me[t], v))
    BY <1>6 DEF ReadUptime, At
  <2>2. me[t].pc \notin AtRest /\ Calm(me[t])
    BY <2>1 DEF AtRest, Calm, LoadingLocs
  <2>3. QED
    BY <2>1, <2>2, DoneTaken
<1>7. CASE ReadIdentity(t)
  <2>1. me[t].pc = "identity" /\ \E v : Step(t, Done(me[t], v))
    BY <1>7 DEF ReadIdentity, At
  <2>2. me[t].pc \notin AtRest /\ Calm(me[t])
    BY <2>1 DEF AtRest, Calm, LoadingLocs
  <2>3. QED
    BY <2>1, <2>2, DoneTaken
<1>8. CASE LoadSecond(t)
  <2>1. me[t].pc = "load_second" /\ \E v : Step(t, Done(me[t], v))
    BY <1>8 DEF LoadSecond, At
  <2>2. me[t].pc \notin AtRest /\ Calm(me[t])
    BY <2>1 DEF AtRest, Calm, LoadingLocs
  <2>3. QED
    BY <2>1, <2>2, DoneTaken
<1>9. QED
  BY <1>1, <1>2, <1>3, <1>4, <1>5, <1>6, <1>7, <1>8

LEMMA CpuInputTaken ==
  ASSUME NEW t \in Thread, Typed, CpuInput(t)
  PROVE  Taken(t)
<1> DEFINE m == me[t]
<1>a. Good(m) /\ m.pc = "cpu_input"
  BY DEF CpuInput, At, Typed
<1>b. PICK n : Step(t, n) /\ ((n = Done(m, Read(fs, Input("temp", m.h, m.i))))
        \/ (n = NextCpuInput([m EXCEPT !.best = Else(Read(fs, Input("temp", m.h, m.i)), @)])))
  BY Zenon DEF CpuInput
<1> HIDE DEF m
<1>c. m.pc \notin AtRest /\ Calm(m) /\ m.todo # <<>> /\ FieldsOf(m) /\ Bounded(m) /\ Place(m)
  BY <1>a DEF Good, Place, Calm, LoadingLocs, AtRest
<1>0. /\ DOMAIN m = Locals /\ m.todo # <<>> /\ Head(m.todo) \in {"cpu_temp"}
      /\ FieldsOf(m) /\ Bounded(m) /\ m.h \in Nat /\ m.i \in Nat
      /\ m.h < CpuHwmonMax
      /\ m.list = <<>>
      /\ m.i \in 1 .. InputMax
  BY <1>a, <1>c DEF FieldsOf, Place, AtRest, HwmonLocs, ZoneLocs, BoardLocs, LoadingLocs, GpuLocs,
     SampleLocs, OneFile
<1>l. Len(m.list) = 0
  BY <1>0, EmptyList
<1>1. Good(n) /\ Calm(n)
  <2>1. CASE n = Done(m, Read(fs, Input("temp", m.h, m.i)))
    BY <1>0, <1>l, <2>1, DoneGood DEF InTurn
  <2>2. CASE n = NextCpuInput([m EXCEPT !.best = Else(Read(fs, Input("temp", m.h, m.i)), @)])
    <3> DEFINE v == Read(fs, Input("temp", m.h, m.i))
               k == [m EXCEPT !.best = Else(v, @)]
    <3>1. \E x \in Int : v \subseteq {x}
      <4>1. m.h < HwmonMax /\ Files(fs)
        BY <1>0, Limits DEF Typed
      <4>2. QED
        BY <1>0, <4>1, ReadTemperature
    <3>2. v \in SUBSET Int /\ Cardinality(v) <= 1
      BY <3>1, OneValue
    <3> HIDE DEF v
    <3>3. Kept(k, m, Found) /\ k.list = m.list /\ k.best = Else(v, m.best)
      BY <1>0 DEF Kept, Found, Locals
    <3>n. n = NextCpuInput(k)
      BY <2>2 DEF v
    <3> HIDE DEF k
    <3>4. k.best \in SUBSET Int /\ Cardinality(k.best) <= 1
      BY <1>0, <3>2, <3>3 DEF Else, FieldsOf
    <3>5. InTurn(k, {"cpu_temp"}) /\ k.h = m.h /\ k.i = m.i
      BY <1>0, <3>3, <3>4, RefillGood DEF InTurn, FieldsOf, Bounded
    <3>6. QED
      BY <1>0, <3>n, <3>3, <3>5, NextCpuInputGood
  <2>3. QED
    BY <1>b, <2>1, <2>2
<1>2. QED
  BY <1>b, <1>c, <1>1 DEF Taken, m

LEMMA ReadZoneTempTaken ==
  ASSUME NEW t \in Thread, Typed, ReadZoneTemp(t)
  PROVE  Taken(t)
<1> DEFINE m == me[t]
<1>a. Good(m) /\ m.pc = "zone_temp"
  BY DEF ReadZoneTemp, At, Typed
<1>b. PICK n : Step(t, n) /\ ((n = NextZone(m))
        \/ (\E e : n = NextZone([m EXCEPT !.list = Append(@, e)]))
        \/ (\E c : c \in Int /\ n = NextZone([m EXCEPT !.best = Hotter(@, c)])))
  <2> DEFINE raw == fs[ZoneTemp(m.h)]
             e == [type |-> m.type, temp |-> Celsius(raw)]
  <2>1. CASE ~Has(ZoneTemp(m.h)) \/ ~Plausible(raw) \/ ~Wanted(m)
    <3>1. Step(t, NextZone(m))
      BY <2>1, Zenon DEF ReadZoneTemp
    <3>2. QED
      BY <3>1
  <2>2. CASE Has(ZoneTemp(m.h)) /\ Plausible(raw) /\ Wanted(m) /\ Head(m.todo) = "zones"
    <3>1. Step(t, NextZone([m EXCEPT !.list = Append(@, e)]))
      BY <2>2, Zenon DEF ReadZoneTemp
    <3> HIDE DEF e, m
    <3>2. QED
      BY <3>1
  <2>3. CASE Has(ZoneTemp(m.h)) /\ Plausible(raw) /\ Wanted(m) /\ Head(m.todo) # "zones"
    <3>1. Step(t, NextZone([m EXCEPT !.best = Hotter(@, Celsius(raw))]))
      BY <2>3, Zenon DEF ReadZoneTemp
    <3>2. Celsius(raw) \in Int
      BY <2>3, PlausibleInt
    <3> HIDE DEF raw, m
    <3>3. QED
      BY <3>1, <3>2
  <2>4. QED
    BY <2>1, <2>2, <2>3
<1> HIDE DEF m
<1>c. m.pc \notin AtRest /\ Calm(m) /\ m.todo # <<>> /\ FieldsOf(m) /\ Bounded(m) /\ Place(m)
  BY <1>a DEF Good, Place, Calm, LoadingLocs, AtRest
<1>0. /\ DOMAIN m = Locals /\ m.todo # <<>> /\ Head(m.todo) \in {"cpu_temp", "gpu", "zones"}
      /\ FieldsOf(m) /\ Bounded(m) /\ m.h \in Nat /\ m.i \in Nat
      /\ m.h < ZoneMax
      /\ Len(m.list) < ListMax
  BY <1>a, <1>c DEF FieldsOf, Place, AtRest, HwmonLocs, ZoneLocs, BoardLocs, LoadingLocs, GpuLocs,
     SampleLocs, OneFile
<1>1. Good(n) /\ Calm(n)
  <2>1. CASE n = NextZone(m)
    BY <1>0, <2>1, NextZoneGood DEF InTurn
  <2>2. CASE \E e : n = NextZone([m EXCEPT !.list = Append(@, e)])
    <3>1. PICK e : n = NextZone([m EXCEPT !.list = Append(@, e)])
      BY <2>2
    <3> DEFINE k == [m EXCEPT !.list = Append(@, e)]
    <3>3. Kept(k, m, Found) /\ k.list = Append(m.list, e) /\ k.best = m.best
      BY <1>0 DEF Kept, Found, Locals
    <3> HIDE DEF k
    <3>2. IsSequence(k.list) /\ Len(k.list) = Len(m.list) + 1 /\ Len(m.list) \in Nat
      BY <1>0, <3>3, AppendGood DEF FieldsOf
    <3>9. ListMax \in Nat /\ MaxL \in Nat /\ ListMax <= MaxL
      BY Limits
    <3>4. IsSequence(k.list) /\ Len(k.list) <= ListMax /\ ListMax <= MaxL /\ Len(k.list) \in Nat
      BY <1>0, <3>2, <3>9
    <3>7. k.best \in SUBSET Int /\ Cardinality(k.best) <= 1
      BY <1>0, <3>3 DEF FieldsOf
    <3>10. Len(k.list) <= MaxL
      <4> DEFINE a == Len(k.list)
      <4>1. a \in Nat /\ a <= ListMax /\ ListMax \in Nat /\ MaxL \in Nat /\ ListMax <= MaxL
        BY <3>4, <3>9
      <4> HIDE DEF a
      <4>2. a <= MaxL
        BY <4>1
      <4>3. QED
        BY <4>2 DEF a
    <3>8. InTurn(m, {"cpu_temp", "gpu", "zones"})
      BY <1>0 DEF InTurn
    <3>5. InTurn(k, {"cpu_temp", "gpu", "zones"}) /\ k.h = m.h
      BY <3>3, <3>4, <3>7, <3>8, <3>10, RefillGood
    <3>6. QED
      BY <1>0, <3>1, <3>5, NextZoneGood DEF k
  <2>3. CASE \E c : c \in Int /\ n = NextZone([m EXCEPT !.best = Hotter(@, c)])
    <3>1. PICK c : c \in Int /\ n = NextZone([m EXCEPT !.best = Hotter(@, c)])
      BY <2>3
    <3> DEFINE k == [m EXCEPT !.best = Hotter(@, c)]
    <3>3. Kept(k, m, Found) /\ k.list = m.list /\ k.best = Hotter(m.best, c)
      BY <1>0 DEF Kept, Found, Locals
    <3> HIDE DEF k
    <3>2. {c} \in SUBSET Int /\ Cardinality({c}) <= 1
      BY <3>1, FS_Singleton
    <3>4. k.best \in SUBSET Int /\ Cardinality(k.best) <= 1
      BY <1>0, <3>2, <3>3 DEF Hotter, FieldsOf
    <3>7. IsSequence(k.list) /\ Len(k.list) <= MaxL /\ InTurn(m, {"cpu_temp", "gpu", "zones"})
      BY <1>0, <3>3 DEF InTurn, FieldsOf, Bounded
    <3>5. InTurn(k, {"cpu_temp", "gpu", "zones"}) /\ k.h = m.h
      BY <3>3, <3>4, <3>7, RefillGood
    <3>6. QED
      BY <1>0, <3>1, <3>5, NextZoneGood DEF k
  <2>4. QED
    BY <1>b, <2>1, <2>2, <2>3
<1>2. QED
  BY <1>b, <1>c, <1>1 DEF Taken, m

LEMMA NvmeInputTaken ==
  ASSUME NEW t \in Thread, Typed, NvmeInput(t)
  PROVE  Taken(t)
<1> DEFINE m == me[t]
<1>a. Good(m) /\ m.pc = "nvme_temp"
  BY DEF NvmeInput, At, Typed
<1>b. PICK n : Step(t, n) /\ ((\E v \in SUBSET Read(fs, Input("temp", m.h, 1)) : n = NextDrive([m EXCEPT !.best = Else(v, @)])))
  BY DEF NvmeInput
<1> HIDE DEF m
<1>c. m.pc \notin AtRest /\ Calm(m) /\ m.todo # <<>> /\ FieldsOf(m) /\ Bounded(m) /\ Place(m)
  BY <1>a DEF Good, Place, Calm, LoadingLocs, AtRest
<1>0. /\ DOMAIN m = Locals /\ m.todo # <<>> /\ Head(m.todo) \in {"nvme"}
      /\ FieldsOf(m) /\ Bounded(m) /\ m.h \in Nat /\ m.i \in Nat
      /\ m.h < HwmonMax
  BY <1>a, <1>c DEF FieldsOf, Place, AtRest, HwmonLocs, ZoneLocs, BoardLocs, LoadingLocs, GpuLocs,
     SampleLocs, OneFile
<1>1. Good(n) /\ Calm(n)
  <2>1. CASE \E v \in SUBSET Read(fs, Input("temp", m.h, 1)) : n = NextDrive([m EXCEPT !.best = Else(v, @)])
    <3>n. PICK v \in SUBSET Read(fs, Input("temp", m.h, 1)) : n = NextDrive([m EXCEPT !.best = Else(v, @)])
      BY <2>1
    <3> DEFINE k == [m EXCEPT !.best = Else(v, @)]
    <3>1. \E x \in Int : v \subseteq {x}
      <4>1. 1 \in 1 .. InputMax /\ Files(fs)
        BY Limits DEF Typed
      <4>2. QED
        BY <1>0, <4>1, ReadTemperature
    <3>2. v \in SUBSET Int /\ Cardinality(v) <= 1
      BY <3>1, OneValue
    <3>3. Kept(k, m, Found) /\ k.list = m.list /\ k.best = Else(v, m.best)
      BY <1>0 DEF Kept, Found, Locals
    <3> HIDE DEF k
    <3>4. k.best \in SUBSET Int /\ Cardinality(k.best) <= 1
      BY <1>0, <3>2, <3>3 DEF Else, FieldsOf
    <3>5. InTurn(k, {"nvme"}) /\ k.h = m.h /\ k.i = m.i
      BY <1>0, <3>3, <3>4, RefillGood DEF InTurn, FieldsOf, Bounded
    <3>6. QED
      BY <1>0, <3>n, <3>3, <3>5, NextDriveGood DEF k
  <2>2. QED
    BY <1>b, <2>1
<1>2. QED
  BY <1>b, <1>c, <1>1 DEF Taken, m

\* The next input, processor or file of the same device.
LEMMA BoardOnGood ==
  ASSUME NEW m, InTurn(m, {"temp", "fan", "in"}),
         m.pc = "board_input",
         m.h < HwmonMax,
         m.i \in FirstInput(Head(m.todo)) .. InputMax,
         FirstInput(Head(m.todo)) \in 0 .. 1,
         m.i < InputMax,
         Len(m.list) < BoardMax
  PROVE  Good([m EXCEPT !.i = @ + 1]) /\ Calm([m EXCEPT !.i = @ + 1])
<1> DEFINE n == [m EXCEPT !.i = @ + 1]
<1>0. /\ DOMAIN m = Locals /\ m.todo # <<>> /\ Head(m.todo) \in {"temp", "fan", "in"}
      /\ FieldsOf(m) /\ Bounded(m) /\ m.h \in Nat /\ m.i \in Nat
  BY DEF InTurn, FieldsOf
<1>1. Good(n) /\ Calm(n)
  <2>1. Kept(n, m, Moved) /\ n.pc = "board_input" /\ n.h = m.h /\ n.i = m.i + 1 /\ n.best = m.best
    BY <1>0 DEF Kept, Moved, Locals
  <2> HIDE DEF n
  <2>2. n.todo = m.todo /\ n.list = m.list
    BY <2>1 DEF Kept, Moved, Locals
  <2>3. n.pc \in Locations /\ Calm(n)
    BY <2>1 DEF Locations, AtRest, HwmonLocs, ZoneLocs, BoardLocs, LoadingLocs,
              GpuLocs, SampleLocs, OneFile, Calm
  <2>8. n.i \in FirstInput(Head(n.todo)) .. InputMax /\ Len(n.list) <= BoardMax
    <3>1. InputMax \in Nat /\ BoardMax \in Nat
      BY Limits
    <3>2. Len(m.list) \in Nat
      BY <1>0 DEF FieldsOf
    <3>3. n.i = m.i + 1 /\ n.i <= InputMax
      BY <1>0, <2>1, <3>1
    <3>4. QED
      BY <1>0, <2>1, <2>2, <3>1, <3>2, <3>3
  <2>4. Place(n)
    BY <1>0, <2>1, <2>2, <2>8
    DEF Place, AtRest, HwmonLocs, ZoneLocs, BoardLocs, LoadingLocs, GpuLocs,
        SampleLocs, OneFile
  <2>5. (n.h = m.h \/ n.h \in 0 .. MaxH - 1) /\ (n.i = m.i \/ n.i \in 0 .. MaxI)
    BY <1>0, <2>1, Limits
  <2>6. Good(n) /\ Calm(n)
    BY <1>0, <2>1, <2>3, <2>4, <2>5, MoveGood
  <2>7. QED
    BY <2>6 DEF n
<1>2. QED
  BY <1>1

LEMMA ClockOnGood ==
  ASSUME NEW m, InTurn(m, {"clock"}),
         m.pc = "clock",
         m.h + 1 < CpuMax,
         Len(m.list) = m.h + 1
  PROVE  Good([m EXCEPT !.h = @ + 1]) /\ Calm([m EXCEPT !.h = @ + 1])
<1> DEFINE n == [m EXCEPT !.h = @ + 1]
<1>0. /\ DOMAIN m = Locals /\ m.todo # <<>> /\ Head(m.todo) \in {"clock"}
      /\ FieldsOf(m) /\ Bounded(m) /\ m.h \in Nat /\ m.i \in Nat
  BY DEF InTurn, FieldsOf
<1>1. Good(n) /\ Calm(n)
  <2>1. Kept(n, m, Moved) /\ n.pc = "clock" /\ n.h = m.h + 1 /\ n.i = m.i /\ n.best = m.best
    BY <1>0 DEF Kept, Moved, Locals
  <2> HIDE DEF n
  <2>2. n.todo = m.todo /\ n.list = m.list
    BY <2>1 DEF Kept, Moved, Locals
  <2>3. n.pc \in Locations /\ Calm(n)
    BY <2>1 DEF Locations, AtRest, HwmonLocs, ZoneLocs, BoardLocs, LoadingLocs,
              GpuLocs, SampleLocs, OneFile, Calm
  <2>4. Place(n)
    BY <1>0, <2>1, <2>2, Limits
    DEF Place, AtRest, HwmonLocs, ZoneLocs, BoardLocs, LoadingLocs, GpuLocs,
        SampleLocs, OneFile, FieldsOf, Bounded
  <2>5. (n.h = m.h \/ n.h \in 0 .. MaxH - 1) /\ (n.i = m.i \/ n.i \in 0 .. MaxI)
    BY <1>0, <2>1, Limits
  <2>6. Good(n) /\ Calm(n)
    BY <1>0, <2>1, <2>3, <2>4, <2>5, MoveGood
  <2>7. QED
    BY <2>6 DEF n
<1>2. QED
  BY <1>1

LEMMA ClockLastGood ==
  ASSUME NEW m, InTurn(m, {"clock"})
  PROVE  Good([m EXCEPT !.pc = "clock_cpuinfo"]) /\ Calm([m EXCEPT !.pc = "clock_cpuinfo"])
<1> DEFINE n == [m EXCEPT !.pc = "clock_cpuinfo"]
<1>0. /\ DOMAIN m = Locals /\ m.todo # <<>> /\ Head(m.todo) \in {"clock"}
      /\ FieldsOf(m) /\ Bounded(m) /\ m.h \in Nat /\ m.i \in Nat
  BY DEF InTurn, FieldsOf
<1>1. Good(n) /\ Calm(n)
  <2>1. Kept(n, m, Moved) /\ n.pc = "clock_cpuinfo" /\ n.h = m.h /\ n.i = m.i /\ n.best = m.best
    BY <1>0 DEF Kept, Moved, Locals
  <2> HIDE DEF n
  <2>2. n.todo = m.todo /\ n.list = m.list
    BY <2>1 DEF Kept, Moved, Locals
  <2>3. n.pc \in Locations /\ Calm(n)
    BY <2>1 DEF Locations, AtRest, HwmonLocs, ZoneLocs, BoardLocs, LoadingLocs,
              GpuLocs, SampleLocs, OneFile, Calm
  <2>4. Place(n)
    BY <1>0, <2>1, <2>2, Limits
    DEF Place, AtRest, HwmonLocs, ZoneLocs, BoardLocs, LoadingLocs, GpuLocs,
        SampleLocs, OneFile, FieldsOf, Bounded
  <2>5. (n.h = m.h \/ n.h \in 0 .. MaxH - 1) /\ (n.i = m.i \/ n.i \in 0 .. MaxI)
    BY <1>0, <2>1, Limits
  <2>6. Good(n) /\ Calm(n)
    BY <1>0, <2>1, <2>3, <2>4, <2>5, MoveGood
  <2>7. QED
    BY <2>6 DEF n
<1>2. QED
  BY <1>1

LEMMA AmdOnGood ==
  ASSUME NEW m, InTurn(m, {"gpu"}),
         m.pc = "amd_file",
         m.h < HwmonMax,
         m.list = <<>>,
         m.i + 1 \in 1 .. AmdFiles
  PROVE  Good([m EXCEPT !.i = @ + 1]) /\ Calm([m EXCEPT !.i = @ + 1])
<1> DEFINE n == [m EXCEPT !.i = @ + 1]
<1>0. /\ DOMAIN m = Locals /\ m.todo # <<>> /\ Head(m.todo) \in {"gpu"}
      /\ FieldsOf(m) /\ Bounded(m) /\ m.h \in Nat /\ m.i \in Nat /\ Len(m.list) = 0
  BY EmptyList DEF InTurn, FieldsOf
<1>1. Good(n) /\ Calm(n)
  <2>1. Kept(n, m, Moved) /\ n.pc = "amd_file" /\ n.h = m.h /\ n.i = m.i + 1 /\ n.best = m.best
    BY <1>0 DEF Kept, Moved, Locals
  <2> HIDE DEF n
  <2>2. n.todo = m.todo /\ n.list = m.list
    BY <2>1 DEF Kept, Moved, Locals
  <2>3. n.pc \in Locations /\ Calm(n)
    BY <2>1 DEF Locations, AtRest, HwmonLocs, ZoneLocs, BoardLocs, LoadingLocs,
              GpuLocs, SampleLocs, OneFile, Calm
  <2>4. Place(n)
    BY <1>0, <2>1, <2>2, Limits
    DEF Place, AtRest, HwmonLocs, ZoneLocs, BoardLocs, LoadingLocs, GpuLocs,
        SampleLocs, OneFile, FieldsOf, Bounded
  <2>5. (n.h = m.h \/ n.h \in 0 .. MaxH - 1) /\ (n.i = m.i \/ n.i \in 0 .. MaxI)
    BY <1>0, <2>1, Limits
  <2>6. Good(n) /\ Calm(n)
    BY <1>0, <2>1, <2>3, <2>4, <2>5, MoveGood
  <2>7. QED
    BY <2>6 DEF n
<1>2. QED
  BY <1>1

LEMMA AmdFirstGood ==
  ASSUME NEW m, InTurn(m, {"gpu"}),
         m.h < HwmonMax,
         m.list = <<>>
  PROVE  Good([m EXCEPT !.pc = "amd_file", !.i = 1]) /\ Calm([m EXCEPT !.pc = "amd_file", !.i = 1])
<1> DEFINE n == [m EXCEPT !.pc = "amd_file", !.i = 1]
<1>0. /\ DOMAIN m = Locals /\ m.todo # <<>> /\ Head(m.todo) \in {"gpu"}
      /\ FieldsOf(m) /\ Bounded(m) /\ m.h \in Nat /\ m.i \in Nat /\ Len(m.list) = 0
  BY EmptyList DEF InTurn, FieldsOf
<1>1. Good(n) /\ Calm(n)
  <2>1. Kept(n, m, Moved) /\ n.pc = "amd_file" /\ n.h = m.h /\ n.i = 1 /\ n.best = m.best
    BY <1>0 DEF Kept, Moved, Locals
  <2> HIDE DEF n
  <2>2. n.todo = m.todo /\ n.list = m.list
    BY <2>1 DEF Kept, Moved, Locals
  <2>3. n.pc \in Locations /\ Calm(n)
    BY <2>1 DEF Locations, AtRest, HwmonLocs, ZoneLocs, BoardLocs, LoadingLocs,
              GpuLocs, SampleLocs, OneFile, Calm
  <2>4. Place(n)
    BY <1>0, <2>1, <2>2, Limits
    DEF Place, AtRest, HwmonLocs, ZoneLocs, BoardLocs, LoadingLocs, GpuLocs,
        SampleLocs, OneFile, FieldsOf, Bounded
  <2>5. (n.h = m.h \/ n.h \in 0 .. MaxH - 1) /\ (n.i = m.i \/ n.i \in 0 .. MaxI)
    BY <1>0, <2>1, Limits
  <2>6. Good(n) /\ Calm(n)
    BY <1>0, <2>1, <2>3, <2>4, <2>5, MoveGood
  <2>7. QED
    BY <2>6 DEF n
<1>2. QED
  BY <1>1

LEMMA KgslOnGood ==
  ASSUME NEW m, InTurn(m, {"gpu"}),
         m.pc = "kgsl",
         m.i \in 1 .. KgslFiles,
         m.i < KgslFiles
  PROVE  Good([m EXCEPT !.i = @ + 1]) /\ Calm([m EXCEPT !.i = @ + 1])
<1> DEFINE n == [m EXCEPT !.i = @ + 1]
<1>0. /\ DOMAIN m = Locals /\ m.todo # <<>> /\ Head(m.todo) \in {"gpu"}
      /\ FieldsOf(m) /\ Bounded(m) /\ m.h \in Nat /\ m.i \in Nat
  BY DEF InTurn, FieldsOf
<1>1. Good(n) /\ Calm(n)
  <2>1. Kept(n, m, Moved) /\ n.pc = "kgsl" /\ n.h = m.h /\ n.i = m.i + 1 /\ n.best = m.best
    BY <1>0 DEF Kept, Moved, Locals
  <2> HIDE DEF n
  <2>2. n.todo = m.todo /\ n.list = m.list
    BY <2>1 DEF Kept, Moved, Locals
  <2>3. n.pc \in Locations /\ Calm(n)
    BY <2>1 DEF Locations, AtRest, HwmonLocs, ZoneLocs, BoardLocs, LoadingLocs,
              GpuLocs, SampleLocs, OneFile, Calm
  <2>8. n.i \in 1 .. KgslFiles
    BY <1>0, <2>1, Limits
  <2>4. Place(n)
    BY <1>0, <2>1, <2>2, <2>8
    DEF Place, AtRest, HwmonLocs, ZoneLocs, BoardLocs, LoadingLocs, GpuLocs,
        SampleLocs, OneFile
  <2>5. (n.h = m.h \/ n.h \in 0 .. MaxH - 1) /\ (n.i = m.i \/ n.i \in 0 .. MaxI)
    BY <1>0, <2>1, Limits
  <2>6. Good(n) /\ Calm(n)
    BY <1>0, <2>1, <2>3, <2>4, <2>5, MoveGood
  <2>7. QED
    BY <2>6 DEF n
<1>2. QED
  BY <1>1

\* The list of a reading with one more value.
LEMMA LongerGood ==
  ASSUME NEW m, NEW R, InTurn(m, R), NEW e, Len(m.list) < MaxL
  PROVE  LET k == [m EXCEPT !.list = Append(@, e)]
         IN  /\ InTurn(k, R) /\ k.pc = m.pc /\ k.h = m.h /\ k.i = m.i /\ k.todo = m.todo
             /\ k.best = m.best /\ k.list # <<>> /\ Len(m.list) \in Nat
             /\ Len(k.list) = Len(m.list) + 1
<1> DEFINE k == [m EXCEPT !.list = Append(@, e)]
<1>1. FieldsOf(m) /\ DOMAIN m = Locals /\ MaxL \in Nat
  BY Limits DEF InTurn, FieldsOf
<1>2. Kept(k, m, Found) /\ k.list = Append(m.list, e) /\ k.best = m.best
  BY <1>1 DEF Kept, Found, Locals
<1> HIDE DEF k
<1>3. /\ IsSequence(k.list) /\ Len(m.list) \in Nat /\ Len(k.list) = Len(m.list) + 1
      /\ k.list # <<>>
  BY <1>1, <1>2, AppendGood DEF FieldsOf
<1>4. Len(k.list) <= MaxL /\ k.best \in SUBSET Int /\ Cardinality(k.best) <= 1
  BY <1>1, <1>2, <1>3 DEF FieldsOf
<1>5. InTurn(k, R) /\ k.pc = m.pc /\ k.h = m.h /\ k.i = m.i /\ k.todo = m.todo
  BY <1>2, <1>3, <1>4, RefillGood
<1>6. QED
  BY <1>2, <1>3, <1>5 DEF k

\* The values of a reading with the contents of one more file.
LEMMA FilledGood ==
  ASSUME NEW m, NEW R, InTurn(m, R), NEW p
  PROVE  LET k == WithFile(m, p)
         IN  /\ InTurn(k, R) /\ k.pc = m.pc /\ k.h = m.h /\ k.i = m.i /\ k.todo = m.todo
             /\ k.best = m.best /\ k.list = m.list
<1> DEFINE k == WithFile(m, p)
<1>1. FieldsOf(m) /\ Bounded(m) /\ DOMAIN m = Locals
  BY DEF InTurn, FieldsOf
<1>2. Kept(k, m, Found) /\ k.list = m.list /\ k.best = m.best
  BY <1>1 DEF WithFile, Kept, Found, Locals
<1> HIDE DEF k
<1>3. k.best \in SUBSET Int /\ Cardinality(k.best) <= 1 /\ IsSequence(k.list) /\ Len(k.list) <= MaxL
  BY <1>1, <1>2 DEF FieldsOf, Bounded
<1>4. InTurn(k, R) /\ k.pc = m.pc /\ k.h = m.h /\ k.i = m.i /\ k.todo = m.todo
  BY <1>2, <1>3, RefillGood
<1>5. QED
  BY <1>2, <1>4 DEF k

LEMMA BoardInputTaken ==
  ASSUME NEW t \in Thread, Typed, BoardInput(t)
  PROVE  Taken(t)
<1> DEFINE m == me[t]
           p == Input(Kind(m), m.h, m.i)
           k == IF Has(p) THEN [m EXCEPT !.list = Append(@, BoardValue(Kind(m), fs[p]))] ELSE m
<1>a. Good(m) /\ m.pc = "board_input"
  BY DEF BoardInput, At, Typed
<1>b. PICK n : Step(t, n) /\ ((m.i < InputMax /\ Len(k.list) < BoardMax /\ n = [k EXCEPT !.i = @ + 1])
        \/ (n = NextChip(k)))
  BY Zenon DEF BoardInput
<1> HIDE DEF m
<1>c. m.pc \notin AtRest /\ Calm(m) /\ m.todo # <<>> /\ FieldsOf(m) /\ Bounded(m) /\ Place(m)
  BY <1>a DEF Good, Place, Calm, LoadingLocs, AtRest
<1>0. /\ DOMAIN m = Locals /\ m.todo # <<>> /\ Head(m.todo) \in {"temp", "fan", "in"}
      /\ FieldsOf(m) /\ Bounded(m) /\ m.h \in Nat /\ m.i \in Nat
      /\ m.h < HwmonMax
      /\ m.i \in FirstInput(Head(m.todo)) .. InputMax
      /\ FirstInput(Head(m.todo)) \in 0 .. 1
      /\ Len(m.list) < BoardMax
  BY <1>a, <1>c DEF FieldsOf, FirstInput, Place, AtRest, HwmonLocs, ZoneLocs, BoardLocs, LoadingLocs, GpuLocs,
     SampleLocs, OneFile
<1>d. /\ InTurn(k, {"temp", "fan", "in"}) /\ k.pc = m.pc /\ k.h = m.h /\ k.i = m.i /\ k.todo = m.todo
      /\ Len(k.list) <= BoardMax
  <2>1. InTurn(m, {"temp", "fan", "in"})
    BY <1>0 DEF InTurn
  <2>2. CASE Has(p)
    <3> DEFINE e == BoardValue(Kind(m), fs[p])
    <3>1. k = [m EXCEPT !.list = Append(@, e)]
      BY <2>2
    <3> HIDE DEF k, e
    <3>2. Len(m.list) < MaxL /\ Len(m.list) \in Nat
      BY <1>0, Limits, AppendGood DEF FieldsOf
    <3>3. /\ InTurn(k, {"temp", "fan", "in"}) /\ k.pc = m.pc /\ k.h = m.h /\ k.i = m.i
          /\ k.todo = m.todo /\ Len(k.list) = Len(m.list) + 1
      BY <2>1, <3>1, <3>2, LongerGood
    <3>4. QED
      BY <1>0, <3>2, <3>3, Limits
  <2>3. CASE ~Has(p)
    <3>1. k = m
      BY <2>3
    <3> HIDE DEF k
    <3>2. Len(m.list) \in Nat
      BY <1>0, AppendGood DEF FieldsOf
    <3>3. QED
      BY <1>0, <2>1, <3>1, <3>2, Limits
  <2>4. QED
    BY <2>2, <2>3
<1> HIDE DEF k
<1>1. Good(n) /\ Calm(n)
  <2>1. CASE m.i < InputMax /\ Len(k.list) < BoardMax /\ n = [k EXCEPT !.i = @ + 1]
    BY <1>a, <1>0, <1>d, <2>1, BoardOnGood
  <2>2. CASE n = NextChip(k)
    BY <1>0, <1>d, <2>2, NextChipGood
  <2>3. QED
    BY <1>b, <2>1, <2>2
<1>2. QED
  BY <1>b, <1>c, <1>1 DEF Taken, m

LEMMA ClockFreqTaken ==
  ASSUME NEW t \in Thread, Typed, ClockFreq(t)
  PROVE  Taken(t)
<1> DEFINE m == me[t]
           k == IF Has(Freq(m.h)) THEN [m EXCEPT !.list = Append(@, fs[Freq(m.h)])] ELSE m
<1>a. Good(m) /\ m.pc = "clock"
  BY DEF ClockFreq, At, Typed
<1>b. PICK n : Step(t, n) /\ ((Has(Freq(m.h)) /\ m.h + 1 < CpuMax /\ n = [k EXCEPT !.h = @ + 1])
        \/ (n = Done(k, {Mean(k.list) \div 1000}))
        \/ (n = [k EXCEPT !.pc = "clock_cpuinfo"]))
  <2> DEFINE c == Has(Freq(m.h)) /\ m.h + 1 < CpuMax
  <2>1. CASE c
    <3>1. Step(t, [k EXCEPT !.h = @ + 1])
      BY <2>1, Zenon DEF ClockFreq
    <3> HIDE DEF k, m
    <3>2. QED
      BY <2>1, <3>1
  <2>2. CASE ~c /\ k.list # <<>>
    <3>1. Step(t, Done(k, {Mean(k.list) \div 1000}))
      BY <2>2, Zenon DEF ClockFreq
    <3> HIDE DEF k, m
    <3>2. QED
      BY <3>1
  <2>3. CASE ~c /\ k.list = <<>>
    <3>1. Step(t, [k EXCEPT !.pc = "clock_cpuinfo"])
      BY <2>3, Zenon DEF ClockFreq
    <3> HIDE DEF k, m
    <3>2. QED
      BY <3>1
  <2>4. QED
    BY <2>1, <2>2, <2>3
<1> HIDE DEF m
<1>c. m.pc \notin AtRest /\ Calm(m) /\ m.todo # <<>> /\ FieldsOf(m) /\ Bounded(m) /\ Place(m)
  BY <1>a DEF Good, Place, Calm, LoadingLocs, AtRest
<1>0. /\ DOMAIN m = Locals /\ m.todo # <<>> /\ Head(m.todo) \in {"clock"}
      /\ FieldsOf(m) /\ Bounded(m) /\ m.h \in Nat /\ m.i \in Nat
      /\ m.h < CpuMax
      /\ Len(m.list) = m.h
  BY <1>a, <1>c DEF FieldsOf, Place, AtRest, HwmonLocs, ZoneLocs, BoardLocs, LoadingLocs, GpuLocs,
     SampleLocs, OneFile
<1>d. /\ InTurn(k, {"clock"}) /\ k.pc = m.pc /\ k.h = m.h /\ k.todo = m.todo
      /\ Has(Freq(m.h)) => Len(k.list) = m.h + 1
  <2>1. InTurn(m, {"clock"})
    BY <1>0 DEF InTurn
  <2>2. CASE Has(Freq(m.h))
    <3> DEFINE e == fs[Freq(m.h)]
    <3>1. k = [m EXCEPT !.list = Append(@, e)]
      BY <2>2
    <3> HIDE DEF k, e
    <3>2. Len(m.list) < MaxL
      BY <1>0, Limits
    <3>3. /\ InTurn(k, {"clock"}) /\ k.pc = m.pc /\ k.h = m.h /\ k.todo = m.todo
          /\ Len(k.list) = Len(m.list) + 1
      BY <2>1, <3>1, <3>2, LongerGood
    <3>4. QED
      BY <1>0, <3>3
  <2>3. CASE ~Has(Freq(m.h))
    BY <1>0, <2>1, <2>3
  <2>4. QED
    BY <2>2, <2>3
<1> HIDE DEF k
<1>1. Good(n) /\ Calm(n)
  <2>1. CASE Has(Freq(m.h)) /\ m.h + 1 < CpuMax /\ n = [k EXCEPT !.h = @ + 1]
    BY <1>a, <1>0, <1>d, <2>1, ClockOnGood
  <2>2. CASE n = Done(k, {Mean(k.list) \div 1000})
    BY <1>d, <2>2, DoneGood DEF InTurn
  <2>3. CASE n = [k EXCEPT !.pc = "clock_cpuinfo"]
    BY <1>d, <2>3, ClockLastGood
  <2>4. QED
    BY <1>b, <2>1, <2>2, <2>3
<1>2. QED
  BY <1>b, <1>c, <1>1 DEF Taken, m

LEMMA AmdFileTaken ==
  ASSUME NEW t \in Thread, Typed, AmdFile(t)
  PROVE  Taken(t)
<1> DEFINE m == me[t]
           p == Amd(m.h, m.i)
           k == WithFile(m, p)
<1>a. Good(m) /\ m.pc = "amd_file"
  BY DEF AmdFile, At, Typed
<1>b. PICK n : Step(t, n) /\ ((k.i < AmdFiles /\ n = [k EXCEPT !.i = @ + 1])
        \/ (n = Done(k, {[from |-> "amdgpu", temp |-> k.best, vals |-> k.vals]})))
  BY Zenon DEF AmdFile
<1> HIDE DEF m
<1>c. m.pc \notin AtRest /\ Calm(m) /\ m.todo # <<>> /\ FieldsOf(m) /\ Bounded(m) /\ Place(m)
  BY <1>a DEF Good, Place, Calm, LoadingLocs, AtRest
<1>0. /\ DOMAIN m = Locals /\ m.todo # <<>> /\ Head(m.todo) \in {"gpu"}
      /\ FieldsOf(m) /\ Bounded(m) /\ m.h \in Nat /\ m.i \in Nat
      /\ m.h < HwmonMax
      /\ m.list = <<>>
      /\ m.i \in 1 .. AmdFiles
  BY <1>a, <1>c DEF FieldsOf, Place, AtRest, HwmonLocs, ZoneLocs, BoardLocs, LoadingLocs, GpuLocs,
     SampleLocs, OneFile
<1>d. /\ InTurn(k, {"gpu"}) /\ k.pc = m.pc /\ k.h = m.h /\ k.i = m.i /\ k.list = m.list
  BY <1>0, FilledGood DEF InTurn
<1> HIDE DEF k
<1>1. Good(n) /\ Calm(n)
  <2>1. CASE k.i < AmdFiles /\ n = [k EXCEPT !.i = @ + 1]
    <3>0. k.i < AmdFiles
      BY <2>1
    <3>a. AmdFiles \in Nat
      BY Limits
    <3>b. k.i \in 1 .. AmdFiles
      BY <1>0, <1>d
    <3>1. k.i + 1 \in 1 .. AmdFiles /\ k.i < AmdFiles
      BY <3>0, <3>a, <3>b
    <3>2. QED
      BY <1>a, <1>0, <1>d, <3>1, <2>1, AmdOnGood
  <2>2. CASE n = Done(k, {[from |-> "amdgpu", temp |-> k.best, vals |-> k.vals]})
    BY <1>d, <2>2, DoneGood DEF InTurn
  <2>3. QED
    BY <1>b, <2>1, <2>2
<1>2. QED
  BY <1>b, <1>c, <1>1 DEF Taken, m

LEMMA KgslFileTaken ==
  ASSUME NEW t \in Thread, Typed, KgslFile(t)
  PROVE  Taken(t)
<1> DEFINE m == me[t]
           p == Kgsl(m.i)
           k == WithFile(m, p)
<1>a. Good(m) /\ m.pc = "kgsl"
  BY DEF KgslFile, At, Typed
<1>b. PICK n : Step(t, n) /\ ((k.i < KgslFiles /\ n = [k EXCEPT !.i = @ + 1])
        \/ (n = Done(k, IF k.best = {} /\ k.vals = <<>> THEN {} ELSE {[from |-> "mobile", temp |-> {Round(x) : x \in k.best}, vals |-> k.vals]})))
  BY Zenon DEF KgslFile
<1> HIDE DEF m
<1>c. m.pc \notin AtRest /\ Calm(m) /\ m.todo # <<>> /\ FieldsOf(m) /\ Bounded(m) /\ Place(m)
  BY <1>a DEF Good, Place, Calm, LoadingLocs, AtRest
<1>0. /\ DOMAIN m = Locals /\ m.todo # <<>> /\ Head(m.todo) \in {"gpu"}
      /\ FieldsOf(m) /\ Bounded(m) /\ m.h \in Nat /\ m.i \in Nat
      /\ m.i \in 1 .. KgslFiles
  BY <1>a, <1>c DEF FieldsOf, Place, AtRest, HwmonLocs, ZoneLocs, BoardLocs, LoadingLocs, GpuLocs,
     SampleLocs, OneFile
<1>d. /\ InTurn(k, {"gpu"}) /\ k.pc = m.pc /\ k.h = m.h /\ k.i = m.i /\ k.list = m.list
  BY <1>0, FilledGood DEF InTurn
<1> HIDE DEF k
<1>1. Good(n) /\ Calm(n)
  <2>1. CASE k.i < KgslFiles /\ n = [k EXCEPT !.i = @ + 1]
    <3>0. k.i < KgslFiles
      BY <2>1
    <3>a. KgslFiles \in Nat
      BY Limits
    <3>b. k.i \in 1 .. KgslFiles
      BY <1>0, <1>d
    <3>1. k.i + 1 \in 1 .. KgslFiles /\ k.i < KgslFiles
      BY <3>0, <3>a, <3>b
    <3>2. QED
      BY <1>a, <1>0, <1>d, <3>1, <2>1, KgslOnGood
  <2>2. CASE n = Done(k, IF k.best = {} /\ k.vals = <<>> THEN {} ELSE {[from |-> "mobile", temp |-> {Round(x) : x \in k.best}, vals |-> k.vals]})
    BY <1>d, <2>2, DoneGood DEF InTurn
  <2>3. QED
    BY <1>b, <2>1, <2>2
<1>2. QED
  BY <1>b, <1>c, <1>1 DEF Taken, m

LEMMA AmdNameTaken ==
  ASSUME NEW t \in Thread, Typed, AmdName(t)
  PROVE  Taken(t)
<1> DEFINE m == me[t]
<1>a. Good(m) /\ m.pc = "amd_name"
  BY DEF AmdName, At, Typed
<1>b. PICK n : Step(t, n) /\ ((n = NextCard(m))
        \/ (n = [m EXCEPT !.pc = "amd_temp"])
        \/ (n = NextCard([m EXCEPT !.seen = @ + 1])))
  BY Zenon DEF AmdName
<1> HIDE DEF m
<1>c. m.pc \notin AtRest /\ Calm(m) /\ m.todo # <<>> /\ FieldsOf(m) /\ Bounded(m) /\ Place(m)
  BY <1>a DEF Good, Place, Calm, LoadingLocs, AtRest
<1>0. /\ DOMAIN m = Locals /\ m.todo # <<>> /\ Head(m.todo) \in {"gpu"}
      /\ FieldsOf(m) /\ Bounded(m) /\ m.h \in Nat /\ m.i \in Nat
      /\ m.h < HwmonMax
      /\ m.list = <<>>
      /\ m.best = {}
  BY <1>a, <1>c DEF FieldsOf, Place, AtRest, HwmonLocs, ZoneLocs, BoardLocs, LoadingLocs, GpuLocs,
     SampleLocs, OneFile
<1>l. Len(m.list) = 0
  BY <1>0, EmptyList
<1>1. Good(n) /\ Calm(n)
  <2>1. CASE n = NextCard(m)
    BY <1>0, <1>l, <2>1, NextCardGood DEF InTurn
  <2>2. CASE n = [m EXCEPT !.pc = "amd_temp"]
    <3>1. Kept(n, m, Moved) /\ n.pc = "amd_temp" /\ n.h = m.h /\ n.i = m.i /\ n.best = m.best
      BY <1>0, <1>l, <2>2 DEF Kept, Moved, Locals
    <3>2. n.todo = m.todo /\ n.list = m.list
      BY <3>1 DEF Kept, Moved, Locals
    <3>3. n.pc \in Locations /\ Calm(n)
      BY <3>1 DEF Locations, AtRest, HwmonLocs, ZoneLocs, BoardLocs, LoadingLocs,
              GpuLocs, SampleLocs, OneFile, Calm
    <3>4. Place(n)
      BY <1>0, <1>l, <2>2, <3>1, <3>2, Limits
      DEF Place, AtRest, HwmonLocs, ZoneLocs, BoardLocs, LoadingLocs, GpuLocs,
        SampleLocs, OneFile, FieldsOf, Bounded
    <3>5. (n.h = m.h \/ n.h \in 0 .. MaxH - 1) /\ (n.i = m.i \/ n.i \in 0 .. MaxI)
      BY <1>0, <1>l, <2>2, <3>1, Limits
    <3>6. Good(n) /\ Calm(n)
      BY <1>0, <1>l, <2>2, <3>1, <3>3, <3>4, <3>5, MoveGood
    <3>7. QED
      BY <3>6
  <2>3. CASE n = NextCard([m EXCEPT !.seen = @ + 1])
    <3> DEFINE k == [m EXCEPT !.seen = @ + 1]
    <3>1. Kept(k, m, Found) /\ k.list = m.list /\ k.best = m.best
      BY <1>0 DEF Kept, Found, Locals
    <3>2. n = NextCard(k)
      BY <2>3
    <3> HIDE DEF k
    <3>3. InTurn(m, {"gpu"}) /\ k.best \in SUBSET Int /\ Cardinality(k.best) <= 1
           /\ IsSequence(k.list) /\ Len(k.list) <= MaxL
      BY <1>0, <3>1 DEF InTurn, FieldsOf, Bounded
    <3>4. InTurn(k, {"gpu"}) /\ k.h = m.h
      BY <3>1, <3>3, RefillGood
    <3>5. QED
      BY <1>0, <3>1, <3>2, <3>4, NextCardGood
  <2>4. QED
    BY <1>b, <2>1, <2>2, <2>3
<1>2. QED
  BY <1>b, <1>c, <1>1 DEF Taken, m

LEMMA AmdTempTaken ==
  ASSUME NEW t \in Thread, Typed, AmdTemp(t)
  PROVE  Taken(t)
<1> DEFINE m == me[t]
<1>a. Good(m) /\ m.pc = "amd_temp"
  BY DEF AmdTemp, At, Typed
<1>b. PICK n : Step(t, n) /\ ((n = ToMobile(m))
        \/ (n = [m EXCEPT !.pc = "amd_file", !.i = 1, !.best = {Round(x) : x \in Read(fs, Input("temp", m.h, 1))}]))
  BY Zenon DEF AmdTemp
<1> HIDE DEF m
<1>c. m.pc \notin AtRest /\ Calm(m) /\ m.todo # <<>> /\ FieldsOf(m) /\ Bounded(m) /\ Place(m)
  BY <1>a DEF Good, Place, Calm, LoadingLocs, AtRest
<1>0. /\ DOMAIN m = Locals /\ m.todo # <<>> /\ Head(m.todo) \in {"gpu"}
      /\ FieldsOf(m) /\ Bounded(m) /\ m.h \in Nat /\ m.i \in Nat
      /\ m.h < HwmonMax
      /\ m.list = <<>>
  BY <1>a, <1>c DEF FieldsOf, Place, AtRest, HwmonLocs, ZoneLocs, BoardLocs, LoadingLocs, GpuLocs,
     SampleLocs, OneFile
<1>l. Len(m.list) = 0
  BY <1>0, EmptyList
<1>1. Good(n) /\ Calm(n)
  <2>1. CASE n = ToMobile(m)
    BY <1>0, <1>l, <2>1, ToMobileGood DEF InTurn
  <2>2. CASE n = [m EXCEPT !.pc = "amd_file", !.i = 1, !.best = {Round(x) : x \in Read(fs, Input("temp", m.h, 1))}]
    <3> DEFINE v == {Round(x) : x \in Read(fs, Input("temp", m.h, 1))}
               k == [m EXCEPT !.best = v]
    <3>1. PICK y \in Int : Read(fs, Input("temp", m.h, 1)) \subseteq {y}
      <4>1. 1 \in 1 .. InputMax /\ Files(fs)
        BY Limits DEF Typed
      <4>2. QED
        BY <1>0, <4>1, ReadTemperature
    <3>2. v \in SUBSET Int /\ Cardinality(v) <= 1
      <4>1. Round(y) \in Int
        BY RoundInt
      <4>2. v \subseteq {Round(y)}
        BY <3>1
      <4> HIDE DEF v
      <4>3. QED
        BY <4>1, <4>2, OneValue
    <3> HIDE DEF v
    <3>3. Kept(k, m, Found) /\ k.list = m.list /\ k.best = v
      BY <1>0 DEF Kept, Found, Locals
    <3>4. n = [k EXCEPT !.pc = "amd_file", !.i = 1]
      BY <1>0, <2>2 DEF v, Locals
    <3> HIDE DEF k
    <3>5. InTurn(m, {"gpu"}) /\ IsSequence(k.list) /\ Len(k.list) <= MaxL
      BY <1>0, <3>3 DEF InTurn, FieldsOf, Bounded
    <3>6. InTurn(k, {"gpu"}) /\ k.h = m.h
      BY <3>2, <3>3, <3>5, RefillGood
    <3>7. QED
      BY <1>0, <3>3, <3>4, <3>6, AmdFirstGood
  <2>3. QED
    BY <1>b, <2>1, <2>2
<1>2. QED
  BY <1>b, <1>c, <1>1 DEF Taken, m

\* Every action of a reading away from nvml_load and the devices of NVML.
LEMMA ReadingTaken ==
  ASSUME NEW t \in Thread, Typed,
         \/ CpuTemperature(t) \/ Other(t)
         \/ AmdName(t) \/ AmdTemp(t) \/ AmdFile(t) \/ KgslFile(t)
  PROVE  Taken(t)
BY CpuNameTaken, CpuLabelTaken, CpuInputTaken, MsrTargetTaken, MsrStatusTaken, ReadZoneTypeTaken,
   ReadZoneTempTaken, NvmeNameTaken, NvmeInputTaken, BoardNameTaken, BoardInputTaken,
   ClockFreqTaken, LoadFirstTaken, LastFileTaken, AmdNameTaken, AmdTempTaken, AmdFileTaken,
   KgslFileTaken, Zenon
DEF CpuTemperature, Other

-----------------------------------------------------------------------------
(* What a step of one thread leaves of the invariant. *)

\* Thread t is at n, and the files and the plans are what they were.
Moves(t, n) ==
  /\ me' = [me EXCEPT ![t] = n] /\ me[t].pc \notin AtRest
  /\ UNCHANGED <<fs, plan, moments>>

\* A thread that moves to a good place keeps the state typed.
LEMMA MoveTyped ==
  ASSUME NEW t \in Thread, NEW n, Typed, Moves(t, n), Good(n), Shared'
  PROVE  Typed'
<1>1. me' = [me EXCEPT ![t] = n] /\ fs' = fs /\ plan' = plan /\ moments' = moments
  BY DEF Moves
<1>2. DOMAIN me' = Thread /\ me'[t] = n /\ \A u \in Thread \ {t} : me'[u] = me[u]
  BY <1>1 DEF Typed
<1>3. \A u \in Thread : Good(me'[u])
  BY <1>2 DEF Typed
<1>4. \A u \in Thread : me'[u].pc \in AtRest \/ fs \in moments[u]
  BY <1>2 DEF Typed, Moves
<1>5. QED
  BY <1>1, <1>2, <1>3, <1>4 DEF Typed

\* A step of a reading away from NVML keeps the inductive invariant.
LEMMA CalmKept ==
  ASSUME NEW t \in Thread, Typed, Guarded, Taken(t)
  PROVE  Typed' /\ Guarded'
<1>1. PICK n : Step(t, n) /\ Good(n) /\ Calm(n) /\ Calm(me[t]) /\ me[t].pc \notin AtRest
  BY DEF Taken
<1>2. /\ me' = [me EXCEPT ![t] = n] /\ fs' = fs /\ plan' = plan /\ vendor' = vendor /\ nv' = nv
      /\ moments' = moments /\ changes' = changes /\ raced' = raced
  BY <1>1 DEF Step
<1>3. DOMAIN me = Thread /\ me'[t] = n /\ \A u \in Thread \ {t} : me'[u] = me[u]
  BY <1>2 DEF Typed
<1>4. \A u \in Thread : /\ me'[u].pc \in {"nvml_try", "nvml_open"} <=> me[u].pc \in {"nvml_try", "nvml_open"}
                        /\ Calm(me'[u]) \/ me'[u] = me[u]
                        /\ Loading(u)' <=> Loading(u)
  BY <1>1, <1>3 DEF Calm, LoadingLocs, Loading
<1>5. Opening' = Opening
  BY <1>4 DEF Opening
<1>6. Shared'
  BY <1>2, <1>4, <1>5 DEF Shared, Typed, Calm, LoadingLocs
<1>7. Typed'
  BY <1>1, <1>2, <1>6, MoveTyped DEF Moves
<1>8. Guarded'
  <2> SUFFICES ASSUME ~raced' PROVE Guarded'
    BY DEF Guarded
  <2>1. \A u \in Thread : me'[u].pc # "crashed"
    BY <1>2, <1>4 DEF Guarded, Calm
  <2>2. \A u \in Thread : /\ me'[u].pc = "nvml_try" => ~nv'.tried
                          /\ me'[u].pc \in {"nvml_symbol", "nvml_init"} => nv'.lib
    BY <1>2, <1>4 DEF Guarded, Calm, LoadingLocs
  <2>3. \A u \in Thread : me'[u].pc \in {"nvml_device", "nvml_row"} =>
                            nv'.tried /\ nv'.lib /\ \A w \in Thread : ~Loading(w)'
    BY <1>2, <1>4 DEF Guarded, Calm
  <2>4. \A u \in Thread, w \in Thread : Loading(u)' /\ Loading(w)' => u = w
    BY <1>2, <1>4 DEF Guarded
  <2>5. /\ ~nv'.tried => ~nv'.lib
        /\ nv'.lib /\ (\A u \in Thread : ~Loading(u)') => Required \subseteq nv'.fn
    BY <1>2, <1>4 DEF Guarded
  <2>6. QED
    BY <2>1, <2>2, <2>3, <2>4, <2>5 DEF Guarded
<1>9. QED
  BY <1>7, <1>8

-----------------------------------------------------------------------------
(* NVML: the threads that are to open the library, and what they count. *)

\* As many threads are about to open the library as there are.
LEMMA OpeningFinite ==
  Typed => Opening \subseteq Thread /\ IsFiniteSet(Opening) /\ Cardinality(Opening) \in Nat
            /\ Cardinality(Thread) \in Nat /\ Cardinality(Opening) <= Cardinality(Thread)
<1>1. Opening \subseteq Thread
  BY DEF Opening
<1>2. QED
  BY <1>1, ThreadAssumption, FS_Subset, FS_CardinalityType

\* Thread t moves on within nvml_load or at a GPU, to n, and the rest stays.
NvmlMoves(t, n) ==
  /\ Moves(t, n) /\ FieldsOf(me[t]) /\ Bounded(me[t])
  /\ me[t].todo # <<>> /\ Head(me[t].todo) = "gpu" /\ me[t].index \in Nat
  /\ vendor' = vendor /\ changes' = changes
  /\ me'[t] = n /\ \A u \in Thread \ {t} : me'[u] = me[u]

\* A step of nvml_load, or at a GPU, moves its thread alone.
LEMMA NvmlAt ==
  ASSUME NEW t \in Thread, NEW n, Typed,
         me[t].pc \in {"nvml_check", "nvml_device", "nvml_row"} \cup LoadingLocs,
         me' = [me EXCEPT ![t] = n], UNCHANGED <<fs, plan, vendor, moments, changes>>
  PROVE  NvmlMoves(t, n) /\ InTurn(me[t], {"gpu"})
<1>1. Good(me[t])
  BY DEF Typed
<1>2. me[t].pc \in GpuLocs /\ me[t].pc \notin AtRest
  BY DEF LoadingLocs, GpuLocs, AtRest
<1>3. me[t].todo # <<>> /\ Head(me[t].todo) = "gpu"
  BY <1>1, <1>2 DEF Good, Place
<1>4. QED
  BY <1>1, <1>2, <1>3 DEF Good, FieldsOf, NvmlMoves, Moves, Typed, InTurn

LEMMA NvmlEmpty ==
  ASSUME NEW t \in Thread, Typed, me[t].pc \in {"nvml_check", "nvml_device"} \cup LoadingLocs
  PROVE  me[t].best = {} /\ me[t].list = <<>>
BY DEF Typed, Good, Place

\* The places of nvml_load and of the readings of a GPU.
LEMMA NvmlGoGood ==
  ASSUME NEW m, InTurn(m, {"gpu"}),
         m.best = {},
         m.list = <<>>
  PROVE  Good([m EXCEPT !.pc = "nvml_try"]) /\ [m EXCEPT !.pc = "nvml_try"].pc = "nvml_try"
<1> DEFINE n == [m EXCEPT !.pc = "nvml_try"]
<1>0. /\ DOMAIN m = Locals /\ m.todo # <<>> /\ Head(m.todo) \in {"gpu"}
      /\ FieldsOf(m) /\ Bounded(m) /\ m.h \in Nat /\ m.i \in Nat /\ Len(m.list) = 0
  BY EmptyList DEF InTurn, FieldsOf
<1>1. Good(n) /\ n.pc = "nvml_try"
  <2>1. Kept(n, m, Moved) /\ n.pc = "nvml_try" /\ n.h = m.h /\ n.i = m.i /\ n.best = m.best
    BY <1>0 DEF Kept, Moved, Locals
  <2> HIDE DEF n
  <2>2. n.todo = m.todo /\ n.list = m.list
    BY <2>1 DEF Kept, Moved, Locals
  <2>3. n.pc \in Locations
    BY <2>1 DEF Locations, AtRest, HwmonLocs, ZoneLocs, BoardLocs, LoadingLocs,
              GpuLocs, SampleLocs, OneFile
  <2>4. Place(n)
    BY <1>0, <2>1, <2>2, Limits
    DEF Place, AtRest, HwmonLocs, ZoneLocs, BoardLocs, LoadingLocs, GpuLocs,
        SampleLocs, OneFile, FieldsOf, Bounded
  <2>5. (n.h = m.h \/ n.h \in 0 .. MaxH - 1) /\ (n.i = m.i \/ n.i \in 0 .. MaxI)
    BY <1>0, <2>1, Limits
  <2>6. Good(n) /\ n.pc = "nvml_try"
    BY <1>0, <2>1, <2>3, <2>4, <2>5, MoveGood
  <2>7. QED
    BY <2>6 DEF n
<1>2. QED
  BY <1>1

LEMMA NvmlTriedGood ==
  ASSUME NEW m, InTurn(m, {"gpu"}),
         m.best = {},
         m.list = <<>>
  PROVE  Good([m EXCEPT !.pc = "nvml_open"]) /\ [m EXCEPT !.pc = "nvml_open"].pc = "nvml_open"
<1> DEFINE n == [m EXCEPT !.pc = "nvml_open"]
<1>0. /\ DOMAIN m = Locals /\ m.todo # <<>> /\ Head(m.todo) \in {"gpu"}
      /\ FieldsOf(m) /\ Bounded(m) /\ m.h \in Nat /\ m.i \in Nat /\ Len(m.list) = 0
  BY EmptyList DEF InTurn, FieldsOf
<1>1. Good(n) /\ n.pc = "nvml_open"
  <2>1. Kept(n, m, Moved) /\ n.pc = "nvml_open" /\ n.h = m.h /\ n.i = m.i /\ n.best = m.best
    BY <1>0 DEF Kept, Moved, Locals
  <2> HIDE DEF n
  <2>2. n.todo = m.todo /\ n.list = m.list
    BY <2>1 DEF Kept, Moved, Locals
  <2>3. n.pc \in Locations
    BY <2>1 DEF Locations, AtRest, HwmonLocs, ZoneLocs, BoardLocs, LoadingLocs,
              GpuLocs, SampleLocs, OneFile
  <2>4. Place(n)
    BY <1>0, <2>1, <2>2, Limits
    DEF Place, AtRest, HwmonLocs, ZoneLocs, BoardLocs, LoadingLocs, GpuLocs,
        SampleLocs, OneFile, FieldsOf, Bounded
  <2>5. (n.h = m.h \/ n.h \in 0 .. MaxH - 1) /\ (n.i = m.i \/ n.i \in 0 .. MaxI)
    BY <1>0, <2>1, Limits
  <2>6. Good(n) /\ n.pc = "nvml_open"
    BY <1>0, <2>1, <2>3, <2>4, <2>5, MoveGood
  <2>7. QED
    BY <2>6 DEF n
<1>2. QED
  BY <1>1

LEMMA NvmlOpenedGood ==
  ASSUME NEW m, InTurn(m, {"gpu"}),
         m.best = {},
         m.list = <<>>
  PROVE  Good([m EXCEPT !.pc = "nvml_symbol", !.i = 1]) /\ [m EXCEPT !.pc = "nvml_symbol", !.i = 1].pc = "nvml_symbol"
<1> DEFINE n == [m EXCEPT !.pc = "nvml_symbol", !.i = 1]
<1>0. /\ DOMAIN m = Locals /\ m.todo # <<>> /\ Head(m.todo) \in {"gpu"}
      /\ FieldsOf(m) /\ Bounded(m) /\ m.h \in Nat /\ m.i \in Nat /\ Len(m.list) = 0
  BY EmptyList DEF InTurn, FieldsOf
<1>1. Good(n) /\ n.pc = "nvml_symbol"
  <2>1. Kept(n, m, Moved) /\ n.pc = "nvml_symbol" /\ n.h = m.h /\ n.i = 1 /\ n.best = m.best
    BY <1>0 DEF Kept, Moved, Locals
  <2> HIDE DEF n
  <2>2. n.todo = m.todo /\ n.list = m.list
    BY <2>1 DEF Kept, Moved, Locals
  <2>3. n.pc \in Locations
    BY <2>1 DEF Locations, AtRest, HwmonLocs, ZoneLocs, BoardLocs, LoadingLocs,
              GpuLocs, SampleLocs, OneFile
  <2>4. Place(n)
    BY <1>0, <2>1, <2>2, Limits
    DEF Place, AtRest, HwmonLocs, ZoneLocs, BoardLocs, LoadingLocs, GpuLocs,
        SampleLocs, OneFile, FieldsOf, Bounded
  <2>5. (n.h = m.h \/ n.h \in 0 .. MaxH - 1) /\ (n.i = m.i \/ n.i \in 0 .. MaxI)
    BY <1>0, <2>1, Limits
  <2>6. Good(n) /\ n.pc = "nvml_symbol"
    BY <1>0, <2>1, <2>3, <2>4, <2>5, MoveGood
  <2>7. QED
    BY <2>6 DEF n
<1>2. QED
  BY <1>1

LEMMA NvmlSymbolGood ==
  ASSUME NEW m, InTurn(m, {"gpu"}),
         m.best = {},
         m.list = <<>>,
         m.pc = "nvml_symbol",
         m.i + 1 \in 1 .. Len(Symbols)
  PROVE  Good([m EXCEPT !.i = @ + 1]) /\ [m EXCEPT !.i = @ + 1].pc = "nvml_symbol"
<1> DEFINE n == [m EXCEPT !.i = @ + 1]
<1>0. /\ DOMAIN m = Locals /\ m.todo # <<>> /\ Head(m.todo) \in {"gpu"}
      /\ FieldsOf(m) /\ Bounded(m) /\ m.h \in Nat /\ m.i \in Nat /\ Len(m.list) = 0
  BY EmptyList DEF InTurn, FieldsOf
<1>1. Good(n) /\ n.pc = "nvml_symbol"
  <2>1. Kept(n, m, Moved) /\ n.pc = "nvml_symbol" /\ n.h = m.h /\ n.i = m.i + 1 /\ n.best = m.best
    BY <1>0 DEF Kept, Moved, Locals
  <2> HIDE DEF n
  <2>2. n.todo = m.todo /\ n.list = m.list
    BY <2>1 DEF Kept, Moved, Locals
  <2>3. n.pc \in Locations
    BY <2>1 DEF Locations, AtRest, HwmonLocs, ZoneLocs, BoardLocs, LoadingLocs,
              GpuLocs, SampleLocs, OneFile
  <2>4. Place(n)
    BY <1>0, <2>1, <2>2, Limits
    DEF Place, AtRest, HwmonLocs, ZoneLocs, BoardLocs, LoadingLocs, GpuLocs,
        SampleLocs, OneFile, FieldsOf, Bounded
  <2>5. (n.h = m.h \/ n.h \in 0 .. MaxH - 1) /\ (n.i = m.i \/ n.i \in 0 .. MaxI)
    BY <1>0, <2>1, Limits
  <2>6. Good(n) /\ n.pc = "nvml_symbol"
    BY <1>0, <2>1, <2>3, <2>4, <2>5, MoveGood
  <2>7. QED
    BY <2>6 DEF n
<1>2. QED
  BY <1>1

LEMMA NvmlLookedGood ==
  ASSUME NEW m, InTurn(m, {"gpu"}),
         m.best = {},
         m.list = <<>>
  PROVE  Good([m EXCEPT !.pc = "nvml_init"]) /\ [m EXCEPT !.pc = "nvml_init"].pc = "nvml_init"
<1> DEFINE n == [m EXCEPT !.pc = "nvml_init"]
<1>0. /\ DOMAIN m = Locals /\ m.todo # <<>> /\ Head(m.todo) \in {"gpu"}
      /\ FieldsOf(m) /\ Bounded(m) /\ m.h \in Nat /\ m.i \in Nat /\ Len(m.list) = 0
  BY EmptyList DEF InTurn, FieldsOf
<1>1. Good(n) /\ n.pc = "nvml_init"
  <2>1. Kept(n, m, Moved) /\ n.pc = "nvml_init" /\ n.h = m.h /\ n.i = m.i /\ n.best = m.best
    BY <1>0 DEF Kept, Moved, Locals
  <2> HIDE DEF n
  <2>2. n.todo = m.todo /\ n.list = m.list
    BY <2>1 DEF Kept, Moved, Locals
  <2>3. n.pc \in Locations
    BY <2>1 DEF Locations, AtRest, HwmonLocs, ZoneLocs, BoardLocs, LoadingLocs,
              GpuLocs, SampleLocs, OneFile
  <2>4. Place(n)
    BY <1>0, <2>1, <2>2, Limits
    DEF Place, AtRest, HwmonLocs, ZoneLocs, BoardLocs, LoadingLocs, GpuLocs,
        SampleLocs, OneFile, FieldsOf, Bounded
  <2>5. (n.h = m.h \/ n.h \in 0 .. MaxH - 1) /\ (n.i = m.i \/ n.i \in 0 .. MaxI)
    BY <1>0, <2>1, Limits
  <2>6. Good(n) /\ n.pc = "nvml_init"
    BY <1>0, <2>1, <2>3, <2>4, <2>5, MoveGood
  <2>7. QED
    BY <2>6 DEF n
<1>2. QED
  BY <1>1

LEMMA ToDeviceGood ==
  ASSUME NEW m, InTurn(m, {"gpu"}),
         m.best = {},
         m.list = <<>>
  PROVE  Good(ToDevice(m)) /\ ToDevice(m).pc = "nvml_device"
<1> DEFINE n == ToDevice(m)
<1>0. /\ DOMAIN m = Locals /\ m.todo # <<>> /\ Head(m.todo) \in {"gpu"}
      /\ FieldsOf(m) /\ Bounded(m) /\ m.h \in Nat /\ m.i \in Nat /\ Len(m.list) = 0
  BY EmptyList DEF InTurn, FieldsOf
<1>1. Good(n) /\ n.pc = "nvml_device"
  <2>1. Kept(n, m, Moved) /\ n.pc = "nvml_device" /\ n.h = m.h /\ n.i = m.i /\ n.best = m.best
    BY <1>0 DEF ToDevice, Kept, Moved, Locals
  <2> HIDE DEF n
  <2>2. n.todo = m.todo /\ n.list = m.list
    BY <2>1 DEF Kept, Moved, Locals
  <2>3. n.pc \in Locations
    BY <2>1 DEF Locations, AtRest, HwmonLocs, ZoneLocs, BoardLocs, LoadingLocs,
              GpuLocs, SampleLocs, OneFile
  <2>4. Place(n)
    BY <1>0, <2>1, <2>2, Limits
    DEF Place, AtRest, HwmonLocs, ZoneLocs, BoardLocs, LoadingLocs, GpuLocs,
        SampleLocs, OneFile, FieldsOf, Bounded
  <2>5. (n.h = m.h \/ n.h \in 0 .. MaxH - 1) /\ (n.i = m.i \/ n.i \in 0 .. MaxI)
    BY <1>0, <2>1, Limits
  <2>6. Good(n) /\ n.pc = "nvml_device"
    BY <1>0, <2>1, <2>3, <2>4, <2>5, MoveGood
  <2>7. QED
    BY <2>6 DEF n
<1>2. QED
  BY <1>1

LEMMA CrashGood ==
  ASSUME NEW m, InTurn(m, {"gpu"})
  PROVE  Good(Crash(m)) /\ Crash(m).pc = "crashed"
<1> DEFINE n == Crash(m)
<1>0. /\ DOMAIN m = Locals /\ m.todo # <<>> /\ Head(m.todo) \in {"gpu"}
      /\ FieldsOf(m) /\ Bounded(m) /\ m.h \in Nat /\ m.i \in Nat
  BY DEF InTurn, FieldsOf
<1>1. Good(n) /\ n.pc = "crashed"
  <2>1. Kept(n, m, Moved) /\ n.pc = "crashed" /\ n.h = m.h /\ n.i = m.i /\ n.best = m.best
    BY <1>0 DEF Crash, Kept, Moved, Locals
  <2> HIDE DEF n
  <2>2. n.todo = m.todo /\ n.list = m.list
    BY <2>1 DEF Kept, Moved, Locals
  <2>3. n.pc \in Locations
    BY <2>1 DEF Locations, AtRest, HwmonLocs, ZoneLocs, BoardLocs, LoadingLocs,
              GpuLocs, SampleLocs, OneFile
  <2>4. Place(n)
    BY <1>0, <2>1, <2>2, Limits
    DEF Place, AtRest, HwmonLocs, ZoneLocs, BoardLocs, LoadingLocs, GpuLocs,
        SampleLocs, OneFile, FieldsOf, Bounded
  <2>5. (n.h = m.h \/ n.h \in 0 .. MaxH - 1) /\ (n.i = m.i \/ n.i \in 0 .. MaxI)
    BY <1>0, <2>1, Limits
  <2>6. Good(n) /\ n.pc = "crashed"
    BY <1>0, <2>1, <2>3, <2>4, <2>5, MoveGood
  <2>7. QED
    BY <2>6 DEF n
<1>2. QED
  BY <1>1

LEMMA NvmlFirstGood ==
  ASSUME NEW m, InTurn(m, {"gpu"})
  PROVE  Good([m EXCEPT !.pc = "nvml_row", !.i = 1]) /\ [m EXCEPT !.pc = "nvml_row", !.i = 1].pc = "nvml_row"
<1> DEFINE n == [m EXCEPT !.pc = "nvml_row", !.i = 1]
<1>0. /\ DOMAIN m = Locals /\ m.todo # <<>> /\ Head(m.todo) \in {"gpu"}
      /\ FieldsOf(m) /\ Bounded(m) /\ m.h \in Nat /\ m.i \in Nat
  BY DEF InTurn, FieldsOf
<1>1. Good(n) /\ n.pc = "nvml_row"
  <2>1. Kept(n, m, Moved) /\ n.pc = "nvml_row" /\ n.h = m.h /\ n.i = 1 /\ n.best = m.best
    BY <1>0 DEF Kept, Moved, Locals
  <2> HIDE DEF n
  <2>2. n.todo = m.todo /\ n.list = m.list
    BY <2>1 DEF Kept, Moved, Locals
  <2>3. n.pc \in Locations
    BY <2>1 DEF Locations, AtRest, HwmonLocs, ZoneLocs, BoardLocs, LoadingLocs,
              GpuLocs, SampleLocs, OneFile
  <2>4. Place(n)
    BY <1>0, <2>1, <2>2, Limits
    DEF Place, AtRest, HwmonLocs, ZoneLocs, BoardLocs, LoadingLocs, GpuLocs,
        SampleLocs, OneFile, FieldsOf, Bounded
  <2>5. (n.h = m.h \/ n.h \in 0 .. MaxH - 1) /\ (n.i = m.i \/ n.i \in 0 .. MaxI)
    BY <1>0, <2>1, Limits
  <2>6. Good(n) /\ n.pc = "nvml_row"
    BY <1>0, <2>1, <2>3, <2>4, <2>5, MoveGood
  <2>7. QED
    BY <2>6 DEF n
<1>2. QED
  BY <1>1

LEMMA NvmlRowGood ==
  ASSUME NEW m, InTurn(m, {"gpu"}),
         m.pc = "nvml_row",
         m.i + 1 \in 1 .. Len(Rows)
  PROVE  Good([m EXCEPT !.i = @ + 1]) /\ [m EXCEPT !.i = @ + 1].pc = "nvml_row"
<1> DEFINE n == [m EXCEPT !.i = @ + 1]
<1>0. /\ DOMAIN m = Locals /\ m.todo # <<>> /\ Head(m.todo) \in {"gpu"}
      /\ FieldsOf(m) /\ Bounded(m) /\ m.h \in Nat /\ m.i \in Nat
  BY DEF InTurn, FieldsOf
<1>1. Good(n) /\ n.pc = "nvml_row"
  <2>1. Kept(n, m, Moved) /\ n.pc = "nvml_row" /\ n.h = m.h /\ n.i = m.i + 1 /\ n.best = m.best
    BY <1>0 DEF Kept, Moved, Locals
  <2> HIDE DEF n
  <2>2. n.todo = m.todo /\ n.list = m.list
    BY <2>1 DEF Kept, Moved, Locals
  <2>3. n.pc \in Locations
    BY <2>1 DEF Locations, AtRest, HwmonLocs, ZoneLocs, BoardLocs, LoadingLocs,
              GpuLocs, SampleLocs, OneFile
  <2>4. Place(n)
    BY <1>0, <2>1, <2>2, Limits
    DEF Place, AtRest, HwmonLocs, ZoneLocs, BoardLocs, LoadingLocs, GpuLocs,
        SampleLocs, OneFile, FieldsOf, Bounded
  <2>5. (n.h = m.h \/ n.h \in 0 .. MaxH - 1) /\ (n.i = m.i \/ n.i \in 0 .. MaxI)
    BY <1>0, <2>1, Limits
  <2>6. Good(n) /\ n.pc = "nvml_row"
    BY <1>0, <2>1, <2>3, <2>4, <2>5, MoveGood
  <2>7. QED
    BY <2>6 DEF n
<1>2. QED
  BY <1>1

\* What is shared stays right while thread t moves and nv becomes what it is next.
LEMMA NvmlShared ==
  ASSUME NEW t \in Thread, NEW n, Typed, NvmlMoves(t, n), raced' \in BOOLEAN,
         nv' \in [tried : BOOLEAN, lib : BOOLEAN, fn : SUBSET Range(Symbols), opens : Nat],
         nv'.lib => nv'.opens > 0, ~nv'.tried => nv'.opens = 0, nv.tried => nv'.tried,
         n.pc \in {"nvml_open", "nvml_symbol", "nvml_init"} => nv'.tried,
         nv'.opens + Cardinality(Opening') <= Cardinality(Thread)
  PROVE  Shared'
<1>1. \A u \in Thread : me'[u].pc \in {"nvml_open", "nvml_symbol", "nvml_init"} => nv'.tried
  BY DEF NvmlMoves, Typed, Shared
<1>2. vendor' = vendor /\ changes' = changes
  BY DEF NvmlMoves
<1>3. QED
  BY <1>1, <1>2 DEF Typed, Shared

\* Thread t is neither before nor after the move about to open the library.
LEMMA OpeningSame ==
  ASSUME NEW t \in Thread, NEW n, NvmlMoves(t, n),
         me[t].pc \in {"nvml_try", "nvml_open"} <=> n.pc \in {"nvml_try", "nvml_open"}
  PROVE  Opening' = Opening
<1>1. \A u \in Thread : me'[u].pc \in {"nvml_try", "nvml_open"} <=> me[u].pc \in {"nvml_try", "nvml_open"}
  BY DEF NvmlMoves
<1>2. QED
  BY <1>1 DEF Opening

\* nvml_load: the check of the flag.  One lemma for each of its steps, all
\* keep the inductive invariant.
LEMMA CheckKept ==
  ASSUME NEW t \in Thread, Typed, Guarded, NvmlCheck(t)
  PROVE  Typed' /\ Guarded'
<1>1. PICK n : /\ me' = [me EXCEPT ![t] = n] /\ nv' = nv
               /\ UNCHANGED <<fs, plan, vendor, moments, changes>>
               /\ \/ ~nv.tried /\ n = [me[t] EXCEPT !.pc = "nvml_try"]
                  \/ nv.tried /\ nv.lib /\ n = ToDevice(me[t])
                  \/ nv.tried /\ ~nv.lib /\ n = ToAmd(me[t])
  BY DEF NvmlCheck, NvmlStep
<1>2. me[t].pc = "nvml_check" /\ raced' = (raced \/ \E u \in Thread \ {t} : Loading(u))
  BY DEF NvmlCheck, At
<1>3. NvmlMoves(t, n) /\ InTurn(me[t], {"gpu"}) /\ me[t].best = {} /\ me[t].list = <<>>
  BY <1>1, <1>2, NvmlAt, NvmlEmpty DEF LoadingLocs
<1>4. Good(n) /\ \/ ~nv.tried /\ n.pc = "nvml_try"
                 \/ nv.tried /\ nv.lib /\ n.pc = "nvml_device"
                 \/ nv.tried /\ ~nv.lib /\ Calm(n)
  BY <1>1, <1>3, NvmlGoGood, ToDeviceGood, ToAmdGood
<1>5. raced \in BOOLEAN /\ raced' \in BOOLEAN
  BY <1>2 DEF Typed, Shared
<1>6. nv.opens + Cardinality(Opening') <= Cardinality(Thread)
  <2>1. CASE ~nv.tried
    <3>1. nv.opens = 0
      BY <2>1 DEF Typed, Shared
    <3>2. Opening' \subseteq Thread /\ Cardinality(Opening') <= Cardinality(Thread)
           /\ Cardinality(Opening') \in Nat
      BY ThreadAssumption, FS_Subset, FS_CardinalityType DEF Opening
    <3>3. QED
      BY <3>1, <3>2
  <2>2. CASE nv.tried
    <3>1. Opening' = Opening
      BY <1>2, <1>3, <1>4, <2>2, OpeningSame DEF Calm, LoadingLocs
    <3>2. QED
      BY <3>1 DEF Typed, Shared
  <2>3. QED
    BY <2>1, <2>2
<1>7. Shared'
  <2>1. n.pc \notin {"nvml_open", "nvml_symbol", "nvml_init"}
    BY <1>4 DEF Calm, LoadingLocs
  <2>2. QED
    BY <1>1, <1>3, <1>5, <1>6, <2>1, NvmlShared DEF Typed, Shared
<1>8. Typed'
  BY <1>3, <1>4, <1>7, MoveTyped DEF NvmlMoves
<1>9. Guarded'
  <2> SUFFICES ASSUME ~raced' PROVE Guarded'
    BY DEF Guarded
  <2>1. ~raced /\ \A u \in Thread : ~Loading(u)
    BY <1>2, <1>5 DEF Loading
  <2>2. me'[t] = n /\ \A u \in Thread \ {t} : me'[u] = me[u]
    BY <1>3 DEF NvmlMoves
  <2>3. \A u \in Thread \ {t} : ~Loading(u)' /\ me'[u].pc \notin LoadingLocs
    BY <2>1, <2>2 DEF Loading, LoadingLocs
  <2>4. Loading(t)' <=> ~nv.tried
    BY <1>4, <2>2 DEF Loading, Calm, LoadingLocs
  <2>5. \A u \in Thread : me'[u].pc # "crashed"
    BY <1>4, <2>1, <2>2 DEF Guarded, Calm
  <2>6. \A u \in Thread : /\ me'[u].pc = "nvml_try" => ~nv.tried
                          /\ me'[u].pc \notin {"nvml_symbol", "nvml_init"}
    BY <1>4, <2>2, <2>3 DEF Calm, LoadingLocs
  <2>7. \A u \in Thread : me'[u].pc \in {"nvml_device", "nvml_row"} =>
                            nv.tried /\ nv.lib /\ \A w \in Thread : ~Loading(w)'
    <3>1. \A u \in Thread : me'[u].pc \in {"nvml_device", "nvml_row"} => nv.tried /\ nv.lib
      BY <1>4, <2>1, <2>2 DEF Guarded, Calm
    <3>2. QED
      BY <2>3, <2>4, <3>1
  <2>8. \A u \in Thread, w \in Thread : Loading(u)' /\ Loading(w)' => u = w
    BY <2>3
  <2>9. /\ ~nv.tried => ~nv.lib
        /\ nv.lib => Required \subseteq nv.fn
    BY <2>1 DEF Guarded
  <2>10. QED
    BY <1>1, <2>5, <2>6, <2>7, <2>8, <2>9 DEF Guarded
<1>10. QED
  BY <1>8, <1>9

\* Without a race thread t is the only one in nvml_load, and none is at a GPU of the library.
LEMMA Alone ==
  ASSUME NEW t \in Thread, NEW n, Guarded, ~raced, Loading(t), NvmlMoves(t, n)
  PROVE  /\ \A u \in Thread \ {t} : /\ ~Loading(u)' /\ me'[u].pc # "crashed"
                                    /\ me'[u].pc \notin LoadingLocs \cup {"nvml_device", "nvml_row"}
         /\ me'[t] = n
<1>1. \A u \in Thread \ {t} : ~Loading(u) /\ me[u].pc \notin {"nvml_device", "nvml_row", "crashed"}
  BY DEF Guarded
<1>2. me'[t] = n /\ \A u \in Thread \ {t} : me'[u] = me[u]
  BY DEF NvmlMoves
<1>3. QED
  BY <1>1, <1>2 DEF Loading, LoadingLocs

LEMMA TryKept ==
  ASSUME NEW t \in Thread, Typed, Guarded, NvmlTry(t)
  PROVE  Typed' /\ Guarded'
<1> DEFINE n == [me[t] EXCEPT !.pc = "nvml_open"]
<1>1. /\ me' = [me EXCEPT ![t] = n] /\ nv' = [nv EXCEPT !.tried = TRUE] /\ raced' = raced
      /\ UNCHANGED <<fs, plan, vendor, moments, changes>> /\ me[t].pc = "nvml_try"
  BY DEF NvmlTry, NvmlStep, At
<1>2. NvmlMoves(t, n) /\ InTurn(me[t], {"gpu"}) /\ me[t].best = {} /\ me[t].list = <<>>
  BY <1>1, NvmlAt, NvmlEmpty DEF LoadingLocs
<1>3. Good(n) /\ n.pc = "nvml_open"
  BY <1>2, NvmlTriedGood
<1> HIDE DEF n
<1>4. nv \in [tried : BOOLEAN, lib : BOOLEAN, fn : SUBSET Range(Symbols), opens : Nat]
  BY DEF Typed, Shared
<1>5. nv'.tried /\ nv'.lib = nv.lib /\ nv'.fn = nv.fn /\ nv'.opens = nv.opens
      /\ nv' \in [tried : BOOLEAN, lib : BOOLEAN, fn : SUBSET Range(Symbols), opens : Nat]
  BY <1>1, <1>4
<1>6. Opening' = Opening
  BY <1>1, <1>2, <1>3, OpeningSame
<1>7. Shared'
  BY <1>1, <1>2, <1>5, <1>6, NvmlShared DEF Typed, Shared
<1>8. Typed'
  BY <1>2, <1>3, <1>7, MoveTyped DEF NvmlMoves
<1>9. Guarded'
  <2> SUFFICES ASSUME ~raced' PROVE Guarded'
    BY DEF Guarded
  <2>1. ~raced /\ Loading(t)
    BY <1>1 DEF Loading
  <2>2. /\ \A u \in Thread \ {t} : /\ ~Loading(u)' /\ me'[u].pc # "crashed"
                                   /\ me'[u].pc \notin LoadingLocs \cup {"nvml_device", "nvml_row"}
        /\ me'[t] = n
    BY <1>2, <2>1, Alone
  <2>3. Loading(t)'
    BY <1>3, <2>2 DEF Loading
  <2>4. QED
    BY <1>3, <1>5, <2>2, <2>3 DEF Guarded, LoadingLocs
<1>10. QED
  BY <1>8, <1>9

LEMMA OpenKept ==
  ASSUME NEW t \in Thread, Typed, Guarded, NvmlOpen(t)
  PROVE  Typed' /\ Guarded'
<1>1. PICK n : /\ me' = [me EXCEPT ![t] = n] /\ raced' = raced
               /\ UNCHANGED <<fs, plan, vendor, moments, changes>> /\ me[t].pc = "nvml_open"
               /\ \/ /\ n = [me[t] EXCEPT !.pc = "nvml_symbol", !.i = 1]
                     /\ nv' = [nv EXCEPT !.lib = TRUE, !.opens = @ + 1]
                  \/ n = ToAmd(me[t]) /\ nv' = [nv EXCEPT !.lib = FALSE]
  BY DEF NvmlOpen, NvmlStep, At
<1>2. NvmlMoves(t, n) /\ InTurn(me[t], {"gpu"}) /\ me[t].best = {} /\ me[t].list = <<>>
  BY <1>1, NvmlAt, NvmlEmpty DEF LoadingLocs
<1>3. nv \in [tried : BOOLEAN, lib : BOOLEAN, fn : SUBSET Range(Symbols), opens : Nat] /\ nv.tried
  BY <1>1 DEF Typed, Shared
<1> DEFINE R == [tried : BOOLEAN, lib : BOOLEAN, fn : SUBSET Range(Symbols), opens : Nat]
           A == [nv EXCEPT !.lib = TRUE, !.opens = @ + 1]
           B == [nv EXCEPT !.lib = FALSE]
<1>a. A.tried /\ A.fn = nv.fn /\ A \in R /\ A.lib /\ A.opens = nv.opens + 1
  <2> DEFINE k == nv.opens + 1
  <2>1. k \in Nat /\ A = [nv EXCEPT !.lib = TRUE, !.opens = k]
    BY <1>3
  <2> HIDE DEF k, A
  <2>2. A.tried /\ A.fn = nv.fn /\ A \in R /\ A.lib /\ A.opens = k
    BY <1>3, <2>1
  <2>3. QED
    BY <2>2 DEF k
<1>b. B.tried /\ B.fn = nv.fn /\ B \in R /\ ~B.lib /\ B.opens = nv.opens
  BY <1>3
<1>c. \/ n = [me[t] EXCEPT !.pc = "nvml_symbol", !.i = 1] /\ nv' = A
      \/ n = ToAmd(me[t]) /\ nv' = B
  BY <1>1
<1> HIDE DEF A, B
<1>4. Good(n) /\ \/ n.pc = "nvml_symbol" /\ nv'.lib /\ nv'.opens = nv.opens + 1
                 \/ Calm(n) /\ ~nv'.lib /\ nv'.opens = nv.opens
  <2>1. CASE n = [me[t] EXCEPT !.pc = "nvml_symbol", !.i = 1] /\ nv' = A
    <3>1. Good(n) /\ n.pc = "nvml_symbol"
      BY <1>2, <2>1, NvmlOpenedGood
    <3>2. QED
      BY <1>a, <2>1, <3>1
  <2>2. CASE n = ToAmd(me[t]) /\ nv' = B
    <3>1. Good(n) /\ Calm(n)
      BY <1>2, <2>2, ToAmdGood
    <3>2. QED
      BY <1>b, <2>2, <3>1
  <2>3. QED
    BY <1>c, <2>1, <2>2
<1>5. nv'.tried /\ nv'.fn = nv.fn
      /\ nv' \in [tried : BOOLEAN, lib : BOOLEAN, fn : SUBSET Range(Symbols), opens : Nat]
  BY <1>a, <1>b, <1>c
<1>6. nv'.opens + Cardinality(Opening') <= Cardinality(Thread)
  <2>1. Opening' = Opening \ {t} /\ t \in Opening
    <3>1. \A u \in Thread : me'[u].pc \in {"nvml_try", "nvml_open"} <=>
                              u # t /\ me[u].pc \in {"nvml_try", "nvml_open"}
      BY <1>2, <1>4 DEF NvmlMoves, Calm, LoadingLocs
    <3>2. QED
      BY <1>1, <3>1 DEF Opening
  <2>2. Cardinality(Opening') = Cardinality(Opening) - 1
    BY <2>1, OpeningFinite, FS_RemoveElement
  <2>3. nv.opens + Cardinality(Opening) <= Cardinality(Thread)
    BY DEF Typed, Shared
  <2> DEFINE a == Cardinality(Opening)
             b == Cardinality(Opening')
             c == Cardinality(Thread)
  <2>4. a \in Nat /\ c \in Nat /\ b = a - 1 /\ nv.opens + a <= c /\ nv.opens \in Nat
    BY <1>3, <2>2, <2>3, OpeningFinite
  <2>5. nv'.opens = nv.opens + 1 \/ nv'.opens = nv.opens
    BY <1>4
  <2> HIDE DEF a, b, c
  <2>6. nv'.opens + b <= c
    BY <2>4, <2>5
  <2>7. QED
    BY <2>6 DEF b, c
<1>7. Shared'
  <2>1. nv'.lib => nv'.opens > 0
    BY <1>3, <1>4
  <2>2. raced' \in BOOLEAN
    BY <1>1 DEF Typed, Shared
  <2>3. QED
    BY <1>2, <1>5, <1>6, <2>1, <2>2, NvmlShared
<1>8. Typed'
  BY <1>2, <1>4, <1>7, MoveTyped DEF NvmlMoves
<1>9. Guarded'
  <2> SUFFICES ASSUME ~raced' PROVE Guarded'
    BY DEF Guarded
  <2>1. ~raced /\ Loading(t)
    BY <1>1 DEF Loading
  <2>2. /\ \A u \in Thread \ {t} : /\ ~Loading(u)' /\ me'[u].pc # "crashed"
                                   /\ me'[u].pc \notin LoadingLocs \cup {"nvml_device", "nvml_row"}
        /\ me'[t] = n
    BY <1>2, <2>1, Alone
  <2>3. Loading(t)' \/ ~nv'.lib
    BY <1>4, <2>2 DEF Loading
  <2>4. /\ n.pc \notin {"crashed", "nvml_try", "nvml_device", "nvml_row"}
        /\ n.pc \in {"nvml_symbol", "nvml_init"} => nv'.lib
    BY <1>4 DEF Calm, LoadingLocs
  <2>5. QED
    BY <1>5, <2>2, <2>3, <2>4 DEF Guarded, LoadingLocs
<1>10. QED
  BY <1>8, <1>9

LEMMA SymbolKept ==
  ASSUME NEW t \in Thread, Typed, Guarded, NvmlSymbol(t)
  PROVE  Typed' /\ Guarded'
<1> DEFINE m == me[t]
           s == Symbols[m.i]
           f == IF nv.lib /\ s \in image.symbols THEN nv.fn \cup {s} ELSE nv.fn \ {s}
           R == [tried : BOOLEAN, lib : BOOLEAN, fn : SUBSET Range(Symbols), opens : Nat]
<1>1. PICK n : /\ me' = [me EXCEPT ![t] = n] /\ nv' = [nv EXCEPT !.fn = f] /\ raced' = raced
               /\ UNCHANGED <<fs, plan, vendor, moments, changes>> /\ m.pc = "nvml_symbol"
               /\ \/ m.i < Len(Symbols) /\ n = [m EXCEPT !.i = @ + 1]
                  \/ n = [m EXCEPT !.pc = "nvml_init"]
  BY DEF NvmlSymbol, NvmlStep, At
<1>2. NvmlMoves(t, n) /\ InTurn(m, {"gpu"}) /\ m.best = {} /\ m.list = <<>>
  BY <1>1, NvmlAt, NvmlEmpty DEF LoadingLocs
<1>3. nv \in R /\ nv.tried /\ m.i \in 1 .. Len(Symbols)
  BY <1>1 DEF Typed, Shared, Good, Place
<1>4. s \in Range(Symbols)
  <2>1. DOMAIN Symbols = 1 .. Len(Symbols)
    BY DEF Symbols
  <2>2. QED
    BY <1>3, <2>1 DEF Range
<1>5. f \in SUBSET Range(Symbols)
  BY <1>3, <1>4
<1> HIDE DEF f, s, m
<1>6. nv'.tried /\ nv'.lib = nv.lib /\ nv'.opens = nv.opens /\ nv' \in R
  BY <1>1, <1>3, <1>5
<1>7. Good(n) /\ n.pc \in {"nvml_symbol", "nvml_init"}
  <2>1. CASE m.i < Len(Symbols) /\ n = [m EXCEPT !.i = @ + 1]
    <3>1. m.i < Len(Symbols)
      BY <2>1
    <3>2. m.i + 1 \in 1 .. Len(Symbols)
      BY <1>3, <3>1, Limits
    <3>3. QED
      BY <1>1, <1>2, <2>1, <3>2, NvmlSymbolGood
  <2>2. CASE n = [m EXCEPT !.pc = "nvml_init"]
    BY <1>2, <2>2, NvmlLookedGood
  <2>3. QED
    BY <1>1, <2>1, <2>2
<1>8. Opening' = Opening
  BY <1>1, <1>2, <1>7, OpeningSame DEF m
<1>9. Shared'
  BY <1>1, <1>2, <1>6, <1>8, NvmlShared DEF Typed, Shared
<1>10. Typed'
  BY <1>2, <1>7, <1>9, MoveTyped DEF NvmlMoves
<1>11. Guarded'
  <2> SUFFICES ASSUME ~raced' PROVE Guarded'
    BY DEF Guarded
  <2>1. ~raced /\ Loading(t)
    BY <1>1 DEF Loading, m
  <2>2. /\ \A u \in Thread \ {t} : /\ ~Loading(u)' /\ me'[u].pc # "crashed"
                                   /\ me'[u].pc \notin LoadingLocs \cup {"nvml_device", "nvml_row"}
        /\ me'[t] = n
    BY <1>2, <2>1, Alone
  <2>3. Loading(t)'
    BY <1>7, <2>2 DEF Loading
  <2>4. nv'.lib
    BY <1>1, <1>6, <2>1 DEF Guarded, m
  <2>5. QED
    BY <1>6, <1>7, <2>2, <2>3, <2>4 DEF Guarded, LoadingLocs
<1>12. QED
  BY <1>10, <1>11

LEMMA InitKept ==
  ASSUME NEW t \in Thread, Typed, Guarded, NvmlInit(t)
  PROVE  Typed' /\ Guarded'
<1> DEFINE R == [tried : BOOLEAN, lib : BOOLEAN, fn : SUBSET Range(Symbols), opens : Nat]
           B == [nv EXCEPT !.lib = FALSE, !.opens = @ - 1]
<1>1. PICK n : /\ me' = [me EXCEPT ![t] = n] /\ raced' = raced
               /\ UNCHANGED <<fs, plan, vendor, moments, changes>> /\ me[t].pc = "nvml_init"
               /\ \/ /\ (Required \subseteq nv.fn /\ Wild("init")) \/ ~nv.lib
                     /\ n = Crash(me[t]) /\ nv' = nv
                  \/ Required \subseteq nv.fn /\ n = ToDevice(me[t]) /\ nv' = nv
                  \/ nv.lib /\ n = ToAmd(me[t]) /\ nv' = B
  BY DEF NvmlInit, NvmlStep, At
<1>2. NvmlMoves(t, n) /\ InTurn(me[t], {"gpu"}) /\ me[t].best = {} /\ me[t].list = <<>>
  BY <1>1, NvmlAt, NvmlEmpty DEF LoadingLocs
<1>3. nv \in R /\ nv.tried /\ (nv.lib => nv.opens > 0)
  BY <1>1 DEF Typed, Shared
<1>4. nv.lib => /\ B \in R /\ B.tried /\ ~B.lib /\ B.opens + 1 = nv.opens
  <2> SUFFICES ASSUME nv.lib PROVE B \in R /\ B.tried /\ ~B.lib /\ B.opens + 1 = nv.opens
    OBVIOUS
  <2> DEFINE k == nv.opens - 1
  <2>1. k \in Nat /\ k + 1 = nv.opens /\ B = [nv EXCEPT !.lib = FALSE, !.opens = k]
    BY <1>3
  <2> HIDE DEF k, B
  <2>2. QED
    BY <1>3, <2>1
<1> HIDE DEF B
<1>5. Good(n) /\ \/ ((Required \subseteq nv.fn /\ Wild("init")) \/ ~nv.lib) /\ n.pc = "crashed" /\ nv' = nv
                 \/ Required \subseteq nv.fn /\ n.pc = "nvml_device" /\ nv' = nv
                 \/ nv.lib /\ Calm(n) /\ nv' = B
  BY <1>1, <1>2, CrashGood, ToDeviceGood, ToAmdGood
<1>6. Opening' = Opening
  BY <1>1, <1>2, <1>5, OpeningSame DEF Calm, LoadingLocs
<1>7. nv' \in R /\ nv'.tried /\ nv'.opens <= nv.opens /\ (nv'.lib => nv'.opens > 0)
  BY <1>3, <1>4, <1>5
<1>8. nv'.opens + Cardinality(Opening') <= Cardinality(Thread)
  <2> DEFINE a == Cardinality(Opening)
             c == Cardinality(Thread)
  <2>1. a \in Nat /\ c \in Nat /\ nv.opens + a <= c
    BY OpeningFinite DEF Typed, Shared
  <2> HIDE DEF a, c
  <2>2. nv'.opens \in Nat /\ nv.opens \in Nat
    BY <1>3, <1>7
  <2>3. nv'.opens + a <= c
    BY <1>7, <2>1, <2>2
  <2>4. QED
    BY <1>6, <2>3 DEF a, c
<1>9. Shared'
  <2>1. raced' \in BOOLEAN
    BY <1>1 DEF Typed, Shared
  <2>2. QED
    BY <1>2, <1>7, <1>8, <2>1, NvmlShared
<1>10. Typed'
  BY <1>2, <1>5, <1>9, MoveTyped DEF NvmlMoves
<1>11. Guarded'
  <2> SUFFICES ASSUME ~raced' PROVE Guarded'
    BY DEF Guarded
  <2>1. ~raced /\ Loading(t)
    BY <1>1 DEF Loading
  <2>2. /\ \A u \in Thread \ {t} : /\ ~Loading(u)' /\ me'[u].pc # "crashed"
                                   /\ me'[u].pc \notin LoadingLocs \cup {"nvml_device", "nvml_row"}
        /\ me'[t] = n
    BY <1>2, <2>1, Alone
  <2>3. nv.lib
    BY <1>1, <2>1 DEF Guarded
  <2>4. ~(Required \subseteq nv.fn /\ Wild("init"))
    BY <1>3, <2>3 DEF Wild, Required
  <2>5. /\ n.pc \notin {"crashed", "nvml_try", "nvml_symbol", "nvml_init", "nvml_open", "nvml_row"}
        /\ n.pc = "nvml_device" => nv'.lib
        /\ nv'.lib => Required \subseteq nv'.fn
    BY <1>4, <1>5, <2>3, <2>4 DEF Calm, LoadingLocs
  <2>6. \A u \in Thread : ~Loading(u)'
    BY <2>2, <2>5 DEF Loading
  <2>7. \A u \in Thread : /\ me'[u].pc \notin LoadingLocs /\ me'[u].pc # "crashed"
                          /\ me'[u].pc \in {"nvml_device", "nvml_row"} => nv'.lib
    BY <2>2, <2>5 DEF LoadingLocs
  <2>8. QED
    BY <1>7, <2>5, <2>6, <2>7 DEF Guarded, LoadingLocs
<1>12. QED
  BY <1>10, <1>11

\* A step at a GPU of the library, which reads nv only.
GpuMoves(t, n) ==
  /\ me' = [me EXCEPT ![t] = n] /\ nv' = nv /\ raced' = raced
  /\ UNCHANGED <<fs, plan, vendor, moments, changes>>

\* A step at a GPU that crashes only after a race keeps the invariant.
LEMMA GpuKept ==
  ASSUME NEW t \in Thread, NEW n, Typed, Guarded, GpuMoves(t, n), Good(n),
         me[t].pc \in {"nvml_device", "nvml_row"},
         Calm(n) \/ n.pc = "nvml_row" \/ (n.pc = "crashed" /\ raced)
  PROVE  Typed' /\ Guarded'
<1>1. NvmlMoves(t, n) /\ nv' = nv /\ raced' = raced /\ me'[t] = n
  BY NvmlAt DEF GpuMoves, NvmlMoves
<1>2. Opening' = Opening
  BY <1>1, OpeningSame DEF Calm, LoadingLocs
<1>3. Shared'
  BY <1>1, <1>2, NvmlShared DEF Typed, Shared, Calm, LoadingLocs
<1>4. Typed'
  BY <1>1, <1>3, MoveTyped DEF NvmlMoves
<1>5. Guarded'
  <2> SUFFICES ASSUME ~raced' PROVE Guarded'
    BY DEF Guarded
  <2>1. ~raced /\ nv.tried /\ nv.lib /\ \A u \in Thread : ~Loading(u)
    BY <1>1 DEF Guarded
  <2>2. \A u \in Thread \ {t} : me'[u] = me[u]
    BY <1>1 DEF NvmlMoves
  <2>3. \A u \in Thread : ~Loading(u)' /\ me'[u].pc \notin LoadingLocs /\ me'[u].pc # "crashed"
    BY <1>1, <2>1, <2>2 DEF Loading, Guarded, Calm, LoadingLocs
  <2>4. QED
    BY <1>1, <2>1, <2>3 DEF Guarded, LoadingLocs
<1>6. QED
  BY <1>4, <1>5

\* Without a race no required function is missing at a GPU, and the library is open.
LEMMA NoCrash ==
  ASSUME NEW t \in Thread, NEW s \in Required \cup nv.fn, Typed, Guarded, ~raced,
         me[t].pc \in {"nvml_device", "nvml_row"}
  PROVE  ~Wild(s)
<1>1. nv.lib /\ \A u \in Thread : ~Loading(u)
  BY DEF Guarded
<1>2. Required \subseteq nv.fn
  BY <1>1 DEF Guarded
<1>3. nv.opens > 0 /\ nv.opens \in Nat
  BY <1>1 DEF Typed, Shared
<1>4. QED
  BY <1>2, <1>3 DEF Wild

LEMMA DeviceKept ==
  ASSUME NEW t \in Thread, Typed, Guarded, NvmlDevice(t)
  PROVE  Typed' /\ Guarded'
<1>1. PICK n : /\ GpuMoves(t, n) /\ me[t].pc = "nvml_device"
               /\ \/ Wild("by_index") /\ n = Crash(me[t])
                  \/ n = [me[t] EXCEPT !.pc = "nvml_row", !.i = 1]
                  \/ n = ToAmd(me[t])
  BY DEF NvmlDevice, Step, At, GpuMoves
<1>2. InTurn(me[t], {"gpu"}) /\ me[t].best = {} /\ me[t].list = <<>>
  BY <1>1, NvmlAt, NvmlEmpty DEF GpuMoves
<1>3. Wild("by_index") => raced
  BY <1>1, NoCrash DEF Required, Typed, Shared
<1>4. Good(n) /\ (Calm(n) \/ n.pc = "nvml_row" \/ (n.pc = "crashed" /\ raced))
  BY <1>1, <1>2, <1>3, CrashGood, NvmlFirstGood, ToAmdGood
<1>5. QED
  BY <1>1, <1>4, GpuKept

LEMMA RowKept ==
  ASSUME NEW t \in Thread, Typed, Guarded, NvmlRow(t)
  PROVE  Typed' /\ Guarded'
<1> DEFINE m == me[t]
           s == Rows[m.i]
           c == s \in Required \cup nv.fn
           p == Nvml(m.index, m.i)
           k == IF c /\ Has(p) THEN [m EXCEPT !.vals = With(@, m.i, fs[p])] ELSE m
           v == {NvmlResult(k.vals)}
<1>1. PICK n : /\ GpuMoves(t, n) /\ m.pc = "nvml_row"
               /\ \/ c /\ Wild(s) /\ n = Crash(m)
                  \/ m.i < Len(Rows) /\ n = [k EXCEPT !.i = @ + 1]
                  \/ n = Done(k, v)
  <2> DEFINE e == IF c /\ Wild(s) THEN Crash(m)
                  ELSE IF m.i < Len(Rows) THEN [k EXCEPT !.i = @ + 1]
                  ELSE Done(k, v)
  <2>1. Step(t, e) /\ m.pc = "nvml_row"
    BY Zenon DEF NvmlRow, At
  <2>2. \/ c /\ Wild(s) /\ e = Crash(m)
        \/ m.i < Len(Rows) /\ e = [k EXCEPT !.i = @ + 1]
        \/ e = Done(k, v)
    BY Zenon
  <2> HIDE DEF e, m, k, c, s, v
  <2>3. GpuMoves(t, e)
    BY <2>1 DEF Step, GpuMoves
  <2>4. QED
    BY <2>1, <2>2, <2>3, Zenon
<1> HIDE DEF v
<1>2. InTurn(m, {"gpu"}) /\ m.i \in 1 .. Len(Rows)
  BY <1>1, NvmlAt DEF GpuMoves, Typed, Good, Place
<1>3. c /\ Wild(s) => raced
  BY <1>1, NoCrash DEF Typed, Shared
<1>4. InTurn(k, {"gpu"}) /\ k.pc = m.pc /\ k.i = m.i
  <2>1. DOMAIN m = Locals /\ FieldsOf(m) /\ Bounded(m)
    BY <1>2 DEF InTurn, FieldsOf
  <2> HIDE DEF m, c, s
  <2>2. Kept(k, m, Found) /\ k.list = m.list /\ k.best = m.best
    BY <2>1 DEF Kept, Found, Locals
  <2> HIDE DEF k
  <2>3. k.best \in SUBSET Int /\ Cardinality(k.best) <= 1 /\ IsSequence(k.list) /\ Len(k.list) <= MaxL
    BY <2>1, <2>2 DEF FieldsOf, Bounded
  <2>4. QED
    BY <1>2, <2>2, <2>3, RefillGood
<1> HIDE DEF k, c, s
<1>5. Good(n) /\ (Calm(n) \/ n.pc = "nvml_row" \/ (n.pc = "crashed" /\ raced))
  <2>1. CASE c /\ Wild(s) /\ n = Crash(m)
    BY <1>2, <1>3, <2>1, CrashGood
  <2>2. CASE m.i < Len(Rows) /\ n = [k EXCEPT !.i = @ + 1]
    <3>1. m.i < Len(Rows)
      BY <2>2
    <3>2. m.i + 1 \in 1 .. Len(Rows)
      BY <1>2, <3>1, Limits
    <3>3. QED
      BY <1>1, <1>4, <2>2, <3>2, NvmlRowGood
  <2>3. CASE n = Done(k, v)
    BY <1>4, <2>3, DoneGood DEF InTurn
  <2>4. QED
    BY <1>1, <2>1, <2>2, <2>3
<1>6. QED
  BY <1>1, <1>5, GpuKept

\* The program calls.
LEMMA CallKept ==
  ASSUME NEW t \in Thread, Typed, Guarded, Call(t)
  PROVE  Typed' /\ Guarded'
<1> DEFINE c == Head(plan[t])
           m == [Idle EXCEPT !.call = c.call, !.index = c.index, !.todo = Readings[c.call]]
           n == Begin(m)
<1>1. /\ me' = [me EXCEPT ![t] = n] /\ plan' = [plan EXCEPT ![t] = Tail(@)]
      /\ moments' = [moments EXCEPT ![t] = {fs}] /\ me[t].pc \in {"idle", "done"}
      /\ plan[t] # <<>> /\ UNCHANGED <<fs, vendor, nv, image, changes, raced>>
  BY DEF Call
<1>2. plan[t] \in Seq([call : DOMAIN Readings, index : Nat])
  BY DEF Typed
<1>3. /\ c \in [call : DOMAIN Readings, index : Nat]
      /\ Tail(plan[t]) \in Seq([call : DOMAIN Readings, index : Nat])
  <2> DEFINE S == [call : DOMAIN Readings, index : Nat]
             s == plan[t]
  <2>1. s \in Seq(S) /\ s # <<>>
    BY <1>1, <1>2
  <2> HIDE DEF S, s
  <2>2. Head(s) \in S /\ Tail(s) \in Seq(S)
    BY <2>1
  <2>3. QED
    BY <2>2 DEF S, s
<1> HIDE DEF c
<1>4. /\ DOMAIN m = Locals /\ m.call = c.call /\ m.index = c.index /\ m.todo = Readings[c.call]
      /\ m.data = <<>>
  BY DEF Idle, Locals
<1>5. DOMAIN m.data \subseteq Reading /\ m.todo \in Seq(Reading)
  BY <1>3, <1>4, EveryReading
<1> HIDE DEF m
<1>6. Good(n) /\ Calm(n)
  BY <1>3, <1>4, <1>5, BeginGood
<1> HIDE DEF n
<1>7. /\ me'[t] = n /\ \A u \in Thread \ {t} : me'[u] = me[u]
      /\ DOMAIN me' = Thread /\ DOMAIN moments' = Thread
      /\ moments'[t] = {fs} /\ \A u \in Thread \ {t} : moments'[u] = moments[u]
  BY <1>1 DEF Typed
<1>8. plan' \in [Thread -> Seq([call : DOMAIN Readings, index : Nat])]
  BY <1>1, <1>3 DEF Typed
<1>9. \A u \in Thread : /\ me'[u].pc \in {"nvml_try", "nvml_open"} <=> me[u].pc \in {"nvml_try", "nvml_open"}
                        /\ Calm(me'[u]) \/ me'[u] = me[u]
                        /\ Loading(u)' <=> Loading(u)
  BY <1>1, <1>6, <1>7 DEF Calm, LoadingLocs, Loading
<1>10. Opening' = Opening
  BY <1>9 DEF Opening
<1>11. Shared'
  BY <1>1, <1>9, <1>10 DEF Shared, Typed, Calm, LoadingLocs
<1>12. Typed'
  <2>1. \A u \in Thread : Good(me'[u])
    BY <1>6, <1>7 DEF Typed
  <2>2. \A u \in Thread : me'[u].pc \in AtRest \/ fs \in moments'[u]
    BY <1>7 DEF Typed
  <2>3. Files(fs')
    BY <1>1 DEF Typed
  <2>4. fs' = fs
    BY <1>1
  <2>5. QED
    BY <1>7, <1>8, <1>11, <2>1, <2>2, <2>3, <2>4 DEF Typed
<1>13. Guarded'
  <2> SUFFICES ASSUME ~raced' PROVE Guarded'
    BY DEF Guarded
  <2>0. nv' = nv /\ raced' = raced
    BY <1>1
  <2>1. \A u \in Thread : me'[u].pc # "crashed"
    BY <2>0, <1>9 DEF Guarded, Calm
  <2>2. \A u \in Thread : /\ me'[u].pc = "nvml_try" => ~nv'.tried
                          /\ me'[u].pc \in {"nvml_symbol", "nvml_init"} => nv'.lib
    BY <2>0, <1>9 DEF Guarded, Calm, LoadingLocs
  <2>3. \A u \in Thread : me'[u].pc \in {"nvml_device", "nvml_row"} =>
                            nv'.tried /\ nv'.lib /\ \A w \in Thread : ~Loading(w)'
    BY <2>0, <1>9 DEF Guarded, Calm
  <2>4. \A u \in Thread, w \in Thread : Loading(u)' /\ Loading(w)' => u = w
    BY <2>0, <1>9 DEF Guarded
  <2>5. /\ ~nv'.tried => ~nv'.lib
        /\ nv'.lib /\ (\A u \in Thread : ~Loading(u)') => Required \subseteq nv'.fn
    BY <2>0, <1>9 DEF Guarded
  <2>6. QED
    BY <2>1, <2>2, <2>3, <2>4, <2>5 DEF Guarded
<1>14. QED
  BY <1>12, <1>13

-----------------------------------------------------------------------------
(* The environment. *)

\* The files become f.
LEMMA BecomeKept ==
  ASSUME NEW f, Files(f), Typed, Guarded, Become(f)
  PROVE  Typed' /\ Guarded'
<1>1. /\ fs' = f /\ plan' = plan /\ me' = me /\ vendor' = vendor /\ nv' = nv /\ raced' = raced
      /\ moments' = [t \in Thread |-> IF Busy(t) THEN moments[t] \cup {f} ELSE moments[t]]
      /\ changes < MaxChanges /\ changes' = changes + 1
  BY DEF Become
<1>2. \A t \in Thread : me[t].pc \in AtRest \/ f \in moments'[t]
  BY <1>1 DEF Busy, AtRest
<1>3. Opening' = Opening
  BY <1>1 DEF Opening
<1>4. changes' \in 0 .. MaxChanges
  BY <1>1, ThreadAssumption DEF Typed, Shared
<1>5. Shared'
  BY <1>1, <1>3, <1>4 DEF Typed, Shared
<1>6. Typed'
  BY <1>1, <1>2, <1>5 DEF Typed
<1>7. Guarded'
  BY <1>1 DEF Guarded, Loading
<1>8. QED
  BY <1>6, <1>7

\* The files of kinds that are always there are of no hwmon directory.
LEMMA GivenNames ==
  /\ \A p \in Given : p[1] \notin OfHwmon
  /\ \A h, i : Input("temp", h, i)[1] \in OfHwmon
  /\ \A h, i : Stat # Input("temp", h, i)
BY DEF Given, Boot, Online, Root, OfHwmon, Input, Stat

\* The files stay of their kind as some go, change or move to other numbers.
LEMMA WithoutFiles ==
  ASSUME NEW P, Files(fs), P \cap Given = {}
  PROVE  Files(Without(P))
<1> DEFINE f == Without(P)
<1>1. DOMAIN f = DOMAIN fs \ P /\ (\A p \in DOMAIN f : f[p] = fs[p]) /\ f = [p \in DOMAIN f |-> f[p]]
  BY DEF Without
<1> HIDE DEF f
<1>2. QED
  <2>1. Files(f)
    BY <1>1 DEF Files
  <2>2. QED
    BY <2>1 DEF f

LEMMA RewrittenFiles ==
  ASSUME NEW p \in DOMAIN fs, NEW c \in New(p, fs[p]), Files(fs)
  PROVE  Files([fs EXCEPT ![p] = c])
<1> DEFINE f == [fs EXCEPT ![p] = c]
<1>1. DOMAIN f = DOMAIN fs /\ (\A q \in DOMAIN fs \ {p} : f[q] = fs[q]) /\ f[p] = c
      /\ f = [q \in DOMAIN f |-> f[q]]
  BY DEF Files
<1> HIDE DEF f
<1>2. ASSUME NEW h \in 0 .. HwmonMax - 1, NEW i \in 1 .. InputMax, Input("temp", h, i) \in DOMAIN f
      PROVE  f[Input("temp", h, i)] \in Temperatures
  <2>1. fs[Input("temp", h, i)] \in Temperatures
    BY <1>1, <1>2 DEF Files
  <2>2. CASE p = Input("temp", h, i)
    BY <1>1, <2>1, <2>2, ContentsAssumption
  <2>3. CASE p # Input("temp", h, i)
    BY <1>1, <1>2, <2>1, <2>3
  <2>4. QED
    BY <2>2, <2>3
<1>3. Stat \in DOMAIN f => f[Stat] \in Samples
  BY <1>1, ContentsAssumption DEF Files
<1>4. Files(f)
  BY <1>1, <1>2, <1>3 DEF Files
<1>5. QED
  BY <1>4 DEF f

LEMMA RenumberedFiles ==
  ASSUME NEW h \in 0 .. HwmonMax - 1, NEW k \in 0 .. HwmonMax - 1, Files(fs)
  PROVE  LET other(p) == IF p[1] \notin OfHwmon THEN p
                         ELSE <<p[1], IF p[2] = h THEN k ELSE IF p[2] = k THEN h ELSE p[2], p[3]>>
         IN  Files([p \in {other(q) : q \in DOMAIN fs} |-> fs[other(p)]])
<1> DEFINE other(p) == IF p[1] \notin OfHwmon THEN p
                       ELSE <<p[1], IF p[2] = h THEN k ELSE IF p[2] = k THEN h ELSE p[2], p[3]>>
           f == [p \in {other(q) : q \in DOMAIN fs} |-> fs[other(p)]]
           T == STRING \X Int \X Int
<1>1. h \in Int /\ k \in Int /\ DOMAIN fs \subseteq T
  BY DEF Files
<1>2. ASSUME NEW q \in T PROVE other(q) \in T /\ other(other(q)) = q /\ other(q)[1] = q[1]
                               /\ other(q)[3] = q[3]
  <2>1. PICK a \in STRING, b \in Int, d \in Int : q = <<a, b, d>>
    <3>1. q[1] \in STRING /\ q[2] \in Int /\ q[3] \in Int /\ q = <<q[1], q[2], q[3]>>
      OBVIOUS
    <3>2. QED
      BY <3>1
  <2>2. CASE a \notin OfHwmon
    BY <2>1, <2>2
  <2>3. CASE a \in OfHwmon
    <3> DEFINE e == IF b = h THEN k ELSE IF b = k THEN h ELSE b
    <3>1. other(q) = <<a, e, d>> /\ e \in Int
      BY <1>1, <2>1, <2>3
    <3>2. other(<<a, e, d>>) = <<a, IF e = h THEN k ELSE IF e = k THEN h ELSE e, d>>
      BY <2>3
    <3>3. (IF e = h THEN k ELSE IF e = k THEN h ELSE e) = b
      OBVIOUS
    <3>4. QED
      BY <2>1, <3>1, <3>2, <3>3
  <2>4. QED
    BY <2>2, <2>3
<1>3. ASSUME NEW p \in DOMAIN f
      PROVE  p \in T /\ other(p) \in DOMAIN fs /\ f[p] = fs[other(p)]
  <2>1. PICK q \in DOMAIN fs : p = other(q)
    OBVIOUS
  <2>2. p \in T /\ other(p) = q
    BY <1>1, <1>2, <2>1
  <2>3. QED
    BY <2>2
<1>4. \A p : p[1] \notin OfHwmon => other(p) = p
  OBVIOUS
<1>5. \A q \in DOMAIN fs : other(q) \in DOMAIN f
  OBVIOUS
<1>6. ASSUME NEW g \in 0 .. HwmonMax - 1, NEW i \in 1 .. InputMax
      PROVE  \E g2 \in 0 .. HwmonMax - 1 : other(Input("temp", g, i)) = Input("temp", g2, i)
  BY DEF Input, OfHwmon
<1>7. f = [p \in DOMAIN f |-> f[p]]
  OBVIOUS
<1> HIDE DEF f, other
<1>8. Given \subseteq DOMAIN f
  BY <1>4, <1>5, GivenNames DEF Files
<1>9. \A g \in 0 .. HwmonMax - 1, i \in 1 .. InputMax :
        Input("temp", g, i) \in DOMAIN f => f[Input("temp", g, i)] \in Temperatures
  BY <1>3, <1>6 DEF Files
<1>10. Stat \in DOMAIN f => f[Stat] \in Samples
  <2>1. other(Stat) = Stat
    BY <1>4 DEF Stat, OfHwmon
  <2>2. QED
    BY <1>3, <2>1 DEF Files
<1>11. Files(f)
  BY <1>3, <1>7, <1>8, <1>9, <1>10 DEF Files
<1>12. QED
  BY <1>11 DEF f, other

LEMMA EnvironmentKept ==
  ASSUME Typed, Guarded, Deny \/ Rewrite \/ Unplug \/ Renumber
  PROVE  Typed' /\ Guarded'
<1>0. Files(fs)
  BY DEF Typed
<1>1. CASE Deny
  <2>1. PICK p \in DOMAIN fs \ Given : Become(Without({p}))
    BY <1>1 DEF Deny
  <2>2. Files(Without({p}))
    BY <1>0, WithoutFiles
  <2>3. QED
    BY <2>1, <2>2, BecomeKept
<1>2. CASE Rewrite
  <2>1. PICK p \in DOMAIN fs : \E c \in New(p, fs[p]) : Become([fs EXCEPT ![p] = c])
    BY <1>2 DEF Rewrite
  <2>2. QED
    BY <1>0, <2>1, RewrittenFiles, BecomeKept
<1>3. CASE Unplug
  <2>1. PICK h \in 0 .. HwmonMax - 1 : Become(Without(HwmonFiles(h)))
    BY <1>3 DEF Unplug
  <2>2. HwmonFiles(h) \cap Given = {}
    BY GivenNames DEF HwmonFiles
  <2>3. QED
    BY <1>0, <2>1, <2>2, WithoutFiles, BecomeKept
<1>4. CASE Renumber
  <2>1. PICK f : Become(f) /\ Files(f)
    BY <1>0, <1>4, RenumberedFiles, Zenon DEF Renumber
  <2>2. QED
    BY <2>1, BecomeKept
<1>5. QED
  BY <1>1, <1>2, <1>3, <1>4

-----------------------------------------------------------------------------
(* The two invariants, of every behaviour. *)

LEMMA InitGood ==
  Init => Typed /\ Guarded
<1> SUFFICES ASSUME Init PROVE Typed /\ Guarded
  OBVIOUS
<1>1. PICK j \in Job : /\ fs = j.files /\ plan = j.calls /\ vendor = VendorOf(j.files)
                       /\ me = [t \in Thread |-> Idle] /\ moments = [t \in Thread |-> {}]
                       /\ nv = [tried |-> FALSE, lib |-> FALSE, fn |-> {}, opens |-> 0]
                       /\ changes = 0 /\ raced = FALSE
  BY DEF Init
<1>2. Good(Idle)
  <2>1. /\ DOMAIN Idle = Locals /\ Idle.pc = "idle" /\ Idle.call = "hwsense_read_all" /\ Idle.index = 0
        /\ Idle.todo = <<>> /\ Idle.data = <<>> /\ Idle.h = 0 /\ Idle.i = 0 /\ Idle.best = {}
        /\ Idle.list = <<>>
    BY DEF Idle, Locals
  <2> DEFINE m == Idle
  <2>2. "hwsense_read_all" \in DOMAIN Readings /\ DOMAIN m.data = {}
    BY <2>1 DEF Readings
  <2>3. m.todo \in Seq(Reading) /\ m.index \in Nat
    BY <2>1
  <2> HIDE DEF m
  <2>4. IsSequence(m.list) /\ Len(m.list) = 0 /\ Cardinality(m.best) = 0
    BY <2>1, EmptyList, FS_EmptySet DEF m
  <2>5. m.pc \in Locations /\ Place(m)
    BY <2>1 DEF m, Locations, Place, AtRest, HwmonLocs, ZoneLocs, BoardLocs, LoadingLocs, GpuLocs,
                SampleLocs, OneFile
  <2>6. Bounded(m)
    BY <2>1, <2>4, Limits DEF Bounded, m
  <2>7. FieldsOf(m)
    BY <2>1, <2>2, <2>3, <2>4, <2>5 DEF FieldsOf, m
  <2>8. QED
    BY <2>5, <2>6, <2>7 DEF Good, m
<1>3. Files(fs)
  <2>1. /\ j.files = [p \in DOMAIN j.files |-> j.files[p]]
        /\ Given \subseteq DOMAIN j.files /\ DOMAIN j.files \subseteq STRING \X Int \X Int
        /\ \A p \in DOMAIN j.files : /\ p[1] = "temp" => j.files[p] \in Temperatures
                                     /\ p = Stat => j.files[p] \in Samples
    BY JobAssumption
  <2>2. \A h, i : Input("temp", h, i)[1] = "temp"
    BY DEF Input
  <2>3. QED
    BY <1>1, <2>1, <2>2 DEF Files
<1>4. \A t \in Thread : me[t] = Idle /\ me[t].pc = "idle"
  BY <1>1 DEF Idle
<1>5. Shared
  <2>1. Opening = {}
    BY <1>4 DEF Opening
  <2>2. nv.opens + Cardinality(Opening) <= Cardinality(Thread)
    BY <1>1, <2>1, ThreadAssumption, FS_EmptySet, FS_CardinalityType
  <2>3. vendor \in {"I", "A", "R", "?"} /\ changes \in 0 .. MaxChanges
    <3>1. VendorOf(j.files) \in {"I", "A", "R", "?"}
      BY JobAssumption, Zenon
    <3>2. vendor \in {"I", "A", "R", "?"}
      BY <1>1, <3>1
    <3>3. 0 \in 0 .. MaxChanges
      BY ThreadAssumption
    <3>4. QED
      BY <1>1, <3>2, <3>3
  <2>4. QED
    BY <1>1, <1>4, <2>2, <2>3 DEF Shared
<1>6. Typed
  <2>1. plan \in [Thread -> Seq([call : DOMAIN Readings, index : Nat])]
    BY <1>1, JobAssumption
  <2>2. QED
    BY <1>1, <1>2, <1>3, <1>4, <1>5, <2>1 DEF Typed, AtRest
<1>7. Guarded
  BY <1>1, <1>4 DEF Guarded, Loading
<1>8. QED
  BY <1>6, <1>7

LEMMA NextKept ==
  Typed /\ Guarded /\ [Next]_vars => Typed' /\ Guarded'
<1> SUFFICES ASSUME Typed, Guarded, [Next]_vars PROVE Typed' /\ Guarded'
  OBVIOUS
<1>1. CASE UNCHANGED vars
  <2>1. fs' = fs /\ plan' = plan /\ me' = me /\ vendor' = vendor /\ nv' = nv /\ moments' = moments
        /\ changes' = changes /\ raced' = raced
    BY <1>1 DEF vars
  <2>2. Opening' = Opening
    BY <2>1 DEF Opening
  <2>3. Shared'
    BY <2>1, <2>2 DEF Typed, Shared
  <2>4. QED
    BY <2>1, <2>3 DEF Typed, Guarded, Loading
<1>2. ASSUME NEW t \in Thread, Call(t) PROVE Typed' /\ Guarded'
  BY <1>2, CallKept
<1>3. ASSUME NEW t \in Thread, CpuTemperature(t) \/ Other(t) PROVE Typed' /\ Guarded'
  BY <1>3, ReadingTaken, CalmKept
<1>4. ASSUME NEW t \in Thread, LoadNvml(t) PROVE Typed' /\ Guarded'
  BY <1>4, CheckKept, TryKept, OpenKept, SymbolKept, InitKept DEF LoadNvml
<1>5. ASSUME NEW t \in Thread, Gpu(t) PROVE Typed' /\ Guarded'
  BY <1>5, DeviceKept, RowKept, ReadingTaken, CalmKept DEF Gpu
<1>6. CASE Deny \/ Rewrite \/ Unplug \/ Renumber
  BY <1>6, EnvironmentKept
<1>7. QED
  BY <1>1, <1>2, <1>3, <1>4, <1>5, <1>6, Zenon DEF Next

\* Every local, counter and table stays within its range on every path of every reader,
\* and the library is never open more often than there are threads.
THEOREM TypeCorrect == Spec => []TypeOK
<1>1. Typed => TypeOK
  <2> SUFFICES ASSUME Typed PROVE TypeOK
    OBVIOUS
  <2>1. ASSUME NEW t \in Thread
        PROVE  /\ plan[t] \in Seq([call : DOMAIN Readings, index : Nat])
               /\ me[t].call \in DOMAIN Readings
               /\ me[t].todo \in Seq(Reading)
               /\ DOMAIN me[t].data \subseteq Reading
               /\ me[t].h \in Index \ {Max(Index)}
               /\ me[t].i \in 0 .. Max({InputMax, AmdFiles, Len(Symbols)})
               /\ me[t].best \in SUBSET Int /\ Cardinality(me[t].best) <= 1
               /\ Len(me[t].list) <= Max({BoardMax, ListMax, CpuMax})
               /\ me[t].pc \in {"idle", "done", "crashed"} \/ fs \in moments[t]
    <3>1. Good(me[t]) /\ (me[t].pc \in AtRest \/ fs \in moments[t])
          /\ plan[t] \in Seq([call : DOMAIN Readings, index : Nat])
      BY DEF Typed
    <3>2. Index = 0 .. MaxH
      BY IndexRange
    <3>3. MaxH \in Nat /\ MaxI \in Nat
      BY Limits
    <3>4. me[t].h \in Nat /\ me[t].h < MaxH /\ me[t].i \in Nat /\ me[t].i <= MaxI
      BY <3>1 DEF Good, FieldsOf, Bounded
    <3>5. me[t].h \in Index \ {MaxH} /\ me[t].i \in 0 .. MaxI
      BY <3>2, <3>3, <3>4
    <3>6. QED
      BY <3>1, <3>5 DEF Good, FieldsOf, Bounded, AtRest, MaxH, MaxI, MaxL
  <2>2. nv.opens \in 0 .. Cardinality(Thread)
    <3> DEFINE a == Cardinality(Opening)
               c == Cardinality(Thread)
    <3>1. a \in Nat /\ c \in Nat /\ nv.opens + a <= c /\ nv.opens \in Nat
      BY OpeningFinite DEF Typed, Shared
    <3> HIDE DEF a, c
    <3>2. nv.opens \in 0 .. c
      BY <3>1
    <3>3. QED
      BY <3>2 DEF c
  <2>3. nv.fn \subseteq Range(Symbols) /\ nv.tried \in BOOLEAN /\ nv.lib \in BOOLEAN
        /\ vendor \in {"I", "A", "R", "?"} /\ changes \in 0 .. MaxChanges /\ raced \in BOOLEAN
    BY DEF Typed, Shared
  <2>4. QED
    BY <2>1, <2>2, <2>3 DEF TypeOK
<1>2. QED
  BY <1>1, InitGood, NextKept, PTL DEF Spec

\* Unless one thread came to nvml_load with another still inside it, no thread ever
\* calls a function that NVML left NULL or a function of a closed library.
THEOREM GpuCallsGuarded == Spec => []NvmlGuarded
<1>1. Guarded => NvmlGuarded
  BY DEF Guarded, NvmlGuarded, At
<1>2. QED
  BY <1>1, InitGood, NextKept, PTL DEF Spec

=============================================================================
