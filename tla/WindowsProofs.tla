--------------------------- MODULE WindowsProofs ---------------------------
(***************************************************************************)
(* Proofs about the Windows readers: the type invariant, and LeavesAsFound,*)
(* for any threads, calls, states of COM, sources and changes of them,     *)
(* however many drives, volumes, rows and processes there are.             *)
(*                                                                         *)
(* Both follow from one inductive invariant, WellTyped /\ Balanced.        *)
(* WellTyped says where in a reading a thread is and how far it is there,  *)
(* and counts what is held of each kind by the threads at the places that  *)
(* hold it.  Balanced says what a thread inside wmi_init, or inside the    *)
(* loading of a library of the GPU, has done of it so far, while nobody    *)
(* used the library as it does not provide for.                            *)
(***************************************************************************)
EXTENDS WindowsSensors, FiniteSetTheorems, TLAPS

-----------------------------------------------------------------------------
(* The inductive invariant. *)

\* The fields of a thread, and the groups of its places.
Locals == {"pc", "call", "max", "by", "todo", "data", "h", "i", "type", "list", "rows", "name",
           "vals", "room", "used", "before"}

AtRest == {"idle", "done", "crashed"}
InLife == {"com_security", "com_create", "wmi_connect"}
AtRows == {"wmi_next", "wmi_row"}
AtDrive == {"drive_open", "drive_ask"}
AtProcess == {"process_open", "process_row"}
AtSession == {"nvml_device", "nvml_row", "nvml_shutdown"}
AnyReading == Single \cup {"vendor"}

IsSequence(s) == s \in Seq(Range(s))

\* The locals are of their types.
LocalsOf(m) ==
  /\ DOMAIN m = Locals
  /\ m.max \in Nat /\ m.todo \in Seq(AnyReading)
  /\ m.h \in Nat /\ m.i \in Nat /\ m.room \in Nat
  /\ IsSequence(m.list) /\ IsSequence(m.rows)

\* What the place of a thread says of its reading and its counters.
Place(m) ==
  LET r == Head(m.todo)
  IN  /\ m.pc \notin AtRest => m.todo # <<>>
      /\ m.pc \in {"init"} \cup InLife => r = "init"
      /\ m.pc = "wmi_connect" => m.type \in {"ROOT/WMI", "ROOT/CIMV2"}
      /\ m.pc \in {"wmi_query"} \cup AtRows => r \in OfWmi /\ m.type \in DOMAIN HomeOf
      /\ m.pc = "wmi_query" => m.list = <<>>
      /\ m.pc \in AtRows => m.i <= Len(m.rows)
      /\ m.pc = "wmi_row" => Len(m.list) < Room(m)
      /\ m.pc = "disks" => r = "disks" /\ m.h < LetterMax
      /\ m.pc \in AtDrive =>
           \/ r = "disk_io" /\ m.type = "counters" /\ Len(m.list) <= m.h
              /\ (m.h < m.max \/ (m.pc = "drive_open" /\ m.h = 0))
           \/ r = "drive_temp" /\ m.type \in {"smart", "identify"} /\ m.h < DriveMax
      /\ m.pc = "processes" => r = "processes" /\ m.list = <<>> /\ m.room = 0
      /\ m.pc \in AtProcess => r = "processes" /\ m.i \in 1 .. Len(m.rows) + 1
      /\ m.pc = "process_row" => /\ m.i <= Len(m.rows)
                                 /\ m.name = {} \/ m.name = {m.rows[m.i]}
      /\ m.pc = "nvml_symbols" => m.vals \subseteq Required \cup Range(Rows)
      /\ m.pc = "nvml_row" => m.i <= Len(Rows)

\* How far the counters and the list may be.
Bounded(m) ==
  /\ m.h <= DriveMax \/ m.h <= LetterMax \/ m.h <= m.max
  /\ m.i <= Len(m.rows) + 1 \/ m.i <= Len(Rows)
  /\ m.room <= FirstChunk \/ m.room <= 2 * Len(m.list)
  /\ m.pc \notin AtRest => Len(m.list) <= Room(m)

Good(m) == LocalsOf(m) /\ Place(m) /\ Bounded(m)

\* What a thread at that place holds of kind k.
Holds(m, k) ==
  \/ k = "enumerator" /\ m.pc \in AtRows
  \/ k = "object" /\ m.pc = "wmi_row"
  \/ k = "drive" /\ m.pc = "drive_ask"
  \/ k = "snapshot" /\ m.pc \in AtProcess
  \/ k = "process" /\ m.pc = "process_row" /\ m.name # {}
  \/ k = "nvml_session" /\ m.pc \in AtSession
  \/ k = "nvml.dll" /\ m.pc = "nvml_symbols"
  \/ k = "atiadlxx.dll" /\ m.pc = "adl_symbols"

Holders(k) == {t \in Thread : Holds(me[t], k)}

Bit(b) == IF b THEN 1 ELSE 0

\* What is given back before a reading ends, and nobody else's to give back.
OfCalls == {"enumerator", "object", "drive", "snapshot", "process", "nvml_session"}

\* What is held is what threads hold at their places, and what the statics say.
HeldRight ==
  /\ held \in [Kinds -> Nat]
  /\ \A k \in OfCalls : held[k] = Cardinality(Holders(k))
  /\ \A k \in {"nvml.dll", "atiadlxx.dll"} : held[k] >= Cardinality(Holders(k))
  /\ held["locator"] >= Bit(wmi.locator)
  /\ held["service"] >= Cardinality(wmi.svc)

\* The statics and the histories are of their types.
Shared ==
  /\ com \in [Thread -> [mode : {"none", "sta", "mta"}, count : Nat]]
  /\ \A t \in Thread : com[t].mode = "none" <=> com[t].count = 0
  /\ wmi \in [ready : BOOLEAN, locator : BOOLEAN, svc : SUBSET {"ROOT/WMI", "ROOT/CIMV2"}]
  /\ gpu \in [nvml : BOOLEAN, fn : SUBSET (Required \cup Range(Rows)), adl : {"none", "loading", "ready"}]
  /\ IsFiniteSet(prev) /\ Cardinality(prev) <= 1
  /\ ledger \in [host : [Thread -> Nat], owner : SUBSET Thread]
  /\ changes \in 0 .. MaxChanges /\ odd \in BOOLEAN

SourcesOfKind == src = [p \in DOMAIN src |-> src[p]] /\ \A p \in DOMAIN src : OfKind(p, src[p])

WellTyped ==
  /\ plan \in [Thread -> Seq([call : Single \cup {"hwsense_read_all"}, max : Nat, by : {0, 1}])]
  /\ DOMAIN me = Thread /\ DOMAIN moments = Thread
  /\ \A t \in Thread : Good(me[t])
  /\ \A t \in Thread : me[t].pc \in AtRest \/ src \in moments[t]
  /\ SourcesOfKind /\ Shared /\ HeldRight

\* wmi_init and the statics of wmi.c.
LifeRight ==
  /\ \A t, u \in Thread : me[t].pc \in InLife /\ me[u].pc \in InLife => t = u
  /\ \A t \in Thread :
       /\ me[t].pc \in InLife => ~wmi.ready
       /\ me[t].pc \in {"com_security", "com_create"} => ~wmi.locator /\ wmi.svc = {}
       /\ me[t].pc = "wmi_connect" =>
            /\ wmi.locator
            /\ wmi.svc \subseteq IF me[t].type = "ROOT/WMI" THEN {} ELSE {"ROOT/WMI"}
       /\ com[t].count = ledger.host[t] + Bit(me[t].pc \in InLife) + Bit(ledger.owner = {t})
  /\ wmi.ready => wmi.locator
  /\ ~wmi.ready /\ (\A t \in Thread : me[t].pc \notin InLife) => ~wmi.locator /\ wmi.svc = {}
  /\ wmi.ready <=> ledger.owner # {}
  /\ ledger.owner = {} \/ \E t \in Thread : ledger.owner = {t}
  /\ held["locator"] = Bit(wmi.locator)
  /\ held["service"] = Cardinality(wmi.svc)

\* The libraries of the GPU and the statics of gpu.c.
LibrariesRight ==
  /\ \A t, u \in Thread : me[t].pc = "nvml_symbols" /\ me[u].pc = "nvml_symbols" => t = u
  /\ \A t, u \in Thread : me[t].pc = "adl_symbols" /\ me[u].pc = "adl_symbols" => t = u
  /\ \A t \in Thread :
       /\ me[t].pc = "nvml_symbols" => gpu.nvml
       /\ me[t].pc = "nvml_init" => gpu.nvml /\ \A u \in Thread : me[u].pc # "nvml_symbols"
       /\ me[t].pc = "adl_symbols" => gpu.adl = "loading"
       /\ me[t].pc = "adl_count" => gpu.adl = "ready"
       /\ me[t].pc # "crashed"
  /\ gpu.nvml /\ (\A t \in Thread : me[t].pc # "nvml_symbols") => "init" \in gpu.fn
  /\ gpu.adl = "loading" => \E t \in Thread : me[t].pc = "adl_symbols"
  /\ held["nvml.dll"] = Bit(gpu.nvml)
  /\ held["atiadlxx.dll"] = Bit(gpu.adl # "none")

Balanced == ~odd => LifeRight /\ LibrariesRight

-----------------------------------------------------------------------------
(* Readings and the places they begin at. *)

USE LimitAssumption

Began == {"init", "shutdown", "load", "load_since", "memory", "uptime", "disks", "net",
          "processes", "vendor"}

\* Where a reading begins.
LEMMA EntryPlaces ==
  ASSUME NEW r \in AnyReading
  PROVE  \/ r \in Dispatched /\ Entry(r) = "dispatch"
         \/ r \in OfWmi /\ Entry(r) = "wmi_query"
         \/ r \in {"disk_io", "drive_temp"} /\ Entry(r) = "drive_open"
         \/ r \in {"gpu_temp", "gpu_info"} /\ Entry(r) = "nvml_load"
         \/ r \in Began /\ Entry(r) = r
BY DEF AnyReading, Single, OfLife, OfWmi, Dispatched, NotIntelIsAmd, AmdOnly, NeverAsks, IntelOnly,
       Entry, Began

LEMMA EmptyList == IsSequence(<<>>) /\ Len(<<>>) = 0
BY DEF IsSequence, Range

\* Where a thread holds nothing of the system and depends on no library.
Away(m) ==
  m.pc \notin InLife \cup AtRows \cup AtProcess \cup AtSession
    \cup {"drive_ask", "nvml_symbols", "nvml_init", "adl_symbols", "adl_count", "crashed"}

LEMMA RoomNat ==
  ASSUME NEW m, m.max \in Nat, m.room \in Nat
  PROVE  Room(m) \in Nat
BY DEF Room, Reading

\* The fields of a thread as a reading begins.
LEMMA BeginFields ==
  ASSUME NEW m, DOMAIN m = Locals
  PROVE  LET b == Begin(m)
         IN  /\ DOMAIN b = Locals
             /\ b.pc = IF m.todo = <<>> THEN "done" ELSE Entry(Head(m.todo))
             /\ m.todo # <<>> =>
                  b.type = CASE Head(m.todo) = "disk_io" -> "counters"
                             [] Head(m.todo) = "drive_temp" -> "smart"
                             [] OTHER -> Head(m.todo)
             /\ b.max = m.max /\ b.todo = m.todo
             /\ b.h = 0 /\ b.i = 0 /\ b.room = 0
             /\ b.list = <<>> /\ b.rows = <<>>
<1> DEFINE n == [m EXCEPT !.h = 0, !.i = 0, !.list = <<>>, !.rows = <<>>, !.name = {},
                          !.vals = <<>>, !.room = 0]
           c == CASE Reading(n) = "disk_io" -> "counters"
                  [] Reading(n) = "drive_temp" -> "smart"
                  [] OTHER -> Reading(n)
<1>1. /\ DOMAIN n = Locals /\ n.max = m.max /\ n.todo = m.todo
      /\ n.h = 0 /\ n.i = 0 /\ n.room = 0 /\ n.list = <<>> /\ n.rows = <<>>
  BY DEF Locals
<1>2. Begin(m) = IF n.todo = <<>> THEN [n EXCEPT !.pc = "done"]
                 ELSE [n EXCEPT !.pc = Entry(Reading(n)), !.type = c]
  BY DEF Begin
<1>3. Reading(n) = Head(m.todo)
  BY <1>1 DEF Reading
<1>4. CASE m.todo = <<>>
  <2>1. Begin(m) = [n EXCEPT !.pc = "done"]
    BY <1>1, <1>2, <1>4
  <2> HIDE DEF n
  <2>2. QED
    BY <1>1, <1>4, <2>1 DEF Locals
<1>5. CASE m.todo # <<>>
  <2>1. Begin(m) = [n EXCEPT !.pc = Entry(Reading(n)), !.type = c]
    BY <1>1, <1>2, <1>5
  <2>2. c = CASE Head(m.todo) = "disk_io" -> "counters"
              [] Head(m.todo) = "drive_temp" -> "smart"
              [] OTHER -> Head(m.todo)
    BY <1>3
  <2> HIDE DEF n, c
  <2> DEFINE e == Entry(Reading(n))
  <2>3. e = Entry(Head(m.todo))
    BY <1>3
  <2>4. Begin(m) = [n EXCEPT !.pc = e, !.type = c]
    BY <2>1
  <2> HIDE DEF e
  <2>5. QED
    BY <1>1, <1>5, <2>2, <2>3, <2>4 DEF Locals
<1>6. QED
  BY <1>4, <1>5

\* To begin a reading, and to end one, leaves the locals of the thread good.
LEMMA BeginGood ==
  ASSUME NEW m, DOMAIN m = Locals, m.max \in Nat, m.todo \in Seq(AnyReading)
  PROVE  Good(Begin(m)) /\ Away(Begin(m))
<1> DEFINE b == Begin(m)
<1>1. /\ DOMAIN b = Locals
      /\ b.pc = IF m.todo = <<>> THEN "done" ELSE Entry(Head(m.todo))
      /\ m.todo # <<>> =>
           b.type = CASE Head(m.todo) = "disk_io" -> "counters"
                      [] Head(m.todo) = "drive_temp" -> "smart"
                      [] OTHER -> Head(m.todo)
      /\ b.max = m.max /\ b.todo = m.todo
      /\ b.h = 0 /\ b.i = 0 /\ b.room = 0
      /\ b.list = <<>> /\ b.rows = <<>>
  BY BeginFields
<1> SUFFICES Good(b) /\ Away(b)
  OBVIOUS
<1> HIDE DEF b
<1>2. IsSequence(b.list) /\ IsSequence(b.rows) /\ Len(b.list) = 0 /\ Len(b.rows) = 0
  BY <1>1, EmptyList
<1>3. LocalsOf(b)
  BY <1>1, <1>2 DEF LocalsOf
<1>4. Room(b) \in Nat
  BY <1>1, RoomNat
<1>5. Bounded(b)
  BY <1>1, <1>2, <1>4 DEF Bounded
<1>6. CASE m.todo = <<>>
  <2>1. b.pc = "done"
    BY <1>1, <1>6
  <2>2. Place(b)
    BY <2>1 DEF Place, AtRest, InLife, AtRows, AtDrive, AtProcess
  <2>3. Away(b)
    BY <2>1 DEF Away, InLife, AtRows, AtProcess, AtSession
  <2>4. QED
    BY <1>3, <1>5, <2>2, <2>3 DEF Good
<1>7. CASE m.todo # <<>>
  <2>1. Head(b.todo) \in AnyReading /\ b.todo # <<>>
    BY <1>1, <1>7
  <2>2. b.pc = Entry(Head(b.todo))
    BY <1>1, <1>7
  <2>3. b.pc \in Began \cup {"dispatch", "wmi_query", "drive_open", "nvml_load"}
    BY <2>1, <2>2, EntryPlaces
  <2>4. Away(b)
    BY <2>3 DEF Began, Away, InLife, AtRows, AtProcess, AtSession
  <2>5. CASE b.pc = "wmi_query"
    <3>1. Head(b.todo) \in OfWmi
      BY <2>1, <2>2, <2>5, EntryPlaces DEF Began
    <3>2. b.type = Head(b.todo)
      BY <1>1, <1>7, <3>1 DEF OfWmi
    <3>3. b.type \in DOMAIN HomeOf
      BY <3>1, <3>2 DEF OfWmi, HomeOf
    <3>4. Place(b)
      BY <1>1, <2>1, <2>5, <3>1, <3>3 DEF Place, AtRest, InLife, AtRows, AtDrive, AtProcess
    <3>5. QED
      BY <1>3, <1>5, <2>4, <3>4 DEF Good
  <2>6. CASE b.pc = "drive_open"
    <3>1. Head(b.todo) \in {"disk_io", "drive_temp"}
      BY <2>1, <2>2, <2>6, EntryPlaces DEF Began
    <3>2. \/ Head(b.todo) = "disk_io" /\ b.type = "counters"
          \/ Head(b.todo) = "drive_temp" /\ b.type = "smart"
      BY <1>1, <1>7, <3>1
    <3>3. Place(b)
      BY <1>1, <1>2, <2>1, <2>6, <3>2 DEF Place, AtRest, InLife, AtRows, AtDrive, AtProcess
    <3>4. QED
      BY <1>3, <1>5, <2>4, <3>3 DEF Good
  <2>7. CASE b.pc \in Began \cup {"dispatch", "nvml_load"}
    <3>1. b.pc \in Began => Head(b.todo) = b.pc
      BY <2>1, <2>2, EntryPlaces DEF Began
    <3>2. Place(b)
      BY <1>1, <2>1, <2>7, <3>1 DEF Began, Place, AtRest, InLife, AtRows, AtDrive, AtProcess
    <3>3. QED
      BY <1>3, <1>5, <2>4, <3>2 DEF Good
  <2>8. QED
    BY <2>3, <2>5, <2>6, <2>7
<1>8. QED
  BY <1>6, <1>7

LEMMA DoneGood ==
  ASSUME NEW m, NEW v, LocalsOf(m), m.todo # <<>>
  PROVE  Good(Done(m, v)) /\ Away(Done(m, v))
<1> DEFINE w == IF m.call = "hwsense_read_all" THEN Stored(Reading(m), v) ELSE v
           n == [m EXCEPT !.data = With(@, Reading(m), w), !.todo = Tail(@)]
<1>1. DOMAIN n = Locals /\ n.max = m.max /\ n.todo = Tail(m.todo)
  BY DEF LocalsOf, Locals
<1>2. Done(m, v) = Begin(n)
  BY DEF Done
<1> HIDE DEF n, w
<1>3. Tail(m.todo) \in Seq(AnyReading)
  BY DEF LocalsOf
<1>4. QED
  BY <1>1, <1>2, <1>3, BeginGood DEF LocalsOf

-----------------------------------------------------------------------------
(* Where a reading goes on. *)

\* A reading is in turn: the locals between two locations.
InTurn(m, R) ==
  /\ LocalsOf(m) /\ Bounded(m)
  /\ m.todo # <<>> /\ Head(m.todo) \in R /\ m.pc \notin AtRest

\* n differs from m in no other locals than those of F.
Kept(n, m, F) == DOMAIN n = Locals /\ \A f \in Locals \ F : n[f] = m[f]

\* The locals that say where a reading is.
Moved == {"pc", "h", "i", "type", "name", "vals", "used"}

\* To move on within a reading keeps the locals of the thread good.
LEMMA MoveGood ==
  ASSUME NEW m, NEW n, LocalsOf(m), Bounded(m), m.pc \notin AtRest, Kept(n, m, Moved),
         n.h \in Nat, n.h = m.h \/ n.h <= DriveMax \/ n.h <= LetterMax \/ n.h <= m.max,
         n.i \in Nat, n.i = m.i \/ n.i <= Len(m.rows) + 1 \/ n.i <= Len(Rows),
         Place(n)
  PROVE  Good(n)
<1>1. /\ DOMAIN n = Locals /\ n.call = m.call /\ n.max = m.max /\ n.todo = m.todo
      /\ n.list = m.list /\ n.rows = m.rows /\ n.room = m.room
  BY DEF Kept, Locals, Moved
<1>2. Room(n) = Room(m)
  BY <1>1 DEF Room, Reading
<1>3. LocalsOf(n)
  BY <1>1 DEF LocalsOf
<1>4. Bounded(n)
  BY <1>1, <1>2 DEF Bounded
<1>5. QED
  BY <1>3, <1>4 DEF Good

LEMMA AfterClassGood ==
  ASSUME NEW m, InTurn(m, OfWmi)
  PROVE  Good(AfterClass(m)) /\ Away(AfterClass(m))
<1> DEFINE n == AfterClass(m)
<1>0. /\ DOMAIN m = Locals /\ LocalsOf(m) /\ Bounded(m) /\ m.h \in Nat /\ m.i \in Nat
      /\ m.todo # <<>> /\ Head(m.todo) \in OfWmi /\ m.pc \notin AtRest
  BY DEF InTurn, LocalsOf
<1>1. CASE m.type = "zones" /\ m.list = <<>>
  <2>1. Kept(n, m, Moved) /\ n.pc = "wmi_query" /\ n.h = m.h /\ n.i = m.i /\ n.type = "probes"
    BY <1>0, <1>1 DEF AfterClass, Kept, Moved, Locals
  <2> HIDE DEF n
  <2>2. n.todo = m.todo /\ n.list = m.list /\ n.rows = m.rows /\ n.max = m.max /\ Room(n) = Room(m)
    BY <2>1 DEF Kept, Moved, Locals, Room, Reading
  <2>3. Place(n) /\ n.pc \notin AtRest
    BY <1>0, <1>1, <2>1, <2>2, EmptyList
    DEF HomeOf, Place, AtRest, InLife, AtRows, AtDrive, AtProcess
  <2>4. Good(n) /\ Away(n)
    BY <1>0, <1>1, <2>1, <2>3, MoveGood DEF Away, InLife, AtRows, AtProcess, AtSession
  <2>5. QED
    BY <2>4 DEF n
<1>2. CASE ~(m.type = "zones" /\ m.list = <<>>)
  <2>1. n = Done(m, {m.list})
    BY <1>2 DEF AfterClass
  <2>2. QED
    BY <1>0, <2>1, DoneGood
<1>3. QED
  BY <1>1, <1>2

LEMMA NextDriveGood ==
  ASSUME NEW m, InTurn(m, {"drive_temp"}), m.h < DriveMax
  PROVE  Good(NextDrive(m)) /\ Away(NextDrive(m))
<1> DEFINE n == NextDrive(m)
<1>0. /\ DOMAIN m = Locals /\ LocalsOf(m) /\ Bounded(m) /\ m.h \in Nat /\ m.i \in Nat
      /\ m.todo # <<>> /\ Head(m.todo) = "drive_temp" /\ m.pc \notin AtRest
  BY DEF InTurn, LocalsOf
<1>1. CASE m.h + 1 < DriveMax
  <2>1. Kept(n, m, Moved) /\ n.pc = "drive_open" /\ n.h = m.h + 1 /\ n.i = m.i /\ n.type = "smart"
    BY <1>0, <1>1 DEF NextDrive, Kept, Moved, Locals
  <2> HIDE DEF n
  <2>2. n.todo = m.todo /\ n.list = m.list /\ n.rows = m.rows /\ n.max = m.max /\ Room(n) = Room(m)
    BY <2>1 DEF Kept, Moved, Locals, Room, Reading
  <2>3. Place(n) /\ n.pc \notin AtRest
    BY <1>0, <1>1, <2>1, <2>2
    DEF Place, AtRest, InLife, AtRows, AtDrive, AtProcess
  <2>4. Good(n) /\ Away(n)
    BY <1>0, <1>1, <2>1, <2>3, MoveGood DEF Away, InLife, AtRows, AtProcess, AtSession
  <2>5. QED
    BY <2>4 DEF n
<1>2. CASE ~(m.h + 1 < DriveMax)
  <2>1. n = Done(m, {})
    BY <1>2 DEF NextDrive
  <2>2. QED
    BY <1>0, <2>1, DoneGood
<1>3. QED
  BY <1>1, <1>2

LEMMA NextCountersGood ==
  ASSUME NEW m, InTurn(m, {"disk_io"}), m.type = "counters", Len(m.list) <= m.h + 1
  PROVE  Good(NextCounters(m)) /\ Away(NextCounters(m))
<1> DEFINE n == NextCounters(m)
<1>0. /\ DOMAIN m = Locals /\ LocalsOf(m) /\ Bounded(m) /\ m.h \in Nat /\ m.i \in Nat
      /\ m.todo # <<>> /\ Head(m.todo) = "disk_io" /\ m.pc \notin AtRest /\ m.max \in Nat
  BY DEF InTurn, LocalsOf
<1>1. CASE m.h + 1 < m.max
  <2>1. Kept(n, m, Moved) /\ n.pc = "drive_open" /\ n.h = m.h + 1 /\ n.i = m.i /\ n.type = "counters"
    BY <1>0, <1>1 DEF NextCounters, Kept, Moved, Locals
  <2> HIDE DEF n
  <2>2. n.todo = m.todo /\ n.list = m.list /\ n.rows = m.rows /\ n.max = m.max /\ Room(n) = Room(m)
    BY <2>1 DEF Kept, Moved, Locals, Room, Reading
  <2>3. Place(n) /\ n.pc \notin AtRest
    BY <1>0, <1>1, <2>1, <2>2
    DEF Place, AtRest, InLife, AtRows, AtDrive, AtProcess
  <2>4. Good(n) /\ Away(n)
    BY <1>0, <1>1, <2>1, <2>3, MoveGood DEF Away, InLife, AtRows, AtProcess, AtSession
  <2>5. QED
    BY <2>4 DEF n
<1>2. CASE ~(m.h + 1 < m.max)
  <2>1. n = Done(m, {m.list})
    BY <1>2 DEF NextCounters
  <2>2. QED
    BY <1>0, <2>1, DoneGood
<1>3. QED
  BY <1>1, <1>2

LEMMA AfterNvmlGood ==
  ASSUME NEW m, InTurn(m, AnyReading)
  PROVE  Good(AfterNvml(m)) /\ Away(AfterNvml(m))
<1> DEFINE n == AfterNvml(m)
<1>0. /\ DOMAIN m = Locals /\ LocalsOf(m) /\ Bounded(m) /\ m.h \in Nat /\ m.i \in Nat
      /\ m.todo # <<>> /\ Head(m.todo) \in AnyReading /\ m.pc \notin AtRest
  BY DEF InTurn, LocalsOf
<1>1. CASE Reading(m) = "gpu_temp"
  <2>1. Kept(n, m, Moved) /\ n.pc = "adl_load" /\ n.h = m.h /\ n.i = m.i
    BY <1>0, <1>1 DEF AfterNvml, Kept, Moved, Locals
  <2> HIDE DEF n
  <2>2. n.todo = m.todo /\ n.list = m.list /\ n.rows = m.rows /\ n.max = m.max /\ Room(n) = Room(m)
    BY <2>1 DEF Kept, Moved, Locals, Room, Reading
  <2>3. Place(n) /\ n.pc \notin AtRest
    BY <1>0, <1>1, <2>1, <2>2
    DEF Place, AtRest, InLife, AtRows, AtDrive, AtProcess
  <2>4. Good(n) /\ Away(n)
    BY <1>0, <1>1, <2>1, <2>3, MoveGood DEF Away, InLife, AtRows, AtProcess, AtSession
  <2>5. QED
    BY <2>4 DEF n
<1>2. CASE Reading(m) # "gpu_temp"
  <2>1. n = Done(m, {})
    BY <1>2 DEF AfterNvml
  <2>2. QED
    BY <1>0, <2>1, DoneGood
<1>3. QED
  BY <1>1, <1>2

\* What a list is when something is added to it.
LEMMA AppendGood ==
  ASSUME NEW s, IsSequence(s), NEW e
  PROVE  IsSequence(Append(s, e)) /\ Len(s) \in Nat /\ Len(Append(s, e)) = Len(s) + 1
<1>1. s \in Seq(Range(s) \cup {e})
  BY DEF IsSequence
<1>2. Append(s, e) \in Seq(Range(s) \cup {e}) /\ Len(Append(s, e)) = Len(s) + 1 /\ Len(s) \in Nat
  BY <1>1
<1>3. Append(s, e) \in Seq(Range(Append(s, e)))
  <2> DEFINE q == Append(s, e)
  <2>0. q \in Seq(Range(s) \cup {e})
    BY <1>2
  <2> HIDE DEF q
  <2>1. q \in [1 .. Len(q) -> Range(s) \cup {e}] /\ Len(q) \in Nat /\ DOMAIN q = 1 .. Len(q)
    BY <2>0
  <2>2. q \in [1 .. Len(q) -> Range(q)]
    BY <2>1 DEF Range
  <2>3. q \in Seq(Range(q))
    BY <2>1, <2>2
  <2>4. QED
    BY <2>3 DEF q
<1>4. QED
  BY <1>2, <1>3 DEF IsSequence

\* SetToSeq of at most one element.
LEMMA FewToSeq ==
  ASSUME NEW S, NEW x, S = {} \/ S = {x}
  PROVE  SetToSeq(S) \in Seq(S) /\ Len(SetToSeq(S)) \in 0 .. 1
<1> DEFINE n == Cardinality(S)
<1>1. n \in 0 .. 1
  <2>1. CASE S = {}
    BY <2>1, FS_EmptySet
  <2>2. CASE S = {x}
    <3>1. Cardinality({x}) = 1
      BY FS_Singleton
    <3>2. QED
      BY <2>2, <3>1
  <2>3. QED
    BY <2>1, <2>2
<1>2. \E f \in [1 .. n -> S] : IsInjective(f)
  <2>1. CASE S = {}
    <3> DEFINE f == [i \in 1 .. n |-> x]
    <3>1. n = 0
      BY <2>1, FS_EmptySet
    <3>2. f \in [1 .. n -> S] /\ DOMAIN f = {}
      BY <3>1
    <3>3. IsInjective(f)
      BY <3>2 DEF IsInjective
    <3>4. QED
      BY <3>2, <3>3
  <2>2. CASE S = {x}
    <3> DEFINE f == [i \in 1 .. n |-> x]
    <3>1. n = 1
      BY <2>2, FS_Singleton
    <3>2. f \in [1 .. n -> S] /\ DOMAIN f = {1}
      BY <2>2, <3>1
    <3>3. IsInjective(f)
      BY <3>2 DEF IsInjective
    <3>4. QED
      BY <3>2, <3>3
  <2>3. QED
    BY <2>1, <2>2
<1>3. SetToSeq(S) \in [1 .. n -> S]
  BY <1>2 DEF SetToSeq
<1> HIDE DEF n
<1>4. QED
  BY <1>1, <1>3

\* Sets of at most one value, which is how the sources answer.
LEMMA OneAnswer ==
  ASSUME NEW p
  PROVE  \E x : Read(src, p) = {} \/ Read(src, p) = {x}
BY DEF Read

-----------------------------------------------------------------------------
(* What a step of one thread leaves of the invariant. *)

\* Thread t is at n, and the sources and the plans are what they were.
Moves(t, n) ==
  /\ me' = [me EXCEPT ![t] = n] /\ me[t].pc \notin AtRest
  /\ UNCHANGED <<src, plan, moments, changes>>

\* A thread that moves to a good place keeps the state typed.
LEMMA MoveTyped ==
  ASSUME NEW t \in Thread, NEW n, WellTyped, Moves(t, n), Good(n), Shared', HeldRight'
  PROVE  WellTyped'
<1>1. me' = [me EXCEPT ![t] = n] /\ src' = src /\ plan' = plan /\ moments' = moments
  BY DEF Moves
<1>2. DOMAIN me' = Thread /\ me'[t] = n /\ \A u \in Thread \ {t} : me'[u] = me[u]
  BY <1>1 DEF WellTyped
<1>3. \A u \in Thread : Good(me'[u])
  BY <1>2 DEF WellTyped
<1>4. \A u \in Thread : me'[u].pc \in AtRest \/ src \in moments[u]
  BY <1>2 DEF WellTyped, Moves
<1>5. SourcesOfKind'
  BY <1>1 DEF WellTyped, SourcesOfKind
<1>6. QED
  BY <1>1, <1>2, <1>3, <1>4, <1>5 DEF WellTyped

LEMMA BitValue == \A b : Bit(b) \in 0 .. 1 /\ (b => Bit(b) = 1) /\ (~b => Bit(b) = 0)
BY DEF Bit

\* A step of t counts t in or out.
LEMMA HoldersMoved ==
  ASSUME NEW t \in Thread, NEW n, NEW k, DOMAIN me = Thread, me' = [me EXCEPT ![t] = n]
  PROVE  /\ Cardinality(Holders(k)) \in Nat /\ Cardinality(Holders(k)') \in Nat
         /\ Cardinality(Holders(k)') =
              Cardinality(Holders(k)) + Bit(Holds(n, k)) - Bit(Holds(me[t], k))
<1> DEFINE S == Holders(k)
           T == {u \in Thread : Holds(me'[u], k)}
<1>1. Holders(k)' = T
  BY DEF Holders, Holds
<1>2. me'[t] = n /\ \A u \in Thread \ {t} : me'[u] = me[u]
  OBVIOUS
<1>3. S \subseteq Thread /\ T \subseteq Thread /\ (t \in S <=> Holds(me[t], k)) /\ (t \in T <=> Holds(n, k))
      /\ \A u \in Thread \ {t} : u \in S <=> u \in T
  BY <1>2 DEF Holders
<1> HIDE DEF S, T
<1>4. IsFiniteSet(S) /\ IsFiniteSet(T) /\ Cardinality(S) \in Nat /\ Cardinality(T) \in Nat
  BY <1>3, ThreadAssumption, FS_Subset, FS_CardinalityType
<1>5. CASE Holds(n, k) /\ Holds(me[t], k)
  <2>1. S = T
    BY <1>3, <1>5
  <2>2. Bit(Holds(n, k)) = 1 /\ Bit(Holds(me[t], k)) = 1
    BY <1>5, BitValue
  <2>3. Cardinality(T) = Cardinality(S) + Bit(Holds(n, k)) - Bit(Holds(me[t], k))
    BY <1>4, <2>1, <2>2
  <2>4. QED
    BY <1>1, <1>4, <2>3 DEF S
<1>6. CASE ~Holds(n, k) /\ ~Holds(me[t], k)
  <2>1. S = T
    BY <1>3, <1>6
  <2>2. Bit(Holds(n, k)) = 0 /\ Bit(Holds(me[t], k)) = 0
    BY <1>6, BitValue
  <2>3. Cardinality(T) = Cardinality(S) + Bit(Holds(n, k)) - Bit(Holds(me[t], k))
    BY <1>4, <2>1, <2>2
  <2>4. QED
    BY <1>1, <1>4, <2>3 DEF S
<1>7. CASE Holds(n, k) /\ ~Holds(me[t], k)
  <2>1. T = S \cup {t} /\ t \notin S
    BY <1>3, <1>7
  <2>2. Cardinality(T) = Cardinality(S) + 1
    BY <1>4, <2>1, FS_AddElement
  <2>3. Bit(Holds(n, k)) = 1 /\ Bit(Holds(me[t], k)) = 0
    BY <1>7, BitValue
  <2>4. Cardinality(T) = Cardinality(S) + Bit(Holds(n, k)) - Bit(Holds(me[t], k))
    BY <1>4, <2>2, <2>3
  <2>5. QED
    BY <1>1, <1>4, <2>4 DEF S
<1>8. CASE ~Holds(n, k) /\ Holds(me[t], k)
  <2>1. S = T \cup {t} /\ t \notin T
    BY <1>3, <1>8
  <2>2. Cardinality(S) = Cardinality(T) + 1
    BY <1>4, <2>1, FS_AddElement
  <2>3. Bit(Holds(n, k)) = 0 /\ Bit(Holds(me[t], k)) = 1
    BY <1>8, BitValue
  <2>4. Cardinality(T) = Cardinality(S) + Bit(Holds(n, k)) - Bit(Holds(me[t], k))
    BY <1>4, <2>2, <2>3
  <2>5. QED
    BY <1>1, <1>4, <2>4 DEF S
<1>9. QED
  BY <1>5, <1>6, <1>7, <1>8

\* What is held changes by what t comes to hold at n and no longer holds.
Quiet(t, n) ==
  /\ held' = [k \in Kinds |-> held'[k]]
  /\ \A k \in Kinds : held'[k] = held[k] + Bit(Holds(n, k)) - Bit(Holds(me[t], k))

LEMMA NothingTaken ==
  ASSUME NEW t \in Thread, NEW n, WellTyped, held' = held,
         \A k \in Kinds : Holds(n, k) <=> Holds(me[t], k)
  PROVE  Quiet(t, n)
<1>1. held \in [Kinds -> Nat]
  BY DEF WellTyped, HeldRight
<1>2. ASSUME NEW k \in Kinds PROVE held'[k] = held[k] + Bit(Holds(n, k)) - Bit(Holds(me[t], k))
  <2>1. Holds(n, k) <=> Holds(me[t], k)
    OBVIOUS
  <2>2. Bit(Holds(n, k)) = Bit(Holds(me[t], k)) /\ Bit(Holds(n, k)) \in Int
    BY <2>1 DEF Bit
  <2>3. held[k] \in Int /\ held'[k] = held[k]
    BY <1>1
  <2> DEFINE a == Bit(Holds(n, k))
             b == Bit(Holds(me[t], k))
  <2> HIDE DEF a, b
  <2>4. a = b /\ a \in Int
    BY <2>2 DEF a, b
  <2>5. held'[k] = held[k] + a - b
    BY <2>3, <2>4
  <2>6. QED
    BY <2>5 DEF a, b
<1>3. QED
  BY <1>1, <1>2 DEF Quiet

LEMMA OneTaken ==
  ASSUME NEW t \in Thread, NEW n, NEW c \in Kinds, NEW d, WellTyped,
         held' = [held EXCEPT ![c] = @ + d],
         \/ d = 1 /\ Holds(n, c) /\ ~Holds(me[t], c)
         \/ d = -1 /\ ~Holds(n, c) /\ Holds(me[t], c)
         \/ d = 0 /\ (Holds(n, c) <=> Holds(me[t], c)),
         \A k \in Kinds \ {c} : Holds(n, k) <=> Holds(me[t], k)
  PROVE  Quiet(t, n)
<1>1. held \in [Kinds -> Nat]
  BY DEF WellTyped, HeldRight
<1>2. ASSUME NEW k \in Kinds PROVE held'[k] = held[k] + Bit(Holds(n, k)) - Bit(Holds(me[t], k))
  <2> DEFINE a == Bit(Holds(n, k))
             b == Bit(Holds(me[t], k))
             x == held[k]
             y == held'[k]
  <2>1. y = IF k = c THEN x + d ELSE x
    BY <1>1
  <2>2. x \in Int /\ a \in 0 .. 1 /\ b \in 0 .. 1
    BY <1>1, BitValue
  <2>3. CASE k # c
    <3>1. a = b
      BY <2>3 DEF Bit
    <3> HIDE DEF a, b, x, y
    <3>2. y = x + a - b
      BY <2>1, <2>2, <2>3, <3>1
    <3>3. QED
      BY <3>2 DEF a, b, x, y
  <2>4. CASE k = c
    <3>1. \/ d = 1 /\ a = 1 /\ b = 0
          \/ d = -1 /\ a = 0 /\ b = 1
          \/ d = 0 /\ a = b
      BY <2>4 DEF Bit
    <3> HIDE DEF a, b, x, y
    <3>2. y = x + a - b
      BY <2>1, <2>2, <2>4, <3>1
    <3>3. QED
      BY <3>2 DEF a, b, x, y
  <2>5. QED
    BY <2>3, <2>4
<1>3. QED
  BY <1>1, <1>2 DEF Quiet

\* What is held stays right when it changes as t does, and of the statics of
\* the libraries nothing was given back but by t.
LEMMA QuietHeld ==
  ASSUME NEW t \in Thread, NEW n, WellTyped, me' = [me EXCEPT ![t] = n], Quiet(t, n), wmi' = wmi
  PROVE  HeldRight'
<1>0. DOMAIN me = Thread /\ held \in [Kinds -> Nat]
  BY DEF WellTyped, HeldRight
<1>1. ASSUME NEW k \in Kinds
      PROVE  held'[k] - Cardinality(Holders(k)') = held[k] - Cardinality(Holders(k))
  <2> DEFINE a == Bit(Holds(n, k))
             b == Bit(Holds(me[t], k))
             x == held[k]
             y == held'[k]
             p == Cardinality(Holders(k))
             q == Cardinality(Holders(k)')
  <2>1. y = x + a - b /\ q = p + a - b /\ p \in Nat /\ q \in Nat
    <3>1. q = p + a - b /\ p \in Nat /\ q \in Nat
      BY <1>0, HoldersMoved
    <3>2. y = x + a - b
      BY DEF Quiet
    <3>3. QED
      BY <3>1, <3>2
  <2>2. a \in 0 .. 1 /\ b \in 0 .. 1 /\ x \in Nat
    BY <1>0, BitValue
  <2> HIDE DEF a, b, x, y, p, q
  <2>3. y - q = x - p
    BY <2>1, <2>2
  <2>4. QED
    BY <2>3 DEF x, y, p, q
<1>2. ASSUME NEW k \in Kinds
      PROVE  held'[k] \in Int /\ Cardinality(Holders(k)) \in Nat /\ Cardinality(Holders(k)') \in Nat
  <2> DEFINE a == Bit(Holds(n, k))
             b == Bit(Holds(me[t], k))
             x == held[k]
             y == held'[k]
  <2>1. y = x + a - b
    BY DEF Quiet
  <2>2. a \in 0 .. 1 /\ b \in 0 .. 1 /\ x \in Nat
    BY <1>0, BitValue
  <2> HIDE DEF a, b, x, y
  <2>3. y \in Int
    BY <2>1, <2>2
  <2>4. QED
    BY <1>0, <2>3, HoldersMoved DEF y
<1>3. \A k \in OfCalls : k \in Kinds
  BY DEF OfCalls, Kinds
<1>4. \A k \in OfCalls : held'[k] = Cardinality(Holders(k)')
  <2> SUFFICES ASSUME NEW k \in OfCalls PROVE held'[k] = Cardinality(Holders(k)')
    OBVIOUS
  <2> DEFINE x == held[k]
             y == held'[k]
             p == Cardinality(Holders(k))
             q == Cardinality(Holders(k)')
  <2>1. x = p /\ x \in Nat
    BY <1>0, <1>3 DEF WellTyped, HeldRight
  <2>2. y - q = x - p /\ y \in Int /\ q \in Nat
    BY <1>1, <1>2, <1>3
  <2> HIDE DEF x, y, p, q
  <2>3. y = q
    BY <2>1, <2>2
  <2>4. QED
    BY <2>3 DEF y, q
<1>5. \A k \in {"nvml.dll", "atiadlxx.dll"} : held'[k] >= Cardinality(Holders(k)')
  <2> SUFFICES ASSUME NEW k \in {"nvml.dll", "atiadlxx.dll"}
               PROVE  held'[k] >= Cardinality(Holders(k)')
    OBVIOUS
  <2> DEFINE x == held[k]
             y == held'[k]
             p == Cardinality(Holders(k))
             q == Cardinality(Holders(k)')
  <2>0. k \in Kinds
    BY DEF Kinds
  <2>1. x >= p /\ x \in Nat
    BY <1>0, <2>0 DEF WellTyped, HeldRight
  <2>2. y - q = x - p /\ y \in Int /\ q \in Nat /\ p \in Nat
    BY <1>1, <1>2, <2>0
  <2> HIDE DEF x, y, p, q
  <2>3. y >= q
    BY <2>1, <2>2
  <2>4. QED
    BY <2>3 DEF y, q
<1>6. \A k \in {"locator", "service"} : held'[k] = held[k]
  <2> SUFFICES ASSUME NEW k \in {"locator", "service"} PROVE held'[k] = held[k]
    OBVIOUS
  <2>1. ~Holds(n, k) /\ ~Holds(me[t], k)
    BY DEF Holds
  <2>2. held'[k] = held[k] + 0 - 0
    BY <2>1, BitValue DEF Quiet, Kinds
  <2>3. held[k] \in Nat
    BY <1>0 DEF Kinds
  <2>4. QED
    BY <2>2, <2>3
<1>7. held'["locator"] >= Bit(wmi'.locator) /\ held'["service"] >= Cardinality(wmi'.svc)
  BY <1>6 DEF WellTyped, HeldRight
<1>8. \A k \in Kinds : held'[k] \in Nat
  <2> SUFFICES ASSUME NEW k \in Kinds PROVE held'[k] \in Nat
    OBVIOUS
  <2>1. held'[k] \in Int /\ Cardinality(Holders(k)') \in Nat
    BY <1>2
  <2>2. CASE k \in OfCalls
    BY <1>4, <2>1, <2>2
  <2>3. CASE k \in {"nvml.dll", "atiadlxx.dll"}
    <3> DEFINE y == held'[k]
               q == Cardinality(Holders(k)')
    <3>1. y >= q /\ y \in Int /\ q \in Nat
      BY <1>5, <2>1, <2>3
    <3> HIDE DEF y, q
    <3>2. y \in Nat
      BY <3>1
    <3>3. QED
      BY <3>2 DEF y
  <2>4. CASE k \in {"locator", "service"}
    BY <1>0, <1>6, <2>4
  <2>5. QED
    BY <2>2, <2>3, <2>4 DEF Kinds, OfCalls
<1>9. held' \in [Kinds -> Nat]
  <2>1. held' = [k \in Kinds |-> held'[k]]
    BY DEF Quiet
  <2>2. QED
    BY <1>8, <2>1
<1>10. QED
  BY <1>4, <1>5, <1>7, <1>9 DEF HeldRight

\* Where a thread is neither past CoInitializeEx, nor depends on a library that
\* another may be loading.
Calm(m) ==
  m.pc \notin InLife \cup {"nvml_symbols", "nvml_init", "adl_symbols", "adl_count", "crashed"}

\* Thread t takes a step that leaves the statics of the libraries alone.
Taken(t) ==
  \E n : /\ Moves(t, n) /\ Good(n) /\ Quiet(t, n)
         /\ UNCHANGED <<com, wmi, gpu, ledger>>
         /\ odd' \in BOOLEAN /\ (odd => odd')
         /\ IsFiniteSet(prev') /\ Cardinality(prev') <= 1
         /\ me[t].pc \notin InLife \cup {"nvml_symbols", "adl_symbols"}
         /\ Calm(n) \/ odd'

\* A thread that is not past CoInitializeEx, neither before nor after, keeps
\* what is known of wmi_init.
LEMMA LifeKept ==
  ASSUME NEW t \in Thread, NEW n, WellTyped, LifeRight, me' = [me EXCEPT ![t] = n],
         com' = com, wmi' = wmi, ledger' = ledger,
         held'["locator"] = held["locator"], held'["service"] = held["service"],
         me[t].pc \notin InLife, n.pc \notin InLife
  PROVE  LifeRight'
<1>1. DOMAIN me = Thread /\ me'[t] = n /\ \A u \in Thread \ {t} : me'[u] = me[u]
  BY DEF WellTyped
<1>2. \A u \in Thread : /\ me'[u].pc \in InLife <=> me[u].pc \in InLife
                        /\ me'[u] = me[u] \/ me'[u].pc \notin InLife
  BY <1>1
<1>3. \A u, w \in Thread : me'[u].pc \in InLife /\ me'[w].pc \in InLife => u = w
  BY <1>2 DEF LifeRight
<1>4. \A u \in Thread :
        /\ me'[u].pc \in InLife => ~wmi.ready
        /\ me'[u].pc \in {"com_security", "com_create"} => ~wmi.locator /\ wmi.svc = {}
        /\ me'[u].pc = "wmi_connect" =>
             /\ wmi.locator
             /\ wmi.svc \subseteq IF me'[u].type = "ROOT/WMI" THEN {} ELSE {"ROOT/WMI"}
  BY <1>2 DEF LifeRight, InLife
<1>5. \A u \in Thread :
        com[u].count = ledger.host[u] + Bit(me'[u].pc \in InLife) + Bit(ledger.owner = {u})
  <2>1. \A u \in Thread : Bit(me'[u].pc \in InLife) = Bit(me[u].pc \in InLife)
    BY <1>2 DEF Bit
  <2>2. QED
    BY <2>1 DEF LifeRight
<1>6. ~wmi.ready /\ (\A u \in Thread : me'[u].pc \notin InLife) => ~wmi.locator /\ wmi.svc = {}
  BY <1>2 DEF LifeRight
<1>7. /\ wmi.ready => wmi.locator
      /\ wmi.ready <=> ledger.owner # {}
      /\ ledger.owner = {} \/ \E u \in Thread : ledger.owner = {u}
      /\ held'["locator"] = Bit(wmi.locator)
      /\ held'["service"] = Cardinality(wmi.svc)
  BY DEF LifeRight
<1>8. QED
  BY <1>3, <1>4, <1>5, <1>6, <1>7 DEF LifeRight

\* A thread that loads no library of the GPU, and does not come to depend on
\* one, keeps what is known of them.
LEMMA LibrariesKept ==
  ASSUME NEW t \in Thread, NEW n, WellTyped, LibrariesRight, me' = [me EXCEPT ![t] = n], gpu' = gpu,
         held'["nvml.dll"] = held["nvml.dll"], held'["atiadlxx.dll"] = held["atiadlxx.dll"],
         me[t].pc \notin {"nvml_symbols", "adl_symbols"},
         n.pc \notin {"nvml_symbols", "nvml_init", "adl_symbols", "adl_count", "crashed"}
  PROVE  LibrariesRight'
<1>1. DOMAIN me = Thread /\ me'[t] = n /\ \A u \in Thread \ {t} : me'[u] = me[u]
  BY DEF WellTyped
<1>2. \A u \in Thread :
        /\ me'[u].pc = "nvml_symbols" <=> me[u].pc = "nvml_symbols"
        /\ me'[u].pc = "adl_symbols" <=> me[u].pc = "adl_symbols"
        /\ me'[u].pc \in {"nvml_init", "adl_count", "crashed"} => me'[u] = me[u]
  BY <1>1
<1>3. /\ \A u, w \in Thread : me'[u].pc = "nvml_symbols" /\ me'[w].pc = "nvml_symbols" => u = w
      /\ \A u, w \in Thread : me'[u].pc = "adl_symbols" /\ me'[w].pc = "adl_symbols" => u = w
  BY <1>2 DEF LibrariesRight
<1>4. \A u \in Thread :
        /\ me'[u].pc = "nvml_symbols" => gpu.nvml
        /\ me'[u].pc = "nvml_init" => gpu.nvml /\ \A w \in Thread : me'[w].pc # "nvml_symbols"
        /\ me'[u].pc = "adl_symbols" => gpu.adl = "loading"
        /\ me'[u].pc = "adl_count" => gpu.adl = "ready"
        /\ me'[u].pc # "crashed"
  BY <1>2 DEF LibrariesRight
<1>5. /\ gpu.nvml /\ (\A u \in Thread : me'[u].pc # "nvml_symbols") => "init" \in gpu.fn
      /\ gpu.adl = "loading" => \E u \in Thread : me'[u].pc = "adl_symbols"
      /\ held'["nvml.dll"] = Bit(gpu.nvml)
      /\ held'["atiadlxx.dll"] = Bit(gpu.adl # "none")
  BY <1>2 DEF LibrariesRight
<1>6. QED
  BY <1>3, <1>4, <1>5 DEF LibrariesRight

\* Such a step keeps the inductive invariant.
LEMMA TakenKept ==
  ASSUME NEW t \in Thread, WellTyped, Balanced, Taken(t)
  PROVE  WellTyped' /\ Balanced'
<1>1. PICK n : /\ Moves(t, n) /\ Good(n) /\ Quiet(t, n)
               /\ UNCHANGED <<com, wmi, gpu, ledger>>
               /\ odd' \in BOOLEAN /\ (odd => odd')
               /\ IsFiniteSet(prev') /\ Cardinality(prev') <= 1
               /\ me[t].pc \notin InLife \cup {"nvml_symbols", "adl_symbols"}
               /\ Calm(n) \/ odd'
  BY DEF Taken
<1>2. /\ me' = [me EXCEPT ![t] = n] /\ com' = com /\ wmi' = wmi /\ gpu' = gpu /\ ledger' = ledger
      /\ changes' = changes
  BY <1>1 DEF Moves
<1>3. Shared'
  BY <1>1, <1>2 DEF WellTyped, Shared
<1>4. HeldRight'
  BY <1>1, <1>2, QuietHeld
<1>5. WellTyped'
  BY <1>1, <1>3, <1>4, MoveTyped
<1>7. SUFFICES ASSUME ~odd' PROVE LifeRight' /\ LibrariesRight'
  BY <1>5 DEF Balanced
<1>8. LifeRight /\ LibrariesRight /\ Calm(n)
  BY <1>1, <1>7 DEF Balanced
<1>9. \A k \in {"locator", "service", "nvml.dll", "atiadlxx.dll"} : held'[k] = held[k]
  <2> SUFFICES ASSUME NEW k \in {"locator", "service", "nvml.dll", "atiadlxx.dll"}
               PROVE  held'[k] = held[k]
    OBVIOUS
  <2>1. ~Holds(n, k) /\ ~Holds(me[t], k)
    BY <1>1, <1>8 DEF Holds, Calm
  <2>2. held'[k] = held[k] + 0 - 0
    BY <1>1, <2>1, BitValue DEF Quiet, Kinds
  <2>3. held[k] \in Nat
    BY DEF Kinds, WellTyped, HeldRight
  <2>4. QED
    BY <2>2, <2>3
<1>10. LifeRight'
  BY <1>1, <1>2, <1>8, <1>9, LifeKept DEF Calm
<1>11. LibrariesRight'
  BY <1>1, <1>2, <1>8, <1>9, LibrariesKept DEF Calm
<1>12. QED
  BY <1>5, <1>10, <1>11
-----------------------------------------------------------------------------
(* The steps that leave the statics alone. *)

LEMMA AwayHolds ==
  ASSUME NEW m, Away(m)
  PROVE  Calm(m) /\ \A k : ~Holds(m, k)
BY DEF Away, Calm, Holds, InLife, AtRows, AtProcess, AtSession

\* A step that neither takes nor gives back anything.
LEMMA StepTaken ==
  ASSUME NEW t \in Thread, NEW n, WellTyped, Step(t, n), Good(n), Calm(n) \/ odd,
         me[t].pc \notin AtRest \cup InLife \cup {"nvml_symbols", "adl_symbols"},
         \A k \in Kinds : Holds(n, k) <=> Holds(me[t], k)
  PROVE  Taken(t)
<1>1. /\ me' = [me EXCEPT ![t] = n] /\ UNCHANGED <<src, plan, moments, changes>>
      /\ UNCHANGED <<com, wmi, gpu, prev, held, ledger, odd>>
  BY DEF Step, Local, statics
<1>2. Moves(t, n)
  BY <1>1 DEF Moves
<1>3. Quiet(t, n)
  BY <1>1, NothingTaken
<1>4. odd \in BOOLEAN /\ IsFiniteSet(prev) /\ Cardinality(prev) <= 1
  BY DEF WellTyped, Shared
<1>5. QED
  BY <1>1, <1>2, <1>3, <1>4 DEF Taken

\* One that takes or gives back something of kind c.
LEMMA HoldingTaken ==
  ASSUME NEW t \in Thread, NEW n, NEW c \in Kinds, NEW d, WellTyped, Holding(t, n, c, d), Good(n), Calm(n),
         me[t].pc \notin AtRest \cup InLife \cup {"nvml_symbols", "adl_symbols"},
         \/ d = 1 /\ Holds(n, c) /\ ~Holds(me[t], c)
         \/ d = -1 /\ ~Holds(n, c) /\ Holds(me[t], c)
         \/ d = 0 /\ (Holds(n, c) <=> Holds(me[t], c)),
         \A k \in Kinds \ {c} : Holds(n, k) <=> Holds(me[t], k)
  PROVE  Taken(t)
<1>1. /\ me' = [me EXCEPT ![t] = n] /\ UNCHANGED <<src, plan, moments, changes>>
      /\ UNCHANGED <<com, wmi, gpu, prev, ledger, odd>>
      /\ held' = [held EXCEPT ![c] = @ + d]
  BY DEF Holding, Local, Taking
<1>2. Moves(t, n)
  BY <1>1 DEF Moves
<1>3. Quiet(t, n)
  BY <1>1, OneTaken
<1>4. odd \in BOOLEAN /\ IsFiniteSet(prev) /\ Cardinality(prev) <= 1
  BY DEF WellTyped, Shared
<1>5. QED
  BY <1>1, <1>2, <1>3, <1>4 DEF Taken

\* What is known of a thread that is in a call.
LEMMA MeInTurn ==
  ASSUME NEW t \in Thread, WellTyped
  PROVE  /\ Good(me[t])
         /\ me[t].pc \notin AtRest => InTurn(me[t], AnyReading)
<1>1. Good(me[t])
  BY DEF WellTyped
<1>2. ASSUME me[t].pc \notin AtRest PROVE InTurn(me[t], AnyReading)
  <2>1. me[t].todo # <<>> /\ me[t].todo \in Seq(AnyReading)
    BY <1>1, <1>2 DEF Good, Place, LocalsOf
  <2>2. Head(me[t].todo) \in AnyReading
    BY <2>1
  <2>3. QED
    BY <1>1, <1>2, <2>1, <2>2 DEF InTurn, Good
<1>3. QED
  BY <1>1, <1>2

\* The locals of a thread that begins, fills or ends a list.
LEMMA FieldsGood ==
  ASSUME NEW m, NEW n, LocalsOf(m), Kept(n, m, Moved \cup {"list", "rows", "room"}),
         n.h \in Nat, n.h <= DriveMax \/ n.h <= LetterMax \/ n.h <= m.max,
         IsSequence(n.rows), n.i \in Nat, n.i <= Len(n.rows) + 1 \/ n.i <= Len(Rows),
         IsSequence(n.list), Len(n.list) <= Room(n),
         n.room \in Nat, n.room <= FirstChunk \/ n.room <= 2 * Len(n.list)
  PROVE  LocalsOf(n) /\ Bounded(n)
<1>1. DOMAIN n = Locals /\ n.max = m.max /\ n.todo = m.todo
  BY DEF Kept, Locals, Moved
<1>2. QED
  BY <1>1 DEF LocalsOf, Bounded

LEMMA OneCallTaken ==
  ASSUME NEW t \in Thread, WellTyped,
         \/ Dispatch(t) \/ DetectVendor(t) \/ MemoryUse(t) \/ ReadUptime(t) \/ NetIo(t)
         \/ LoadFirst(t) \/ LoadSecond(t) \/ AdlTemperature(t)
  PROVE  Taken(t)
<1> DEFINE m == me[t]
<1>1. PICK n, v : Step(t, n) /\ (n = Done(m, v) \/ n = [m EXCEPT !.pc = "load_second", !.vals = v])
  <2>1. CASE Dispatch(t)
    BY <2>1, Zenon DEF Dispatch
  <2>2. CASE DetectVendor(t)
    BY <2>2, Zenon DEF DetectVendor
  <2>3. CASE MemoryUse(t)
    BY <2>3, Zenon DEF MemoryUse
  <2>4. CASE ReadUptime(t)
    BY <2>4, Zenon DEF ReadUptime
  <2>5. CASE NetIo(t)
    BY <2>5, Zenon DEF NetIo
  <2>6. CASE LoadFirst(t)
    <3>1. CASE Has(Times)
      BY <2>6, <3>1, Zenon DEF LoadFirst
    <3>2. CASE ~Has(Times)
      BY <2>6, <3>2, Zenon DEF LoadFirst
    <3>3. QED
      BY <3>1, <3>2
  <2>7. CASE LoadSecond(t)
    BY <2>7, Zenon DEF LoadSecond
  <2>8. CASE AdlTemperature(t)
    BY <2>8, Zenon DEF AdlTemperature
  <2>9. QED
    BY <2>1, <2>2, <2>3, <2>4, <2>5, <2>6, <2>7, <2>8
<1>2. m.pc \in {"dispatch", "vendor", "memory", "uptime", "net", "load", "load_second", "adl_temp"}
  BY DEF At, Dispatch, DetectVendor, MemoryUse, ReadUptime, NetIo, LoadFirst, LoadSecond, AdlTemperature
<1>3. Away(m) /\ m.pc \notin AtRest
  BY <1>2 DEF Away, AtRest, InLife, AtRows, AtProcess, AtSession
<1>4. Good(m) /\ InTurn(m, AnyReading)
  BY <1>3, MeInTurn
<1>5. Good(n) /\ Away(n)
  <2>1. CASE n = Done(m, v)
    BY <1>4, <2>1, DoneGood DEF InTurn
  <2>2. CASE n = [m EXCEPT !.pc = "load_second", !.vals = v]
    <3> HIDE DEF m
    <3>1. Kept(n, m, Moved) /\ n.pc = "load_second" /\ n.h = m.h /\ n.i = m.i
      BY <1>4, <2>2 DEF Kept, Moved, Locals, InTurn, LocalsOf
    <3>2. n.todo = m.todo
      BY <3>1 DEF Kept, Moved, Locals
    <3>3. Place(n) /\ Away(n)
      BY <1>4, <3>1, <3>2 DEF InTurn, Place, AtRest, InLife, AtRows, AtDrive, AtProcess, AtSession, Away
    <3>4. QED
      BY <1>4, <3>1, <3>3, MoveGood DEF InTurn, LocalsOf
  <2>3. QED
    BY <1>1, <2>1, <2>2
<1>6. m.pc \notin AtRest \cup InLife \cup {"nvml_symbols", "adl_symbols"}
  BY <1>2 DEF AtRest, InLife
<1>7. QED
  BY <1>1, <1>3, <1>5, <1>6, AwayHolds, StepTaken

LEMMA LoadSinceTaken ==
  ASSUME NEW t \in Thread, WellTyped, LoadSince(t)
  PROVE  Taken(t)
<1> DEFINE m == me[t]
<1>1. PICK v : Local(t, Done(m, v))
  BY Zenon DEF LoadSince
<1> DEFINE n == Done(m, v)
<1>2. /\ prev' = Else(Read(src, Times), prev) /\ UNCHANGED <<com, wmi, gpu, held, ledger, odd>>
      /\ m.pc = "load_since"
  BY DEF LoadSince, At
<1>3. Away(m) /\ m.pc \notin AtRest
  BY <1>2 DEF Away, AtRest, InLife, AtRows, AtProcess, AtSession
<1>4. Good(n) /\ Away(n)
  BY <1>3, MeInTurn, DoneGood DEF InTurn
<1> HIDE DEF n
<1>5. Moves(t, n)
  BY <1>1, <1>3 DEF Local, Moves, n
<1>6. Quiet(t, n)
  BY <1>2, <1>3, <1>4, AwayHolds, NothingTaken
<1>7. IsFiniteSet(prev') /\ Cardinality(prev') <= 1
  <2>1. PICK x : Read(src, Times) = {} \/ Read(src, Times) = {x}
    BY OneAnswer
  <2>2. prev' = prev \/ prev' = {x}
    BY <1>2, <2>1 DEF Else
  <2>3. IsFiniteSet({x}) /\ Cardinality({x}) = 1
    BY FS_Singleton
  <2>4. IsFiniteSet(prev) /\ Cardinality(prev) <= 1
    BY DEF WellTyped, Shared
  <2>5. QED
    BY <2>2, <2>3, <2>4
<1>8. odd \in BOOLEAN
  BY DEF WellTyped, Shared
<1>9. m.pc \notin InLife \cup {"nvml_symbols", "adl_symbols"}
  BY <1>2 DEF InLife
<1>10. QED
  BY <1>2, <1>4, <1>5, <1>6, <1>7, <1>8, <1>9, AwayHolds DEF Taken

LEMMA DiskSpaceTaken ==
  ASSUME NEW t \in Thread, WellTyped, DiskSpace(t)
  PROVE  Taken(t)
<1> DEFINE m == me[t]
<1>1. PICK n, q, e, v :
        /\ Step(t, n)
        /\ (Len(m.list) < m.max /\ q = [m EXCEPT !.list = Append(@, e)]) \/ q = m
        /\ \/ (m.h + 1 < LetterMax /\ Len(q.list) < m.max /\ n = [q EXCEPT !.h = @ + 1])
           \/ n = Done(q, v)
  <2> DEFINE e == Disk(m.h + 1, src[Letter(m.h + 1)])
             q == IF Len(m.list) < m.max /\ Has(Letter(m.h + 1))
                  THEN [m EXCEPT !.list = Append(@, e)] ELSE m
             n == IF m.h + 1 < LetterMax /\ Len(q.list) < m.max THEN [q EXCEPT !.h = @ + 1]
                  ELSE Done(q, {q.list})
  <2>1. Step(t, n)
    BY Zenon DEF DiskSpace
  <2>2. (Len(m.list) < m.max /\ q = [m EXCEPT !.list = Append(@, e)]) \/ q = m
    OBVIOUS
  <2>3. \/ (m.h + 1 < LetterMax /\ Len(q.list) < m.max /\ n = [q EXCEPT !.h = @ + 1])
        \/ n = Done(q, {q.list})
    OBVIOUS
  <2>4. QED
    BY <2>1, <2>2, <2>3, Zenon
<1>2. m.pc = "disks" /\ Away(m) /\ m.pc \notin AtRest \cup InLife \cup {"nvml_symbols", "adl_symbols"}
  BY DEF DiskSpace, At, Away, AtRest, InLife, AtRows, AtProcess, AtSession
<1>3. Good(m) /\ InTurn(m, AnyReading)
  BY <1>2, MeInTurn
<1> HIDE DEF m
<1>4. /\ Head(m.todo) = "disks" /\ m.h < LetterMax /\ Room(m) = m.max /\ m.max \in Nat /\ m.h \in Nat
      /\ LetterMax \in Nat /\ LocalsOf(m) /\ Bounded(m) /\ m.todo # <<>> /\ IsSequence(m.list)
      /\ Len(m.list) <= m.max /\ DOMAIN m = Locals
  BY <1>2, <1>3 DEF Good, Place, InTurn, Room, Reading, LocalsOf, Bounded
<1>5. LocalsOf(q) /\ Bounded(q) /\ q.todo = m.todo /\ q.pc = m.pc /\ q.max = m.max /\ q.h = m.h
      /\ q.i = m.i
  <2>1. CASE q = m
    BY <1>4, <2>1
  <2>2. CASE Len(m.list) < m.max /\ q = [m EXCEPT !.list = Append(@, e)]
    <3> DEFINE s == Append(m.list, e)
    <3>1. IsSequence(s) /\ Len(s) = Len(m.list) + 1 /\ Len(m.list) \in Nat
      BY <1>4, AppendGood
    <3> HIDE DEF s
    <3>2. q = [m EXCEPT !.list = s]
      BY <2>2 DEF s
    <3>3. /\ Kept(q, m, Moved \cup {"list", "rows", "room"}) /\ q.list = s /\ q.rows = m.rows
          /\ q.room = m.room /\ q.h = m.h /\ q.i = m.i /\ q.todo = m.todo /\ q.pc = m.pc /\ q.max = m.max
          /\ q.call = m.call
      BY <1>4, <3>2 DEF Kept, Moved, Locals
    <3>4. Room(q) = m.max
      BY <1>4, <3>3 DEF Room, Reading
    <3>5. q.room \in Nat /\ (q.room <= FirstChunk \/ q.room <= 2 * Len(q.list))
      BY <1>4, <3>1, <3>3 DEF LocalsOf, Bounded
    <3>6. q.h \in Nat /\ (q.h <= DriveMax \/ q.h <= LetterMax \/ q.h <= m.max)
      BY <1>4, <3>3 DEF LocalsOf, Bounded
    <3>7. IsSequence(q.rows) /\ q.i \in Nat /\ (q.i <= Len(q.rows) + 1 \/ q.i <= Len(Rows))
      BY <1>4, <3>3 DEF LocalsOf, Bounded
    <3>8. IsSequence(q.list) /\ Len(q.list) <= Room(q)
      <4> DEFINE a == Len(m.list)
                 b == Len(s)
      <4>1. a < m.max /\ b = a + 1 /\ a \in Nat /\ m.max \in Nat
        BY <1>4, <2>2, <3>1
      <4> HIDE DEF a, b
      <4>2. b <= m.max
        BY <4>1
      <4>3. QED
        BY <3>1, <3>3, <3>4, <4>2 DEF b
    <3>9. LocalsOf(q) /\ Bounded(q)
      BY <1>4, <3>3, <3>5, <3>6, <3>7, <3>8, FieldsGood
    <3>10. QED
      BY <3>3, <3>9
  <2>3. QED
    BY <1>1, <2>1, <2>2
<1>6. Good(n) /\ Away(n)
  <2>1. CASE n = Done(q, v)
    BY <1>4, <1>5, <2>1, DoneGood
  <2>2. CASE m.h + 1 < LetterMax /\ Len(q.list) < m.max /\ n = [q EXCEPT !.h = @ + 1]
    <3>1. Kept(n, q, Moved) /\ n.pc = "disks" /\ n.h = m.h + 1 /\ n.i = q.i /\ n.todo = m.todo
      BY <1>2, <1>5, <2>2 DEF Kept, Moved, Locals, LocalsOf
    <3>2. Place(n) /\ Away(n)
      BY <1>4, <2>2, <3>1 DEF Place, AtRest, InLife, AtRows, AtDrive, AtProcess, AtSession, Away
    <3>3. n.h \in Nat /\ n.h <= LetterMax
      BY <1>4, <2>2, <3>1
    <3>4. n.i \in Nat /\ n.i = q.i /\ q.pc \notin AtRest
      BY <1>2, <1>5, <3>1 DEF LocalsOf
    <3>5. QED
      BY <1>5, <3>1, <3>2, <3>3, <3>4, MoveGood
  <2>3. QED
    BY <1>1, <2>1, <2>2
<1>7. QED
  BY <1>1, <1>2, <1>6, AwayHolds, StepTaken DEF m

-----------------------------------------------------------------------------
(* Drives and processes. *)

LEMMA ConcatGood ==
  ASSUME NEW s, NEW S, NEW e \in Seq(S), IsSequence(s)
  PROVE  IsSequence(s \o e) /\ Len(s \o e) = Len(s) + Len(e) /\ Len(s) \in Nat /\ Len(e) \in Nat
<1> DEFINE T == Range(s) \cup S
           q == s \o e
<1>1. s \in Seq(T) /\ e \in Seq(T)
  BY DEF IsSequence
<1>2. q \in Seq(T) /\ Len(q) = Len(s) + Len(e) /\ Len(s) \in Nat /\ Len(e) \in Nat
  BY <1>1
<1> HIDE DEF q, T
<1>3. q \in [1 .. Len(q) -> T] /\ Len(q) \in Nat /\ DOMAIN q = 1 .. Len(q)
  BY <1>2
<1>4. q \in [1 .. Len(q) -> Range(q)]
  BY <1>3 DEF Range
<1>5. q \in Seq(Range(q))
  BY <1>3, <1>4
<1>6. QED
  BY <1>2, <1>5 DEF IsSequence, q

\* The sources answer with one value or none, and what they answer is added
\* to a list as one entry or none.
LEMMA EntriesFew ==
  ASSUME NEW S, NEW x, S = {} \/ S = {x}, NEW h
  PROVE  LET e == SetToSeq({<<h, y>> : y \in S})
         IN  e \in Seq({<<h, y>> : y \in S}) /\ Len(e) \in 0 .. 1 /\ (S = {} => Len(e) = 0)
<1> DEFINE U == {<<h, y>> : y \in S}
           e == SetToSeq(U)
<1>1. U = {} \/ U = {<<h, x>>}
  OBVIOUS
<1>2. e \in Seq(U) /\ Len(e) \in 0 .. 1
  BY <1>1, FewToSeq
<1>3. S = {} => U = {}
  OBVIOUS
<1>4. S = {} => Len(e) = 0
  <2> HIDE DEF e, U
  <2>1. ASSUME S = {}, Len(e) = 1 PROVE FALSE
    <3>1. e \in Seq(U) /\ U = {}
      BY <1>2, <1>3, <2>1
    <3>2. 1 \in 1 .. Len(e)
      BY <2>1
    <3>3. e[1] \in U
      BY <3>1, <3>2
    <3>4. QED
      BY <3>1, <3>3
  <2>2. QED
    BY <1>2, <2>1
<1>5. QED
  BY <1>2, <1>4

LEMMA AfterCountersGood ==
  ASSUME NEW m, NEW S, NEW x, S = {} \/ S = {x}, InTurn(m, {"disk_io"}), m.type = "counters",
         Len(m.list) <= m.h, S # {} => m.h < m.max
  PROVE  Good(AfterDrive(m, S)) /\ Away(AfterDrive(m, S))
<1> DEFINE e == SetToSeq({<<m.h, y>> : y \in S})
           s == m.list \o e
           q == [m EXCEPT !.list = s]
<1>1. AfterDrive(m, S) = NextCounters(q)
  BY DEF AfterDrive
<1>2. /\ LocalsOf(m) /\ Bounded(m) /\ IsSequence(m.list) /\ m.h \in Nat /\ m.max \in Nat
      /\ m.todo # <<>> /\ Head(m.todo) = "disk_io" /\ m.pc \notin AtRest
  BY DEF InTurn, LocalsOf
<1>3. e \in Seq({<<m.h, y>> : y \in S}) /\ Len(e) \in 0 .. 1 /\ (S = {} => Len(e) = 0)
  BY EntriesFew
<1> HIDE DEF e
<1>4. IsSequence(s) /\ Len(s) = Len(m.list) + Len(e) /\ Len(m.list) \in Nat
  BY <1>2, <1>3, ConcatGood
<1> HIDE DEF s
<1>5. Room(m) = m.max
  BY <1>2 DEF Room, Reading
<1>6. Len(s) <= m.h + 1 /\ Len(m.list) <= Len(s) /\ Len(s) <= m.max
  <2> DEFINE a == Len(m.list)
             b == Len(s)
             c == Len(e)
             h == m.h
             n == m.max
  <2>1. b = a + c /\ a \in Nat /\ c \in 0 .. 1 /\ h \in Nat /\ n \in Nat /\ a <= h /\ a <= n
        /\ (c = 0 \/ h < n)
    BY <1>2, <1>3, <1>4, <1>5 DEF Bounded
  <2> HIDE DEF a, b, c, h, n
  <2>2. b <= h + 1 /\ a <= b /\ b <= n
    BY <2>1
  <2>3. QED
    BY <2>2 DEF a, b, c, h, n
<1>7. /\ Kept(q, m, Moved \cup {"list", "rows", "room"}) /\ q.list = s /\ q.rows = m.rows
      /\ q.room = m.room /\ q.h = m.h /\ q.i = m.i /\ q.todo = m.todo /\ q.pc = m.pc /\ q.max = m.max
      /\ q.call = m.call /\ q.type = m.type
  BY <1>2 DEF Kept, Moved, Locals, LocalsOf
<1> HIDE DEF q
<1>8. Room(q) = m.max
  BY <1>2, <1>7 DEF Room, Reading
<1>9. q.room \in Nat /\ (q.room <= FirstChunk \/ q.room <= 2 * Len(q.list))
  <2>1. m.room \in Nat /\ (m.room <= FirstChunk \/ m.room <= 2 * Len(m.list))
    BY <1>2 DEF LocalsOf, Bounded
  <2> DEFINE a == Len(m.list)
             b == Len(s)
  <2>2. a \in Nat /\ b \in Nat /\ a <= b /\ (m.room <= FirstChunk \/ m.room <= 2 * a)
    BY <1>3, <1>4, <1>6, <2>1
  <2> HIDE DEF a, b
  <2>3. m.room <= FirstChunk \/ m.room <= 2 * b
    BY <2>1, <2>2
  <2>4. QED
    BY <1>7, <2>1, <2>3 DEF b
<1>10. q.h \in Nat /\ (q.h <= DriveMax \/ q.h <= LetterMax \/ q.h <= m.max)
  BY <1>2, <1>7 DEF Bounded
<1>11. IsSequence(q.rows) /\ q.i \in Nat /\ (q.i <= Len(q.rows) + 1 \/ q.i <= Len(Rows))
  BY <1>2, <1>7 DEF LocalsOf, Bounded
<1>12. LocalsOf(q) /\ Bounded(q)
  BY <1>2, <1>4, <1>6, <1>7, <1>8, <1>9, <1>10, <1>11, FieldsGood
<1>13. InTurn(q, {"disk_io"}) /\ q.type = "counters" /\ Len(q.list) <= q.h + 1
  BY <1>2, <1>6, <1>7, <1>12 DEF InTurn
<1>14. QED
  BY <1>1, <1>13, NextCountersGood

LEMMA AfterAskedGood ==
  ASSUME NEW m, NEW S, InTurn(m, {"drive_temp"}), m.type \in {"smart", "identify"}, m.h < DriveMax
  PROVE  Good(AfterDrive(m, S)) /\ Away(AfterDrive(m, S))
<1> DEFINE n == AfterDrive(m, S)
           temps == CASE m.type = "smart" -> UNION {SmartTemp(x) : x \in S}
                      [] m.type = "identify" -> UNION {IdentifyTemp(x) : x \in S} \ {0}
                      [] OTHER -> {}
           w == {<<m.h, x>> : x \in temps}
<1>0. n = CASE m.type = "counters" ->
                 NextCounters([m EXCEPT !.list = @ \o SetToSeq({<<m.h, x>> : x \in S})])
            [] m.type # "counters" /\ temps # {} -> Done(m, w)
            [] m.type = "smart" /\ temps = {} -> [m EXCEPT !.pc = "drive_open", !.type = "identify"]
            [] m.type = "identify" /\ temps = {} -> NextDrive(m)
  BY DEF AfterDrive
<1> HIDE DEF n, temps, w
<1>1. \/ n = Done(m, w)
      \/ n = [m EXCEPT !.pc = "drive_open", !.type = "identify"]
      \/ n = NextDrive(m)
  <2>1. m.type # "counters"
    OBVIOUS
  <2>2. CASE temps # {}
    BY <1>0, <2>1, <2>2
  <2>3. CASE temps = {} /\ m.type = "smart"
    BY <1>0, <2>1, <2>3
  <2>4. CASE temps = {} /\ m.type = "identify"
    BY <1>0, <2>1, <2>4
  <2>5. QED
    BY <2>2, <2>3, <2>4
<1>2. /\ LocalsOf(m) /\ Bounded(m) /\ m.todo # <<>> /\ Head(m.todo) = "drive_temp" /\ m.pc \notin AtRest
  BY DEF InTurn
<1>3. CASE n = Done(m, w)
  BY <1>2, <1>3, DoneGood DEF n
<1>4. CASE n = [m EXCEPT !.pc = "drive_open", !.type = "identify"]
  <2>1. Kept(n, m, Moved) /\ n.pc = "drive_open" /\ n.h = m.h /\ n.i = m.i /\ n.type = "identify"
    BY <1>2, <1>4 DEF Kept, Moved, Locals, LocalsOf
  <2>2. n.todo = m.todo
    BY <2>1 DEF Kept, Moved, Locals
  <2>3. Place(n) /\ Away(n)
    BY <1>2, <2>1, <2>2 DEF Place, AtRest, InLife, AtRows, AtDrive, AtProcess, AtSession, Away
  <2>4. Good(n)
    BY <1>2, <2>1, <2>3, MoveGood DEF LocalsOf
  <2>5. QED
    BY <2>3, <2>4 DEF n
<1>5. CASE n = NextDrive(m)
  BY <1>5, NextDriveGood DEF n
<1>6. QED
  BY <1>1, <1>3, <1>4, <1>5

\* To go on after a drive, with what it answered or nothing.
LEMMA AfterDriveGood ==
  ASSUME NEW m, NEW S, NEW x, S = {} \/ S = {x}, Good(m), m.pc \in AtDrive,
         S # {} => m.pc = "drive_ask"
  PROVE  Good(AfterDrive(m, S)) /\ Away(AfterDrive(m, S))
<1>1. m.pc \notin AtRest /\ m.todo # <<>> /\ LocalsOf(m) /\ Bounded(m)
  BY DEF AtDrive, AtRest, Good, Place
<1>2. CASE Head(m.todo) = "disk_io" /\ m.type = "counters" /\ Len(m.list) <= m.h
           /\ (m.h < m.max \/ (m.pc = "drive_open" /\ m.h = 0))
  <2>1. InTurn(m, {"disk_io"})
    BY <1>1, <1>2 DEF InTurn
  <2>2. S # {} => m.h < m.max
    BY <1>2
  <2>3. QED
    BY <1>2, <2>1, <2>2, AfterCountersGood
<1>3. CASE Head(m.todo) = "drive_temp" /\ m.type \in {"smart", "identify"} /\ m.h < DriveMax
  <2>1. InTurn(m, {"drive_temp"})
    BY <1>1, <1>3 DEF InTurn
  <2>2. QED
    BY <1>3, <2>1, AfterAskedGood
<1>4. QED
  BY <1>2, <1>3 DEF Good, Place

LEMMA DriveOpenTaken ==
  ASSUME NEW t \in Thread, WellTyped, DriveOpen(t)
  PROVE  Taken(t)
<1> DEFINE m == me[t]
<1>1. \/ /\ Holding(t, [m EXCEPT !.pc = "drive_ask"], "drive", 1)
         /\ m.type = "counters" => m.h < m.max
      \/ Step(t, AfterDrive(m, {}))
  BY Zenon DEF DriveOpen
<1>2. m.pc = "drive_open" /\ Away(m) /\ m.pc \notin AtRest \cup InLife \cup {"nvml_symbols", "adl_symbols"}
  BY DEF DriveOpen, At, Away, AtRest, InLife, AtRows, AtProcess, AtSession
<1>3. Good(m) /\ InTurn(m, AnyReading)
  BY <1>2, MeInTurn
<1>4. CASE Step(t, AfterDrive(m, {}))
  <2>1. Good(AfterDrive(m, {})) /\ Away(AfterDrive(m, {}))
    BY <1>2, <1>3, AfterDriveGood DEF AtDrive
  <2>2. QED
    BY <1>2, <1>4, <2>1, AwayHolds, StepTaken
<1>5. CASE Holding(t, [m EXCEPT !.pc = "drive_ask"], "drive", 1) /\ (m.type = "counters" => m.h < m.max)
  <2> DEFINE n == [m EXCEPT !.pc = "drive_ask"]
  <2> HIDE DEF m
  <2>1. Kept(n, m, Moved) /\ n.pc = "drive_ask" /\ n.h = m.h /\ n.i = m.i /\ n.type = m.type
    BY <1>3 DEF Kept, Moved, Locals, Good, LocalsOf
  <2>2. n.todo = m.todo /\ n.list = m.list /\ n.max = m.max
    BY <2>1 DEF Kept, Moved, Locals
  <2>3. Place(n) /\ Calm(n)
    BY <1>2, <1>3, <1>5, <2>1, <2>2
    DEF Good, InTurn, Place, AtRest, InLife, AtRows, AtDrive, AtProcess, Calm
  <2>4. Good(n)
    BY <1>3, <2>1, <2>3, MoveGood DEF InTurn, LocalsOf
  <2>5. \A k : Holds(n, k) <=> k = "drive"
    BY <2>1 DEF Holds, AtRows, AtProcess, AtSession
  <2>6. \A k : ~Holds(m, k)
    BY <1>2, AwayHolds
  <2>7. "drive" \in Kinds
    BY DEF Kinds
  <2> HIDE DEF n
  <2>8. QED
    BY <1>2, <1>5, <2>3, <2>4, <2>5, <2>6, <2>7, HoldingTaken DEF n, m
<1>6. QED
  BY <1>1, <1>4, <1>5

LEMMA DriveAskTaken ==
  ASSUME NEW t \in Thread, WellTyped, DriveAsk(t)
  PROVE  Taken(t)
<1> DEFINE m == me[t]
<1>1. PICK p : Holding(t, AfterDrive(m, Read(src, p)), "drive", -1)
  BY Zenon DEF DriveAsk
<1> DEFINE n == AfterDrive(m, Read(src, p))
<1>2. m.pc = "drive_ask" /\ m.pc \notin AtRest \cup InLife \cup {"nvml_symbols", "adl_symbols"}
  BY DEF DriveAsk, At, AtRest, InLife
<1>3. Good(m)
  BY MeInTurn
<1>4. PICK x : Read(src, p) = {} \/ Read(src, p) = {x}
  BY OneAnswer
<1>5. Good(n) /\ Away(n)
  BY <1>2, <1>3, <1>4, AfterDriveGood DEF AtDrive
<1>6. \A k : Holds(m, k) <=> k = "drive"
  BY <1>2 DEF Holds, AtRows, AtProcess, AtSession
<1>7. "drive" \in Kinds
  BY DEF Kinds
<1> HIDE DEF n
<1>8. Holding(t, n, "drive", -1)
  BY <1>1 DEF n
<1>9. QED
  BY <1>2, <1>5, <1>6, <1>7, <1>8, AwayHolds, HoldingTaken

LEMMA TakeSnapshotTaken ==
  ASSUME NEW t \in Thread, WellTyped, TakeSnapshot(t)
  PROVE  Taken(t)
<1> DEFINE m == me[t]
           n == [m EXCEPT !.pc = "process_open", !.rows = src[Snapshot], !.i = 1]
<1>1. (Has(Snapshot) /\ Holding(t, n, "snapshot", 1)) \/ Step(t, Done(m, {<<>>}))
  BY Zenon DEF TakeSnapshot
<1>2. m.pc = "processes" /\ Away(m) /\ m.pc \notin AtRest \cup InLife \cup {"nvml_symbols", "adl_symbols"}
  BY DEF TakeSnapshot, At, Away, AtRest, InLife, AtRows, AtProcess, AtSession
<1>3. Good(m) /\ InTurn(m, AnyReading)
  BY <1>2, MeInTurn
<1>4. CASE Step(t, Done(m, {<<>>}))
  <2>1. Good(Done(m, {<<>>})) /\ Away(Done(m, {<<>>}))
    BY <1>3, DoneGood DEF InTurn
  <2>2. QED
    BY <1>2, <1>4, <2>1, AwayHolds, StepTaken
<1>5. CASE Has(Snapshot) /\ Holding(t, n, "snapshot", 1)
  <2> DEFINE s == src[Snapshot]
  <2>0. IsSequence(s)
    BY <1>5 DEF Has, WellTyped, SourcesOfKind, OfKind, IsSequence
  <2>1. n = [m EXCEPT !.pc = "process_open", !.rows = s, !.i = 1]
    OBVIOUS
  <2> HIDE DEF m, n, s
  <2>2. /\ Kept(n, m, Moved \cup {"list", "rows", "room"}) /\ n.pc = "process_open" /\ n.rows = s /\ n.i = 1
        /\ n.h = m.h /\ n.todo = m.todo /\ n.list = m.list /\ n.max = m.max /\ n.room = m.room
        /\ n.call = m.call
    BY <1>3, <2>1 DEF Kept, Moved, Locals, Good, LocalsOf
  <2>3. Head(m.todo) = "processes" /\ m.list = <<>> /\ m.room = 0 /\ LocalsOf(m) /\ Bounded(m) /\ m.todo # <<>>
    BY <1>2, <1>3 DEF Good, Place, InTurn
  <2>4. Len(s) \in Nat
    BY <2>0 DEF IsSequence
  <2>5. Place(n) /\ Calm(n)
    BY <2>2, <2>3, <2>4 DEF Place, AtRest, InLife, AtRows, AtDrive, AtProcess, Calm
  <2>6. Room(n) = 0 /\ Len(n.list) = 0
    BY <2>2, <2>3, EmptyList DEF Room, Reading
  <2>7. LocalsOf(n) /\ Bounded(n)
    <3>1. n.h \in Nat /\ (n.h <= DriveMax \/ n.h <= LetterMax \/ n.h <= m.max)
      BY <2>2, <2>3 DEF LocalsOf, Bounded
    <3>2. IsSequence(n.rows) /\ n.i \in Nat /\ n.i <= Len(n.rows) + 1
      BY <2>0, <2>2, <2>4
    <3>3. IsSequence(n.list) /\ Len(n.list) <= Room(n) /\ n.room \in Nat /\ n.room <= FirstChunk
      BY <2>2, <2>3, <2>6, EmptyList
    <3>4. QED
      BY <2>2, <2>3, <3>1, <3>2, <3>3, FieldsGood
  <2>8. \A k : Holds(n, k) <=> k = "snapshot"
    BY <2>2 DEF Holds, AtRows, AtProcess, AtSession
  <2>9. \A k : ~Holds(m, k)
    BY <1>2, AwayHolds
  <2>10. "snapshot" \in Kinds
    BY DEF Kinds
  <2>11. QED
    BY <1>2, <1>5, <2>5, <2>7, <2>8, <2>9, <2>10, HoldingTaken DEF Good, m
<1>6. QED
  BY <1>1, <1>4, <1>5

LEMMA ProcessOpenTaken ==
  ASSUME NEW t \in Thread, WellTyped, ProcessOpen(t)
  PROVE  Taken(t)
<1> DEFINE m == me[t]
           opened == {m.rows[m.i]} \cap {p \in Range(m.rows) : Has(Process(p))}
           n == [m EXCEPT !.pc = "process_row", !.name = opened]
<1>1. \/ \E v : Holding(t, Done(m, v), "snapshot", -1)
      \/ ~(m.i > Len(m.rows)) /\ Holding(t, n, "process", Cardinality(opened))
  <2>1. CASE m.i > Len(m.rows)
    BY <2>1, Zenon DEF ProcessOpen
  <2>2. CASE ~(m.i > Len(m.rows))
    BY <2>2, Zenon DEF ProcessOpen
  <2>3. QED
    BY <2>1, <2>2
<1>2. m.pc = "process_open" /\ m.pc \notin AtRest \cup InLife \cup {"nvml_symbols", "adl_symbols"}
  BY DEF ProcessOpen, At, AtRest, InLife
<1>3. Good(m) /\ InTurn(m, AnyReading)
  BY <1>2, MeInTurn
<1>4. \A k : Holds(m, k) <=> k = "snapshot"
  BY <1>2 DEF Holds, AtRows, AtProcess, AtSession
<1>5. CASE \E v : Holding(t, Done(m, v), "snapshot", -1)
  <2>1. PICK v : Holding(t, Done(m, v), "snapshot", -1)
    BY <1>5
  <2> DEFINE z == Done(m, v)
  <2>2. Good(z) /\ Away(z)
    BY <1>3, DoneGood DEF InTurn
  <2>3. "snapshot" \in Kinds
    BY DEF Kinds
  <2> HIDE DEF z
  <2>4. Holding(t, z, "snapshot", -1)
    BY <2>1 DEF z
  <2>5. QED
    BY <1>2, <1>4, <2>2, <2>3, <2>4, AwayHolds, HoldingTaken
<1>6. CASE ~(m.i > Len(m.rows)) /\ Holding(t, n, "process", Cardinality(opened))
  <2> DEFINE d == Cardinality(opened)
  <2>1. opened = {} \/ opened = {m.rows[m.i]}
    OBVIOUS
  <2>2. (opened = {} /\ d = 0) \/ (opened # {} /\ d = 1)
    <3>1. Cardinality({m.rows[m.i]}) = 1
      BY FS_Singleton
    <3>2. QED
      BY <2>1, <3>1, FS_EmptySet
  <2>3. n = [m EXCEPT !.pc = "process_row", !.name = opened]
    OBVIOUS
  <2>4. Holding(t, n, "process", d) /\ ~(m.i > Len(m.rows))
    BY <1>6
  <2> HIDE DEF m, n, d, opened
  <2>5. Kept(n, m, Moved) /\ n.pc = "process_row" /\ n.name = opened /\ n.i = m.i /\ n.h = m.h
        /\ n.todo = m.todo /\ n.rows = m.rows /\ n.list = m.list
    BY <1>3, <2>3 DEF Kept, Moved, Locals, Good, LocalsOf
  <2>6. /\ Head(m.todo) = "processes" /\ m.todo # <<>> /\ LocalsOf(m) /\ Bounded(m)
        /\ m.i \in 1 .. Len(m.rows) + 1 /\ IsSequence(m.rows)
    BY <1>2, <1>3 DEF Good, Place, InTurn, AtProcess, LocalsOf
  <2>7. m.i <= Len(m.rows)
    BY <2>4, <2>6 DEF IsSequence
  <2>8. Place(n) /\ Calm(n)
    BY <2>1, <2>5, <2>6, <2>7 DEF Place, AtRest, InLife, AtRows, AtDrive, AtProcess, Calm
  <2>9. Good(n)
    BY <1>2, <2>5, <2>6, <2>8, MoveGood DEF LocalsOf
  <2>10. \A k : Holds(n, k) <=> (k = "snapshot" \/ (k = "process" /\ opened # {}))
    BY <2>5 DEF Holds, AtRows, AtProcess, AtSession
  <2>11. "process" \in Kinds /\ "process" # "snapshot"
    BY DEF Kinds
  <2>12. QED
    BY <1>2, <1>4, <2>2, <2>4, <2>8, <2>9, <2>10, <2>11, HoldingTaken DEF m
<1>7. QED
  BY <1>1, <1>5, <1>6

LEMMA MaxOfTwo ==
  ASSUME NEW a \in Nat, NEW b \in Nat
  PROVE  Max({a, b}) \in {a, b} /\ Max({a, b}) >= a /\ Max({a, b}) >= b
<1>1. \E y \in {a, b} : \A z \in {a, b} : y >= z
  <2>1. CASE a >= b
    BY <2>1
  <2>2. CASE ~(a >= b)
    BY <2>2
  <2>3. QED
    BY <2>1, <2>2
<1>2. QED
  BY <1>1 DEF Max

LEMMA ProcessRowTaken ==
  ASSUME NEW t \in Thread, WellTyped, ProcessRow(t)
  PROVE  Taken(t)
<1> DEFINE m == me[t]
<1>1. PICK n, row, r :
        /\ Holding(t, n, "process", -Cardinality(m.name))
        /\ \/ n = [m EXCEPT !.pc = "process_open", !.i = Len(m.rows) + 1]
           \/ n = [m EXCEPT !.pc = "process_open", !.i = @ + 1, !.list = Append(@, row), !.room = r]
        /\ r = IF Len(m.list) = m.room THEN Max({FirstChunk, 2 * m.room}) ELSE m.room
  <2> DEFINE full == Len(m.list) = m.room
             row == Row(IF m.name = {} THEN <<>> ELSE src, m.rows[m.i])
             r == IF full THEN Max({FirstChunk, 2 * m.room}) ELSE m.room
             a == [m EXCEPT !.pc = "process_open", !.i = Len(m.rows) + 1]
             b == [m EXCEPT !.pc = "process_open", !.i = @ + 1, !.list = Append(@, row),
                            !.room = IF full THEN Max({FirstChunk, 2 * @}) ELSE @]
             n == IF full /\ ~Has(Heap) THEN a ELSE b
  <2>1. Holding(t, n, "process", -Cardinality(m.name))
    BY Zenon DEF ProcessRow
  <2>2. b = [m EXCEPT !.pc = "process_open", !.i = @ + 1, !.list = Append(@, row), !.room = r]
    OBVIOUS
  <2>3. n = a \/ n = b
    OBVIOUS
  <2>4. QED
    BY <2>1, <2>2, <2>3, Zenon
<1>2. m.pc = "process_row" /\ m.pc \notin AtRest \cup InLife \cup {"nvml_symbols", "adl_symbols"}
  BY DEF ProcessRow, At, AtRest, InLife
<1>3. Good(m) /\ InTurn(m, AnyReading)
  BY <1>2, MeInTurn
<1>4. \A k : Holds(m, k) <=> (k = "snapshot" \/ (k = "process" /\ m.name # {}))
  BY <1>2 DEF Holds, AtRows, AtProcess, AtSession
<1> HIDE DEF m
<1>5. /\ Head(m.todo) = "processes" /\ m.todo # <<>> /\ LocalsOf(m) /\ Bounded(m)
      /\ m.i \in 1 .. Len(m.rows) /\ IsSequence(m.rows) /\ Len(m.rows) \in Nat
      /\ (m.name = {} \/ m.name = {m.rows[m.i]})
  BY <1>2, <1>3 DEF Good, Place, InTurn, AtProcess, LocalsOf, IsSequence
<1>6. \/ m.name = {} /\ -Cardinality(m.name) = 0
      \/ m.name # {} /\ -Cardinality(m.name) = -1
  <2>1. Cardinality({m.rows[m.i]}) = 1
    BY FS_Singleton
  <2>2. Cardinality({}) = 0
    BY FS_EmptySet
  <2> DEFINE c == Cardinality(m.name)
  <2>3. (m.name = {} /\ c = 0) \/ (m.name # {} /\ c = 1)
    BY <1>5, <2>1, <2>2
  <2> HIDE DEF c
  <2>4. (m.name = {} /\ -c = 0) \/ (m.name # {} /\ -c = -1)
    BY <2>3
  <2>5. QED
    BY <2>4 DEF c
<1>7. Good(n) /\ n.pc = "process_open"
  <2>1. CASE n = [m EXCEPT !.pc = "process_open", !.i = Len(m.rows) + 1]
    <3>1. Kept(n, m, Moved) /\ n.pc = "process_open" /\ n.i = Len(m.rows) + 1 /\ n.h = m.h
          /\ n.todo = m.todo /\ n.rows = m.rows
      BY <1>5, <2>1 DEF Kept, Moved, Locals, LocalsOf
    <3>2. Place(n)
      BY <1>5, <3>1 DEF Place, AtRest, InLife, AtRows, AtDrive, AtProcess
    <3>3. n.i \in Nat /\ n.i <= Len(n.rows) + 1 /\ n.h \in Nat
      BY <1>5, <3>1 DEF LocalsOf
    <3>4. QED
      BY <1>2, <1>5, <3>1, <3>2, <3>3, MoveGood
  <2>2. CASE n = [m EXCEPT !.pc = "process_open", !.i = @ + 1, !.list = Append(@, row), !.room = r]
    <3> DEFINE s == Append(m.list, row)
    <3>1. IsSequence(s) /\ Len(s) = Len(m.list) + 1 /\ Len(m.list) \in Nat
      BY <1>5, AppendGood DEF LocalsOf
    <3> HIDE DEF s
    <3>2. n = [m EXCEPT !.pc = "process_open", !.i = m.i + 1, !.list = s, !.room = r]
      BY <2>2 DEF s
    <3>3. /\ Kept(n, m, Moved \cup {"list", "rows", "room"}) /\ n.pc = "process_open" /\ n.i = m.i + 1
          /\ n.list = s /\ n.room = r /\ n.h = m.h /\ n.todo = m.todo /\ n.rows = m.rows
          /\ n.max = m.max
      BY <1>5, <3>2 DEF Kept, Moved, Locals, LocalsOf
    <3>4. Place(n)
      BY <1>5, <3>3 DEF Place, AtRest, InLife, AtRows, AtDrive, AtProcess
    <3>5. Room(n) = r /\ Room(m) = m.room
      BY <1>5, <3>3 DEF Room, Reading
    <3>6. m.room \in Nat /\ (m.room <= FirstChunk \/ m.room <= 2 * Len(m.list)) /\ Len(m.list) <= m.room
      BY <1>2, <1>5, <3>5 DEF LocalsOf, Bounded
    <3>7. r \in Nat /\ (r <= FirstChunk \/ r <= 2 * Len(s)) /\ Len(s) <= r
      <4> DEFINE a == Len(m.list)
                 b == Len(s)
                 o == m.room
                 x == Max({FirstChunk, 2 * o})
      <4>1. a \in Nat /\ b = a + 1 /\ o \in Nat /\ (o <= FirstChunk \/ o <= 2 * a) /\ a <= o
            /\ r = IF a = o THEN x ELSE o
        BY <1>1, <3>1, <3>6
      <4>2. x \in {FirstChunk, 2 * o} /\ x >= FirstChunk /\ x >= 2 * o
        <5>1. 2 * o \in Nat /\ FirstChunk \in Nat
          BY <4>1
        <5>2. QED
          BY <5>1, MaxOfTwo
      <4> HIDE DEF a, b, o, x
      <4>3. r \in Nat /\ (r <= FirstChunk \/ r <= 2 * b) /\ b <= r
        <5>1. CASE a = o
          <6>1. r = x /\ a = o /\ b = o + 1 /\ o \in Nat /\ FirstChunk \in Nat /\ FirstChunk >= 1
            BY <4>1, <5>1
          <6>2. QED
            BY <4>2, <6>1
        <5>2. CASE a # o
          BY <4>1, <5>2
        <5>3. QED
          BY <5>1, <5>2
      <4>4. QED
        BY <4>3 DEF b
    <3>8. LocalsOf(n) /\ Bounded(n)
      <4>1. n.h \in Nat /\ (n.h <= DriveMax \/ n.h <= LetterMax \/ n.h <= m.max)
        BY <1>5, <3>3 DEF LocalsOf, Bounded
      <4>2. IsSequence(n.rows) /\ n.i \in Nat /\ n.i <= Len(n.rows) + 1
        BY <1>5, <3>3
      <4>3. IsSequence(n.list) /\ Len(n.list) <= Room(n) /\ n.room \in Nat
            /\ (n.room <= FirstChunk \/ n.room <= 2 * Len(n.list))
        BY <3>1, <3>3, <3>5, <3>7
      <4>4. QED
        BY <1>5, <3>3, <4>1, <4>2, <4>3, FieldsGood
    <3>9. QED
      BY <3>3, <3>4, <3>8 DEF Good
  <2>3. QED
    BY <1>1, <2>1, <2>2
<1>8. (\A k : Holds(n, k) <=> k = "snapshot") /\ Calm(n)
  BY <1>7 DEF Holds, AtRows, AtProcess, AtSession, Calm, InLife
<1>9. "process" \in Kinds /\ "process" # "snapshot"
  BY DEF Kinds
<1> DEFINE d == -Cardinality(m.name)
<1>10. Holding(t, n, "process", d) /\ ((m.name = {} /\ d = 0) \/ (m.name # {} /\ d = -1))
  BY <1>1, <1>6
<1> HIDE DEF d
<1>11. QED
  BY <1>2, <1>4, <1>7, <1>8, <1>9, <1>10, HoldingTaken DEF m

-----------------------------------------------------------------------------
(* Queries. *)

\* A step of t that also says whether it was odd.
LEMMA OddTaken ==
  ASSUME NEW t \in Thread, NEW n, NEW c \in Kinds, NEW d, WellTyped,
         Local(t, n), Taking(c, d), UNCHANGED <<com, wmi, gpu, prev, ledger>>,
         odd' \in BOOLEAN, odd => odd', Good(n), Calm(n),
         me[t].pc \notin AtRest \cup InLife \cup {"nvml_symbols", "adl_symbols"},
         \/ d = 1 /\ Holds(n, c) /\ ~Holds(me[t], c)
         \/ d = 0 /\ (Holds(n, c) <=> Holds(me[t], c)),
         \A k \in Kinds \ {c} : Holds(n, k) <=> Holds(me[t], k)
  PROVE  Taken(t)
<1>1. /\ me' = [me EXCEPT ![t] = n] /\ UNCHANGED <<src, plan, moments, changes>>
      /\ held' = [held EXCEPT ![c] = @ + d]
  BY DEF Local, Taking
<1>2. Moves(t, n)
  BY <1>1 DEF Moves
<1>3. Quiet(t, n)
  BY <1>1, OneTaken
<1>4. IsFiniteSet(prev) /\ Cardinality(prev) <= 1
  BY DEF WellTyped, Shared
<1>5. QED
  BY <1>1, <1>2, <1>3, <1>4 DEF Taken

LEMMA WmiQueryTaken ==
  ASSUME NEW t \in Thread, WellTyped, WmiQuery(t)
  PROVE  Taken(t)
<1> DEFINE o == me[t]
           m == [o EXCEPT !.used = With(@, Reading(o), Services)]
           c == Class(m.type)
           found == HomeOf[m.type] \in Services /\ Has(c)
           n == IF found THEN [m EXCEPT !.pc = "wmi_next", !.rows = src[c], !.i = 0]
                ELSE AfterClass(m)
           d == IF found THEN 1 ELSE 0
<1>1. /\ Local(t, n) /\ Taking("enumerator", d) /\ UNCHANGED <<com, wmi, gpu, prev, ledger>>
      /\ odd' = (odd \/ OtherIn(t, OfLife)) /\ o.pc = "wmi_query"
  BY Zenon DEF WmiQuery, At
<1>2. odd' \in BOOLEAN /\ (odd => odd')
  <2>1. odd \in BOOLEAN
    BY DEF WellTyped, Shared
  <2>2. QED
    BY <1>1, <2>1 DEF OtherIn
<1>3. Away(o) /\ o.pc \notin AtRest \cup InLife \cup {"nvml_symbols", "adl_symbols"}
  BY <1>1 DEF Away, AtRest, InLife, AtRows, AtProcess, AtSession
<1>4. Good(o) /\ InTurn(o, AnyReading)
  BY <1>3, MeInTurn
<1> HIDE DEF o
<1>5. /\ Head(o.todo) \in OfWmi /\ o.todo # <<>> /\ o.type \in DOMAIN HomeOf /\ o.list = <<>>
      /\ LocalsOf(o) /\ Bounded(o)
  BY <1>1, <1>4 DEF Good, Place, InTurn
<1>6. /\ Kept(m, o, Moved) /\ m.pc = "wmi_query" /\ m.h = o.h /\ m.i = o.i /\ m.type = o.type
      /\ m.todo = o.todo /\ m.list = o.list /\ m.rows = o.rows /\ m.room = o.room /\ m.max = o.max
      /\ m.call = o.call
  BY <1>1, <1>5 DEF Kept, Moved, Locals, LocalsOf
<1> HIDE DEF m
<1>7. Room(m) \in Nat /\ DOMAIN m = Locals
  BY <1>5, <1>6, RoomNat DEF LocalsOf, Kept
<1>8. LocalsOf(m) /\ Bounded(m) /\ InTurn(m, OfWmi)
  <2>1. Place(m)
    BY <1>5, <1>6 DEF Place, AtRest, InLife, AtRows, AtDrive, AtProcess
  <2>2. Good(m)
    BY <1>3, <1>5, <1>6, <2>1, MoveGood DEF LocalsOf
  <2>3. QED
    BY <1>5, <1>6, <2>2 DEF Good, InTurn, AtRest
<1>9. CASE found
  <2> DEFINE s == src[c]
  <2>1. IsSequence(s)
    BY <1>5, <1>6, <1>9 DEF Has, WellTyped, SourcesOfKind, OfKind, IsSequence
  <2>2. n = [m EXCEPT !.pc = "wmi_next", !.rows = s, !.i = 0] /\ d = 1
    BY <1>9
  <2> HIDE DEF n, s, d, found, c
  <2>3. /\ Kept(n, m, Moved \cup {"list", "rows", "room"}) /\ n.pc = "wmi_next" /\ n.rows = s /\ n.i = 0
        /\ n.h = m.h /\ n.todo = m.todo /\ n.list = m.list /\ n.type = m.type /\ n.room = m.room
        /\ n.max = m.max /\ n.call = m.call
    BY <1>7, <2>2 DEF Kept, Moved, Locals
  <2>4. Len(s) \in Nat
    BY <2>1 DEF IsSequence
  <2>5. Place(n) /\ Calm(n)
    BY <1>5, <1>6, <2>3, <2>4 DEF Place, AtRest, InLife, AtRows, AtDrive, AtProcess, Calm
  <2>6. Room(n) = Room(m)
    BY <2>3 DEF Room, Reading
  <2>7. LocalsOf(n) /\ Bounded(n)
    <3>1. n.h \in Nat /\ (n.h <= DriveMax \/ n.h <= LetterMax \/ n.h <= m.max)
      BY <1>8, <2>3 DEF LocalsOf, Bounded
    <3>2. IsSequence(n.rows) /\ n.i \in Nat /\ n.i <= Len(n.rows) + 1
      BY <2>1, <2>3, <2>4
    <3>3. n.room \in Nat /\ (n.room <= FirstChunk \/ n.room <= 2 * Len(n.list))
      BY <1>8, <2>3 DEF LocalsOf, Bounded
    <3>4. IsSequence(n.list) /\ Len(n.list) <= Room(n)
      BY <1>5, <1>6, <1>7, <2>3, <2>6, EmptyList
    <3>5. QED
      BY <1>8, <2>3, <3>1, <3>2, <3>3, <3>4, FieldsGood
  <2>8. \A k : Holds(n, k) <=> k = "enumerator"
    BY <2>3 DEF Holds, AtRows, AtProcess, AtSession
  <2>9. \A k : ~Holds(o, k)
    BY <1>3, AwayHolds
  <2>10. "enumerator" \in Kinds
    BY DEF Kinds
  <2>11. QED
    BY <1>1, <1>2, <1>3, <2>2, <2>5, <2>7, <2>8, <2>9, <2>10, OddTaken DEF Good, o
<1>10. CASE ~found
  <2>1. n = AfterClass(m) /\ d = 0
    BY <1>10
  <2> HIDE DEF n, d, found
  <2>2. Good(n) /\ Away(n)
    BY <1>8, <2>1, AfterClassGood
  <2>3. "enumerator" \in Kinds
    BY DEF Kinds
  <2>4. Calm(n) /\ (\A k : ~Holds(n, k)) /\ \A k : ~Holds(o, k)
    BY <1>3, <2>2, AwayHolds
  <2>5. QED
    BY <1>1, <1>2, <1>3, <2>1, <2>2, <2>3, <2>4, OddTaken DEF o
<1>11. QED
  BY <1>9, <1>10

LEMMA WmiNextTaken ==
  ASSUME NEW t \in Thread, WellTyped, WmiNext(t)
  PROVE  Taken(t)
<1> DEFINE m == me[t]
           n == [m EXCEPT !.pc = "wmi_row", !.i = @ + 1]
<1>1. \/ Len(m.list) < Room(m) /\ m.i < Len(m.rows) /\ Holding(t, n, "object", 1)
      \/ Holding(t, AfterClass(m), "enumerator", -1)
  BY Zenon DEF WmiNext
<1>2. m.pc = "wmi_next" /\ m.pc \notin AtRest \cup InLife \cup {"nvml_symbols", "adl_symbols"}
  BY DEF WmiNext, At, AtRest, InLife
<1>3. Good(m) /\ InTurn(m, AnyReading)
  BY <1>2, MeInTurn
<1>4. \A k : Holds(m, k) <=> k = "enumerator"
  BY <1>2 DEF Holds, AtRows, AtProcess, AtSession
<1>5. /\ Head(m.todo) \in OfWmi /\ m.todo # <<>> /\ m.type \in DOMAIN HomeOf
      /\ LocalsOf(m) /\ Bounded(m)
  BY <1>2, <1>3 DEF Good, Place, InTurn, AtRows
<1>6. CASE Holding(t, AfterClass(m), "enumerator", -1)
  <2> DEFINE z == AfterClass(m)
  <2>1. InTurn(m, OfWmi)
    BY <1>2, <1>5 DEF InTurn
  <2>2. Good(z) /\ Away(z)
    BY <2>1, AfterClassGood
  <2>3. "enumerator" \in Kinds
    BY DEF Kinds
  <2>4. Holding(t, z, "enumerator", -1)
    BY <1>6
  <2> HIDE DEF z
  <2>5. QED
    BY <1>2, <1>4, <2>2, <2>3, <2>4, AwayHolds, HoldingTaken
<1>7. CASE Len(m.list) < Room(m) /\ m.i < Len(m.rows) /\ Holding(t, n, "object", 1)
  <2>1. n = [m EXCEPT !.pc = "wmi_row", !.i = m.i + 1]
    OBVIOUS
  <2> HIDE DEF m, n
  <2>2. /\ Kept(n, m, Moved) /\ n.pc = "wmi_row" /\ n.i = m.i + 1 /\ n.h = m.h /\ n.type = m.type
        /\ n.todo = m.todo /\ n.list = m.list /\ n.rows = m.rows /\ n.max = m.max /\ n.room = m.room
        /\ n.call = m.call
    BY <1>5, <2>1 DEF Kept, Moved, Locals, LocalsOf
  <2>3. n.i \in Nat /\ n.i <= Len(n.rows) /\ n.h \in Nat /\ Len(n.rows) \in Nat
    <3>1. m.i \in Nat /\ m.h \in Nat /\ IsSequence(m.rows)
      BY <1>5 DEF LocalsOf
    <3>2. Len(m.rows) \in Nat
      BY <3>1 DEF IsSequence
    <3>3. m.i < Len(m.rows)
      BY <1>7
    <3>4. QED
      BY <2>2, <3>1, <3>2, <3>3
  <2>4. Len(n.list) < Room(n)
    BY <1>7, <2>2 DEF Room, Reading
  <2>5. Place(n) /\ Calm(n)
    BY <1>5, <2>2, <2>3, <2>4 DEF Place, AtRest, InLife, AtRows, AtDrive, AtProcess, Calm
  <2>6. n.i <= Len(n.rows) + 1
    BY <2>3
  <2>7. Good(n)
    BY <1>2, <1>5, <2>2, <2>3, <2>5, <2>6, MoveGood
  <2>8. \A k : Holds(n, k) <=> (k = "enumerator" \/ k = "object")
    BY <2>2 DEF Holds, AtRows, AtProcess, AtSession
  <2>9. "object" \in Kinds /\ "object" # "enumerator"
    BY DEF Kinds
  <2>10. QED
    BY <1>2, <1>4, <1>7, <2>5, <2>7, <2>8, <2>9, HoldingTaken DEF m
<1>8. QED
  BY <1>1, <1>6, <1>7

LEMMA WmiRowTaken ==
  ASSUME NEW t \in Thread, WellTyped, WmiRow(t)
  PROVE  Taken(t)
<1> DEFINE m == me[t]
<1>1. PICK n, e, x :
        /\ Holding(t, n, "object", -1)
        /\ \/ n = [[m EXCEPT !.list = Append(@, e), !.name = {}] EXCEPT !.pc = "wmi_next"]
           \/ n = [[m EXCEPT !.name = x] EXCEPT !.pc = "wmi_next"]
           \/ n = [m EXCEPT !.pc = "wmi_next"]
  <2> DEFINE row == m.rows[m.i]
  <2>1. PICK g \in Leftover :
          LET e == [field \in FieldsOf[m.type] |-> FieldValue(m, row, field, g)]
              n == IF Counted(m.type, row) THEN [m EXCEPT !.list = Append(@, e), !.name = {}]
                   ELSE IF Typed(row, "name") THEN [m EXCEPT !.name = {row["name"].val}] ELSE m
          IN  Holding(t, [n EXCEPT !.pc = "wmi_next"], "object", -1)
    BY Zenon DEF WmiRow
  <2> DEFINE e == [field \in FieldsOf[m.type] |-> FieldValue(m, row, field, g)]
             x == {row["name"].val}
  <2>2. CASE Counted(m.type, row)
    <3>1. Holding(t, [[m EXCEPT !.list = Append(@, e), !.name = {}] EXCEPT !.pc = "wmi_next"], "object", -1)
      BY <2>1, <2>2, Zenon
    <3>2. QED
      BY <3>1, Zenon
  <2>3. CASE ~Counted(m.type, row) /\ Typed(row, "name")
    <3>1. Holding(t, [[m EXCEPT !.name = x] EXCEPT !.pc = "wmi_next"], "object", -1)
      BY <2>1, <2>3, Zenon
    <3>2. QED
      BY <3>1, Zenon
  <2>4. CASE ~Counted(m.type, row) /\ ~Typed(row, "name")
    <3>1. Holding(t, [m EXCEPT !.pc = "wmi_next"], "object", -1)
      BY <2>1, <2>4, Zenon
    <3>2. QED
      BY <3>1, Zenon
  <2>5. QED
    BY <2>2, <2>3, <2>4
<1>2. m.pc = "wmi_row" /\ m.pc \notin AtRest \cup InLife \cup {"nvml_symbols", "adl_symbols"}
  BY DEF WmiRow, At, AtRest, InLife
<1>3. Good(m) /\ InTurn(m, AnyReading)
  BY <1>2, MeInTurn
<1>4. \A k : Holds(m, k) <=> (k = "enumerator" \/ k = "object")
  BY <1>2 DEF Holds, AtRows, AtProcess, AtSession
<1> HIDE DEF m
<1>5. /\ Head(m.todo) \in OfWmi /\ m.todo # <<>> /\ m.type \in DOMAIN HomeOf
      /\ LocalsOf(m) /\ Bounded(m) /\ m.i <= Len(m.rows) /\ Len(m.list) < Room(m)
  BY <1>2, <1>3 DEF Good, Place, InTurn, AtRows
<1>6. Good(n) /\ n.pc = "wmi_next"
  <2>1. CASE n = [[m EXCEPT !.list = Append(@, e), !.name = {}] EXCEPT !.pc = "wmi_next"]
    <3> DEFINE s == Append(m.list, e)
    <3>1. IsSequence(s) /\ Len(s) = Len(m.list) + 1 /\ Len(m.list) \in Nat
      BY <1>5, AppendGood DEF LocalsOf
    <3> HIDE DEF s
    <3>2. n = [[m EXCEPT !.list = s, !.name = {}] EXCEPT !.pc = "wmi_next"]
      BY <2>1 DEF s
    <3>3. /\ Kept(n, m, Moved \cup {"list", "rows", "room"}) /\ n.pc = "wmi_next" /\ n.list = s
          /\ n.h = m.h /\ n.i = m.i /\ n.todo = m.todo /\ n.rows = m.rows /\ n.room = m.room
          /\ n.max = m.max /\ n.call = m.call /\ n.type = m.type
      BY <1>5, <3>2 DEF Kept, Moved, Locals, LocalsOf
    <3>4. Place(n)
      BY <1>5, <3>3 DEF Place, AtRest, InLife, AtRows, AtDrive, AtProcess
    <3>5. Room(n) = Room(m) /\ Room(m) \in Nat
      BY <1>5, <3>3, RoomNat DEF Room, Reading, LocalsOf
    <3>6. Len(s) <= Room(n) /\ (m.room <= FirstChunk \/ m.room <= 2 * Len(s))
      <4> DEFINE a == Len(m.list)
                 b == Len(s)
                 r == Room(m)
      <4>1. b = a + 1 /\ a \in Nat /\ a < r /\ r \in Nat /\ m.room \in Nat
            /\ (m.room <= FirstChunk \/ m.room <= 2 * a)
        BY <1>5, <3>1, <3>5 DEF LocalsOf, Bounded
      <4> HIDE DEF a, b, r
      <4>2. b <= r /\ (m.room <= FirstChunk \/ m.room <= 2 * b)
        BY <4>1
      <4>3. QED
        BY <3>5, <4>2 DEF b, r
    <3>7. n.h \in Nat /\ (n.h <= DriveMax \/ n.h <= LetterMax \/ n.h <= m.max)
      BY <1>5, <3>3 DEF LocalsOf, Bounded
    <3>8. IsSequence(n.rows) /\ n.i \in Nat /\ (n.i <= Len(n.rows) + 1 \/ n.i <= Len(Rows))
      BY <1>5, <3>3 DEF LocalsOf, Bounded
    <3>9. IsSequence(n.list) /\ Len(n.list) <= Room(n) /\ n.room \in Nat
          /\ (n.room <= FirstChunk \/ n.room <= 2 * Len(n.list))
      BY <1>5, <3>1, <3>3, <3>6 DEF LocalsOf
    <3>10. LocalsOf(n) /\ Bounded(n)
      BY <1>5, <3>3, <3>7, <3>8, <3>9, FieldsGood
    <3>11. QED
      BY <3>3, <3>4, <3>10 DEF Good
  <2>2. CASE \/ n = [[m EXCEPT !.name = x] EXCEPT !.pc = "wmi_next"]
             \/ n = [m EXCEPT !.pc = "wmi_next"]
    <3>1. /\ Kept(n, m, Moved) /\ n.pc = "wmi_next" /\ n.i = m.i /\ n.h = m.h /\ n.type = m.type
          /\ n.todo = m.todo /\ n.rows = m.rows
      BY <1>5, <2>2 DEF Kept, Moved, Locals, LocalsOf
    <3>2. Place(n)
      BY <1>5, <3>1 DEF Place, AtRest, InLife, AtRows, AtDrive, AtProcess
    <3>3. QED
      BY <1>2, <1>5, <3>1, <3>2, MoveGood DEF LocalsOf
  <2>3. QED
    BY <1>1, <2>1, <2>2
<1>7. (\A k : Holds(n, k) <=> k = "enumerator") /\ Calm(n)
  BY <1>6 DEF Holds, AtRows, AtProcess, AtSession, Calm, InLife
<1>8. "object" \in Kinds /\ "object" # "enumerator"
  BY DEF Kinds
<1>9. QED
  BY <1>1, <1>2, <1>4, <1>6, <1>7, <1>8, HoldingTaken DEF m

-----------------------------------------------------------------------------
(* The GPU, without the loading of its libraries. *)

LEMMA RowLimits == Len(Rows) = 8 /\ TempRow = 2
BY DEF Rows, TempRow

LEMMA NvmlInitTaken ==
  ASSUME NEW t \in Thread, WellTyped, Balanced, NvmlInit(t)
  PROVE  Taken(t)
<1> DEFINE m == me[t]
           n == [m EXCEPT !.pc = "nvml_device"]
           z == [m EXCEPT !.pc = "crashed"]
<1>1. \/ "init" \notin gpu.fn /\ Step(t, z)
      \/ Holding(t, n, "nvml_session", 1)
      \/ Step(t, AfterNvml(m))
  BY Zenon DEF NvmlInit, Crash
<1>2. m.pc = "nvml_init" /\ m.pc \notin AtRest \cup InLife \cup {"nvml_symbols", "adl_symbols"}
  BY DEF NvmlInit, At, AtRest, InLife
<1>3. Good(m) /\ InTurn(m, AnyReading) /\ LocalsOf(m) /\ Bounded(m)
  BY <1>2, MeInTurn DEF Good
<1>4. \A k : ~Holds(m, k)
  BY <1>2 DEF Holds, AtRows, AtProcess, AtSession
<1>5. CASE "init" \notin gpu.fn /\ Step(t, z)
  <2>1. odd
    BY <1>2, <1>5 DEF Balanced, LibrariesRight
  <2> HIDE DEF m
  <2>2. Kept(z, m, Moved) /\ z.pc = "crashed" /\ z.i = m.i /\ z.h = m.h
    BY <1>3 DEF Kept, Moved, Locals, LocalsOf
  <2> HIDE DEF z
  <2>3. Place(z) /\ \A k : ~Holds(z, k)
    BY <2>2 DEF Place, AtRest, InLife, AtRows, AtDrive, AtProcess, AtSession, Holds
  <2>4. Good(z)
    BY <1>2, <1>3, <2>2, <2>3, MoveGood DEF LocalsOf
  <2>5. QED
    BY <1>2, <1>4, <1>5, <2>1, <2>3, <2>4, StepTaken DEF m
<1>6. CASE Holding(t, n, "nvml_session", 1)
  <2> HIDE DEF m
  <2>1. Kept(n, m, Moved) /\ n.pc = "nvml_device" /\ n.i = m.i /\ n.h = m.h /\ n.todo = m.todo
    BY <1>3 DEF Kept, Moved, Locals, LocalsOf
  <2> HIDE DEF n
  <2>2. Place(n) /\ Calm(n)
    BY <1>3, <2>1 DEF InTurn, Place, AtRest, InLife, AtRows, AtDrive, AtProcess, Calm
  <2>3. Good(n)
    BY <1>2, <1>3, <2>1, <2>2, MoveGood DEF LocalsOf
  <2>4. \A k : Holds(n, k) <=> k = "nvml_session"
    BY <2>1 DEF Holds, AtRows, AtProcess, AtSession
  <2>5. "nvml_session" \in Kinds
    BY DEF Kinds
  <2>6. QED
    BY <1>2, <1>4, <1>6, <2>2, <2>3, <2>4, <2>5, HoldingTaken DEF m
<1>7. CASE Step(t, AfterNvml(m))
  <2>1. Good(AfterNvml(m)) /\ Away(AfterNvml(m))
    BY <1>3, AfterNvmlGood
  <2>2. QED
    BY <1>2, <1>4, <1>7, <2>1, AwayHolds, StepTaken
<1>8. QED
  BY <1>1, <1>5, <1>6, <1>7

LEMMA NvmlDeviceTaken ==
  ASSUME NEW t \in Thread, WellTyped, NvmlDevice(t)
  PROVE  Taken(t)
<1> DEFINE m == me[t]
<1>1. PICK n, j :
        /\ Step(t, n) /\ j \in {1, TempRow}
        /\ \/ n = [m EXCEPT !.pc = "nvml_shutdown", !.i = 0]
           \/ n = [m EXCEPT !.pc = "nvml_row", !.i = j]
  <2> DEFINE j == IF Reading(m) = "gpu_temp" THEN TempRow ELSE 1
  <2>1. CASE ~Has(Nvml(m.max, 0))
    BY <2>1, Zenon DEF NvmlDevice
  <2>2. CASE Has(Nvml(m.max, 0))
    <3>1. Step(t, [m EXCEPT !.pc = "nvml_row", !.i = j])
      BY <2>2, Zenon DEF NvmlDevice
    <3>2. j \in {1, TempRow}
      OBVIOUS
    <3>3. QED
      BY <3>1, <3>2, Zenon
  <2>3. QED
    BY <2>1, <2>2
<1>2. m.pc = "nvml_device" /\ m.pc \notin AtRest \cup InLife \cup {"nvml_symbols", "adl_symbols"}
  BY DEF NvmlDevice, At, AtRest, InLife
<1>3. Good(m) /\ InTurn(m, AnyReading) /\ LocalsOf(m) /\ Bounded(m)
  BY <1>2, MeInTurn DEF Good
<1>4. \A k : Holds(m, k) <=> k = "nvml_session"
  BY <1>2 DEF Holds, AtRows, AtProcess, AtSession
<1> HIDE DEF m
<1>5. /\ Kept(n, m, Moved) /\ n.h = m.h /\ n.todo = m.todo
      /\ (n.pc = "nvml_shutdown" /\ n.i = 0) \/ (n.pc = "nvml_row" /\ n.i \in 1 .. 2)
  <2>1. CASE n = [m EXCEPT !.pc = "nvml_shutdown", !.i = 0]
    BY <1>3, <2>1 DEF Kept, Moved, Locals, LocalsOf
  <2>2. CASE n = [m EXCEPT !.pc = "nvml_row", !.i = j]
    <3>1. j \in 1 .. 2
      BY <1>1, RowLimits
    <3>2. Kept(n, m, Moved) /\ n.h = m.h /\ n.todo = m.todo /\ n.pc = "nvml_row" /\ n.i = j
      BY <1>3, <2>2 DEF Kept, Moved, Locals, LocalsOf
    <3>3. QED
      BY <3>1, <3>2
  <2>3. QED
    BY <1>1, <2>1, <2>2
<1>6. n.i \in Nat /\ n.i <= Len(Rows)
  BY <1>5, RowLimits
<1>7. Place(n) /\ Calm(n) /\ \A k : Holds(n, k) <=> k = "nvml_session"
  BY <1>3, <1>5, <1>6
  DEF InTurn, Place, AtRest, InLife, AtRows, AtDrive, AtProcess, Calm, Holds, AtSession
<1>8. Good(n)
  BY <1>2, <1>3, <1>5, <1>6, <1>7, MoveGood DEF LocalsOf
<1>9. QED
  BY <1>1, <1>2, <1>4, <1>7, <1>8, StepTaken DEF m

LEMMA NvmlRowTaken ==
  ASSUME NEW t \in Thread, WellTyped, NvmlRow(t)
  PROVE  Taken(t)
<1> DEFINE m == me[t]
<1>1. PICK n, q, w :
        /\ Step(t, n)
        /\ q = m \/ q = [m EXCEPT !.vals = w]
        /\ \/ (m.i < Len(Rows) /\ n = [q EXCEPT !.i = @ + 1])
           \/ n = [q EXCEPT !.pc = "nvml_shutdown"]
  <2> DEFINE p == Nvml(m.max, m.i)
             w == With(m.vals, m.i, src[p])
             q == IF Rows[m.i] \in gpu.fn /\ Has(p) THEN [m EXCEPT !.vals = With(@, m.i, src[p])] ELSE m
             n == IF m.i < Len(Rows) /\ Reading(m) = "gpu_info" THEN [q EXCEPT !.i = @ + 1]
                  ELSE [q EXCEPT !.pc = "nvml_shutdown"]
  <2>1. Step(t, n)
    BY Zenon DEF NvmlRow
  <2>2. q = m \/ q = [m EXCEPT !.vals = w]
    OBVIOUS
  <2>3. (m.i < Len(Rows) /\ n = [q EXCEPT !.i = @ + 1]) \/ n = [q EXCEPT !.pc = "nvml_shutdown"]
    OBVIOUS
  <2>4. QED
    BY <2>1, <2>2, <2>3, Zenon
<1>2. m.pc = "nvml_row" /\ m.pc \notin AtRest \cup InLife \cup {"nvml_symbols", "adl_symbols"}
  BY DEF NvmlRow, At, AtRest, InLife
<1>3. Good(m) /\ InTurn(m, AnyReading) /\ LocalsOf(m) /\ Bounded(m) /\ m.i \in Nat
  BY <1>2, MeInTurn DEF Good, LocalsOf
<1>4. \A k : Holds(m, k) <=> k = "nvml_session"
  BY <1>2 DEF Holds, AtRows, AtProcess, AtSession
<1> HIDE DEF m
<1>5. DOMAIN q = Locals /\ \A f \in Locals \ {"vals"} : q[f] = m[f]
  BY <1>1, <1>3 DEF LocalsOf, Locals
<1>6. /\ Kept(n, m, Moved) /\ n.h = m.h /\ n.todo = m.todo
      /\ (n.pc = "nvml_shutdown" /\ n.i = m.i) \/ (n.pc = "nvml_row" /\ n.i = m.i + 1 /\ m.i < Len(Rows))
  BY <1>1, <1>2, <1>5 DEF Kept, Moved, Locals
<1>7. n.i \in Nat /\ (n.i = m.i \/ n.i <= Len(Rows)) /\ (n.pc = "nvml_row" => n.i <= Len(Rows))
  BY <1>3, <1>6, RowLimits
<1>8. Place(n) /\ Calm(n) /\ \A k : Holds(n, k) <=> k = "nvml_session"
  BY <1>3, <1>6, <1>7
  DEF InTurn, Place, AtRest, InLife, AtRows, AtDrive, AtProcess, Calm, Holds, AtSession
<1>9. Good(n)
  BY <1>2, <1>3, <1>6, <1>7, <1>8, MoveGood DEF LocalsOf
<1>10. QED
  BY <1>1, <1>2, <1>4, <1>8, <1>9, StepTaken DEF m

LEMMA NvmlShutdownTaken ==
  ASSUME NEW t \in Thread, WellTyped, NvmlShutdown(t)
  PROVE  Taken(t)
<1> DEFINE m == me[t]
<1>1. PICK n, v : Holding(t, n, "nvml_session", -1) /\ (n = AfterNvml(m) \/ n = Done(m, v))
  <2>1. CASE m.i = 0
    BY <2>1, Zenon DEF NvmlShutdown
  <2>2. CASE m.i # 0 /\ Reading(m) = "gpu_info"
    BY <2>2, Zenon DEF NvmlShutdown
  <2>3. CASE m.i # 0 /\ Reading(m) # "gpu_info" /\ TempRow \in DOMAIN m.vals
    BY <2>3, Zenon DEF NvmlShutdown
  <2>4. CASE m.i # 0 /\ Reading(m) # "gpu_info" /\ ~(TempRow \in DOMAIN m.vals)
    BY <2>4, Zenon DEF NvmlShutdown
  <2>5. QED
    BY <2>1, <2>2, <2>3, <2>4
<1>2. m.pc = "nvml_shutdown" /\ m.pc \notin AtRest \cup InLife \cup {"nvml_symbols", "adl_symbols"}
  BY DEF NvmlShutdown, At, AtRest, InLife
<1>3. InTurn(m, AnyReading)
  BY <1>2, MeInTurn
<1>4. \A k : Holds(m, k) <=> k = "nvml_session"
  BY <1>2 DEF Holds, AtRows, AtProcess, AtSession
<1>5. Good(n) /\ Away(n)
  BY <1>1, <1>3, AfterNvmlGood, DoneGood DEF InTurn
<1>6. "nvml_session" \in Kinds
  BY DEF Kinds
<1>7. QED
  BY <1>1, <1>2, <1>4, <1>5, <1>6, AwayHolds, HoldingTaken

LEMMA AdlCountTaken ==
  ASSUME NEW t \in Thread, WellTyped, Balanced, AdlCount(t)
  PROVE  Taken(t)
<1> DEFINE m == me[t]
<1>1. PICK n : /\ Step(t, n)
               /\ \/ (gpu.adl # "ready" /\ n = [m EXCEPT !.pc = "crashed"])
                  \/ n = [m EXCEPT !.pc = "adl_temp"]
                  \/ n = Done(m, {})
  <2>1. CASE gpu.adl # "ready"
    BY <2>1, Zenon DEF AdlCount, Crash
  <2>2. CASE ~(gpu.adl # "ready") /\ Has(AdlAdapters) /\ src[AdlAdapters] > 0
    BY <2>2, Zenon DEF AdlCount
  <2>3. CASE ~(gpu.adl # "ready") /\ ~(Has(AdlAdapters) /\ src[AdlAdapters] > 0)
    BY <2>3, Zenon DEF AdlCount
  <2>4. QED
    BY <2>1, <2>2, <2>3
<1>2. m.pc = "adl_count" /\ m.pc \notin AtRest \cup InLife \cup {"nvml_symbols", "adl_symbols"}
  BY DEF AdlCount, At, AtRest, InLife
<1>3. Good(m) /\ InTurn(m, AnyReading) /\ LocalsOf(m) /\ Bounded(m)
  BY <1>2, MeInTurn DEF Good
<1>4. \A k : ~Holds(m, k)
  BY <1>2 DEF Holds, AtRows, AtProcess, AtSession
<1>5. CASE n = Done(m, {})
  <2>1. Good(n) /\ Away(n)
    BY <1>3, <1>5, DoneGood DEF InTurn
  <2>2. QED
    BY <1>1, <1>2, <1>4, <2>1, AwayHolds, StepTaken
<1>6. CASE \/ (gpu.adl # "ready" /\ n = [m EXCEPT !.pc = "crashed"])
           \/ n = [m EXCEPT !.pc = "adl_temp"]
  <2>1. gpu.adl # "ready" => odd
    BY <1>2 DEF Balanced, LibrariesRight
  <2> HIDE DEF m
  <2>2. /\ Kept(n, m, Moved) /\ n.i = m.i /\ n.h = m.h /\ n.todo = m.todo
        /\ n.pc = "adl_temp" \/ (n.pc = "crashed" /\ odd)
    BY <1>3, <1>6, <2>1 DEF Kept, Moved, Locals, LocalsOf
  <2>3. Place(n) /\ (\A k : ~Holds(n, k)) /\ (Calm(n) \/ odd)
    BY <1>3, <2>2 DEF InTurn, Place, AtRest, InLife, AtRows, AtDrive, AtProcess, AtSession, Holds, Calm
  <2>4. Good(n)
    BY <1>2, <1>3, <2>2, <2>3, MoveGood DEF LocalsOf
  <2>5. QED
    BY <1>1, <1>2, <1>4, <2>3, <2>4, StepTaken DEF m
<1>7. QED
  BY <1>1, <1>5, <1>6

-----------------------------------------------------------------------------
(* wmi_init and wmi_shutdown. *)

\* What is held stays right when t only takes or gives back what the statics of
\* wmi.c point to.
LEMMA LifeHeld ==
  ASSUME NEW t \in Thread, NEW n, WellTyped, me' = [me EXCEPT ![t] = n],
         \A k \in Kinds : ~Holds(n, k) /\ ~Holds(me[t], k),
         held' = [k \in Kinds |-> held'[k]],
         \A k \in Kinds \ {"locator", "service"} : held'[k] = held[k],
         held'["locator"] \in Nat, held'["locator"] >= Bit(wmi'.locator),
         held'["service"] \in Nat, held'["service"] >= Cardinality(wmi'.svc)
  PROVE  HeldRight'
<1>1. DOMAIN me = Thread /\ held \in [Kinds -> Nat]
  BY DEF WellTyped, HeldRight
<1>2. \A k \in Kinds : Cardinality(Holders(k)') = Cardinality(Holders(k))
  <2> SUFFICES ASSUME NEW k \in Kinds PROVE Cardinality(Holders(k)') = Cardinality(Holders(k))
    OBVIOUS
  <2>1. Holders(k)' = Holders(k)
    <3>1. me'[t] = n /\ \A u \in Thread \ {t} : me'[u] = me[u]
      BY <1>1
    <3>2. \A u \in Thread : Holds(me'[u], k) <=> Holds(me[u], k)
      BY <3>1
    <3>3. Holders(k)' = {u \in Thread : Holds(me'[u], k)}
      BY DEF Holders, Holds
    <3>4. QED
      BY <3>2, <3>3 DEF Holders
  <2>2. QED
    BY <2>1
<1>3. \A k \in OfCalls : k \in Kinds \ {"locator", "service"}
  BY DEF OfCalls, Kinds
<1>4. \A k \in {"nvml.dll", "atiadlxx.dll"} : k \in Kinds \ {"locator", "service"}
  BY DEF Kinds
<1>5. \A k \in OfCalls : held'[k] = Cardinality(Holders(k)')
  BY <1>2, <1>3 DEF WellTyped, HeldRight
<1>6. \A k \in {"nvml.dll", "atiadlxx.dll"} : held'[k] >= Cardinality(Holders(k)')
  BY <1>2, <1>4 DEF WellTyped, HeldRight
<1>7. held' \in [Kinds -> Nat]
  <2>1. \A k \in Kinds : held'[k] \in Nat
    BY <1>1
  <2>2. QED
    BY <2>1
<1>8. QED
  BY <1>5, <1>6, <1>7 DEF HeldRight

\* Whoever is inside wmi_init is seen as such by the others.
LEMMA InsideLife ==
  ASSUME NEW t \in Thread, WellTyped, ~OtherIn(t, OfWmi \cup OfLife)
  PROVE  \A u \in Thread \ {t} : me[u].pc \notin InLife
<1> SUFFICES ASSUME NEW u \in Thread \ {t}, me[u].pc \in InLife PROVE FALSE
  OBVIOUS
<1>1. Good(me[u])
  BY DEF WellTyped
<1>2. Head(me[u].todo) = "init" /\ me[u].pc \notin AtRest
  BY <1>1 DEF Good, Place, InLife, AtRest
<1>3. Inside(u, OfWmi \cup OfLife)
  BY <1>2 DEF Inside, Busy, Reading, OfLife, AtRest
<1>4. QED
  BY <1>3 DEF OtherIn

LEMMA ComInitKept ==
  ASSUME NEW t \in Thread, WellTyped, Balanced, ComInit(t)
  PROVE  WellTyped' /\ Balanced'
<1> DEFINE m == me[t]
           z == Done(m, {})
           n == [m EXCEPT !.pc = "com_security"]
<1>1. /\ m.pc = "init" /\ odd' = (odd \/ OtherIn(t, OfWmi \cup OfLife) \/ (~wmi.ready /\ com[t].mode = "sta"))
      /\ wmi' = wmi /\ held' = held /\ ledger' = ledger
  BY DEF ComInit, At
<1>2. \/ LifeStep(t, z) /\ com' = com
      \/ /\ ~wmi.ready /\ LifeStep(t, n)
         /\ com' = IF com[t].mode = "sta" THEN com
                   ELSE [com EXCEPT ![t] = [mode |-> "mta", count |-> @.count + 1]]
  <2>1. CASE wmi.ready \/ (com[t].mode # "sta" /\ ~Has(ComLibrary))
    BY <2>1, Zenon DEF ComInit
  <2>2. CASE ~(wmi.ready \/ (com[t].mode # "sta" /\ ~Has(ComLibrary)))
    BY <2>2, Zenon DEF ComInit
  <2>3. QED
    BY <2>1, <2>2
<1>3. m.pc \notin AtRest \cup InLife \cup {"nvml_symbols", "adl_symbols"} /\ \A k : ~Holds(m, k)
  BY <1>1 DEF AtRest, InLife, Holds, AtRows, AtProcess, AtSession
<1>4. InTurn(m, AnyReading) /\ Good(m)
  BY <1>3, MeInTurn
<1>5. odd' \in BOOLEAN /\ (odd => odd')
  <2>1. odd \in BOOLEAN
    BY DEF WellTyped, Shared
  <2>2. QED
    BY <1>1, <2>1 DEF OtherIn
<1>6. CASE LifeStep(t, z) /\ com' = com
  <2>1. Good(z) /\ Away(z)
    BY <1>4, DoneGood DEF InTurn
  <2> HIDE DEF z
  <2>2. Moves(t, z) /\ gpu' = gpu /\ prev' = prev
    BY <1>3, <1>6 DEF LifeStep, Local, Moves
  <2>3. Quiet(t, z)
    BY <1>1, <1>3, <2>1, AwayHolds, NothingTaken
  <2>4. IsFiniteSet(prev) /\ Cardinality(prev) <= 1
    BY DEF WellTyped, Shared
  <2>5. Taken(t)
    BY <1>1, <1>3, <1>5, <1>6, <2>1, <2>2, <2>3, <2>4, AwayHolds DEF Taken
  <2>6. QED
    BY <2>5, TakenKept
<1>7. CASE /\ ~wmi.ready /\ LifeStep(t, n)
           /\ com' = IF com[t].mode = "sta" THEN com
                     ELSE [com EXCEPT ![t] = [mode |-> "mta", count |-> @.count + 1]]
  <2> HIDE DEF m
  <2>1. Kept(n, m, Moved) /\ n.pc = "com_security" /\ n.h = m.h /\ n.i = m.i /\ n.todo = m.todo
    BY <1>4 DEF Kept, Moved, Locals, Good, LocalsOf
  <2>2. Head(m.todo) = "init" /\ m.todo # <<>> /\ LocalsOf(m) /\ Bounded(m)
    BY <1>1, <1>4 DEF InTurn, Good, Place
  <2> HIDE DEF n
  <2>3. Place(n) /\ n.pc \in InLife /\ \A k : ~Holds(n, k)
    BY <2>1, <2>2 DEF Place, AtRest, InLife, AtRows, AtDrive, AtProcess, AtSession, Holds
  <2>4. Good(n)
    BY <1>3, <2>1, <2>2, <2>3, MoveGood DEF LocalsOf
  <2>5. /\ Moves(t, n) /\ me' = [me EXCEPT ![t] = n] /\ gpu' = gpu /\ prev' = prev
        /\ changes' = changes
    BY <1>3, <1>7 DEF LifeStep, Local, Moves, m
  <2>6. Shared'
    <3>1. /\ com \in [Thread -> [mode : {"none", "sta", "mta"}, count : Nat]]
          /\ \A u \in Thread : com[u].mode = "none" <=> com[u].count = 0
      BY DEF WellTyped, Shared
    <3>2. /\ com' \in [Thread -> [mode : {"none", "sta", "mta"}, count : Nat]]
          /\ \A u \in Thread : com'[u].mode = "none" <=> com'[u].count = 0
      <4>1. CASE com[t].mode = "sta"
        BY <1>7, <3>1, <4>1
      <4>2. CASE com[t].mode # "sta"
        <5> DEFINE c == [mode |-> "mta", count |-> com[t].count + 1]
        <5>1. com' = [com EXCEPT ![t] = c]
          BY <1>7, <4>2
        <5>2. c \in [mode : {"none", "sta", "mta"}, count : Nat] /\ c.mode = "mta" /\ c.count # 0
          BY <3>1
        <5> HIDE DEF c
        <5>3. QED
          BY <3>1, <5>1, <5>2
      <4>3. QED
        BY <4>1, <4>2
    <3>3. QED
      BY <1>1, <1>5, <2>5, <3>2 DEF WellTyped, Shared
  <2>7. HeldRight'
    <3>1. Quiet(t, n)
      BY <1>1, <1>3, <2>3, NothingTaken DEF m
    <3>2. QED
      BY <1>1, <2>5, <3>1, QuietHeld
  <2>8. WellTyped'
    BY <2>4, <2>5, <2>6, <2>7, MoveTyped
  <2>9. ASSUME ~odd' PROVE LifeRight' /\ LibrariesRight'
    <3>1. /\ LifeRight /\ LibrariesRight /\ ~OtherIn(t, OfWmi \cup OfLife) /\ com[t].mode # "sta"
      BY <1>1, <1>7, <2>9 DEF Balanced
    <3>2. \A u \in Thread \ {t} : me[u].pc \notin InLife
      BY <3>1, InsideLife
    <3>3. DOMAIN me = Thread /\ me'[t] = n /\ \A u \in Thread \ {t} : me'[u] = me[u]
      BY <2>5 DEF WellTyped
    <3>4. ~wmi.locator /\ wmi.svc = {}
      BY <1>3, <1>7, <3>1, <3>2 DEF LifeRight, m
    <3>5. \A u \in Thread : com'[u].count = ledger.host[u] + Bit(me'[u].pc \in InLife) + Bit(ledger.owner = {u})
      <4>1. QED
        <5> DEFINE c == [mode |-> "mta", count |-> com[t].count + 1]
        <5>1. com' = [com EXCEPT ![t] = c] /\ c.count = com[t].count + 1
          BY <1>7, <3>1
        <5> HIDE DEF c
        <5>2. com \in [Thread -> [mode : {"none", "sta", "mta"}, count : Nat]]
              /\ ledger.host \in [Thread -> Nat]
          BY DEF WellTyped, Shared
        <5>3. com'[t].count = com[t].count + 1 /\ \A u \in Thread \ {t} : com'[u] = com[u]
          BY <5>1, <5>2
        <5>4. com[t].count = ledger.host[t] + 0 + Bit(ledger.owner = {t})
          BY <1>3, <3>1, BitValue DEF LifeRight, m
        <5>5. Bit(me'[t].pc \in InLife) = 1
          BY <2>3, <3>3, BitValue
        <5>6. com'[t].count = ledger.host[t] + Bit(me'[t].pc \in InLife) + Bit(ledger.owner = {t})
          <6> DEFINE a == com[t].count
                     b == ledger.host[t]
                     o == Bit(ledger.owner = {t})
          <6>1. a = b + 0 + o /\ b \in Nat /\ o \in 0 .. 1 /\ com'[t].count = a + 1
            BY <5>2, <5>3, <5>4, BitValue
          <6> HIDE DEF a, b, o
          <6>2. com'[t].count = b + 1 + o
            BY <6>1
          <6>3. QED
            BY <5>5, <6>2 DEF b, o
        <5>7. \A u \in Thread \ {t} : Bit(me'[u].pc \in InLife) = Bit(me[u].pc \in InLife)
          BY <3>3
        <5>8. QED
          BY <3>1, <5>3, <5>6, <5>7 DEF LifeRight
    <3>6. LifeRight'
      <4>1. \A u, w \in Thread : me'[u].pc \in InLife /\ me'[w].pc \in InLife => u = w
        BY <3>2, <3>3
      <4>2. \A u \in Thread :
              /\ me'[u].pc \in InLife => ~wmi.ready
              /\ me'[u].pc \in {"com_security", "com_create"} => ~wmi.locator /\ wmi.svc = {}
              /\ me'[u].pc # "wmi_connect"
        BY <1>7, <2>1, <3>2, <3>3, <3>4 DEF InLife
      <4>3. ~wmi.ready /\ (\A u \in Thread : me'[u].pc \notin InLife) => ~wmi.locator /\ wmi.svc = {}
        BY <3>4
      <4>4. /\ wmi.ready => wmi.locator
            /\ wmi.ready <=> ledger.owner # {}
            /\ ledger.owner = {} \/ \E u \in Thread : ledger.owner = {u}
            /\ held["locator"] = Bit(wmi.locator)
            /\ held["service"] = Cardinality(wmi.svc)
        BY <3>1 DEF LifeRight
      <4>5. QED
        BY <1>1, <3>5, <4>1, <4>2, <4>3, <4>4 DEF LifeRight
    <3>7. LibrariesRight'
      BY <1>1, <1>3, <2>1, <2>5, <3>1, LibrariesKept DEF m
    <3>8. QED
      BY <3>6, <3>7
  <2>10. QED
    BY <2>8, <2>9 DEF Balanced
<1>8. QED
  BY <1>2, <1>6, <1>7

Inits == [mode : {"none", "sta", "mta"}, count : Nat]

LEMMA UninitializedRight ==
  ASSUME NEW c \in Inits, c.mode = "none" <=> c.count = 0
  PROVE  /\ Uninitialized(c) \in Inits
         /\ Uninitialized(c).mode = "none" <=> Uninitialized(c).count = 0
         /\ c.count >= 1 => Uninitialized(c).count = c.count - 1
<1>1. CASE c.count <= 1
  <2>1. Uninitialized(c) = [mode |-> "none", count |-> 0]
    BY <1>1 DEF Uninitialized
  <2>2. QED
    BY <1>1, <2>1 DEF Inits
<1>2. CASE ~(c.count <= 1)
  <2> DEFINE k == c.count - 1
  <2>1. Uninitialized(c) = [c EXCEPT !.count = k]
    BY <1>2 DEF Uninitialized
  <2>2. k \in Nat /\ k # 0 /\ c.count # 0
    BY <1>2 DEF Inits
  <2> HIDE DEF k
  <2>3. Uninitialized(c) \in Inits /\ Uninitialized(c).mode = c.mode /\ Uninitialized(c).count = k
    BY <2>1, <2>2 DEF Inits
  <2>4. QED
    BY <2>2, <2>3 DEF k
<1>3. QED
  BY <1>1, <1>2

\* COM of a thread stays typed when the thread uninitialises it.
LEMMA ComUndone ==
  ASSUME NEW t \in Thread, WellTyped, com' = [com EXCEPT ![t] = Uninitialized(@)]
  PROVE  /\ com' \in [Thread -> Inits] /\ \A u \in Thread : com'[u].mode = "none" <=> com'[u].count = 0
         /\ com[t].count >= 1 => com'[t].count = com[t].count - 1
         /\ \A u \in Thread \ {t} : com'[u] = com[u]
<1> DEFINE c == Uninitialized(com[t])
<1>1. com \in [Thread -> Inits] /\ \A u \in Thread : com[u].mode = "none" <=> com[u].count = 0
  BY DEF WellTyped, Shared, Inits
<1>2. c \in Inits /\ (c.mode = "none" <=> c.count = 0) /\ (com[t].count >= 1 => c.count = com[t].count - 1)
  BY <1>1, UninitializedRight
<1>3. com' = [com EXCEPT ![t] = c]
  OBVIOUS
<1> HIDE DEF c
<1>4. QED
  BY <1>1, <1>2, <1>3

LEMMA GiveUpKept ==
  ASSUME NEW t \in Thread, WellTyped, Balanced, GiveUp(t), me[t].pc \in {"com_security", "com_create"}
  PROVE  WellTyped' /\ Balanced'
<1> DEFINE m == me[t]
           n == Done(m, {})
<1>1. m.pc \notin AtRest \cup AtRows \cup AtProcess \cup AtSession \cup
        {"nvml_symbols", "adl_symbols", "drive_ask"} /\ m.pc \in InLife
      /\ \A k : ~Holds(m, k)
  BY DEF AtRest, InLife, AtRows, AtProcess, AtSession, Holds
<1>2. Good(n) /\ Away(n)
  BY <1>1, MeInTurn, DoneGood DEF InTurn
<1> HIDE DEF n
<1>3. /\ Moves(t, n) /\ me' = [me EXCEPT ![t] = n] /\ com' = [com EXCEPT ![t] = Uninitialized(@)]
      /\ UNCHANGED <<wmi, held, ledger, odd, gpu, prev, changes>>
  BY <1>1 DEF GiveUp, LifeStep, Local, Moves, n
<1>4. /\ com' \in [Thread -> Inits] /\ \A u \in Thread : com'[u].mode = "none" <=> com'[u].count = 0
      /\ com[t].count >= 1 => com'[t].count = com[t].count - 1
      /\ \A u \in Thread \ {t} : com'[u] = com[u]
  BY <1>3, ComUndone
<1>5. Shared'
  BY <1>3, <1>4 DEF WellTyped, Shared, Inits
<1>6. HeldRight'
  <2>1. Quiet(t, n)
    BY <1>1, <1>2, <1>3, AwayHolds, NothingTaken
  <2>2. QED
    BY <1>3, <2>1, QuietHeld
<1>7. WellTyped'
  BY <1>2, <1>3, <1>5, <1>6, MoveTyped
<1>8. ASSUME ~odd' PROVE LifeRight' /\ LibrariesRight'
  <2>1. LifeRight /\ LibrariesRight
    BY <1>3, <1>8 DEF Balanced
  <2>2. ~wmi.ready /\ ~wmi.locator /\ wmi.svc = {}
    BY <1>1, <2>1 DEF LifeRight
  <2>3. DOMAIN me = Thread /\ me'[t] = n /\ \A u \in Thread \ {t} : me'[u] = me[u]
    BY <1>3 DEF WellTyped
  <2>4. \A u \in Thread : me'[u].pc \notin InLife
    BY <1>1, <1>2, <2>1, <2>3 DEF LifeRight, Away
  <2>5. \A u \in Thread : com'[u].count = ledger.host[u] + Bit(me'[u].pc \in InLife) + Bit(ledger.owner = {u})
    <3>1. \A u \in Thread : Bit(me'[u].pc \in InLife) = 0
      BY <2>4 DEF Bit
    <3>2. \A u \in Thread \ {t} : me[u].pc \notin InLife
      BY <1>1, <2>1 DEF LifeRight
    <3>3. \A u \in Thread \ {t} : Bit(me[u].pc \in InLife) = 0
      BY <3>2 DEF Bit
    <3>4. Bit(m.pc \in InLife) = 1
      BY <1>1, BitValue
    <3>5. \A u \in Thread : com[u].count = ledger.host[u] + Bit(me[u].pc \in InLife) + Bit(ledger.owner = {u})
      BY <2>1 DEF LifeRight
    <3>6. com'[t].count = ledger.host[t] + 0 + Bit(ledger.owner = {t})
      <4> DEFINE a == com[t].count
                 b == ledger.host[t]
                 o == Bit(ledger.owner = {t})
                 x == com'[t].count
      <4>1. a = b + 1 + o /\ b \in Nat /\ o \in 0 .. 1 /\ (a >= 1 => x = a - 1)
        BY <1>4, <3>4, <3>5, BitValue DEF WellTyped, Shared
      <4> HIDE DEF a, b, o, x
      <4>2. x = b + 0 + o
        BY <4>1
      <4>3. QED
        BY <4>2 DEF a, b, o, x
    <3>7. QED
      BY <1>4, <3>1, <3>3, <3>5, <3>6
  <2>6. LifeRight'
    <3>1. \A u, w \in Thread : me'[u].pc \in InLife /\ me'[w].pc \in InLife => u = w
      BY <2>4
    <3>2. \A u \in Thread : /\ me'[u].pc \notin InLife
                            /\ me'[u].pc \notin {"com_security", "com_create"} /\ me'[u].pc # "wmi_connect"
      BY <2>4 DEF InLife
    <3>3. /\ wmi.ready => wmi.locator
          /\ wmi.ready <=> ledger.owner # {}
          /\ ledger.owner = {} \/ \E u \in Thread : ledger.owner = {u}
          /\ held["locator"] = Bit(wmi.locator)
          /\ held["service"] = Cardinality(wmi.svc)
      BY <2>1 DEF LifeRight
    <3>4. QED
      BY <1>3, <2>2, <2>5, <3>1, <3>2, <3>3 DEF LifeRight
  <2>7. LibrariesRight'
    BY <1>1, <1>2, <1>3, <2>1, LibrariesKept DEF Away
  <2>8. QED
    BY <2>6, <2>7
<1>9. QED
  BY <1>7, <1>8 DEF Balanced

LEMMA ComSecurityKept ==
  ASSUME NEW t \in Thread, WellTyped, Balanced, ComSecurity(t)
  PROVE  WellTyped' /\ Balanced'
<1> DEFINE m == me[t]
           n == [m EXCEPT !.pc = "com_create"]
<1>1. m.pc = "com_security"
  BY DEF ComSecurity, At
<1>2. m.pc \notin AtRest /\ m.pc \in InLife /\ \A k : ~Holds(m, k)
  BY <1>1 DEF AtRest, InLife, AtRows, AtProcess, AtSession, Holds
<1>3. CASE GiveUp(t)
  BY <1>1, <1>3, GiveUpKept
<1>4. CASE Step(t, n)
  <2>1. InTurn(m, AnyReading) /\ Good(m) /\ LocalsOf(m) /\ Bounded(m)
    BY <1>2, MeInTurn DEF Good
  <2> HIDE DEF m
  <2>2. Head(m.todo) = "init" /\ m.todo # <<>>
    BY <1>1, <2>1 DEF InTurn, Good, Place, InLife
  <2>3. Kept(n, m, Moved) /\ n.pc = "com_create" /\ n.h = m.h /\ n.i = m.i /\ n.todo = m.todo
    BY <2>1 DEF Kept, Moved, Locals, LocalsOf
  <2> HIDE DEF n
  <2>4. Place(n) /\ n.pc \in InLife /\ \A k : ~Holds(n, k)
    BY <2>2, <2>3 DEF Place, AtRest, InLife, AtRows, AtDrive, AtProcess, AtSession, Holds
  <2>5. Good(n)
    BY <1>2, <2>1, <2>3, <2>4, MoveGood DEF LocalsOf
  <2>6. /\ Moves(t, n) /\ me' = [me EXCEPT ![t] = n]
        /\ UNCHANGED <<com, wmi, gpu, prev, held, ledger, odd, changes>>
    BY <1>2, <1>4 DEF Step, Local, Moves, statics, m
  <2>7. Shared'
    BY <2>6 DEF WellTyped, Shared
  <2>8. HeldRight'
    <3>1. Quiet(t, n)
      BY <1>2, <2>4, <2>6, NothingTaken DEF m
    <3>2. QED
      BY <2>6, <3>1, QuietHeld
  <2>9. WellTyped'
    BY <2>5, <2>6, <2>7, <2>8, MoveTyped
  <2>10. ASSUME ~odd' PROVE LifeRight' /\ LibrariesRight'
    <3>1. LifeRight /\ LibrariesRight
      BY <2>6, <2>10 DEF Balanced
    <3>2. DOMAIN me = Thread /\ me'[t] = n /\ \A u \in Thread \ {t} : me'[u] = me[u]
      BY <2>6 DEF WellTyped
    <3>3. \A u \in Thread : me'[u].pc \in InLife <=> me[u].pc \in InLife
      BY <1>2, <2>4, <3>2 DEF m
    <3>4. ~wmi.ready /\ ~wmi.locator /\ wmi.svc = {}
      BY <1>1, <1>2, <3>1 DEF LifeRight, m
    <3>5. \A u, w \in Thread : me'[u].pc \in InLife /\ me'[w].pc \in InLife => u = w
      BY <3>1, <3>3 DEF LifeRight
    <3>6. \A u \in Thread :
            /\ me'[u].pc \in InLife => ~wmi.ready
            /\ me'[u].pc \in {"com_security", "com_create"} => ~wmi.locator /\ wmi.svc = {}
            /\ me'[u].pc = "wmi_connect" =>
                 /\ wmi.locator
                 /\ wmi.svc \subseteq IF me'[u].type = "ROOT/WMI" THEN {} ELSE {"ROOT/WMI"}
      BY <2>3, <3>1, <3>2, <3>4 DEF LifeRight
    <3>7. \A u \in Thread : com[u].count = ledger.host[u] + Bit(me'[u].pc \in InLife) + Bit(ledger.owner = {u})
      <4>1. \A u \in Thread : Bit(me'[u].pc \in InLife) = Bit(me[u].pc \in InLife)
        BY <3>3 DEF Bit
      <4>2. QED
        BY <3>1, <4>1 DEF LifeRight
    <3>8. /\ wmi.ready <=> ledger.owner # {}
          /\ ledger.owner = {} \/ \E u \in Thread : ledger.owner = {u}
          /\ held["locator"] = Bit(wmi.locator)
          /\ held["service"] = Cardinality(wmi.svc)
      BY <3>1 DEF LifeRight
    <3>9. LifeRight'
      BY <2>6, <3>4, <3>5, <3>6, <3>7, <3>8 DEF LifeRight
    <3>10. LibrariesRight'
      BY <1>1, <2>3, <2>6, <3>1, LibrariesKept DEF m
    <3>11. QED
      BY <3>9, <3>10
  <2>11. QED
    BY <2>9, <2>10 DEF Balanced
<1>5. QED
  BY <1>3, <1>4 DEF ComSecurity

LEMMA ComCreateKept ==
  ASSUME NEW t \in Thread, WellTyped, Balanced, ComCreate(t)
  PROVE  WellTyped' /\ Balanced'
<1> DEFINE m == me[t]
           n == [m EXCEPT !.pc = "wmi_connect", !.type = "ROOT/WMI"]
<1>1. m.pc = "com_create"
  BY DEF ComCreate, At
<1>2. m.pc \notin AtRest /\ m.pc \in InLife /\ \A k : ~Holds(m, k)
  BY <1>1 DEF AtRest, InLife, AtRows, AtProcess, AtSession, Holds
<1>3. CASE ~Has(Locator)
  BY <1>1, <1>3, GiveUpKept DEF ComCreate
<1>4. CASE Has(Locator)
  <2>0. /\ LifeStep(t, n) /\ wmi' = [wmi EXCEPT !.locator = TRUE] /\ Taking("locator", 1)
        /\ UNCHANGED <<com, ledger, odd>>
    BY <1>4, Zenon DEF ComCreate
  <2>1. InTurn(m, AnyReading) /\ Good(m) /\ LocalsOf(m) /\ Bounded(m)
    BY <1>2, MeInTurn DEF Good
  <2> HIDE DEF m
  <2>2. Head(m.todo) = "init" /\ m.todo # <<>>
    BY <1>1, <2>1 DEF InTurn, Good, Place, InLife
  <2>3. Kept(n, m, Moved) /\ n.pc = "wmi_connect" /\ n.h = m.h /\ n.i = m.i /\ n.todo = m.todo
        /\ n.type = "ROOT/WMI"
    BY <2>1 DEF Kept, Moved, Locals, LocalsOf
  <2> HIDE DEF n
  <2>4. Place(n) /\ n.pc \in InLife /\ \A k : ~Holds(n, k)
    BY <2>2, <2>3 DEF Place, AtRest, InLife, AtRows, AtDrive, AtProcess, AtSession, Holds
  <2>5. Good(n)
    BY <1>2, <2>1, <2>3, <2>4, MoveGood DEF LocalsOf
  <2>6. /\ Moves(t, n) /\ me' = [me EXCEPT ![t] = n] /\ held' = [held EXCEPT !["locator"] = @ + 1]
        /\ UNCHANGED <<com, gpu, prev, ledger, odd, changes>>
    BY <1>2, <2>0 DEF LifeStep, Local, Moves, Taking, m
  <2>7. wmi'.ready = wmi.ready /\ wmi'.locator = TRUE /\ wmi'.svc = wmi.svc
        /\ wmi' \in [ready : BOOLEAN, locator : BOOLEAN, svc : SUBSET {"ROOT/WMI", "ROOT/CIMV2"}]
    BY <2>0 DEF WellTyped, Shared
  <2>8. Shared'
    BY <2>6, <2>7 DEF WellTyped, Shared
  <2>9. held'["locator"] = held["locator"] + 1 /\ held["locator"] \in Nat /\ held["service"] \in Nat
        /\ held' = [k \in Kinds |-> held'[k]] /\ \A k \in Kinds \ {"locator"} : held'[k] = held[k]
    BY <2>6 DEF WellTyped, HeldRight, Kinds
  <2>10. HeldRight'
    <3>1. held'["locator"] \in Nat /\ held'["locator"] >= Bit(wmi'.locator)
      BY <2>9, BitValue
    <3>2. "service" \in Kinds \ {"locator"}
      BY DEF Kinds
    <3>3. held'["service"] \in Nat /\ held'["service"] >= Cardinality(wmi'.svc)
      BY <2>7, <2>9, <3>2 DEF WellTyped, HeldRight
    <3>4. QED
      BY <1>2, <2>4, <2>6, <2>9, <3>1, <3>3, LifeHeld DEF m
  <2>11. WellTyped'
    BY <2>5, <2>6, <2>8, <2>10, MoveTyped
  <2>12. ASSUME ~odd' PROVE LifeRight' /\ LibrariesRight'
    <3>1. LifeRight /\ LibrariesRight
      BY <2>6, <2>12 DEF Balanced
    <3>2. DOMAIN me = Thread /\ me'[t] = n /\ \A u \in Thread \ {t} : me'[u] = me[u]
      BY <2>6 DEF WellTyped
    <3>3. \A u \in Thread : me'[u].pc \in InLife <=> me[u].pc \in InLife
      BY <1>2, <2>4, <3>2 DEF m
    <3>4. ~wmi.ready /\ ~wmi.locator /\ wmi.svc = {}
      BY <1>1, <1>2, <3>1 DEF LifeRight, m
    <3>5. \A u, w \in Thread : me'[u].pc \in InLife /\ me'[w].pc \in InLife => u = w
      BY <3>1, <3>3 DEF LifeRight
    <3>6. \A u \in Thread \ {t} : me'[u].pc \notin InLife
      BY <1>2, <3>1, <3>2 DEF LifeRight, m
    <3>7. \A u \in Thread :
            /\ me'[u].pc \in InLife => ~wmi'.ready
            /\ me'[u].pc \in {"com_security", "com_create"} => ~wmi'.locator /\ wmi'.svc = {}
            /\ me'[u].pc = "wmi_connect" =>
                 /\ wmi'.locator
                 /\ wmi'.svc \subseteq IF me'[u].type = "ROOT/WMI" THEN {} ELSE {"ROOT/WMI"}
      BY <2>3, <2>7, <3>2, <3>4, <3>6 DEF InLife
    <3>8. \A u \in Thread : com[u].count = ledger.host[u] + Bit(me'[u].pc \in InLife) + Bit(ledger.owner = {u})
      <4>1. \A u \in Thread : Bit(me'[u].pc \in InLife) = Bit(me[u].pc \in InLife)
        BY <3>3 DEF Bit
      <4>2. QED
        BY <3>1, <4>1 DEF LifeRight
    <3>9. /\ wmi'.ready => wmi'.locator
          /\ wmi'.ready <=> ledger.owner # {}
          /\ ledger.owner = {} \/ \E u \in Thread : ledger.owner = {u}
      BY <2>7, <3>1 DEF LifeRight
    <3>10. held'["locator"] = Bit(wmi'.locator)
      <4>1. held["locator"] = 0 /\ Bit(wmi'.locator) = 1
        BY <2>7, <3>1, <3>4, BitValue DEF LifeRight
      <4>2. QED
        BY <2>9, <4>1
    <3>11. held'["service"] = Cardinality(wmi'.svc)
      BY <2>7, <2>9, <3>1 DEF LifeRight, Kinds
    <3>12. ~wmi'.ready /\ (\A u \in Thread : me'[u].pc \notin InLife) => ~wmi'.locator /\ wmi'.svc = {}
      BY <2>4, <3>2
    <3>13. LifeRight'
      BY <2>6, <3>5, <3>7, <3>8, <3>9, <3>10, <3>11, <3>12 DEF LifeRight
    <3>14. held'["nvml.dll"] = held["nvml.dll"] /\ held'["atiadlxx.dll"] = held["atiadlxx.dll"]
      BY <2>9 DEF Kinds
    <3>15. LibrariesRight'
      BY <1>1, <2>3, <2>6, <3>1, <3>14, LibrariesKept DEF m
    <3>16. QED
      BY <3>13, <3>15
  <2>13. QED
    BY <2>11, <2>12 DEF Balanced
<1>5. QED
  BY <1>3, <1>4

LEMMA WmiConnectKept ==
  ASSUME NEW t \in Thread, WellTyped, Balanced, WmiConnect(t)
  PROVE  WellTyped' /\ Balanced'
<1> DEFINE m == me[t]
           ns == m.type
           there == Has(Namespace(ns))
           last == ns = "ROOT/CIMV2"
           d == IF there THEN 1 ELSE 0
           S == IF there THEN wmi.svc \cup {ns} ELSE wmi.svc \ {ns}
           n == IF last THEN Done(m, {}) ELSE [m EXCEPT !.type = "ROOT/CIMV2"]
<1>1. /\ m.pc = "wmi_connect" /\ Taking("service", d) /\ LifeStep(t, n)
      /\ ledger' = IF last THEN [ledger EXCEPT !.owner = {t}] ELSE ledger
      /\ UNCHANGED <<com, odd>>
  BY Zenon DEF WmiConnect, At
<1>2. wmi' = [wmi EXCEPT !.svc = S, !.ready = wmi.ready \/ last]
  <2>1. wmi' = [wmi EXCEPT !.svc = IF there THEN @ \cup {ns} ELSE @ \ {ns}, !.ready = @ \/ last]
    BY Zenon DEF WmiConnect
  <2>2. QED
    BY <2>1
<1>3. m.pc \notin AtRest /\ m.pc \in InLife /\ \A k : ~Holds(m, k)
  BY <1>1 DEF AtRest, InLife, AtRows, AtProcess, AtSession, Holds
<1>4. InTurn(m, AnyReading) /\ Good(m) /\ LocalsOf(m) /\ Bounded(m)
  BY <1>3, MeInTurn DEF Good
<1>5. Head(m.todo) = "init" /\ m.todo # <<>> /\ ns \in {"ROOT/WMI", "ROOT/CIMV2"}
  BY <1>1, <1>3, <1>4 DEF InTurn, Good, Place, InLife
<1>6. /\ Good(n) /\ \A k : ~Holds(n, k)
      /\ n.pc \notin {"nvml_symbols", "nvml_init", "adl_symbols", "adl_count", "crashed"}
      /\ last => n.pc \notin InLife
      /\ ~last => n.pc = "wmi_connect" /\ n.type = "ROOT/CIMV2"
  <2>1. CASE last
    <3>1. n = Done(m, {})
      BY <2>1
    <3>2. Good(n) /\ Away(n)
      BY <1>4, <1>5, <3>1, DoneGood
    <3> HIDE DEF n
    <3>3. QED
      BY <2>1, <3>2, AwayHolds DEF Away
  <2>2. CASE ~last
    <3>1. n = [m EXCEPT !.type = "ROOT/CIMV2"]
      BY <2>2
    <3> HIDE DEF m, n
    <3>2. Kept(n, m, Moved) /\ n.pc = "wmi_connect" /\ n.h = m.h /\ n.i = m.i /\ n.todo = m.todo
          /\ n.type = "ROOT/CIMV2"
      BY <1>1, <1>4, <3>1 DEF Kept, Moved, Locals, LocalsOf
    <3>3. Place(n) /\ \A k : ~Holds(n, k)
      BY <1>5, <3>2 DEF Place, AtRest, InLife, AtRows, AtDrive, AtProcess, AtSession, Holds
    <3>4. Good(n)
      BY <1>3, <1>4, <3>2, <3>3, MoveGood DEF LocalsOf
    <3>5. QED
      BY <2>2, <3>2, <3>3, <3>4
  <2>3. QED
    BY <2>1, <2>2
<1> HIDE DEF n
<1>7. /\ Moves(t, n) /\ me' = [me EXCEPT ![t] = n] /\ held' = [held EXCEPT !["service"] = @ + d]
      /\ UNCHANGED <<com, gpu, prev, odd, changes>>
  BY <1>1, <1>3 DEF LifeStep, Local, Moves, Taking
<1>8. /\ wmi \in [ready : BOOLEAN, locator : BOOLEAN, svc : SUBSET {"ROOT/WMI", "ROOT/CIMV2"}]
      /\ ledger \in [host : [Thread -> Nat], owner : SUBSET Thread]
  BY DEF WellTyped, Shared
<1>9. d \in {0, 1} /\ S \subseteq {"ROOT/WMI", "ROOT/CIMV2"}
  BY <1>5, <1>8
<1>10. IsFiniteSet(wmi.svc) /\ Cardinality(wmi.svc) \in Nat /\ IsFiniteSet(S)
       /\ Cardinality(S) \in Nat /\ Cardinality(S) <= Cardinality(wmi.svc) + d
       /\ (ns \notin wmi.svc => Cardinality(S) = Cardinality(wmi.svc) + d)
  <2>1. IsFiniteSet({"ROOT/WMI", "ROOT/CIMV2"})
    <3>1. IsFiniteSet({"ROOT/CIMV2"})
      BY FS_Singleton
    <3>2. IsFiniteSet({"ROOT/CIMV2"} \cup {"ROOT/WMI"})
      BY <3>1, FS_AddElement
    <3>3. {"ROOT/CIMV2"} \cup {"ROOT/WMI"} = {"ROOT/WMI", "ROOT/CIMV2"}
      OBVIOUS
    <3>4. QED
      BY <3>2, <3>3
  <2>2. IsFiniteSet(wmi.svc) /\ Cardinality(wmi.svc) \in Nat
    BY <1>8, <2>1, FS_Subset, FS_CardinalityType
  <2>3. CASE there /\ ns \notin wmi.svc
    <3>1. S = wmi.svc \cup {ns} /\ d = 1
      BY <2>3
    <3> HIDE DEF S, d
    <3>2. IsFiniteSet(S) /\ Cardinality(S) = Cardinality(wmi.svc) + 1
      BY <2>2, <2>3, <3>1, FS_AddElement
    <3>3. QED
      BY <2>2, <3>1, <3>2
  <2>4. CASE (there /\ ns \in wmi.svc) \/ (~there /\ ns \notin wmi.svc)
    <3>1. S = wmi.svc /\ d \in {0, 1} /\ (ns \notin wmi.svc => d = 0)
      BY <2>4
    <3> HIDE DEF S, d
    <3>2. QED
      BY <2>2, <3>1
  <2>5. CASE ~there /\ ns \in wmi.svc
    <3>1. S \subseteq wmi.svc /\ d = 0
      BY <2>5
    <3> HIDE DEF S, d
    <3>2. IsFiniteSet(S) /\ Cardinality(S) <= Cardinality(wmi.svc) /\ Cardinality(S) \in Nat
      BY <2>2, <3>1, FS_Subset, FS_CardinalityType
    <3>3. QED
      BY <2>2, <2>5, <3>1, <3>2
  <2>6. QED
    BY <2>3, <2>4, <2>5
<1>11. QED
  <2> HIDE DEF d, S
  <2>1. /\ wmi'.ready = (wmi.ready \/ last) /\ wmi'.locator = wmi.locator /\ wmi'.svc = S
        /\ wmi' \in [ready : BOOLEAN, locator : BOOLEAN, svc : SUBSET {"ROOT/WMI", "ROOT/CIMV2"}]
    <3> DEFINE r == wmi.ready \/ last
    <3>1. r \in BOOLEAN /\ wmi' = [wmi EXCEPT !.svc = S, !.ready = r]
      BY <1>2
    <3> HIDE DEF r, last
    <3>2. wmi'.ready = r /\ wmi'.locator = wmi.locator /\ wmi'.svc = S
          /\ wmi' \in [ready : BOOLEAN, locator : BOOLEAN, svc : SUBSET {"ROOT/WMI", "ROOT/CIMV2"}]
      BY <1>8, <1>9, <3>1
    <3>3. QED
      BY <3>2 DEF r
  <2>2. /\ ledger' \in [host : [Thread -> Nat], owner : SUBSET Thread] /\ ledger'.host = ledger.host
        /\ ledger'.owner = IF last THEN {t} ELSE ledger.owner
    BY <1>1, <1>8
  <2>3. Shared'
    BY <1>7, <2>1, <2>2 DEF WellTyped, Shared
  <2>4. /\ held'["service"] = held["service"] + d /\ held["locator"] \in Nat /\ held["service"] \in Nat
        /\ held' = [k \in Kinds |-> held'[k]] /\ \A k \in Kinds \ {"service"} : held'[k] = held[k]
    BY <1>7 DEF WellTyped, HeldRight, Kinds
  <2>5. HeldRight'
    <3>1. held'["service"] \in Nat /\ held'["service"] >= Cardinality(wmi'.svc)
      <4>1. held["service"] >= Cardinality(wmi.svc)
        BY DEF WellTyped, HeldRight
      <4>2. QED
        BY <1>9, <1>10, <2>1, <2>4, <4>1
    <3>2. "locator" \in Kinds \ {"service"}
      BY DEF Kinds
    <3>3. held'["locator"] \in Nat /\ held'["locator"] >= Bit(wmi'.locator)
      BY <2>1, <2>4, <3>2 DEF WellTyped, HeldRight
    <3>4. QED
      BY <1>3, <1>6, <1>7, <2>4, <3>1, <3>3, LifeHeld
  <2>6. WellTyped'
    BY <1>6, <1>7, <2>3, <2>5, MoveTyped
  <2>7. ASSUME ~odd' PROVE LifeRight' /\ LibrariesRight'
    <3>1. LifeRight /\ LibrariesRight
      BY <1>7, <2>7 DEF Balanced
    <3>2. DOMAIN me = Thread /\ me'[t] = n /\ \A u \in Thread \ {t} : me'[u] = me[u]
      BY <1>7 DEF WellTyped
    <3>3. ~wmi.ready /\ wmi.locator /\ ns \notin wmi.svc /\ ledger.owner = {}
          /\ (~last => wmi.svc = {})
      BY <1>1, <1>3, <1>5, <3>1 DEF LifeRight
    <3>4. \A u \in Thread \ {t} : me[u].pc \notin InLife /\ me'[u].pc \notin InLife
      BY <1>3, <3>1, <3>2 DEF LifeRight
    <3>5. \A u, w \in Thread : me'[u].pc \in InLife /\ me'[w].pc \in InLife => u = w
      BY <3>4
    <3>6. ~last => S \subseteq {"ROOT/WMI"}
      BY <1>5, <3>3 DEF S
    <3>7. \A u \in Thread :
            /\ me'[u].pc \in InLife => ~wmi'.ready
            /\ me'[u].pc \in {"com_security", "com_create"} => ~wmi'.locator /\ wmi'.svc = {}
            /\ me'[u].pc = "wmi_connect" =>
                 /\ wmi'.locator
                 /\ wmi'.svc \subseteq IF me'[u].type = "ROOT/WMI" THEN {} ELSE {"ROOT/WMI"}
      <4>1. \A u \in Thread \ {t} : me'[u].pc \notin InLife
        BY <3>4
      <4>2. CASE last
        <5>1. \A u \in Thread : me'[u].pc \notin InLife
          BY <1>6, <3>2, <4>1, <4>2
        <5>2. QED
          BY <5>1 DEF InLife
      <4>3. CASE ~last
        <5>1. me'[t].pc = "wmi_connect" /\ me'[t].type = "ROOT/CIMV2"
          BY <1>6, <3>2, <4>3
        <5>2. wmi'.locator /\ ~wmi'.ready /\ wmi'.svc \subseteq {"ROOT/WMI"}
          BY <2>1, <3>3, <3>6, <4>3
        <5>3. QED
          BY <4>1, <5>1, <5>2 DEF InLife
      <4>4. QED
        BY <4>2, <4>3
    <3>8. \A u \in Thread :
            com[u].count = ledger'.host[u] + Bit(me'[u].pc \in InLife) + Bit(ledger'.owner = {u})
      <4>1. \A u \in Thread : com[u].count = ledger.host[u] + Bit(me[u].pc \in InLife) + Bit(ledger.owner = {u})
        BY <3>1 DEF LifeRight
      <4>2. \A u \in Thread \ {t} : Bit(me'[u].pc \in InLife) = Bit(me[u].pc \in InLife)
        BY <3>4 DEF Bit
      <4>3. \A u \in Thread \ {t} : Bit(ledger'.owner = {u}) = Bit(ledger.owner = {u})
        <5>1. \A u \in Thread \ {t} : ledger'.owner # {u} /\ ledger.owner # {u}
          BY <2>2, <3>3
        <5>2. QED
          BY <5>1 DEF Bit
      <4>4. com[t].count = ledger'.host[t] + Bit(me'[t].pc \in InLife) + Bit(ledger'.owner = {t})
        <5>1. Bit(me[t].pc \in InLife) = 1 /\ Bit(ledger.owner = {t}) = 0
          BY <1>3, <3>3, BitValue
        <5>2. \/ Bit(me'[t].pc \in InLife) = 1 /\ Bit(ledger'.owner = {t}) = 0
              \/ Bit(me'[t].pc \in InLife) = 0 /\ Bit(ledger'.owner = {t}) = 1
          <6>1. CASE last
            <7>1. ~(me'[t].pc \in InLife) /\ ledger'.owner = {t}
              BY <1>6, <2>2, <3>2, <6>1
            <7>2. Bit(me'[t].pc \in InLife) = 0
              BY <7>1, BitValue
            <7>3. Bit(ledger'.owner = {t}) = 1
              BY <7>1, BitValue
            <7>4. QED
              BY <7>2, <7>3
          <6>2. CASE ~last
            <7>1. me'[t].pc \in InLife /\ ~(ledger'.owner = {t})
              BY <1>6, <2>2, <3>2, <3>3, <6>2 DEF InLife
            <7>2. Bit(me'[t].pc \in InLife) = 1
              BY <7>1, BitValue
            <7>3. Bit(ledger'.owner = {t}) = 0
              BY <7>1, BitValue
            <7>4. QED
              BY <7>2, <7>3
          <6>3. QED
            BY <6>1, <6>2
        <5>3. ledger.host[t] \in Nat /\ ledger'.host[t] = ledger.host[t]
          BY <1>8, <2>2
        <5> DEFINE a == com[t].count
                   b == ledger.host[t]
                   x == Bit(me'[t].pc \in InLife)
                   y == Bit(ledger'.owner = {t})
        <5>4. a = b + 1 + 0 /\ b \in Nat /\ ((x = 1 /\ y = 0) \/ (x = 0 /\ y = 1))
          BY <4>1, <5>1, <5>2, <5>3
        <5> HIDE DEF a, b, x, y
        <5>5. a = b + x + y
          BY <5>4
        <5>6. QED
          BY <5>3, <5>5 DEF a, b, x, y
      <4>5. ASSUME NEW u \in Thread, u # t
            PROVE  com[u].count = ledger'.host[u] + Bit(me'[u].pc \in InLife) + Bit(ledger'.owner = {u})
        BY <2>2, <4>1, <4>2, <4>3, <4>5
      <4>6. QED
        BY <4>4, <4>5
    <3>9. /\ wmi'.ready => wmi'.locator
          /\ wmi'.ready <=> ledger'.owner # {}
          /\ ledger'.owner = {} \/ \E u \in Thread : ledger'.owner = {u}
      BY <2>1, <2>2, <3>3
    <3>10. ~wmi'.ready /\ (\A u \in Thread : me'[u].pc \notin InLife) => ~wmi'.locator /\ wmi'.svc = {}
      BY <1>6, <2>1, <3>2 DEF InLife
    <3>11. held'["locator"] = Bit(wmi'.locator)
      BY <2>1, <2>4, <3>1 DEF LifeRight, Kinds
    <3>12. held'["service"] = Cardinality(wmi'.svc)
      <4>1. held["service"] = Cardinality(wmi.svc)
        BY <3>1 DEF LifeRight
      <4>2. QED
        BY <1>10, <2>1, <2>4, <3>3, <4>1
    <3>13. LifeRight'
      BY <1>7, <3>5, <3>7, <3>8, <3>9, <3>10, <3>11, <3>12 DEF LifeRight
    <3>14. held'["nvml.dll"] = held["nvml.dll"] /\ held'["atiadlxx.dll"] = held["atiadlxx.dll"]
      BY <2>4 DEF Kinds
    <3>15. LibrariesRight'
      BY <1>1, <1>6, <1>7, <3>1, <3>14, LibrariesKept
    <3>16. QED
      BY <3>13, <3>15
  <2>8. QED
    BY <2>6, <2>7 DEF Balanced

LEMMA WmiShutdownKept ==
  ASSUME NEW t \in Thread, WellTyped, Balanced, WmiShutdown(t)
  PROVE  WellTyped' /\ Balanced'
<1> DEFINE m == me[t]
           n == Done(m, {})
           c == Cardinality(wmi.svc)
           b == IF wmi.locator THEN 1 ELSE 0
<1>1. /\ m.pc = "shutdown" /\ LifeStep(t, n)
      /\ odd' = (odd \/ ledger.owner # {t} \/ OtherIn(t, OfWmi \cup OfLife))
      /\ held' = [held EXCEPT !["service"] = @ - c, !["locator"] = @ - b]
      /\ wmi' = [ready |-> FALSE, locator |-> FALSE, svc |-> {}]
      /\ com' = [com EXCEPT ![t] = Uninitialized(@)]
      /\ ledger' = [ledger EXCEPT !.owner = {}]
  BY DEF WmiShutdown, At
<1>2. m.pc \notin AtRest \cup InLife \cup {"nvml_symbols", "adl_symbols"} /\ \A k : ~Holds(m, k)
  BY <1>1 DEF AtRest, InLife, AtRows, AtProcess, AtSession, Holds
<1>3. Good(n) /\ Away(n)
  BY <1>2, MeInTurn, DoneGood DEF InTurn
<1> HIDE DEF n
<1>4. Moves(t, n) /\ me' = [me EXCEPT ![t] = n] /\ UNCHANGED <<gpu, prev, changes>>
  BY <1>1, <1>2 DEF LifeStep, Local, Moves
<1>5. /\ com' \in [Thread -> Inits] /\ \A u \in Thread : com'[u].mode = "none" <=> com'[u].count = 0
      /\ com[t].count >= 1 => com'[t].count = com[t].count - 1
      /\ \A u \in Thread \ {t} : com'[u] = com[u]
  BY <1>1, ComUndone
<1>6. /\ wmi \in [ready : BOOLEAN, locator : BOOLEAN, svc : SUBSET {"ROOT/WMI", "ROOT/CIMV2"}]
      /\ ledger \in [host : [Thread -> Nat], owner : SUBSET Thread] /\ odd \in BOOLEAN
  BY DEF WellTyped, Shared
<1>7. /\ ledger' \in [host : [Thread -> Nat], owner : SUBSET Thread] /\ ledger'.host = ledger.host
      /\ ledger'.owner = {}
  BY <1>1, <1>6
<1>8. odd' \in BOOLEAN
  BY <1>1, <1>6 DEF OtherIn
<1>9. Shared'
  BY <1>1, <1>4, <1>5, <1>7, <1>8 DEF WellTyped, Shared, Inits
<1>10. c \in Nat /\ b \in {0, 1} /\ b = Bit(wmi.locator)
  <2>1. IsFiniteSet({"ROOT/WMI", "ROOT/CIMV2"})
    <3>1. IsFiniteSet({"ROOT/CIMV2"})
      BY FS_Singleton
    <3>2. IsFiniteSet({"ROOT/CIMV2"} \cup {"ROOT/WMI"})
      BY <3>1, FS_AddElement
    <3>3. {"ROOT/CIMV2"} \cup {"ROOT/WMI"} = {"ROOT/WMI", "ROOT/CIMV2"}
      OBVIOUS
    <3>4. QED
      BY <3>2, <3>3
  <2>2. IsFiniteSet(wmi.svc) /\ Cardinality(wmi.svc) \in Nat
    BY <1>6, <2>1, FS_Subset, FS_CardinalityType
  <2>3. QED
    BY <2>2 DEF Bit
<1>11. Cardinality(wmi'.svc) = 0 /\ Bit(wmi'.locator) = 0
  <2>1. wmi'.svc = {} /\ wmi'.locator = FALSE
    BY <1>1
  <2>2. QED
    BY <2>1, FS_EmptySet DEF Bit
<1>12. QED
  <2>0. held["service"] >= c /\ held["locator"] >= b
    BY <1>10 DEF WellTyped, HeldRight
  <2> HIDE DEF b, c
  <2>1. /\ held'["service"] = held["service"] - c /\ held'["locator"] = held["locator"] - b
        /\ held["locator"] \in Nat /\ held["service"] \in Nat
        /\ held' = [k \in Kinds |-> held'[k]]
        /\ \A k \in Kinds \ {"locator", "service"} : held'[k] = held[k]
    BY <1>1 DEF WellTyped, HeldRight, Kinds
  <2>2. HeldRight'
    <3>1. held'["service"] \in Nat /\ held'["locator"] \in Nat
      BY <1>10, <2>0, <2>1
    <3>2. held'["service"] >= Cardinality(wmi'.svc) /\ held'["locator"] >= Bit(wmi'.locator)
      BY <1>11, <3>1
    <3>3. QED
      BY <1>2, <1>3, <1>4, <2>1, <3>1, <3>2, AwayHolds, LifeHeld
  <2>3. WellTyped'
    BY <1>3, <1>4, <1>9, <2>2, MoveTyped
  <2>4. ASSUME ~odd' PROVE LifeRight' /\ LibrariesRight'
    <3>1. LifeRight /\ LibrariesRight /\ ledger.owner = {t} /\ ~OtherIn(t, OfWmi \cup OfLife)
      BY <1>1, <2>4 DEF Balanced
    <3>2. DOMAIN me = Thread /\ me'[t] = n /\ \A u \in Thread \ {t} : me'[u] = me[u]
      BY <1>4 DEF WellTyped
    <3>3. \A u \in Thread : me[u].pc \notin InLife /\ me'[u].pc \notin InLife
      BY <1>2, <1>3, <3>1, <3>2, InsideLife DEF Away
    <3>4. \A u \in Thread :
            com'[u].count = ledger'.host[u] + Bit(me'[u].pc \in InLife) + Bit(ledger'.owner = {u})
      <4>1. \A u \in Thread : com[u].count = ledger.host[u] + Bit(me[u].pc \in InLife) + Bit(ledger.owner = {u})
        BY <3>1 DEF LifeRight
      <4>2. \A u \in Thread : Bit(me[u].pc \in InLife) = 0 /\ Bit(me'[u].pc \in InLife) = 0
        BY <3>3 DEF Bit
      <4>3. \A u \in Thread \ {t} : Bit(ledger.owner = {u}) = 0
        <5>1. \A u \in Thread \ {t} : ledger.owner # {u}
          BY <3>1
        <5>2. QED
          BY <5>1 DEF Bit
      <4>4. \A u \in Thread : Bit(ledger'.owner = {u}) = 0
        <5>1. \A u \in Thread : ledger'.owner # {u}
          BY <1>7
        <5>2. QED
          BY <5>1 DEF Bit
      <4>5. Bit(ledger.owner = {t}) = 1
        BY <3>1, BitValue
      <4>6. com'[t].count = ledger.host[t] + 0 + 0
        <5> DEFINE a == com[t].count
                   e == ledger.host[t]
                   x == com'[t].count
        <5>1. a = e + 0 + 1 /\ e \in Nat /\ (a >= 1 => x = a - 1)
          BY <1>5, <1>6, <4>1, <4>2, <4>5
        <5> HIDE DEF a, e, x
        <5>2. x = e + 0 + 0
          BY <5>1
        <5>3. QED
          BY <5>2 DEF e, x
      <4>7. QED
        BY <1>5, <1>7, <4>1, <4>2, <4>3, <4>4, <4>6
    <3>5. held'["locator"] = Bit(wmi'.locator) /\ held'["service"] = Cardinality(wmi'.svc)
      <4>1. held["locator"] = b /\ held["service"] = c
        BY <1>10, <3>1 DEF LifeRight, c
      <4>2. QED
        BY <1>10, <1>11, <2>1, <4>1
    <3>6. wmi'.ready = FALSE /\ wmi'.locator = FALSE /\ wmi'.svc = {}
      BY <1>1
    <3>7. LifeRight'
      <4>1. \A u, w \in Thread : me'[u].pc \in InLife /\ me'[w].pc \in InLife => u = w
        BY <3>3
      <4>2. \A u \in Thread :
              /\ me'[u].pc \notin InLife
              /\ me'[u].pc \notin {"com_security", "com_create"} /\ me'[u].pc # "wmi_connect"
        BY <3>3 DEF InLife
      <4>3. QED
        BY <1>7, <3>4, <3>5, <3>6, <4>1, <4>2 DEF LifeRight
    <3>8. held'["nvml.dll"] = held["nvml.dll"] /\ held'["atiadlxx.dll"] = held["atiadlxx.dll"]
      BY <2>1 DEF Kinds
    <3>9. LibrariesRight'
      BY <1>2, <1>3, <1>4, <3>1, <3>8, LibrariesKept DEF Away
    <3>10. QED
      BY <3>7, <3>9
  <2>5. QED
    BY <2>3, <2>4 DEF Balanced

-----------------------------------------------------------------------------
(* The libraries of the GPU are loaded and freed. *)

OfLibraries == {"nvml.dll", "atiadlxx.dll"}

\* What is held stays right when t loads or frees the library c.
LEMMA LibraryHeld ==
  ASSUME NEW t \in Thread, NEW n, NEW c \in OfLibraries, NEW d \in Int, WellTyped,
         me' = [me EXCEPT ![t] = n], held' = [held EXCEPT ![c] = @ + d], wmi' = wmi,
         \A k \in Kinds \ {c} : ~Holds(n, k) /\ ~Holds(me[t], k),
         d >= Bit(Holds(n, c)) - Bit(Holds(me[t], c))
  PROVE  HeldRight'
<1>1. DOMAIN me = Thread /\ held \in [Kinds -> Nat] /\ c \in Kinds
  BY DEF WellTyped, HeldRight, Kinds, OfLibraries
<1>2. ASSUME NEW k \in Kinds
      PROVE  /\ Cardinality(Holders(k)) \in Nat /\ Cardinality(Holders(k)') \in Nat
             /\ Cardinality(Holders(k)') =
                  Cardinality(Holders(k)) + Bit(Holds(n, k)) - Bit(Holds(me[t], k))
  BY <1>1, HoldersMoved
<1>3. ASSUME NEW k \in Kinds \ {c}
      PROVE  held'[k] = held[k] /\ Cardinality(Holders(k)') = Cardinality(Holders(k))
  <2>1. Bit(Holds(n, k)) = 0 /\ Bit(Holds(me[t], k)) = 0
    BY BitValue
  <2> DEFINE p == Cardinality(Holders(k))
             q == Cardinality(Holders(k)')
  <2>2. p \in Nat /\ q = p + 0 - 0
    BY <1>2, <2>1
  <2> HIDE DEF p, q
  <2>3. q = p
    BY <2>2
  <2>4. QED
    BY <1>1, <2>3 DEF p, q
<1>4. held[c] >= Cardinality(Holders(c)) /\ held[c] \in Nat
  BY <1>1 DEF WellTyped, HeldRight, OfLibraries
<1>5. held'[c] \in Nat /\ held'[c] >= Cardinality(Holders(c)')
  <2> DEFINE p == Cardinality(Holders(c))
             q == Cardinality(Holders(c)')
             x == held[c]
             y == held'[c]
             a == Bit(Holds(n, c))
             b == Bit(Holds(me[t], c))
  <2>1. q = p + a - b /\ p \in Nat /\ q \in Nat /\ y = x + d /\ x \in Nat /\ x >= p /\ d >= a - b
    BY <1>1, <1>2, <1>4
  <2>2. a \in 0 .. 1 /\ b \in 0 .. 1
    BY BitValue
  <2> HIDE DEF p, q, x, y, a, b
  <2>3. y \in Nat /\ y >= q
    BY <2>1, <2>2
  <2>4. QED
    BY <2>3 DEF y, q
<1>6. held' \in [Kinds -> Nat]
  <2>1. \A k \in Kinds : held'[k] \in Nat
    BY <1>1, <1>3, <1>5
  <2>2. held' = [k \in Kinds |-> held'[k]]
    BY <1>1
  <2>3. QED
    BY <2>1, <2>2
<1>7. \A k \in OfCalls : held'[k] = Cardinality(Holders(k)')
  <2>1. \A k \in OfCalls : k \in Kinds \ {c}
    BY DEF OfCalls, Kinds, OfLibraries
  <2>2. \A k \in OfCalls : held[k] = Cardinality(Holders(k))
    BY DEF WellTyped, HeldRight
  <2>3. QED
    BY <1>3, <2>1, <2>2
<1>8. \A k \in OfLibraries : held'[k] >= Cardinality(Holders(k)')
  <2> SUFFICES ASSUME NEW k \in OfLibraries PROVE held'[k] >= Cardinality(Holders(k)')
    OBVIOUS
  <2>1. held[k] >= Cardinality(Holders(k)) /\ k \in Kinds
    BY DEF WellTyped, HeldRight, OfLibraries, Kinds
  <2>2. QED
    BY <1>3, <1>5, <2>1
<1>9. held'["locator"] = held["locator"] /\ held'["service"] = held["service"]
  <2>1. "locator" \in Kinds \ {c} /\ "service" \in Kinds \ {c}
    BY DEF Kinds, OfLibraries
  <2>2. QED
    BY <1>3, <2>1
<1>10. QED
  BY <1>6, <1>7, <1>8, <1>9 DEF WellTyped, HeldRight, OfLibraries

\* Thread t loads or frees the library c.
LEMMA LibraryKept ==
  ASSUME NEW t \in Thread, NEW n, NEW c \in OfLibraries, NEW d \in Int, WellTyped,
         Moves(t, n), Good(n), held' = [held EXCEPT ![c] = @ + d],
         UNCHANGED <<com, wmi, prev, ledger>>,
         gpu' \in [nvml : BOOLEAN, fn : SUBSET (Required \cup Range(Rows)),
                   adl : {"none", "loading", "ready"}],
         odd' \in BOOLEAN, odd => odd',
         \A k \in Kinds \ {c} : ~Holds(n, k) /\ ~Holds(me[t], k),
         d >= Bit(Holds(n, c)) - Bit(Holds(me[t], c)),
         me[t].pc \notin InLife, n.pc \notin InLife
  PROVE  WellTyped' /\ (Balanced /\ ~odd' => LifeRight')
<1>1. /\ me' = [me EXCEPT ![t] = n] /\ com' = com /\ wmi' = wmi /\ ledger' = ledger /\ prev' = prev
      /\ changes' = changes
  BY DEF Moves
<1>2. Shared'
  BY <1>1 DEF WellTyped, Shared
<1>3. HeldRight'
  BY <1>1, LibraryHeld
<1>4. WellTyped'
  BY <1>2, <1>3, MoveTyped
<1>5. held'["locator"] = held["locator"] /\ held'["service"] = held["service"]
  <2>1. held \in [Kinds -> Nat] /\ "locator" \in Kinds \ {c} /\ "service" \in Kinds \ {c}
    BY DEF WellTyped, HeldRight, Kinds, OfLibraries
  <2>2. QED
    BY <2>1
<1>6. ASSUME Balanced, ~odd' PROVE LifeRight'
  <2>1. LifeRight
    BY <1>6 DEF Balanced
  <2>2. QED
    BY <1>1, <1>5, <2>1, LifeKept
<1>7. QED
  BY <1>4, <1>6

LEMMA ValsCleared ==
  ASSUME NEW z, Good(z), Away(z)
  PROVE  Good([z EXCEPT !.vals = <<>>]) /\ Away([z EXCEPT !.vals = <<>>])
<1> DEFINE n == [z EXCEPT !.vals = <<>>]
<1>1. DOMAIN n = Locals /\ \A f \in Locals \ {"vals"} : n[f] = z[f]
  BY DEF Good, LocalsOf
<1> HIDE DEF n
<1>2. /\ n.call = z.call /\ n.max = z.max /\ n.todo = z.todo /\ n.pc = z.pc /\ n.type = z.type
      /\ n.list = z.list /\ n.rows = z.rows /\ n.room = z.room /\ n.h = z.h /\ n.i = z.i
      /\ n.name = z.name /\ Room(n) = Room(z)
  BY <1>1 DEF Locals, Room, Reading
<1>3. Away(n) /\ n.pc # "nvml_symbols"
  BY <1>2 DEF Away
<1>4. LocalsOf(n)
  BY <1>1, <1>2 DEF Good, LocalsOf
<1>5. Bounded(n)
  BY <1>2 DEF Good, Bounded
<1>6. Place(n)
  BY <1>2, <1>3 DEF Good, Place
<1>7. QED
  BY <1>3, <1>4, <1>5, <1>6 DEF Good, n

LEMMA NvmlLoadKept ==
  ASSUME NEW t \in Thread, WellTyped, Balanced, NvmlLoad(t)
  PROVE  WellTyped' /\ Balanced'
<1> DEFINE m == me[t]
           loads == ~gpu.nvml /\ Has(NvmlDll)
           d == IF loads THEN 1 ELSE 0
           n == IF gpu.nvml THEN [m EXCEPT !.pc = "nvml_init"]
                ELSE IF loads THEN [m EXCEPT !.pc = "nvml_symbols", !.vals = src[NvmlDll]]
                ELSE AfterNvml(m)
<1>1. /\ m.pc = "nvml_load" /\ odd' = (odd \/ \E u \in Thread \ {t} : LoadingNvml(u))
      /\ Local(t, n) /\ UNCHANGED <<com, wmi, prev, ledger>>
      /\ gpu' = [gpu EXCEPT !.nvml = @ \/ loads] /\ held' = [held EXCEPT !["nvml.dll"] = @ + d]
  BY Zenon DEF NvmlLoad, At, GpuStep, Taking
<1>2. m.pc \notin AtRest \cup InLife \cup {"nvml_symbols", "adl_symbols"} /\ \A k : ~Holds(m, k)
  BY <1>1 DEF AtRest, InLife, AtRows, AtProcess, AtSession, Holds
<1>3. InTurn(m, AnyReading) /\ Good(m) /\ LocalsOf(m) /\ Bounded(m)
  BY <1>2, MeInTurn DEF Good
<1>4. /\ gpu \in [nvml : BOOLEAN, fn : SUBSET (Required \cup Range(Rows)),
                  adl : {"none", "loading", "ready"}]
      /\ odd \in BOOLEAN
  BY DEF WellTyped, Shared
<1>5. /\ Good(n) /\ n.pc \notin InLife \cup {"adl_symbols", "adl_count", "crashed"}
      /\ gpu.nvml => n.pc = "nvml_init"
      /\ loads => n.pc = "nvml_symbols"
      /\ ~gpu.nvml /\ ~loads => Away(n)
  <2>1. CASE gpu.nvml
    <3>1. n = [m EXCEPT !.pc = "nvml_init"]
      BY <2>1
    <3> HIDE DEF m, n
    <3>2. Kept(n, m, Moved) /\ n.pc = "nvml_init" /\ n.h = m.h /\ n.i = m.i /\ n.todo = m.todo
      BY <1>3, <3>1 DEF Kept, Moved, Locals, LocalsOf
    <3>3. Place(n)
      BY <1>3, <3>2 DEF InTurn, Place, AtRest, InLife, AtRows, AtDrive, AtProcess
    <3>4. Good(n)
      BY <1>2, <1>3, <3>2, <3>3, MoveGood DEF LocalsOf
    <3>5. QED
      BY <2>1, <3>2, <3>4 DEF InLife
  <2>2. CASE loads
    <3>1. n = [m EXCEPT !.pc = "nvml_symbols", !.vals = src[NvmlDll]]
      BY <2>2
    <3>2. src[NvmlDll] \subseteq Required \cup Range(Rows)
      BY <2>2 DEF Has, OfKind, WellTyped, SourcesOfKind
    <3> DEFINE s == src[NvmlDll]
    <3> HIDE DEF m, n, s
    <3>3. Kept(n, m, Moved) /\ n.pc = "nvml_symbols" /\ n.h = m.h /\ n.i = m.i /\ n.todo = m.todo
          /\ n.vals = s
      BY <1>3, <3>1 DEF Kept, Moved, Locals, LocalsOf, s
    <3>4. Place(n)
      BY <1>3, <3>2, <3>3 DEF InTurn, Place, AtRest, InLife, AtRows, AtDrive, AtProcess, s
    <3>5. Good(n)
      BY <1>2, <1>3, <3>3, <3>4, MoveGood DEF LocalsOf
    <3>6. QED
      BY <2>2, <3>3, <3>5 DEF InLife
  <2>3. CASE ~gpu.nvml /\ ~loads
    <3>1. n = AfterNvml(m)
      BY <2>3
    <3>2. Good(n) /\ Away(n)
      BY <1>3, <3>1, AfterNvmlGood
    <3> HIDE DEF n
    <3>3. QED
      BY <2>3, <3>2 DEF Away
  <2>4. QED
    BY <2>1, <2>2, <2>3
<1> HIDE DEF m, n
<1>6. Moves(t, n) /\ me' = [me EXCEPT ![t] = n]
  BY <1>1, <1>2 DEF Local, Moves, m
<1>7. \A k \in Kinds \ {"nvml.dll"} : ~Holds(n, k) /\ ~Holds(me[t], k)
  <2>1. n.pc \in {"nvml_init", "nvml_symbols"} \/ Away(n)
    BY <1>5
  <2>2. \A k \in Kinds \ {"nvml.dll"} : ~Holds(n, k)
    BY <2>1 DEF Holds, Away, AtRows, AtProcess, AtSession
  <2>3. QED
    BY <1>2, <2>2 DEF m
<1>8. d \in Int /\ d >= Bit(Holds(n, "nvml.dll")) - Bit(Holds(me[t], "nvml.dll"))
  <2>1. Bit(Holds(me[t], "nvml.dll")) = 0
    BY <1>2, BitValue DEF m
  <2>2. Bit(Holds(n, "nvml.dll")) \in 0 .. 1 /\ (~loads => Bit(Holds(n, "nvml.dll")) = 0)
    <3>1. ~loads => ~Holds(n, "nvml.dll")
      BY <1>5 DEF Holds, Away
    <3>2. QED
      BY <3>1, BitValue
  <2>3. QED
    BY <2>1, <2>2
<1>9. /\ gpu'.nvml = (gpu.nvml \/ loads) /\ gpu'.fn = gpu.fn /\ gpu'.adl = gpu.adl
      /\ gpu' \in [nvml : BOOLEAN, fn : SUBSET (Required \cup Range(Rows)),
                   adl : {"none", "loading", "ready"}]
  <2> DEFINE r == gpu.nvml \/ loads
  <2>1. r \in BOOLEAN /\ gpu' = [gpu EXCEPT !.nvml = r]
    BY <1>1, <1>4
  <2> HIDE DEF r
  <2>2. /\ gpu'.nvml = r /\ gpu'.fn = gpu.fn /\ gpu'.adl = gpu.adl
        /\ gpu' \in [nvml : BOOLEAN, fn : SUBSET (Required \cup Range(Rows)),
                     adl : {"none", "loading", "ready"}]
    BY <1>4, <2>1
  <2>3. QED
    BY <2>2 DEF r
<1>10. odd' \in BOOLEAN /\ (odd => odd')
  BY <1>1, <1>4
<1>11. WellTyped' /\ (~odd' => LifeRight')
  BY <1>1, <1>2, <1>5, <1>6, <1>7, <1>8, <1>9, <1>10, LibraryKept DEF m, OfLibraries
<1>12. ASSUME ~odd' PROVE LibrariesRight'
  <2>1. LibrariesRight /\ \A u \in Thread \ {t} : me[u].pc # "nvml_symbols"
    BY <1>1, <1>12 DEF Balanced, LoadingNvml, At
  <2>2. DOMAIN me = Thread /\ me'[t] = n /\ \A u \in Thread \ {t} : me'[u] = me[u]
    BY <1>6 DEF WellTyped
  <2>3. held'["nvml.dll"] = held["nvml.dll"] + d /\ held'["atiadlxx.dll"] = held["atiadlxx.dll"]
        /\ held["nvml.dll"] \in Nat
    BY <1>1 DEF WellTyped, HeldRight, Kinds
  <2>4. \A u \in Thread \ {t} : me'[u].pc # "nvml_symbols"
    BY <2>1, <2>2
  <2>5. \A u, w \in Thread : me'[u].pc = "nvml_symbols" /\ me'[w].pc = "nvml_symbols" => u = w
    BY <2>4
  <2>6. /\ \A u \in Thread : me'[u].pc = "adl_symbols" <=> me[u].pc = "adl_symbols"
        /\ \A u \in Thread : me'[u].pc \in {"adl_count", "crashed"} => me'[u] = me[u]
    BY <1>2, <1>5, <2>2 DEF m
  <2>7. /\ \A u, w \in Thread : me'[u].pc = "adl_symbols" /\ me'[w].pc = "adl_symbols" => u = w
        /\ \A u \in Thread : /\ me'[u].pc = "adl_symbols" => gpu'.adl = "loading"
                             /\ me'[u].pc = "adl_count" => gpu'.adl = "ready"
                             /\ me'[u].pc # "crashed"
        /\ gpu'.adl = "loading" => \E u \in Thread : me'[u].pc = "adl_symbols"
        /\ held'["atiadlxx.dll"] = Bit(gpu'.adl # "none")
    BY <1>9, <2>1, <2>3, <2>6 DEF LibrariesRight
  <2>8. \A u \in Thread :
          /\ me'[u].pc = "nvml_symbols" => gpu'.nvml
          /\ me'[u].pc = "nvml_init" => gpu'.nvml /\ \A w \in Thread : me'[w].pc # "nvml_symbols"
    <3>1. \A u \in Thread \ {t} : me'[u].pc = "nvml_init" => gpu.nvml
      BY <2>1, <2>2 DEF LibrariesRight
    <3>2. me'[t].pc = "nvml_init" => gpu.nvml
      BY <1>5, <2>2 DEF Away
    <3>3. me'[t].pc = "nvml_symbols" => loads /\ ~gpu.nvml
      BY <1>5, <2>2 DEF Away
    <3>4. QED
      BY <1>9, <2>4, <3>1, <3>2, <3>3
  <2>9. gpu'.nvml /\ (\A u \in Thread : me'[u].pc # "nvml_symbols") => "init" \in gpu'.fn
    <3>1. \A u \in Thread : me[u].pc # "nvml_symbols"
      BY <1>2, <2>1 DEF m
    <3>2. loads => me'[t].pc = "nvml_symbols"
      BY <1>5, <2>2
    <3>3. QED
      BY <1>9, <2>1, <3>1, <3>2 DEF LibrariesRight
  <2>10. held'["nvml.dll"] = Bit(gpu'.nvml)
    <3>1. held["nvml.dll"] = Bit(gpu.nvml)
      BY <2>1 DEF LibrariesRight
    <3>2. CASE loads
      <4>1. Bit(gpu.nvml) = 0 /\ Bit(gpu'.nvml) = 1 /\ d = 1
        BY <1>9, <3>2, BitValue
      <4>2. QED
        BY <2>3, <3>1, <4>1
    <3>3. CASE ~loads
      <4>1. Bit(gpu'.nvml) = Bit(gpu.nvml) /\ d = 0
        BY <1>9, <3>3 DEF Bit
      <4>2. QED
        BY <2>3, <3>1, <4>1
    <3>4. QED
      BY <3>2, <3>3
  <2>11. QED
    BY <2>5, <2>7, <2>8, <2>9, <2>10 DEF LibrariesRight
<1>13. QED
  BY <1>11, <1>12 DEF Balanced

LEMMA NvmlSymbolsKept ==
  ASSUME NEW t \in Thread, WellTyped, Balanced, NvmlSymbols(t)
  PROVE  WellTyped' /\ Balanced'
<1> DEFINE m == me[t]
           complete == Required \subseteq m.vals
           d == IF complete THEN 0 ELSE -1
           z == IF complete THEN [m EXCEPT !.pc = "nvml_init"] ELSE AfterNvml(m)
           n == [z EXCEPT !.vals = <<>>]
<1>1. /\ m.pc = "nvml_symbols" /\ odd' = odd
      /\ Local(t, n) /\ UNCHANGED <<com, wmi, prev, ledger>>
      /\ gpu' = [gpu EXCEPT !.fn = m.vals, !.nvml = complete]
      /\ held' = [held EXCEPT !["nvml.dll"] = @ + d]
  BY Zenon DEF NvmlSymbols, At, GpuStep, Taking
<1>2. m.pc \notin AtRest \cup InLife /\ \A k : Holds(m, k) <=> k = "nvml.dll"
  BY <1>1 DEF AtRest, InLife, AtRows, AtProcess, AtSession, Holds
<1>3. InTurn(m, AnyReading) /\ Good(m) /\ LocalsOf(m) /\ Bounded(m) /\ m.vals \subseteq Required \cup Range(Rows)
  BY <1>1, <1>2, MeInTurn DEF Good, Place
<1>4. /\ gpu \in [nvml : BOOLEAN, fn : SUBSET (Required \cup Range(Rows)),
                  adl : {"none", "loading", "ready"}]
      /\ odd \in BOOLEAN
  BY DEF WellTyped, Shared
<1>5. /\ Good(n) /\ n.pc \notin InLife \cup {"nvml_symbols", "adl_symbols", "adl_count", "crashed"}
      /\ complete => n.pc = "nvml_init"
      /\ ~complete => Away(n)
      /\ \A k : ~Holds(n, k)
  <2>1. CASE complete
    <3>1. n = [[m EXCEPT !.pc = "nvml_init"] EXCEPT !.vals = <<>>]
      BY <2>1
    <3> HIDE DEF m, n
    <3>2. Kept(n, m, Moved) /\ n.pc = "nvml_init" /\ n.h = m.h /\ n.i = m.i /\ n.todo = m.todo
      BY <1>3, <3>1 DEF Kept, Moved, Locals, LocalsOf
    <3>3. Place(n) /\ \A k : ~Holds(n, k)
      BY <1>3, <3>2 DEF InTurn, Place, AtRest, InLife, AtRows, AtDrive, AtProcess, AtSession, Holds
    <3>4. Good(n)
      BY <1>2, <1>3, <3>2, <3>3, MoveGood DEF LocalsOf
    <3>5. QED
      BY <2>1, <3>2, <3>3, <3>4 DEF InLife
  <2>2. CASE ~complete
    <3>1. n = [AfterNvml(m) EXCEPT !.vals = <<>>]
      BY <2>2
    <3>2. Good(n) /\ Away(n)
      BY <1>3, <3>1, AfterNvmlGood, ValsCleared
    <3> HIDE DEF n
    <3>3. \A k : ~Holds(n, k)
      BY <3>2, AwayHolds
    <3>4. QED
      BY <2>2, <3>2, <3>3 DEF Away
  <2>3. QED
    BY <2>1, <2>2
<1> HIDE DEF m, n
<1>6. Moves(t, n) /\ me' = [me EXCEPT ![t] = n]
  BY <1>1, <1>2 DEF Local, Moves, m
<1>7. \A k \in Kinds \ {"nvml.dll"} : ~Holds(n, k) /\ ~Holds(me[t], k)
  BY <1>2, <1>5 DEF m
<1>8. d \in Int /\ d >= Bit(Holds(n, "nvml.dll")) - Bit(Holds(me[t], "nvml.dll"))
  <2>1. Bit(Holds(me[t], "nvml.dll")) = 1 /\ Bit(Holds(n, "nvml.dll")) = 0
    BY <1>2, <1>5, BitValue DEF m
  <2>2. QED
    BY <2>1
<1>9. /\ gpu'.nvml = complete /\ gpu'.fn = m.vals /\ gpu'.adl = gpu.adl
      /\ gpu' \in [nvml : BOOLEAN, fn : SUBSET (Required \cup Range(Rows)),
                   adl : {"none", "loading", "ready"}]
  <2> DEFINE v == m.vals
  <2>1. complete \in BOOLEAN /\ v \in SUBSET (Required \cup Range(Rows))
        /\ gpu' = [gpu EXCEPT !.fn = v, !.nvml = complete]
    BY <1>1, <1>3
  <2> HIDE DEF complete, v
  <2>2. /\ gpu'.nvml = complete /\ gpu'.fn = v /\ gpu'.adl = gpu.adl
        /\ gpu' \in [nvml : BOOLEAN, fn : SUBSET (Required \cup Range(Rows)),
                     adl : {"none", "loading", "ready"}]
    BY <1>4, <2>1
  <2>3. QED
    BY <2>2 DEF v
<1>10. odd' \in BOOLEAN /\ (odd => odd')
  BY <1>1, <1>4
<1>11. WellTyped' /\ (~odd' => LifeRight')
  BY <1>1, <1>2, <1>5, <1>6, <1>7, <1>8, <1>9, <1>10, LibraryKept DEF m, OfLibraries
<1>12. ASSUME ~odd' PROVE LibrariesRight'
  <2>1. LibrariesRight
    BY <1>1, <1>12 DEF Balanced
  <2>2. DOMAIN me = Thread /\ me'[t] = n /\ \A u \in Thread \ {t} : me'[u] = me[u]
    BY <1>6 DEF WellTyped
  <2>3. held'["nvml.dll"] = held["nvml.dll"] + d /\ held'["atiadlxx.dll"] = held["atiadlxx.dll"]
    BY <1>1 DEF WellTyped, HeldRight, Kinds
  <2>4. \A u \in Thread : me'[u].pc # "nvml_symbols"
    <3>1. \A u \in Thread \ {t} : me[u].pc # "nvml_symbols"
      BY <1>1, <2>1 DEF LibrariesRight, m
    <3>2. QED
      BY <1>5, <2>2, <3>1
  <2>5. /\ \A u \in Thread : me'[u].pc = "adl_symbols" <=> me[u].pc = "adl_symbols"
        /\ \A u \in Thread : me'[u].pc \in {"adl_count", "crashed"} => me'[u] = me[u]
    BY <1>1, <1>5, <2>2 DEF m
  <2>6. /\ \A u, w \in Thread : me'[u].pc = "adl_symbols" /\ me'[w].pc = "adl_symbols" => u = w
        /\ \A u \in Thread : /\ me'[u].pc = "adl_symbols" => gpu'.adl = "loading"
                             /\ me'[u].pc = "adl_count" => gpu'.adl = "ready"
                             /\ me'[u].pc # "crashed"
        /\ gpu'.adl = "loading" => \E u \in Thread : me'[u].pc = "adl_symbols"
        /\ held'["atiadlxx.dll"] = Bit(gpu'.adl # "none")
    BY <1>9, <2>1, <2>3, <2>5 DEF LibrariesRight
  <2>7. \A u \in Thread : me'[u].pc = "nvml_init" => gpu'.nvml
    <3>1. \A u \in Thread \ {t} : me'[u].pc # "nvml_init"
      BY <1>1, <2>1, <2>2 DEF LibrariesRight, m
    <3>2. me'[t].pc = "nvml_init" => complete
      BY <1>5, <2>2 DEF Away
    <3>3. QED
      BY <1>9, <3>1, <3>2
  <2>8. gpu'.nvml => "init" \in gpu'.fn
    BY <1>9 DEF Required
  <2>9. held'["nvml.dll"] = Bit(gpu'.nvml)
    <3>1. held["nvml.dll"] = 1
      <4>1. gpu.nvml
        BY <1>1, <2>1 DEF LibrariesRight, m
      <4>2. QED
        BY <2>1, <4>1, BitValue DEF LibrariesRight
    <3>2. CASE complete
      <4>1. Bit(gpu'.nvml) = 1 /\ d = 0
        BY <1>9, <3>2, BitValue
      <4>2. QED
        BY <2>3, <3>1, <4>1
    <3>3. CASE ~complete
      <4>1. Bit(gpu'.nvml) = 0 /\ d = -1
        BY <1>9, <3>3, BitValue
      <4>2. QED
        BY <2>3, <3>1, <4>1
    <3>4. QED
      BY <3>2, <3>3
  <2>10. QED
    BY <2>4, <2>6, <2>7, <2>8, <2>9 DEF LibrariesRight
<1>13. QED
  BY <1>11, <1>12 DEF Balanced

LEMMA AdlLoadKept ==
  ASSUME NEW t \in Thread, WellTyped, Balanced, AdlLoad(t)
  PROVE  WellTyped' /\ Balanced'
<1> DEFINE m == me[t]
           loads == gpu.adl = "none" /\ Has(AdlDll)
           d == IF loads THEN 1 ELSE 0
           n == IF loads THEN [m EXCEPT !.pc = "adl_symbols", !.vals = src[AdlDll]]
                ELSE IF gpu.adl = "none" THEN Done(m, {})
                ELSE [m EXCEPT !.pc = "adl_count"]
<1>1. /\ m.pc = "adl_load" /\ odd' = (odd \/ \E u \in Thread \ {t} : LoadingAdl(u))
      /\ Local(t, n) /\ UNCHANGED <<com, wmi, prev, ledger>>
      /\ gpu' = [gpu EXCEPT !.adl = IF loads THEN "loading" ELSE @]
      /\ held' = [held EXCEPT !["atiadlxx.dll"] = @ + d]
  BY Zenon DEF AdlLoad, At, GpuStep, Taking
<1>2. m.pc \notin AtRest \cup InLife \cup {"nvml_symbols", "adl_symbols"} /\ \A k : ~Holds(m, k)
  BY <1>1 DEF AtRest, InLife, AtRows, AtProcess, AtSession, Holds
<1>3. InTurn(m, AnyReading) /\ Good(m) /\ LocalsOf(m) /\ Bounded(m)
  BY <1>2, MeInTurn DEF Good
<1>4. /\ gpu \in [nvml : BOOLEAN, fn : SUBSET (Required \cup Range(Rows)),
                  adl : {"none", "loading", "ready"}]
      /\ odd \in BOOLEAN
  BY DEF WellTyped, Shared
<1>5. /\ Good(n) /\ n.pc \notin InLife \cup {"nvml_symbols", "nvml_init", "crashed"}
      /\ loads => n.pc = "adl_symbols"
      /\ ~loads => n.pc # "adl_symbols"
      /\ n.pc = "adl_count" => gpu.adl # "none"
      /\ \A k \in Kinds : Holds(n, k) => loads /\ k = "atiadlxx.dll"
  <2>1. CASE loads
    <3>1. n = [m EXCEPT !.pc = "adl_symbols", !.vals = src[AdlDll]]
      BY <2>1
    <3> HIDE DEF m, n
    <3>2. Kept(n, m, Moved) /\ n.pc = "adl_symbols" /\ n.h = m.h /\ n.i = m.i /\ n.todo = m.todo
      BY <1>3, <3>1 DEF Kept, Moved, Locals, LocalsOf
    <3>3. Place(n) /\ \A k : Holds(n, k) <=> k = "atiadlxx.dll"
      BY <1>3, <3>2 DEF InTurn, Place, AtRest, InLife, AtRows, AtDrive, AtProcess, AtSession, Holds
    <3>4. Good(n)
      BY <1>2, <1>3, <3>2, <3>3, MoveGood DEF LocalsOf
    <3>5. QED
      BY <2>1, <3>2, <3>3, <3>4 DEF InLife
  <2>2. CASE ~loads /\ gpu.adl = "none"
    <3>1. n = Done(m, {})
      BY <2>2
    <3>2. Good(n) /\ Away(n)
      BY <1>3, <3>1, DoneGood DEF InTurn
    <3> HIDE DEF n
    <3>3. \A k : ~Holds(n, k)
      BY <3>2, AwayHolds
    <3>4. QED
      BY <2>2, <3>2, <3>3 DEF Away
  <2>3. CASE gpu.adl # "none"
    <3>1. n = [m EXCEPT !.pc = "adl_count"]
      BY <2>3
    <3> HIDE DEF m, n
    <3>2. Kept(n, m, Moved) /\ n.pc = "adl_count" /\ n.h = m.h /\ n.i = m.i /\ n.todo = m.todo
      BY <1>3, <3>1 DEF Kept, Moved, Locals, LocalsOf
    <3>3. Place(n) /\ \A k : ~Holds(n, k)
      BY <1>3, <3>2 DEF InTurn, Place, AtRest, InLife, AtRows, AtDrive, AtProcess, AtSession, Holds
    <3>4. Good(n)
      BY <1>2, <1>3, <3>2, <3>3, MoveGood DEF LocalsOf
    <3>5. QED
      BY <2>3, <3>2, <3>3, <3>4 DEF InLife
  <2>4. QED
    BY <2>1, <2>2, <2>3
<1> HIDE DEF m, n
<1>6. Moves(t, n) /\ me' = [me EXCEPT ![t] = n]
  BY <1>1, <1>2 DEF Local, Moves, m
<1>7. \A k \in Kinds \ {"atiadlxx.dll"} : ~Holds(n, k) /\ ~Holds(me[t], k)
  BY <1>2, <1>5 DEF m
<1>8. d \in Int /\ d >= Bit(Holds(n, "atiadlxx.dll")) - Bit(Holds(me[t], "atiadlxx.dll"))
  <2>1. Bit(Holds(me[t], "atiadlxx.dll")) = 0
    BY <1>2, BitValue DEF m
  <2>2. Bit(Holds(n, "atiadlxx.dll")) \in 0 .. 1 /\ (~loads => Bit(Holds(n, "atiadlxx.dll")) = 0)
    <3>1. ~loads => ~Holds(n, "atiadlxx.dll")
      BY <1>5 DEF Kinds
    <3>2. QED
      BY <3>1, BitValue
  <2>3. QED
    BY <2>1, <2>2
<1>9. /\ gpu'.nvml = gpu.nvml /\ gpu'.fn = gpu.fn
      /\ gpu'.adl = IF loads THEN "loading" ELSE gpu.adl
      /\ gpu' \in [nvml : BOOLEAN, fn : SUBSET (Required \cup Range(Rows)),
                   adl : {"none", "loading", "ready"}]
  <2> DEFINE r == IF loads THEN "loading" ELSE gpu.adl
  <2>1. r \in {"none", "loading", "ready"} /\ gpu' = [gpu EXCEPT !.adl = r]
    BY <1>1, <1>4
  <2> HIDE DEF r
  <2>2. /\ gpu'.nvml = gpu.nvml /\ gpu'.fn = gpu.fn /\ gpu'.adl = r
        /\ gpu' \in [nvml : BOOLEAN, fn : SUBSET (Required \cup Range(Rows)),
                     adl : {"none", "loading", "ready"}]
    BY <1>4, <2>1
  <2>3. QED
    BY <2>2 DEF r
<1>10. odd' \in BOOLEAN /\ (odd => odd')
  BY <1>1, <1>4
<1>11. WellTyped' /\ (~odd' => LifeRight')
  BY <1>1, <1>2, <1>5, <1>6, <1>7, <1>8, <1>9, <1>10, LibraryKept DEF m, OfLibraries
<1>12. ASSUME ~odd' PROVE LibrariesRight'
  <2>1. LibrariesRight /\ \A u \in Thread \ {t} : me[u].pc # "adl_symbols"
    BY <1>1, <1>12 DEF Balanced, LoadingAdl, At
  <2>2. DOMAIN me = Thread /\ me'[t] = n /\ \A u \in Thread \ {t} : me'[u] = me[u]
    BY <1>6 DEF WellTyped
  <2>3. held'["atiadlxx.dll"] = held["atiadlxx.dll"] + d /\ held'["nvml.dll"] = held["nvml.dll"]
        /\ held["atiadlxx.dll"] \in Nat
    BY <1>1 DEF WellTyped, HeldRight, Kinds
  <2>4. gpu.adl # "loading"
    <3>1. \A u \in Thread : me[u].pc # "adl_symbols"
      BY <1>2, <2>1 DEF m
    <3>2. QED
      BY <2>1, <3>1 DEF LibrariesRight
  <2>5. \A u \in Thread \ {t} : me'[u].pc # "adl_symbols"
    BY <2>1, <2>2
  <2>6. \A u, w \in Thread : me'[u].pc = "adl_symbols" /\ me'[w].pc = "adl_symbols" => u = w
    BY <2>5
  <2>7. /\ \A u \in Thread : me'[u].pc = "nvml_symbols" <=> me[u].pc = "nvml_symbols"
        /\ \A u \in Thread : me'[u].pc \in {"nvml_init", "crashed"} => me'[u] = me[u]
    BY <1>2, <1>5, <2>2 DEF m
  <2>8. /\ \A u, w \in Thread : me'[u].pc = "nvml_symbols" /\ me'[w].pc = "nvml_symbols" => u = w
        /\ \A u \in Thread :
             /\ me'[u].pc = "nvml_symbols" => gpu'.nvml
             /\ me'[u].pc = "nvml_init" => gpu'.nvml /\ \A w \in Thread : me'[w].pc # "nvml_symbols"
             /\ me'[u].pc # "crashed"
        /\ gpu'.nvml /\ (\A u \in Thread : me'[u].pc # "nvml_symbols") => "init" \in gpu'.fn
        /\ held'["nvml.dll"] = Bit(gpu'.nvml)
    BY <1>9, <2>1, <2>3, <2>7 DEF LibrariesRight
  <2>9. \A u \in Thread : /\ me'[u].pc = "adl_symbols" => gpu'.adl = "loading"
                          /\ me'[u].pc = "adl_count" => gpu'.adl = "ready"
    <3>1. \A u \in Thread \ {t} : me'[u].pc = "adl_count" => gpu.adl = "ready"
      BY <2>1, <2>2 DEF LibrariesRight
    <3>2. me'[t].pc = "adl_symbols" => loads
      BY <1>5, <2>2
    <3>3. me'[t].pc = "adl_count" => ~loads /\ gpu.adl = "ready"
      BY <1>4, <1>5, <2>2, <2>4
    <3>4. gpu.adl = "ready" => ~loads
      OBVIOUS
    <3>5. QED
      BY <1>9, <2>5, <3>1, <3>2, <3>3, <3>4
  <2>10. gpu'.adl = "loading" => \E u \in Thread : me'[u].pc = "adl_symbols"
    <3>1. loads => me'[t].pc = "adl_symbols"
      BY <1>5, <2>2
    <3>2. QED
      BY <1>9, <2>4, <3>1
  <2>11. held'["atiadlxx.dll"] = Bit(gpu'.adl # "none")
    <3>1. held["atiadlxx.dll"] = Bit(gpu.adl # "none")
      BY <2>1 DEF LibrariesRight
    <3>2. CASE loads
      <4>1. Bit(gpu.adl # "none") = 0 /\ Bit(gpu'.adl # "none") = 1 /\ d = 1
        BY <1>9, <3>2 DEF Bit
      <4>2. QED
        BY <2>3, <3>1, <4>1
    <3>3. CASE ~loads
      <4>1. Bit(gpu'.adl # "none") = Bit(gpu.adl # "none") /\ d = 0
        BY <1>9, <3>3 DEF Bit
      <4>2. QED
        BY <2>3, <3>1, <4>1
    <3>4. QED
      BY <3>2, <3>3
  <2>12. QED
    BY <2>6, <2>8, <2>9, <2>10, <2>11 DEF LibrariesRight
<1>13. QED
  BY <1>11, <1>12 DEF Balanced

LEMMA AdlSymbolsKept ==
  ASSUME NEW t \in Thread, WellTyped, Balanced, AdlSymbols(t)
  PROVE  WellTyped' /\ Balanced'
<1> DEFINE m == me[t]
           works == m.vals = "works"
           d == IF works THEN 0 ELSE -1
           n == IF works THEN [m EXCEPT !.pc = "adl_count"] ELSE Done(m, {})
<1>1. /\ m.pc = "adl_symbols" /\ odd' = odd
      /\ Local(t, n) /\ UNCHANGED <<com, wmi, prev, ledger>>
      /\ gpu' = [gpu EXCEPT !.adl = IF works THEN "ready" ELSE "none"]
      /\ held' = [held EXCEPT !["atiadlxx.dll"] = @ + d]
  BY Zenon DEF AdlSymbols, At, GpuStep, Taking
<1>2. m.pc \notin AtRest \cup InLife /\ \A k : Holds(m, k) <=> k = "atiadlxx.dll"
  BY <1>1 DEF AtRest, InLife, AtRows, AtProcess, AtSession, Holds
<1>3. InTurn(m, AnyReading) /\ Good(m) /\ LocalsOf(m) /\ Bounded(m)
  BY <1>2, MeInTurn DEF Good
<1>4. /\ gpu \in [nvml : BOOLEAN, fn : SUBSET (Required \cup Range(Rows)),
                  adl : {"none", "loading", "ready"}]
      /\ odd \in BOOLEAN
  BY DEF WellTyped, Shared
<1>5. /\ Good(n) /\ n.pc \notin InLife \cup {"nvml_symbols", "nvml_init", "adl_symbols", "crashed"}
      /\ ~works => n.pc # "adl_count"
      /\ \A k : ~Holds(n, k)
  <2>1. CASE works
    <3>1. n = [m EXCEPT !.pc = "adl_count"]
      BY <2>1
    <3> HIDE DEF m, n
    <3>2. Kept(n, m, Moved) /\ n.pc = "adl_count" /\ n.h = m.h /\ n.i = m.i /\ n.todo = m.todo
      BY <1>3, <3>1 DEF Kept, Moved, Locals, LocalsOf
    <3>3. Place(n) /\ \A k : ~Holds(n, k)
      BY <1>3, <3>2 DEF InTurn, Place, AtRest, InLife, AtRows, AtDrive, AtProcess, AtSession, Holds
    <3>4. Good(n)
      BY <1>2, <1>3, <3>2, <3>3, MoveGood DEF LocalsOf
    <3>5. QED
      BY <2>1, <3>2, <3>3, <3>4 DEF InLife
  <2>2. CASE ~works
    <3>1. n = Done(m, {})
      BY <2>2
    <3>2. Good(n) /\ Away(n)
      BY <1>3, <3>1, DoneGood DEF InTurn
    <3> HIDE DEF n
    <3>3. \A k : ~Holds(n, k)
      BY <3>2, AwayHolds
    <3>4. QED
      BY <2>2, <3>2, <3>3 DEF Away
  <2>3. QED
    BY <2>1, <2>2
<1> HIDE DEF m, n
<1>6. Moves(t, n) /\ me' = [me EXCEPT ![t] = n]
  BY <1>1, <1>2 DEF Local, Moves, m
<1>7. \A k \in Kinds \ {"atiadlxx.dll"} : ~Holds(n, k) /\ ~Holds(me[t], k)
  BY <1>2, <1>5 DEF m
<1>8. d \in Int /\ d >= Bit(Holds(n, "atiadlxx.dll")) - Bit(Holds(me[t], "atiadlxx.dll"))
  <2>1. Bit(Holds(me[t], "atiadlxx.dll")) = 1
    BY <1>2, BitValue DEF m
  <2>2. Bit(Holds(n, "atiadlxx.dll")) = 0
    BY <1>5, BitValue
  <2>3. QED
    BY <2>1, <2>2
<1>9. /\ gpu'.nvml = gpu.nvml /\ gpu'.fn = gpu.fn
      /\ gpu'.adl = IF works THEN "ready" ELSE "none"
      /\ gpu' \in [nvml : BOOLEAN, fn : SUBSET (Required \cup Range(Rows)),
                   adl : {"none", "loading", "ready"}]
  <2> DEFINE r == IF works THEN "ready" ELSE "none"
  <2>1. r \in {"none", "loading", "ready"} /\ gpu' = [gpu EXCEPT !.adl = r]
    BY <1>1
  <2> HIDE DEF r
  <2>2. /\ gpu'.nvml = gpu.nvml /\ gpu'.fn = gpu.fn /\ gpu'.adl = r
        /\ gpu' \in [nvml : BOOLEAN, fn : SUBSET (Required \cup Range(Rows)),
                     adl : {"none", "loading", "ready"}]
    BY <1>4, <2>1
  <2>3. QED
    BY <2>2 DEF r
<1>10. odd' \in BOOLEAN /\ (odd => odd')
  BY <1>1, <1>4
<1>11. WellTyped' /\ (~odd' => LifeRight')
  BY <1>1, <1>2, <1>5, <1>6, <1>7, <1>8, <1>9, <1>10, LibraryKept DEF m, OfLibraries
<1>12. ASSUME ~odd' PROVE LibrariesRight'
  <2>1. LibrariesRight
    BY <1>1, <1>12 DEF Balanced
  <2>2. DOMAIN me = Thread /\ me'[t] = n /\ \A u \in Thread \ {t} : me'[u] = me[u]
    BY <1>6 DEF WellTyped
  <2>3. held'["atiadlxx.dll"] = held["atiadlxx.dll"] + d /\ held'["nvml.dll"] = held["nvml.dll"]
    BY <1>1 DEF WellTyped, HeldRight, Kinds
  <2>4. gpu.adl = "loading"
    BY <1>1, <2>1 DEF LibrariesRight, m
  <2>5. \A u \in Thread : me'[u].pc # "adl_symbols"
    <3>1. \A u \in Thread \ {t} : me[u].pc # "adl_symbols"
      BY <1>1, <2>1 DEF LibrariesRight, m
    <3>2. QED
      BY <1>5, <2>2, <3>1
  <2>6. /\ \A u \in Thread : me'[u].pc = "nvml_symbols" <=> me[u].pc = "nvml_symbols"
        /\ \A u \in Thread : me'[u].pc \in {"nvml_init", "crashed"} => me'[u] = me[u]
    BY <1>1, <1>5, <2>2 DEF m
  <2>7. /\ \A u, w \in Thread : me'[u].pc = "nvml_symbols" /\ me'[w].pc = "nvml_symbols" => u = w
        /\ \A u \in Thread :
             /\ me'[u].pc = "nvml_symbols" => gpu'.nvml
             /\ me'[u].pc = "nvml_init" => gpu'.nvml /\ \A w \in Thread : me'[w].pc # "nvml_symbols"
             /\ me'[u].pc # "crashed"
        /\ gpu'.nvml /\ (\A u \in Thread : me'[u].pc # "nvml_symbols") => "init" \in gpu'.fn
        /\ held'["nvml.dll"] = Bit(gpu'.nvml)
    BY <1>9, <2>1, <2>3, <2>6 DEF LibrariesRight
  <2>8. \A u \in Thread : me'[u].pc = "adl_count" => gpu'.adl = "ready"
    <3>1. \A u \in Thread \ {t} : me'[u].pc # "adl_count"
      BY <2>1, <2>2, <2>4 DEF LibrariesRight
    <3>2. me'[t].pc = "adl_count" => works
      BY <1>5, <2>2
    <3>3. QED
      BY <1>9, <3>1, <3>2
  <2>9. gpu'.adl # "loading"
    BY <1>9
  <2>10. held'["atiadlxx.dll"] = Bit(gpu'.adl # "none")
    <3>1. held["atiadlxx.dll"] = 1
      BY <2>1, <2>4 DEF LibrariesRight, Bit
    <3>2. CASE works
      <4>1. Bit(gpu'.adl # "none") = 1 /\ d = 0
        BY <1>9, <3>2 DEF Bit
      <4>2. QED
        BY <2>3, <3>1, <4>1
    <3>3. CASE ~works
      <4>1. Bit(gpu'.adl # "none") = 0 /\ d = -1
        BY <1>9, <3>3 DEF Bit
      <4>2. QED
        BY <2>3, <3>1, <4>1
    <3>4. QED
      BY <3>2, <3>3
  <2>11. QED
    BY <2>5, <2>7, <2>8, <2>9, <2>10 DEF LibrariesRight
<1>13. QED
  BY <1>11, <1>12 DEF Balanced

-----------------------------------------------------------------------------
(* Calls, and the sources. *)

LEMMA ReportReadings ==
  ASSUME NEW v
  PROVE  OfReport(v) \in Seq(AnyReading)
<1> DEFINE a == <<"vendor", "temp", "clock", "cpu_info", "load", "memory", "uptime">>
           b == IF v = "I" THEN Powers ELSE <<>>
           c == <<"fans">>
<1>1. {"vendor", "temp", "clock", "cpu_info", "load", "memory", "uptime", "power", "pp0", "pp1",
       "dram", "fans"} \subseteq AnyReading
  BY DEF AnyReading, Single, Dispatched, IntelOnly, OfWmi
<1>2. a \in Seq(AnyReading)
  BY <1>1
<1>3. b \in Seq(AnyReading)
  <2>1. Powers \in Seq(AnyReading)
    BY <1>1 DEF Powers
  <2>2. QED
    BY <2>1
<1>4. c \in Seq(AnyReading)
  BY <1>1
<1>5. OfReport(v) = a \o b \o c
  BY DEF OfReport
<1> HIDE DEF a, b, c
<1>6. QED
  BY <1>2, <1>3, <1>4, <1>5

LEMMA CallKept ==
  ASSUME NEW t \in Thread, WellTyped, Balanced, Call(t)
  PROVE  WellTyped' /\ Balanced'
<1> DEFINE c == Head(plan[t])
           todo == IF c.call = "hwsense_read_all" THEN OfReport(src[Vendor]) ELSE <<c.call>>
           m == [Idle EXCEPT !.call = c.call, !.max = c.max, !.by = c.by, !.todo = todo,
                             !.before = prev]
           n == Begin(m)
           AnyCall == [call : Single \cup {"hwsense_read_all"}, max : Nat, by : {0, 1}]
<1>1. /\ me[t].pc \in {"idle", "done"} /\ plan[t] # <<>>
      /\ me' = [me EXCEPT ![t] = n]
      /\ plan' = [plan EXCEPT ![t] = Tail(@)]
      /\ moments' = [moments EXCEPT ![t] = {src}]
      /\ UNCHANGED <<src, changes, com, wmi, gpu, prev, held, ledger, odd>>
  BY Zenon DEF Call, statics
<1>2. /\ plan \in [Thread -> Seq(AnyCall)] /\ DOMAIN me = Thread /\ DOMAIN moments = Thread
  BY DEF WellTyped
<1>3. c \in AnyCall /\ Tail(plan[t]) \in Seq(AnyCall)
  <2>1. plan[t] \in Seq(AnyCall)
    BY <1>2
  <2> HIDE DEF AnyCall
  <2>2. QED
    BY <1>1, <2>1
<1>4. todo \in Seq(AnyReading) /\ c.max \in Nat
  <2>1. c.call # "hwsense_read_all" => c.call \in AnyReading
    BY <1>3 DEF AnyReading
  <2>2. c.max \in Nat
    BY <1>3
  <2>3. QED
    BY <2>1, <2>2, ReportReadings
<1>5. Good(n) /\ Away(n)
  <2> HIDE DEF c, todo
  <2>1. DOMAIN m = Locals /\ m.max = c.max /\ m.todo = todo
    BY DEF Idle, Locals
  <2> HIDE DEF m
  <2>2. QED
    BY <1>4, <2>1, BeginGood
<1> HIDE DEF n
<1>6. me'[t] = n /\ \A u \in Thread \ {t} : me'[u] = me[u]
  BY <1>1, <1>2
<1>7. \A k \in Kinds : ~Holds(n, k) /\ ~Holds(me[t], k)
  <2>1. \A k : ~Holds(me[t], k)
    BY <1>1 DEF Holds, AtRows, AtProcess, AtSession
  <2>2. QED
    BY <1>5, <2>1, AwayHolds
<1>8. HeldRight'
  <2>1. Quiet(t, n)
    BY <1>1, <1>7, NothingTaken
  <2>2. QED
    BY <1>1, <2>1, QuietHeld
<1>9. WellTyped'
  <2>1. plan' \in [Thread -> Seq(AnyCall)]
    BY <1>1, <1>2, <1>3
  <2>2. \A u \in Thread : Good(me'[u])
    BY <1>5, <1>6 DEF WellTyped
  <2>3. \A u \in Thread : me'[u].pc \in AtRest \/ src \in moments'[u]
    BY <1>1, <1>2, <1>6 DEF WellTyped
  <2>4. DOMAIN me' = Thread /\ DOMAIN moments' = Thread
    BY <1>1, <1>2
  <2>5. SourcesOfKind'
    BY <1>1 DEF WellTyped, SourcesOfKind
  <2>6. Shared'
    BY <1>1 DEF WellTyped, Shared
  <2>7. QED
    BY <1>1, <1>8, <2>1, <2>2, <2>3, <2>4, <2>5, <2>6 DEF WellTyped
<1>10. ASSUME ~odd' PROVE LifeRight' /\ LibrariesRight'
  <2>1. LifeRight /\ LibrariesRight
    BY <1>1, <1>10 DEF Balanced
  <2>2. me[t].pc \notin InLife \cup {"nvml_symbols", "adl_symbols"}
    BY <1>1 DEF InLife
  <2>3. LifeRight'
    BY <1>1, <1>5, <2>1, <2>2, LifeKept DEF Away
  <2>4. LibrariesRight'
    BY <1>1, <1>5, <2>1, <2>2, LibrariesKept DEF Away
  <2>5. QED
    BY <2>3, <2>4
<1>11. QED
  BY <1>9, <1>10 DEF Balanced

\* What is known of the threads and the statics is about nothing else.
LEMMA StandsStill ==
  ASSUME WellTyped, Balanced, me' = me, UNCHANGED <<com, wmi, gpu, prev, held, ledger, odd>>
  PROVE  HeldRight' /\ Balanced'
<1>1. \A k : Holders(k)' = Holders(k)
  BY DEF Holders, Holds
<1>2. HeldRight'
  BY <1>1 DEF WellTyped, HeldRight
<1>3. LifeRight => LifeRight'
  BY DEF LifeRight
<1>4. LibrariesRight => LibrariesRight'
  BY DEF LibrariesRight
<1>5. QED
  BY <1>2, <1>3, <1>4 DEF Balanced

LEMMA BecomeKept ==
  ASSUME NEW f, WellTyped, Balanced, Become(f),
         f = [p \in DOMAIN f |-> f[p]], \A p \in DOMAIN f : OfKind(p, f[p])
  PROVE  WellTyped' /\ Balanced'
<1>1. /\ changes < MaxChanges /\ src' = f /\ changes' = changes + 1 /\ plan' = plan /\ me' = me
      /\ moments' = [t \in Thread |-> IF Busy(t) THEN moments[t] \cup {f} ELSE moments[t]]
      /\ UNCHANGED <<com, wmi, gpu, prev, held, ledger, odd>>
  BY DEF Become, statics
<1>2. HeldRight' /\ Balanced'
  BY <1>1, StandsStill
<1>3. changes' \in 0 .. MaxChanges
  <2>1. changes \in 0 .. MaxChanges /\ MaxChanges \in Nat
    BY ThreadAssumption DEF WellTyped, Shared
  <2>2. QED
    BY <1>1, <2>1
<1>4. Shared'
  BY <1>1, <1>3 DEF WellTyped, Shared
<1>5. SourcesOfKind'
  BY <1>1 DEF SourcesOfKind
<1>6. \A t \in Thread : me'[t].pc \in AtRest \/ src' \in moments'[t]
  <2> SUFFICES ASSUME NEW t \in Thread, me[t].pc \notin AtRest PROVE f \in moments'[t]
    BY <1>1
  <2>1. Busy(t)
    BY DEF Busy, AtRest
  <2>2. QED
    BY <1>1, <2>1
<1>7. DOMAIN moments' = Thread
  BY <1>1
<1>8. QED
  BY <1>1, <1>2, <1>4, <1>5, <1>6, <1>7 DEF WellTyped

LEMMA DenyKept ==
  ASSUME WellTyped, Balanced, Deny
  PROVE  WellTyped' /\ Balanced'
<1>1. PICK p \in DOMAIN src \ Given : Become([q \in DOMAIN src \ {p} |-> src[q]])
  BY DEF Deny
<1> DEFINE f == [q \in DOMAIN src \ {p} |-> src[q]]
<1>2. f = [q \in DOMAIN f |-> f[q]] /\ \A q \in DOMAIN f : OfKind(q, f[q])
  BY DEF WellTyped, SourcesOfKind
<1> HIDE DEF f
<1>3. Become(f)
  BY <1>1 DEF f
<1>4. QED
  BY <1>2, <1>3, BecomeKept

LEMMA RewriteKept ==
  ASSUME WellTyped, Balanced, Rewrite
  PROVE  WellTyped' /\ Balanced'
<1>1. PICK p \in DOMAIN src : \E c \in New(p, src[p]) : OfKind(p, c) /\ Become([src EXCEPT ![p] = c])
  BY DEF Rewrite
<1>2. PICK c \in New(p, src[p]) : OfKind(p, c) /\ Become([src EXCEPT ![p] = c])
  BY <1>1
<1> DEFINE f == [src EXCEPT ![p] = c]
<1>3. f = [q \in DOMAIN f |-> f[q]] /\ \A q \in DOMAIN f : OfKind(q, f[q])
  <2>1. DOMAIN f = DOMAIN src /\ f = [q \in DOMAIN src |-> f[q]]
    OBVIOUS
  <2>2. f[p] = c /\ \A q \in DOMAIN src \ {p} : f[q] = src[q]
    OBVIOUS
  <2> HIDE DEF f
  <2>3. \A q \in DOMAIN src : OfKind(q, f[q])
    <3> SUFFICES ASSUME NEW q \in DOMAIN src PROVE OfKind(q, f[q])
      OBVIOUS
    <3>1. CASE q = p
      BY <1>2, <2>2, <3>1
    <3>2. CASE q # p
      <4>1. f[q] = src[q] /\ OfKind(q, src[q])
        BY <2>2, <3>2 DEF WellTyped, SourcesOfKind
      <4>2. QED
        BY <4>1
    <3>3. QED
      BY <3>1, <3>2
  <2>4. QED
    BY <2>1, <2>3
<1> HIDE DEF f
<1>4. Become(f)
  BY <1>2 DEF f
<1>5. QED
  BY <1>3, <1>4, BecomeKept

-----------------------------------------------------------------------------
(* The invariant. *)

LEMMA TakenSteps ==
  ASSUME NEW t \in Thread, WellTyped, Balanced,
         \/ Query(t) \/ Statistics(t)
         \/ NvmlInit(t) \/ NvmlDevice(t) \/ NvmlRow(t) \/ NvmlShutdown(t)
         \/ AdlCount(t) \/ AdlTemperature(t)
  PROVE  WellTyped' /\ Balanced'
<1>1. Query(t) => Taken(t)
  BY WmiQueryTaken, WmiNextTaken, WmiRowTaken DEF Query
<1>2. Statistics(t) => Taken(t)
  BY OneCallTaken, LoadSinceTaken, DiskSpaceTaken, DriveOpenTaken, DriveAskTaken,
     TakeSnapshotTaken, ProcessOpenTaken, ProcessRowTaken DEF Statistics
<1>3. NvmlInit(t) \/ NvmlDevice(t) \/ NvmlRow(t) \/ NvmlShutdown(t) => Taken(t)
  BY NvmlInitTaken, NvmlDeviceTaken, NvmlRowTaken, NvmlShutdownTaken
<1>4. AdlCount(t) \/ AdlTemperature(t) => Taken(t)
  BY AdlCountTaken, OneCallTaken
<1>5. Taken(t)
  BY <1>1, <1>2, <1>3, <1>4
<1>6. QED
  BY <1>5, TakenKept

LEMMA InitHolds ==
  ASSUME Init
  PROVE  WellTyped /\ Balanced
<1>1. PICK j \in Job :
        /\ src = j.sources /\ plan = j.calls /\ com = j.com
        /\ me = [t \in Thread |-> Idle]
        /\ wmi = [ready |-> FALSE, locator |-> FALSE, svc |-> {}]
        /\ gpu = [nvml |-> FALSE, fn |-> {}, adl |-> "none"]
        /\ prev = {}
        /\ held = [k \in Kinds |-> 0]
        /\ ledger = [host |-> [t \in Thread |-> j.com[t].count], owner |-> {}]
        /\ moments = [t \in Thread |-> {}]
        /\ changes = 0
        /\ odd = FALSE
  BY DEF Init
<1>2. \A t \in Thread : me[t] = Idle
  BY <1>1
<1>3. Idle.pc = "idle" /\ Good(Idle)
  <2> DEFINE m == Idle
  <2>1. /\ DOMAIN m = Locals /\ m.max = 0 /\ m.todo = <<>> /\ m.pc = "idle"
        /\ m.h = 0 /\ m.i = 0 /\ m.room = 0 /\ m.list = <<>> /\ m.rows = <<>>
    BY DEF Idle, Locals
  <2> HIDE DEF m
  <2>2. LocalsOf(m)
    BY <2>1, EmptyList DEF LocalsOf
  <2>3. Place(m)
    BY <2>1 DEF Place, AtRest, InLife, AtRows, AtDrive, AtProcess
  <2>4. Bounded(m)
    BY <2>1, EmptyList DEF Bounded, AtRest
  <2>5. QED
    BY <2>1, <2>2, <2>3, <2>4 DEF Good, m
<1>4. \A t \in Thread : me[t].pc = "idle"
  BY <1>2, <1>3
<1>5. \A k : Cardinality(Holders(k)) = 0
  <2> SUFFICES ASSUME NEW k PROVE Cardinality(Holders(k)) = 0
    OBVIOUS
  <2>1. Holders(k) = {}
    BY <1>4 DEF Holders, Holds, AtRows, AtProcess, AtSession
  <2>2. QED
    BY <2>1, FS_EmptySet
<1>6. Bit(wmi.locator) = 0 /\ Cardinality(wmi.svc) = 0
  <2>1. wmi.locator = FALSE /\ wmi.svc = {}
    BY <1>1
  <2>2. QED
    BY <2>1, FS_EmptySet DEF Bit
<1>7. HeldRight
  <2>1. held \in [Kinds -> Nat] /\ \A k \in Kinds : held[k] = 0
    <3>1. held = [k \in Kinds |-> 0]
      BY <1>1
    <3>2. QED
      BY <3>1
  <2>2. \A k \in OfCalls : held[k] = Cardinality(Holders(k))
    BY <1>5, <2>1 DEF OfCalls, Kinds
  <2>3. \A k \in {"nvml.dll", "atiadlxx.dll"} : held[k] >= Cardinality(Holders(k))
    BY <1>5, <2>1 DEF Kinds
  <2>4. held["locator"] >= Bit(wmi.locator) /\ held["service"] >= Cardinality(wmi.svc)
    BY <1>6, <2>1 DEF Kinds
  <2>5. QED
    BY <2>1, <2>2, <2>3, <2>4 DEF HeldRight
<1>8. /\ com \in [Thread -> [mode : {"none", "sta", "mta"}, count : Nat]]
      /\ \A t \in Thread : com[t].mode = "none" <=> com[t].count = 0
      /\ plan \in [Thread -> Seq([call : Single \cup {"hwsense_read_all"}, max : Nat, by : {0, 1}])]
      /\ SourcesOfKind
  BY <1>1, JobAssumption DEF SourcesOfKind
<1>9. ledger.host = [t \in Thread |-> com[t].count] /\ ledger.owner = {}
  BY <1>1
<1>10. Shared
  <2>1. ledger \in [host : [Thread -> Nat], owner : SUBSET Thread]
    <3> DEFINE h == [t \in Thread |-> com[t].count]
    <3>1. h \in [Thread -> Nat] /\ ledger = [host |-> h, owner |-> {}]
      BY <1>1, <1>8
    <3> HIDE DEF h
    <3>2. QED
      BY <3>1
  <2>2. IsFiniteSet(prev) /\ Cardinality(prev) <= 1
    BY <1>1, FS_EmptySet
  <2>3. wmi \in [ready : BOOLEAN, locator : BOOLEAN, svc : SUBSET {"ROOT/WMI", "ROOT/CIMV2"}]
    BY <1>1
  <2>4. gpu \in [nvml : BOOLEAN, fn : SUBSET (Required \cup Range(Rows)), adl : {"none", "loading", "ready"}]
    BY <1>1
  <2>5. changes \in 0 .. MaxChanges /\ odd \in BOOLEAN
    <3>1. changes = 0 /\ odd = FALSE /\ MaxChanges \in Nat
      BY <1>1, ThreadAssumption
    <3>2. 0 \in 0 .. MaxChanges
      BY <3>1
    <3>3. QED
      BY <3>1, <3>2, Zenon
  <2>6. QED
    BY <1>8, <2>1, <2>2, <2>3, <2>4, <2>5 DEF Shared
<1>11. WellTyped
  <2>1. DOMAIN me = Thread /\ DOMAIN moments = Thread
    BY <1>1
  <2>2. QED
    BY <1>2, <1>3, <1>4, <1>7, <1>8, <1>10, <2>1 DEF WellTyped, AtRest
<1>12. LifeRight
  <2>1. \A t \in Thread : me[t].pc \notin InLife
    BY <1>4 DEF InLife
  <2>2. \A t \in Thread :
          com[t].count = ledger.host[t] + Bit(me[t].pc \in InLife) + Bit(ledger.owner = {t})
    <3> SUFFICES ASSUME NEW t \in Thread
                 PROVE  com[t].count = ledger.host[t] + Bit(me[t].pc \in InLife) + Bit(ledger.owner = {t})
      OBVIOUS
    <3>1. Bit(me[t].pc \in InLife) = 0
      BY <2>1 DEF Bit
    <3>2. Bit(ledger.owner = {t}) = 0
      <4>1. ~(ledger.owner = {t})
        BY <1>9
      <4>2. QED
        BY <4>1, BitValue
    <3>3. com[t].count \in Nat /\ ledger.host[t] = com[t].count
      BY <1>8, <1>9
    <3>4. QED
      BY <3>1, <3>2, <3>3
  <2>3. held["locator"] = Bit(wmi.locator) /\ held["service"] = Cardinality(wmi.svc)
    BY <1>1, <1>6 DEF Kinds
  <2>4. wmi.ready = FALSE /\ wmi.locator = FALSE /\ wmi.svc = {}
    BY <1>1
  <2>5. QED
    BY <1>9, <2>1, <2>2, <2>3, <2>4 DEF LifeRight, InLife
<1>13. LibrariesRight
  <2>1. gpu.nvml = FALSE /\ gpu.adl = "none"
    BY <1>1
  <2>2. held["nvml.dll"] = Bit(gpu.nvml) /\ held["atiadlxx.dll"] = Bit(gpu.adl # "none")
    BY <1>1, <2>1 DEF Bit, Kinds
  <2>3. QED
    BY <1>4, <2>1, <2>2 DEF LibrariesRight
<1>14. QED
  BY <1>11, <1>12, <1>13 DEF Balanced

LEMMA NextKept ==
  ASSUME WellTyped, Balanced, [Next]_vars
  PROVE  WellTyped' /\ Balanced'
<1>1. CASE UNCHANGED vars
  <2>1. /\ src' = src /\ plan' = plan /\ me' = me /\ moments' = moments /\ changes' = changes
        /\ UNCHANGED <<com, wmi, gpu, prev, held, ledger, odd>>
    BY <1>1 DEF vars
  <2>2. HeldRight' /\ Balanced'
    BY <2>1, StandsStill
  <2>3. SourcesOfKind' /\ Shared'
    BY <2>1 DEF WellTyped, SourcesOfKind, Shared
  <2>4. QED
    BY <2>1, <2>2, <2>3 DEF WellTyped
<1>2. ASSUME NEW t \in Thread, Life(t) PROVE WellTyped' /\ Balanced'
  BY <1>2, ComInitKept, ComSecurityKept, ComCreateKept, WmiConnectKept, WmiShutdownKept DEF Life
<1>3. ASSUME NEW t \in Thread, Graphics(t) PROVE WellTyped' /\ Balanced'
  <2>1. CASE NvmlLoad(t) \/ NvmlSymbols(t) \/ AdlLoad(t) \/ AdlSymbols(t)
    BY <2>1, NvmlLoadKept, NvmlSymbolsKept, AdlLoadKept, AdlSymbolsKept
  <2>2. CASE \/ NvmlInit(t) \/ NvmlDevice(t) \/ NvmlRow(t) \/ NvmlShutdown(t)
             \/ AdlCount(t) \/ AdlTemperature(t)
    BY <2>2, TakenSteps
  <2>3. QED
    BY <1>3, <2>1, <2>2 DEF Graphics
<1>4. ASSUME NEW t \in Thread, Call(t) \/ Life(t) \/ Query(t) \/ Statistics(t) \/ Graphics(t)
      PROVE  WellTyped' /\ Balanced'
  BY <1>2, <1>3, <1>4, CallKept, TakenSteps
<1>5. QED
  BY <1>1, <1>4, DenyKept, RewriteKept DEF Next

LEMMA Inductive == Spec => [](WellTyped /\ Balanced)
<1>1. Init => WellTyped /\ Balanced
  BY InitHolds
<1>2. WellTyped /\ Balanced /\ [Next]_vars => (WellTyped /\ Balanced)'
  BY NextKept
<1>3. QED
  BY <1>1, <1>2, PTL DEF Spec

LEMMA MaxOfThree ==
  ASSUME NEW a \in Nat, NEW b \in Nat, NEW c \in Nat
  PROVE  /\ Max({a, b, c}) \in Nat
         /\ Max({a, b, c}) >= a /\ Max({a, b, c}) >= b /\ Max({a, b, c}) >= c
<1>1. \E y \in {a, b, c} : \A z \in {a, b, c} : y >= z
  <2>1. CASE a >= b /\ a >= c
    BY <2>1
  <2>2. CASE b >= a /\ b >= c
    BY <2>2
  <2>3. CASE c >= a /\ c >= b
    BY <2>3
  <2>4. QED
    BY <2>1, <2>2, <2>3
<1>2. /\ Max({a, b, c}) \in {a, b, c}
      /\ Max({a, b, c}) >= a /\ Max({a, b, c}) >= b /\ Max({a, b, c}) >= c
  BY <1>1 DEF Max
<1>3. QED
  BY <1>2

\* Every index, list, counter and static stays within its range at every call to the
\* system that every reader makes, and no list grows past the room of the caller's buffer.
THEOREM TypeCorrect == Spec => []TypeOK
<1>1. WellTyped => TypeOK
  <2> SUFFICES ASSUME WellTyped PROVE TypeOK
    OBVIOUS
  <2>1. ASSUME NEW t \in Thread
        PROVE  /\ me[t].todo \in Seq(Single \cup {"vendor"})
               /\ me[t].h \in 0 .. Max({DriveMax, LetterMax, me[t].max})
               /\ me[t].i \in 0 .. Max({Len(me[t].rows) + 1, Len(Rows)})
               /\ me[t].room \in 0 .. Max({FirstChunk, 2 * Len(me[t].list)})
               /\ Busy(t) => Len(me[t].list) <= Room(me[t])
               /\ me[t].pc \in {"idle", "done", "crashed"} \/ src \in moments[t]
               /\ com[t] \in [mode : {"none", "sta", "mta"}, count : Nat]
               /\ com[t].mode = "none" <=> com[t].count = 0
    <3> DEFINE m == me[t]
               a == Len(m.rows)
               b == Len(m.list)
               l == Len(Rows)
    <3>1. LocalsOf(m) /\ Bounded(m)
      BY DEF WellTyped, Good
    <3>2. a \in Nat /\ b \in Nat
      BY <3>1 DEF LocalsOf, IsSequence
    <3>3. l \in Nat
      BY RowLimits
    <3>4. m.h \in 0 .. Max({DriveMax, LetterMax, m.max})
      <4> DEFINE x == m.h
                 y == m.max
                 M == Max({DriveMax, LetterMax, y})
      <4>1. x \in Nat /\ (x <= DriveMax \/ x <= LetterMax \/ x <= y) /\ y \in Nat
        BY <3>1 DEF LocalsOf, Bounded
      <4>2. DriveMax \in Nat /\ LetterMax \in Nat
        OBVIOUS
      <4> HIDE DEF x, y
      <4>3. M \in Nat /\ M >= DriveMax /\ M >= LetterMax /\ M >= y
        BY <4>1, <4>2, MaxOfThree
      <4> HIDE DEF M
      <4>4. x \in 0 .. M
        BY <4>1, <4>2, <4>3
      <4>5. QED
        BY <4>4 DEF x, y, M
    <3>5. m.i \in 0 .. Max({a + 1, l})
      <4> DEFINE x == m.i
                 M == Max({a + 1, l})
      <4>1. x \in Nat /\ (x <= a + 1 \/ x <= l)
        BY <3>1 DEF LocalsOf, Bounded
      <4> HIDE DEF x, a, l
      <4>2. M \in {a + 1, l} /\ M >= a + 1 /\ M >= l
        BY <3>2, <3>3, MaxOfTwo
      <4> HIDE DEF M
      <4>3. x \in 0 .. M
        BY <3>2, <3>3, <4>1, <4>2
      <4>4. QED
        BY <4>3 DEF x, M
    <3>6. m.room \in 0 .. Max({FirstChunk, 2 * b})
      <4> DEFINE x == m.room
                 M == Max({FirstChunk, 2 * b})
      <4>1. x \in Nat /\ (x <= FirstChunk \/ x <= 2 * b) /\ FirstChunk \in Nat
        BY <3>1 DEF LocalsOf, Bounded
      <4> HIDE DEF x, b
      <4>2. M \in {FirstChunk, 2 * b} /\ M >= FirstChunk /\ M >= 2 * b
        BY <3>2, <4>1, MaxOfTwo
      <4> HIDE DEF M
      <4>3. x \in 0 .. M
        BY <3>2, <4>1, <4>2
      <4>4. QED
        BY <4>3 DEF x, M
    <3>7. Busy(t) => Len(m.list) <= Room(m)
      BY <3>1 DEF Bounded, Busy, AtRest
    <3>8. m.pc \in {"idle", "done", "crashed"} \/ src \in moments[t]
      BY DEF WellTyped, AtRest
    <3>9. m.todo \in Seq(Single \cup {"vendor"})
      BY <3>1 DEF LocalsOf, AnyReading
    <3>10. com[t] \in [mode : {"none", "sta", "mta"}, count : Nat] /\ (com[t].mode = "none" <=> com[t].count = 0)
      BY DEF WellTyped, Shared
    <3>11. QED
      BY <3>4, <3>5, <3>6, <3>7, <3>8, <3>9, <3>10
  <2>2. wmi \in [ready : BOOLEAN, locator : BOOLEAN, svc : SUBSET Range(HomeOf)]
    <3>1. {"ROOT/WMI", "ROOT/CIMV2"} \subseteq Range(HomeOf)
      <4>1. {"zones", "probes"} \subseteq DOMAIN HomeOf /\ HomeOf["zones"] = "ROOT/WMI" /\ HomeOf["probes"] = "ROOT/CIMV2"
        BY DEF HomeOf
      <4>2. QED
        BY <4>1 DEF Range
    <3>2. QED
      BY <3>1 DEF WellTyped, Shared
  <2>3. /\ gpu.fn \subseteq Required \cup Range(Rows)
        /\ gpu.nvml \in BOOLEAN /\ gpu.adl \in {"none", "loading", "ready"}
        /\ Cardinality(prev) <= 1
        /\ held \in [Kinds -> Nat]
        /\ changes \in 0 .. MaxChanges
    BY DEF WellTyped, Shared, HeldRight
  <2>4. QED
    BY <2>1, <2>2, <2>3 DEF TypeOK
<1>2. QED
  BY <1>1, Inductive, PTL

\* Whatever fails on the way, and wherever a reader returns early: once nobody is in a call,
\* the library holds of the system what its own statics say and no more, and no call went
\* through a pointer that is NULL.
THEOREM LeftAsFound == Spec => []LeavesAsFound
<1>1. WellTyped /\ Balanced => LeavesAsFound
  <2> SUFFICES ASSUME WellTyped, Balanced, ~odd PROVE
        /\ \A t \in Thread : ~At(t, "crashed")
        /\ (\A t \in Thread : ~Busy(t)) =>
             /\ \A t \in Thread :
                  com[t].count = ledger.host[t] + (IF wmi.ready /\ ledger.owner = {t} THEN 1 ELSE 0)
             /\ wmi.locator <=> wmi.ready
             /\ held = [k \in Kinds |->
                          CASE k = "locator" -> IF wmi.locator THEN 1 ELSE 0
                            [] k = "service" -> Cardinality(wmi.svc)
                            [] k = "nvml.dll" -> IF gpu.nvml THEN 1 ELSE 0
                            [] k = "atiadlxx.dll" -> IF gpu.adl # "none" THEN 1 ELSE 0
                            [] OTHER -> 0]
    BY DEF LeavesAsFound
  <2>1. LifeRight /\ LibrariesRight
    BY DEF Balanced
  <2>2. \A t \in Thread : ~At(t, "crashed")
    BY <2>1 DEF LibrariesRight, At
  <2>3. ASSUME \A t \in Thread : ~Busy(t)
        PROVE  /\ \A t \in Thread :
                    com[t].count = ledger.host[t] + (IF wmi.ready /\ ledger.owner = {t} THEN 1 ELSE 0)
               /\ wmi.locator <=> wmi.ready
               /\ held = [k \in Kinds |->
                            CASE k = "locator" -> IF wmi.locator THEN 1 ELSE 0
                              [] k = "service" -> Cardinality(wmi.svc)
                              [] k = "nvml.dll" -> IF gpu.nvml THEN 1 ELSE 0
                              [] k = "atiadlxx.dll" -> IF gpu.adl # "none" THEN 1 ELSE 0
                              [] OTHER -> 0]
    <3>1. \A t \in Thread : me[t].pc \in AtRest
      BY <2>3 DEF Busy, AtRest
    <3>2. \A t \in Thread : me[t].pc \notin InLife
      BY <3>1 DEF AtRest, InLife
    <3>3. \A k : Cardinality(Holders(k)) = 0
      <4> SUFFICES ASSUME NEW k PROVE Cardinality(Holders(k)) = 0
        OBVIOUS
      <4>1. Holders(k) = {}
        BY <3>1 DEF Holders, Holds, AtRest, AtRows, AtProcess, AtSession
      <4>2. QED
        BY <4>1, FS_EmptySet
    <3>4. \A t \in Thread :
            com[t].count = ledger.host[t] + (IF wmi.ready /\ ledger.owner = {t} THEN 1 ELSE 0)
      <4> SUFFICES ASSUME NEW t \in Thread
                   PROVE  com[t].count = ledger.host[t] + (IF wmi.ready /\ ledger.owner = {t} THEN 1 ELSE 0)
        OBVIOUS
      <4> DEFINE a == com[t].count
                 b == ledger.host[t]
                 x == Bit(ledger.owner = {t})
                 y == IF wmi.ready /\ ledger.owner = {t} THEN 1 ELSE 0
      <4>1. Bit(me[t].pc \in InLife) = 0
        BY <3>2 DEF Bit
      <4>2. a = b + 0 + x
        BY <2>1, <4>1 DEF LifeRight
      <4>3. x \in 0 .. 1
        BY BitValue
      <4>4. b \in Nat
        BY DEF WellTyped, Shared
      <4>5. x = y
        <5>1. ledger.owner = {t} => wmi.ready
          BY <2>1 DEF LifeRight
        <5>2. QED
          BY <5>1 DEF Bit
      <4> HIDE DEF a, b, x, y
      <4>6. a = b + y
        BY <4>2, <4>3, <4>4, <4>5
      <4>7. QED
        BY <4>6 DEF a, b, y
    <3>5. wmi.locator <=> wmi.ready
      BY <2>1, <3>2 DEF LifeRight
    <3>6. /\ held["locator"] = IF wmi.locator THEN 1 ELSE 0
          /\ held["service"] = Cardinality(wmi.svc)
          /\ held["nvml.dll"] = IF gpu.nvml THEN 1 ELSE 0
          /\ held["atiadlxx.dll"] = IF gpu.adl # "none" THEN 1 ELSE 0
      BY <2>1 DEF LifeRight, LibrariesRight, Bit
    <3>7. \A k \in OfCalls : held[k] = 0
      BY <3>3 DEF WellTyped, HeldRight
    <3>8. held \in [Kinds -> Nat]
      BY DEF WellTyped, HeldRight
    <3>9. held = [k \in Kinds |->
                    CASE k = "locator" -> IF wmi.locator THEN 1 ELSE 0
                      [] k = "service" -> Cardinality(wmi.svc)
                      [] k = "nvml.dll" -> IF gpu.nvml THEN 1 ELSE 0
                      [] k = "atiadlxx.dll" -> IF gpu.adl # "none" THEN 1 ELSE 0
                      [] OTHER -> 0]
      <4> DEFINE a == IF wmi.locator THEN 1 ELSE 0
                 b == Cardinality(wmi.svc)
                 c == IF gpu.nvml THEN 1 ELSE 0
                 d == IF gpu.adl # "none" THEN 1 ELSE 0
      <4>1. /\ held["locator"] = a /\ held["service"] = b /\ held["nvml.dll"] = c
            /\ held["atiadlxx.dll"] = d
        BY <3>6
      <4> HIDE DEF a, b, c, d
      <4>2. \A k \in Kinds : held[k] = CASE k = "locator" -> a
                                         [] k = "service" -> b
                                         [] k = "nvml.dll" -> c
                                         [] k = "atiadlxx.dll" -> d
                                         [] OTHER -> 0
        BY <3>7, <4>1 DEF Kinds, OfCalls
      <4>3. held = [k \in Kinds |-> CASE k = "locator" -> a
                                      [] k = "service" -> b
                                      [] k = "nvml.dll" -> c
                                      [] k = "atiadlxx.dll" -> d
                                      [] OTHER -> 0]
        BY <3>8, <4>2
      <4>4. QED
        BY <4>3 DEF a, b, c, d
    <3>10. QED
      BY <3>4, <3>5, <3>9
  <2>4. QED
    BY <2>2, <2>3
<1>2. QED
  BY <1>1, Inductive, PTL
=============================================================================
