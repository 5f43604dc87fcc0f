--------------------------- MODULE WindowsSensors ---------------------------
(***************************************************************************)
(* The Windows readers, one step per call to the system or a library: what *)
(* each reading is for a machine that stands still is in WindowsSources,   *)
(* and the machine changes while a call is under way.                      *)
(*                                                                         *)
(* me[t] holds the locals of thread t.  A call is a sequence of readings,  *)
(* one for most functions, all of them for hwsense_read_all; each reading  *)
(* ends in Done, which stores it and starts the next.                      *)
(***************************************************************************)
EXTENDS WindowsSources

CONSTANTS
  Thread,
  Job,          \* what a behaviour starts from: sources, COM, the calls of each thread
  New(_, _),    \* what a source may change to, given its contents
  MaxChanges,   \* changes of the sources in a behaviour
  Leftover      \* what memory that was not written may hold

OfWmi == {"zones", "cpu_info", "fans", "voltages"}
OfLife == {"init", "shutdown"}
Powers == <<"power", "pp0", "pp1", "dram">>

\* The readings of hwsense_read_all on a processor of vendor v; every other
\* call is one reading.
OfReport(v) ==
  <<"vendor", "temp", "clock", "cpu_info", "load", "memory", "uptime">>
    \o (IF v = "I" THEN Powers ELSE <<>>) \o <<"fans">>

Single == Dispatched \cup OfWmi \cup OfLife \cup
  {"load", "load_since", "memory", "uptime", "disks", "disk_io", "net", "processes",
   "drive_temp", "gpu_temp", "gpu_info"}

ASSUME ThreadAssumption == IsFiniteSet(Thread) /\ MaxChanges \in Nat

\* A behaviour starts from sources with contents of their kind.
ASSUME JobAssumption ==
  \A j \in Job :
    /\ j.calls \in [Thread -> Seq([call : Single \cup {"hwsense_read_all"}, max : Nat, by : {0, 1}])]
    /\ j.com \in [Thread -> [mode : {"none", "sta", "mta"}, count : Nat]]
    /\ \A t \in Thread : j.com[t].mode = "none" <=> j.com[t].count = 0
    /\ j.sources = [p \in DOMAIN j.sources |-> j.sources[p]]
    /\ \A p \in DOMAIN j.sources : OfKind(p, j.sources[p])

\* Where a reading starts.
Entry(r) ==
  CASE r \in Dispatched -> "dispatch"
    [] r \in OfWmi -> "wmi_query"
    [] r \in {"disk_io", "drive_temp"} -> "drive_open"
    [] r \in {"gpu_temp", "gpu_info"} -> "nvml_load"
    [] OTHER -> r

VARIABLES
  src,      \* the sources that answer, with what they answer
  plan,     \* the calls each thread has still to make
  me,       \* locals
  com,      \* COM of each thread: its apartment, and how often it is initialised
  wmi,      \* the statics of wmi.c: initialised, the locator, the services
  gpu,      \* the statics of gpu.c: libraries, the functions of NVML
  prev,     \* the static sample of win_get_cpu_load
  held,     \* what the library holds of the system, by kind
  ledger,   \* history: the host's initialisations of COM, and who did wmi_init
  moments,  \* history: per thread, the sources there have been since its call began
  changes,  \* how often the sources have changed
  odd       \* history: a use that the library does not provide for

vars == <<src, plan, me, com, wmi, gpu, prev, held, ledger, moments, changes, odd>>
statics == <<com, wmi, gpu, prev, held, ledger, odd>>

Kinds == {"locator", "service", "enumerator", "object", "drive", "snapshot", "process",
          "nvml_session", "nvml.dll", "atiadlxx.dll"}

Busy(t) == me[t].pc \notin {"idle", "done", "crashed"}
Reading(m) == Head(m.todo)

\* The entries that the buffer in turn has room for.
Room(m) == CASE Reading(m) = "cpu_info" -> 1
             [] Reading(m) = "processes" -> m.room
             [] Reading(m) = "fans" /\ m.call = "hwsense_read_all" -> FanMax
             [] OTHER -> m.max

TypeOK ==
  /\ \A t \in Thread :
       /\ me[t].todo \in Seq(Single \cup {"vendor"})
       /\ me[t].h \in 0 .. Max({DriveMax, LetterMax, me[t].max})
       /\ me[t].i \in 0 .. Max({Len(me[t].rows) + 1, Len(Rows)})
       /\ me[t].room \in 0 .. Max({FirstChunk, 2 * Len(me[t].list)})
       /\ Busy(t) => Len(me[t].list) <= Room(me[t])
       /\ me[t].pc \in {"idle", "done", "crashed"} \/ src \in moments[t]
       /\ com[t] \in [mode : {"none", "sta", "mta"}, count : Nat]
       /\ com[t].mode = "none" <=> com[t].count = 0
  /\ wmi \in [ready : BOOLEAN, locator : BOOLEAN, svc : SUBSET Range(HomeOf)]
  /\ gpu.fn \subseteq Required \cup Range(Rows)
  /\ gpu.nvml \in BOOLEAN /\ gpu.adl \in {"none", "loading", "ready"}
  /\ Cardinality(prev) <= 1
  /\ held \in [Kinds -> Nat]
  /\ changes \in 0 .. MaxChanges

Idle == [pc |-> "idle", call |-> "init", max |-> 0, by |-> 0, todo |-> <<>>, data |-> <<>>,
         h |-> 0, i |-> 0, type |-> "none", list |-> <<>>, rows |-> <<>>, name |-> {},
         vals |-> <<>>, room |-> 0, used |-> <<>>, before |-> {}]

Init ==
  \E j \in Job :
    /\ src = j.sources /\ plan = j.calls /\ com = j.com
    /\ me = [t \in Thread |-> Idle]
    /\ wmi = [ready |-> FALSE, locator |-> FALSE, svc |-> {}]
    /\ gpu = [nvml |-> FALSE, fn |-> {}, adl |-> "none"]
    /\ prev = {}
    /\ held = [k \in Kinds |-> 0]
    /\ ledger = [host |-> [t \in Thread |-> j.com[t].count], owner |-> {}]
    /\ moments = [t \in Thread |-> {}]
    /\ changes = 0
    /\ odd = FALSE

-----------------------------------------------------------------------------
(* The environment. *)

Become(f) ==
  /\ changes < MaxChanges /\ \E t \in Thread : Busy(t)
  /\ f # src
  /\ src' = f
  /\ moments' = [t \in Thread |-> IF Busy(t) THEN moments[t] \cup {f} ELSE moments[t]]
  /\ changes' = changes + 1
  /\ UNCHANGED <<plan, me, statics>>

\* What does not come and go: the processor, the caller's handle, the clock.
Given == {Vendor, Driver, Ticks}

\* A source fails from now on, or answers otherwise of its kind.
Deny == \E p \in DOMAIN src \ Given : Become([q \in DOMAIN src \ {p} |-> src[q]])
Rewrite ==
  \E p \in DOMAIN src : \E c \in New(p, src[p]) : OfKind(p, c) /\ Become([src EXCEPT ![p] = c])

-----------------------------------------------------------------------------
(* Calls and readings. *)

At(t, label) == me[t].pc = label
Has(p) == p \in DOMAIN src
Begin(m) ==
  LET n == [m EXCEPT !.h = 0, !.i = 0, !.list = <<>>, !.rows = <<>>, !.name = {},
                     !.vals = <<>>, !.room = 0]
  IN  IF n.todo = <<>> THEN [n EXCEPT !.pc = "done"]
      ELSE [n EXCEPT !.pc = Entry(Reading(n)),
                     !.type = CASE Reading(n) = "disk_io" -> "counters"
                                [] Reading(n) = "drive_temp" -> "smart"
                                [] OTHER -> Reading(n)]

\* What hwsense_read_all makes of a reading: zeros for most of what cannot be
\* read, -1 for a power, and of each fan its speed.
Stored(r, v) ==
  CASE r \in {"temp", "load"} -> Else(v, {0})
    [] r = "clock" -> IF \E x \in v : x > 0 THEN v ELSE {0}
    [] r \in Range(Powers) -> Else(v, {-1})
    [] r = "memory" -> Else(v, {[total |-> 0, used |-> 0, percent |-> 0]})
    [] r = "cpu_info" -> {[i \in DOMAIN x |-> [x[i] EXCEPT !.voltage = IF @ > 0 THEN @ ELSE 0]] :
                            x \in v}
    [] OTHER -> v

\* The reading in turn is v.
Done(m, v) ==
  LET w == IF m.call = "hwsense_read_all" THEN Stored(Reading(m), v) ELSE v
  IN  Begin([m EXCEPT !.data = With(@, Reading(m), w), !.todo = Tail(@)])

Call(t) ==
  /\ me[t].pc \in {"idle", "done"} /\ plan[t] # <<>>
  /\ LET c == Head(plan[t])
         todo == IF c.call = "hwsense_read_all" THEN OfReport(src[Vendor]) ELSE <<c.call>>
     IN  me' = [me EXCEPT ![t] = Begin([Idle EXCEPT !.call = c.call, !.max = c.max, !.by = c.by,
                                                    !.todo = todo, !.before = prev])]
  /\ plan' = [plan EXCEPT ![t] = Tail(@)]
  /\ moments' = [moments EXCEPT ![t] = {src}]
  /\ UNCHANGED <<src, changes, statics>>

Local(t, m) ==
  /\ me' = [me EXCEPT ![t] = m]
  /\ UNCHANGED <<src, plan, moments, changes>>

Step(t, m) == Local(t, m) /\ UNCHANGED statics

\* A step that takes or gives back something of kind k.
Taking(k, n) == held' = [held EXCEPT ![k] = @ + n]
Holding(t, m, k, n) ==
  Local(t, m) /\ Taking(k, n) /\ UNCHANGED <<com, wmi, gpu, prev, ledger, odd>>

-----------------------------------------------------------------------------
(* wmi_init and wmi_shutdown. *)

Inside(u, S) == Busy(u) /\ Reading(me[u]) \in S
OtherIn(t, S) == \E u \in Thread \ {t} : Inside(u, S)

Uninitialized(c) ==
  IF c.count <= 1 THEN [mode |-> "none", count |-> 0] ELSE [c EXCEPT !.count = @ - 1]

LifeStep(t, m) == Local(t, m) /\ UNCHANGED <<gpu, prev>>

\* A thread in a single-threaded apartment keeps it, and nothing is counted:
\* wmi_init goes on as if it had been.
ComInit(t) ==
  /\ At(t, "init")
  /\ odd' = (odd \/ OtherIn(t, OfWmi \cup OfLife) \/ (~wmi.ready /\ com[t].mode = "sta"))
  /\ IF wmi.ready \/ (com[t].mode # "sta" /\ ~Has(ComLibrary))
     THEN LifeStep(t, Done(me[t], {})) /\ UNCHANGED com
     ELSE /\ LifeStep(t, [me[t] EXCEPT !.pc = "com_security"])
          /\ com' = IF com[t].mode = "sta" THEN com
                    ELSE [com EXCEPT ![t] = [mode |-> "mta", count |-> @.count + 1]]
  /\ UNCHANGED <<wmi, held, ledger>>

GiveUp(t) ==
  /\ LifeStep(t, Done(me[t], {}))
  /\ com' = [com EXCEPT ![t] = Uninitialized(@)]
  /\ UNCHANGED <<wmi, held, ledger, odd>>

ComSecurity(t) ==
  /\ At(t, "com_security")
  /\ IF Has(Security) THEN Step(t, [me[t] EXCEPT !.pc = "com_create"]) ELSE GiveUp(t)

\* Mutant: the failure of CoCreateInstance leaves COM initialised.
ComCreateKeepsCom(t) ==
  /\ At(t, "com_create")
  /\ IF ~Has(Locator) THEN Step(t, Done(me[t], {}))
     ELSE /\ LifeStep(t, [me[t] EXCEPT !.pc = "wmi_connect", !.type = "ROOT/WMI"])
          /\ wmi' = [wmi EXCEPT !.locator = TRUE]
          /\ Taking("locator", 1)
          /\ UNCHANGED <<com, ledger, odd>>

ComCreate(t) ==
  /\ At(t, "com_create")
  /\ IF ~Has(Locator) THEN GiveUp(t)
     ELSE /\ LifeStep(t, [me[t] EXCEPT !.pc = "wmi_connect", !.type = "ROOT/WMI"])
          /\ wmi' = [wmi EXCEPT !.locator = TRUE]
          /\ Taking("locator", 1)
          /\ UNCHANGED <<com, ledger, odd>>

\* A namespace that cannot be connected to is left out.
WmiConnect(t) ==
  /\ At(t, "wmi_connect")
  /\ LET ns == me[t].type
         there == Has(Namespace(ns))
         last == ns = "ROOT/CIMV2"
     IN  /\ wmi' = [wmi EXCEPT !.svc = IF there THEN @ \cup {ns} ELSE @ \ {ns},
                               !.ready = @ \/ last]
         /\ Taking("service", IF there THEN 1 ELSE 0)
         /\ LifeStep(t, IF last THEN Done(me[t], {}) ELSE [me[t] EXCEPT !.type = "ROOT/CIMV2"])
         /\ ledger' = IF last THEN [ledger EXCEPT !.owner = {t}] ELSE ledger
  /\ UNCHANGED <<com, odd>>

\* Everything is released, and COM uninitialised whoever initialised it.
WmiShutdown(t) ==
  /\ At(t, "shutdown")
  /\ LifeStep(t, Done(me[t], {}))
  /\ odd' = (odd \/ ledger.owner # {t} \/ OtherIn(t, OfWmi \cup OfLife))
  /\ held' = [held EXCEPT !["service"] = @ - Cardinality(wmi.svc),
                          !["locator"] = @ - (IF wmi.locator THEN 1 ELSE 0)]
  /\ wmi' = [ready |-> FALSE, locator |-> FALSE, svc |-> {}]
  /\ com' = [com EXCEPT ![t] = Uninitialized(@)]
  /\ ledger' = [ledger EXCEPT !.owner = {}]

-----------------------------------------------------------------------------
(* Queries.  m.type is the class in turn. *)

\* Without thermal zones the probes are asked.
AfterClass(m) ==
  IF m.type = "zones" /\ m.list = <<>> THEN [m EXCEPT !.pc = "wmi_query", !.type = "probes"]
  ELSE Done(m, {m.list})

Services == IF wmi.ready THEN wmi.svc ELSE {}

WmiQuery(t) ==
  /\ At(t, "wmi_query")
  /\ LET m == [me[t] EXCEPT !.used = With(@, Reading(me[t]), Services)]
         c == Class(m.type)
         found == HomeOf[m.type] \in Services /\ Has(c)
     IN  /\ Local(t, IF found THEN [m EXCEPT !.pc = "wmi_next", !.rows = src[c], !.i = 0]
                     ELSE AfterClass(m))
         /\ Taking("enumerator", IF found THEN 1 ELSE 0)
  /\ odd' = (odd \/ OtherIn(t, OfLife))
  /\ UNCHANGED <<com, wmi, gpu, prev, ledger>>

\* Mutant: the rows are not counted.
WmiNextOverruns(t) ==
  /\ At(t, "wmi_next")
  /\ LET m == me[t]
     IN  IF m.i < Len(m.rows) /\ Has(Class(m.type))
         THEN Holding(t, [m EXCEPT !.pc = "wmi_row", !.i = @ + 1], "object", 1)
         ELSE Holding(t, AfterClass(m), "enumerator", -1)

WmiNext(t) ==
  /\ At(t, "wmi_next")
  /\ LET m == me[t]
     IN  IF Len(m.list) < Room(m) /\ m.i < Len(m.rows) /\ Has(Class(m.type))
         THEN Holding(t, [m EXCEPT !.pc = "wmi_row", !.i = @ + 1], "object", 1)
         ELSE Holding(t, AfterClass(m), "enumerator", -1)

\* A property that is missing, or not of the type the code takes, leaves its
\* field as it was: g, or for a name that of the probe passed over before.
\* The speed is taken whatever its type.
FieldValue(m, row, field, g) ==
  CASE Typed(row, field) -> Scaled(m.type, field, IF TypeOf(field) = "I4" THEN IVal(row[field].val)
                                                  ELSE row[field].val)
    [] ~Typed(row, field) /\ field = "active" /\ field \in DOMAIN row -> 0
    [] ~Typed(row, field) /\ field = "name" -> Max(Else(m.name, {g}))
    [] OTHER -> g

WmiRow(t) ==
  /\ At(t, "wmi_row")
  /\ \E g \in Leftover :
       LET m == me[t]
           row == m.rows[m.i]
           e == [field \in FieldsOf[m.type] |-> FieldValue(m, row, field, g)]
           n == IF Counted(m.type, row) THEN [m EXCEPT !.list = Append(@, e), !.name = {}]
                ELSE IF Typed(row, "name") THEN [m EXCEPT !.name = {row["name"].val}] ELSE m
       IN  Holding(t, [n EXCEPT !.pc = "wmi_next"], "object", -1)

-----------------------------------------------------------------------------
(* Dispatch and statistics: one call to the system each. *)

Dispatch(t) ==
  At(t, "dispatch") /\ Step(t, Done(me[t], OfProcessor(src, Reading(me[t]))))

DetectVendor(t) == At(t, "vendor") /\ Step(t, Done(me[t], {src[Vendor]}))
MemoryUse(t) == At(t, "memory") /\ Step(t, Done(me[t], {Used(s) : s \in Read(src, MemoryStatus)}))
ReadUptime(t) == At(t, "uptime") /\ Step(t, Done(me[t], {Uptime(src[Ticks])}))
NetIo(t) == At(t, "net") /\ Step(t, Done(me[t], Adapters(src, me[t].max)))

\* win_get_cpu_load_sampled, and the same against the sample of the call before.
LoadFirst(t) ==
  /\ At(t, "load")
  /\ Step(t, IF Has(Times) THEN [me[t] EXCEPT !.pc = "load_second", !.vals = src[Times]]
             ELSE Done(me[t], {}))

LoadSecond(t) ==
  /\ At(t, "load_second")
  /\ Step(t, Done(me[t], {Share(me[t].vals, b) : b \in Read(src, Times)}))

LoadSince(t) ==
  /\ At(t, "load_since")
  /\ Local(t, Done(me[t], {IF prev = {} THEN 0 ELSE Max({Share(a, b) : a \in prev}) :
                             b \in Read(src, Times)}))
  /\ prev' = Else(Read(src, Times), prev)
  /\ UNCHANGED <<com, wmi, gpu, held, ledger, odd>>

DiskSpace(t) ==
  /\ At(t, "disks")
  /\ LET m == me[t]
         l == m.h + 1
         n == IF Len(m.list) < m.max /\ Has(Letter(l))
              THEN [m EXCEPT !.list = Append(@, Disk(l, src[Letter(l)]))] ELSE m
     IN  Step(t, IF l < LetterMax /\ Len(n.list) < m.max THEN [n EXCEPT !.h = @ + 1]
                 ELSE Done(n, {n.list}))

-----------------------------------------------------------------------------
(* Drives: one is opened, asked and closed at a time. *)

NextCounters(m) ==
  IF m.h + 1 < m.max THEN [m EXCEPT !.pc = "drive_open", !.h = @ + 1] ELSE Done(m, {m.list})

\* Mutant: the drives after the first that was asked are not reached.
NextDriveStops(m) == Done(m, {})

NextDrive(m) ==
  IF m.h + 1 < DriveMax THEN [m EXCEPT !.pc = "drive_open", !.h = @ + 1, !.type = "smart"]
  ELSE Done(m, {})

\* hwsense_nvme_temperature_full takes IDENTIFY where SMART has nothing.
AfterDrive(m, answer) ==
  LET temps == CASE m.type = "smart" -> UNION {SmartTemp(x) : x \in answer}
                 [] m.type = "identify" -> UNION {IdentifyTemp(x) : x \in answer} \ {0}
                 [] OTHER -> {}
  IN  CASE m.type = "counters" ->
             NextCounters([m EXCEPT !.list = @ \o SetToSeq({<<m.h, x>> : x \in answer})])
        [] m.type # "counters" /\ temps # {} -> Done(m, {<<m.h, x>> : x \in temps})
        [] m.type = "smart" /\ temps = {} -> [m EXCEPT !.pc = "drive_open", !.type = "identify"]
        [] m.type = "identify" /\ temps = {} -> NextDrive(m)

DriveOpen(t) ==
  /\ At(t, "drive_open")
  /\ IF Has(Drive(me[t].h)) /\ (me[t].type = "counters" => me[t].h < me[t].max)
     THEN Holding(t, [me[t] EXCEPT !.pc = "drive_ask"], "drive", 1)
     ELSE Step(t, AfterDrive(me[t], {}))

DriveAsk(t) ==
  /\ At(t, "drive_ask")
  /\ LET d == me[t].h
         p == CASE me[t].type = "counters" -> Counters(d)
                [] me[t].type = "smart" -> SmartData(d)
                [] me[t].type = "identify" -> IdentifyData(d)
     IN  Holding(t, AfterDrive(me[t], Read(src, p)), "drive", -1)

-----------------------------------------------------------------------------
(* win_get_top_processes. *)

\* What qsort may give of the rows, and the part that is handed back.
Ranked(m) ==
  {UpTo(m.max, s) : s \in {s \in SetToSeqs(Range(m.list)) : Sorted(m.by, s)}}

TakeSnapshot(t) ==
  /\ At(t, "processes")
  /\ IF me[t].max > 0 /\ Has(Snapshot)
     THEN Holding(t, [me[t] EXCEPT !.pc = "process_open", !.rows = src[Snapshot], !.i = 1],
                  "snapshot", 1)
     ELSE Step(t, Done(me[t], {<<>>}))

ProcessOpen(t) ==
  /\ At(t, "process_open")
  /\ LET m == me[t]
     IN  IF m.i > Len(m.rows)
         THEN \E s \in Ranked(m) : Holding(t, Done(m, {s}), "snapshot", -1)
         ELSE LET opened == {m.rows[m.i]} \cap {p \in Range(m.rows) : Has(Process(p))}
              IN  Holding(t, [m EXCEPT !.pc = "process_row", !.name = opened],
                          "process", Cardinality(opened))

\* The counters, zeros where the process was not opened; it is closed, and
\* the list ends where the buffer cannot grow.
ProcessRow(t) ==
  /\ At(t, "process_row")
  /\ LET m == me[t]
         row == Row(IF m.name = {} THEN <<>> ELSE src, m.rows[m.i])
         full == Len(m.list) = m.room
         n == [m EXCEPT !.pc = "process_open", !.i = @ + 1, !.list = Append(@, row),
                        !.room = IF full THEN Max({FirstChunk, 2 * @}) ELSE @]
     IN  Holding(t, IF full /\ ~Has(Heap)
                    THEN [m EXCEPT !.pc = "process_open", !.i = Len(m.rows) + 1] ELSE n,
                 "process", -Cardinality(m.name))

-----------------------------------------------------------------------------
(* The GPU: NVML, and for hwsense_gpu_temperature ADL. *)

LoadingNvml(t) == At(t, "nvml_symbols")
LoadingAdl(t) == At(t, "adl_symbols")

GpuStep(t, m, g) == Local(t, m) /\ gpu' = g /\ UNCHANGED <<com, wmi, prev, ledger>>

AfterNvml(m) == IF Reading(m) = "gpu_temp" THEN [m EXCEPT !.pc = "adl_load"] ELSE Done(m, {})

\* load_nvml: a library that is loaded is not looked at again.
NvmlLoad(t) ==
  /\ At(t, "nvml_load")
  /\ odd' = (odd \/ \E u \in Thread \ {t} : LoadingNvml(u))
  /\ LET loads == ~gpu.nvml /\ Has(NvmlDll)
     IN  /\ GpuStep(t, IF gpu.nvml THEN [me[t] EXCEPT !.pc = "nvml_init"]
                       ELSE IF loads THEN [me[t] EXCEPT !.pc = "nvml_symbols", !.vals = src[NvmlDll]]
                       ELSE AfterNvml(me[t]),
                    [gpu EXCEPT !.nvml = @ \/ loads])
         /\ Taking("nvml.dll", IF loads THEN 1 ELSE 0)

\* GetProcAddress; without a required function the library is freed.
NvmlSymbols(t) ==
  /\ At(t, "nvml_symbols")
  /\ LET complete == Required \subseteq me[t].vals
     IN  /\ GpuStep(t, [IF complete THEN [me[t] EXCEPT !.pc = "nvml_init"] ELSE AfterNvml(me[t])
                        EXCEPT !.vals = <<>>],
                    [gpu EXCEPT !.fn = me[t].vals, !.nvml = complete])
         /\ Taking("nvml.dll", IF complete THEN 0 ELSE -1)
  /\ UNCHANGED odd

Crash(m) == [m EXCEPT !.pc = "crashed"]

NvmlInit(t) ==
  /\ At(t, "nvml_init")
  /\ IF "init" \notin gpu.fn THEN Step(t, Crash(me[t]))
     ELSE IF Has(NvmlDriver)
     THEN Holding(t, [me[t] EXCEPT !.pc = "nvml_device"], "nvml_session", 1)
     ELSE Step(t, AfterNvml(me[t]))

NvmlDevice(t) ==
  /\ At(t, "nvml_device")
  /\ Step(t, IF ~Has(Nvml(me[t].max, 0)) THEN [me[t] EXCEPT !.pc = "nvml_shutdown", !.i = 0]
             ELSE [me[t] EXCEPT !.pc = "nvml_row",
                                !.i = IF Reading(me[t]) = "gpu_temp" THEN TempRow ELSE 1])

\* The functions that are not required are called when they are there.
NvmlRow(t) ==
  /\ At(t, "nvml_row")
  /\ LET m == me[t]
         p == Nvml(m.max, m.i)
         n == IF Rows[m.i] \in gpu.fn /\ Has(p) THEN [m EXCEPT !.vals = With(@, m.i, src[p])] ELSE m
     IN  Step(t, IF m.i < Len(Rows) /\ Reading(m) = "gpu_info" THEN [n EXCEPT !.i = @ + 1]
                 ELSE [n EXCEPT !.pc = "nvml_shutdown"])

NvmlShutdown(t) ==
  /\ At(t, "nvml_shutdown")
  /\ LET m == me[t]
     IN  Holding(t, IF m.i = 0 THEN AfterNvml(m)
                    ELSE IF Reading(m) = "gpu_info" THEN Done(m, {m.vals})
                    ELSE IF TempRow \in DOMAIN m.vals THEN Done(m, {<<"nvml", m.vals[TempRow]>>})
                    ELSE AfterNvml(m),
                 "nvml_session", -1)

\* load_adl
AdlLoad(t) ==
  /\ At(t, "adl_load")
  /\ odd' = (odd \/ \E u \in Thread \ {t} : LoadingAdl(u))
  /\ LET loads == gpu.adl = "none" /\ Has(AdlDll)
     IN  /\ GpuStep(t, IF loads THEN [me[t] EXCEPT !.pc = "adl_symbols", !.vals = src[AdlDll]]
                       ELSE IF gpu.adl = "none" THEN Done(me[t], {})
                       ELSE [me[t] EXCEPT !.pc = "adl_count"],
                    [gpu EXCEPT !.adl = IF loads THEN "loading" ELSE @])
         /\ Taking("atiadlxx.dll", IF loads THEN 1 ELSE 0)

\* The functions, and ADL_Main_Control_Create.
AdlSymbols(t) ==
  /\ At(t, "adl_symbols")
  /\ LET works == me[t].vals = "works"
     IN  /\ GpuStep(t, IF works THEN [me[t] EXCEPT !.pc = "adl_count"] ELSE Done(me[t], {}),
                    [gpu EXCEPT !.adl = IF works THEN "ready" ELSE "none"])
         /\ Taking("atiadlxx.dll", IF works THEN 0 ELSE -1)
  /\ UNCHANGED odd

AdlCount(t) ==
  /\ At(t, "adl_count")
  /\ Step(t, IF gpu.adl # "ready" THEN Crash(me[t])
             ELSE IF Has(AdlAdapters) /\ src[AdlAdapters] > 0 THEN [me[t] EXCEPT !.pc = "adl_temp"]
             ELSE Done(me[t], {}))

AdlTemperature(t) ==
  /\ At(t, "adl_temp")
  /\ Step(t, Done(me[t], {<<"adl", Truncate(x, 10)>> : x \in Read(src, Adl(me[t].max))}))

-----------------------------------------------------------------------------

Life(t) == ComInit(t) \/ ComSecurity(t) \/ ComCreate(t) \/ WmiConnect(t) \/ WmiShutdown(t)
Query(t) == WmiQuery(t) \/ WmiNext(t) \/ WmiRow(t)
Statistics(t) ==
  \/ Dispatch(t) \/ DetectVendor(t) \/ MemoryUse(t) \/ ReadUptime(t) \/ NetIo(t)
  \/ LoadFirst(t) \/ LoadSecond(t) \/ LoadSince(t)
  \/ DiskSpace(t) \/ DriveOpen(t) \/ DriveAsk(t)
  \/ TakeSnapshot(t) \/ ProcessOpen(t) \/ ProcessRow(t)
Graphics(t) ==
  \/ NvmlLoad(t) \/ NvmlSymbols(t) \/ NvmlInit(t) \/ NvmlDevice(t) \/ NvmlRow(t) \/ NvmlShutdown(t)
  \/ AdlLoad(t) \/ AdlSymbols(t) \/ AdlCount(t) \/ AdlTemperature(t)

Next ==
  \/ \E t \in Thread : Call(t) \/ Life(t) \/ Query(t) \/ Statistics(t) \/ Graphics(t)
  \/ Deny \/ Rewrite

Spec == Init /\ [][Next]_vars
-----------------------------------------------------------------------------
(* Properties. *)

\* Between calls the library holds of COM, of the drives, of the GPU libraries
\* and of the processes what its own statics say and no more, at whichever call
\* to the system the functions failed and returned early; and no call went
\* through a pointer that is NULL.  Nothing is claimed of a host whose thread is
\* in a single-threaded apartment, of a wmi_shutdown without a wmi_init of the
\* same thread, of threads that are in wmi_init or wmi_shutdown while others use
\* WMI, or that load the same library at once.
LeavesAsFound ==
  ~odd =>
    /\ \A t \in Thread : ~At(t, "crashed")
    /\ (\A t \in Thread : ~Busy(t)) =>
         /\ \A t \in Thread :
              com[t].count = ledger.host[t] + (IF wmi.ready /\ ledger.owner = {t} THEN 1 ELSE 0)
         /\ wmi.locator <=> wmi.ready
         /\ held = [k \in Kinds |->
                      CASE k = "locator" -> IF wmi.locator THEN 1 ELSE 0
                        [] k = "service" -> Cardinality(wmi.svc)
                        [] k = "nvml.dll" -> IF gpu.nvml THEN 1 ELSE 0
                        [] k = "atiadlxx.dll" -> IF gpu.adl # "none" THEN 1 ELSE 0
                        [] OTHER -> 0]

Cut(S, p) == \E f \in S : p \notin DOMAIN f

\* The functions of a usable NVML: the library that is loaded, else one that
\* could be; and is there an ADL that works?
UsableNvml(f) ==
  {s \in IF gpu.nvml THEN {gpu.fn} ELSE Read(f, NvmlDll) : Required \subseteq s}
UsableAdl(f) == gpu.adl = "ready" \/ "works" \in Read(f, AdlDll)

\* Readings that are functions of the sources.
Truth(m, r, f) ==
  CASE r \in Dispatched -> OfProcessor(f, r)
    [] r = "vendor" -> {f[Vendor]}
    [] r = "memory" -> {Used(s) : s \in Read(f, MemoryStatus)}
    [] r = "uptime" -> {Uptime(f[Ticks])}
    [] r = "net" -> Adapters(f, m.max)
    [] r = "disks" -> {Disks(f, m.max)}
    [] r = "disk_io" -> {DiskIo(f, m.max)}
    [] r = "drive_temp" -> DriveTemp(f)
    [] r = "gpu_info" -> UNION {NvmlGpu(f, m.max, s) : s \in UsableNvml(f)}
    [] r = "gpu_temp" -> Else(UNION {NvmlTemp(f, m.max, s) : s \in UsableNvml(f)},
                              IF UsableAdl(f) THEN AdlTemp(f, m.max) ELSE {})
    [] OTHER -> {}

\* The rows of a class that counted, and without any zone the probes.
WmiFits(m, r, S, f) ==
  LET fits(c) == \E rows \in Else(RowsOf(f, m.used[r], c), {<<>>}) : \A v \in m.data[r] :
                   ListFits(c, rows, Room([m EXCEPT !.todo = <<r>>]), Cut(S, Class(c)), v)
      zones == \E rows \in RowsOf(f, m.used[r], "zones") : rows # <<>>
  IN  fits(IF r = "zones" /\ ~zones THEN "probes" ELSE r)

LoadFits(m, r, S) ==
  \/ m.data[r] \in {{}, {0}} /\ (Cut(S, Times) \/ (r = "load_since" /\ m.before = {}))
  \/ \E f \in S, g \in S :
       /\ Times \in DOMAIN f /\ Times \in DOMAIN g
       /\ LET a == IF r = "load_since" THEN m.before ELSE {f[Times]}
          IN  m.data[r] = {Share(x, g[Times]) : x \in a} /\ m.data[r] \subseteq 0 .. 100

\* The greatest of the processes of the snapshot, or of the first of them when
\* memory ran out.
TopFits(m, S, f) ==
  \E pids \in Else(Read(f, Snapshot), {<<>>}), v \in m.data["processes"] :
    \E n \in IF Cut(S, Heap) THEN 0 .. Len(pids) ELSE {Len(pids)} :
      IsTop(m.by, m.max, {Row(f, pids[i]) : i \in 1 .. n}, v)

\* Every reading is what the sources say, each as it was at some moment of the
\* call, in the order of preference the library has, whatever fails or changes
\* meanwhile.  What a WMI class lacks is not claimed, nor what follows an odd use.
ReportFaithful ==
  ~odd => \A t \in Thread : At(t, "done") =>
    \A r \in DOMAIN me[t].data :
      LET m == me[t]
          S == moments[t]
      IN  CASE r \in {"load", "load_since"} -> LoadFits(m, r, S)
            [] r \in OfWmi -> \E f \in Mixtures(S) : WmiFits(m, r, S, f)
            [] r = "processes" -> \E f \in Mixtures(S) : TopFits(m, S, f)
            [] OTHER -> \E f \in Mixtures(S) :
                 m.data[r] = IF m.call = "hwsense_read_all" THEN Stored(r, Truth(m, r, f))
                             ELSE Truth(m, r, f)
=============================================================================
