---------------------------- MODULE LinuxSensors ----------------------------
(***************************************************************************)
(* The Linux readers, one step per file they read: what each promises is   *)
(* in LinuxFiles, and the files change while a call is under way.          *)
(*                                                                         *)
(* me[t] holds the locals of thread t.  A call is a sequence of readings,  *)
(* one for most functions, all of them for hwsense_read_all; each reading  *)
(* ends in Done, which stores it and starts the next.                      *)
(***************************************************************************)
EXTENDS LinuxFiles, TLC

CONSTANTS
  Thread,
  Job,          \* what a behaviour starts from: files, and the calls of each thread
  New(_, _),    \* what a file may change to, given its contents
  MaxChanges,   \* changes of the files in a behaviour
  Temperatures, \* what a temperature input may read
  Samples       \* what /proc/stat may read

\* The readings of each call.
Readings ==
  [hwsense_cpu_package_temp |-> <<"cpu_temp">>,
   hwsense_cpu_core_clock   |-> <<"clock">>,
   hwsense_superio_temps    |-> <<"temp">>,
   hwsense_superio_fans     |-> <<"fan">>,
   hwsense_superio_voltages |-> <<"in">>,
   hwsense_gpu_info         |-> <<"gpu">>,
   hwsense_nvme_temperature |-> <<"nvme">>,
   hwsense_nvme_smart       |-> <<"smart">>,
   hwsense_thermal_zones    |-> <<"zones">>,
   hwsense_get_cpu_load     |-> <<"load">>,
   hwsense_get_memory_used  |-> <<"memory">>,
   hwsense_read_all         |-> <<"identity", "cpu_temp", "clock", "max_clock", "load",
                                  "memory", "uptime", "fan", "gpu", "nvme">>]

Reading == UNION {{Readings[c][n] : n \in DOMAIN Readings[c]} : c \in DOMAIN Readings}

\* Where each reading starts.
Entry ==
  [cpu_temp |-> "cpu_name", clock |-> "clock", max_clock |-> "max_clock",
   temp |-> "board_name", fan |-> "board_name", in |-> "board_name",
   gpu |-> "nvml_check", nvme |-> "nvme_name", smart |-> "smart", zones |-> "zone_type",
   load |-> "load_first", memory |-> "memory", uptime |-> "uptime", identity |-> "identity"]

VARIABLES
  fs,       \* the files that can be read, with their contents
  plan,     \* the calls each thread has still to make
  me,       \* locals
  vendor,   \* of the context
  nv,       \* the static nv of gpu_linux.c, and how often its library is open
  image,    \* the library that was opened last
  moments,  \* history: per thread, the files there have been since its call began
  changes,  \* how often the files have changed
  raced     \* history: did a thread come to nvml_load with another inside it?

vars == <<fs, plan, me, vendor, nv, image, moments, changes, raced>>

Index == 0 .. Max({HwmonMax, ZoneMax, CpuMax})

TypeOK ==
  /\ \A t \in Thread :
       /\ plan[t] \in Seq([call : DOMAIN Readings, index : Nat])
       /\ me[t].call \in DOMAIN Readings
       /\ me[t].todo \in Seq(Reading)
       /\ DOMAIN me[t].data \subseteq Reading
       /\ me[t].h \in Index \ {Max(Index)}
       /\ me[t].i \in 0 .. Max({InputMax, AmdFiles, Len(Symbols)})
       /\ me[t].best \in SUBSET Int /\ Cardinality(me[t].best) <= 1
       /\ Len(me[t].list) <= Max({BoardMax, ListMax, CpuMax})
       /\ me[t].pc \in {"idle", "done", "crashed"} \/ fs \in moments[t]
  /\ vendor \in {"I", "A", "R", "?"}
  /\ nv.fn \subseteq Range(Symbols) /\ nv.tried \in BOOLEAN
  /\ nv.lib \in BOOLEAN /\ nv.opens \in 0 .. Cardinality(Thread)
  /\ changes \in 0 .. MaxChanges
  /\ raced \in BOOLEAN

\* What the kernel and the C library always give.
Given == {Boot, Online, Root}

ASSUME ThreadAssumption == IsFiniteSet(Thread) /\ MaxChanges \in Nat

\* A behaviour starts from files, by name, that have contents of their kind.
ASSUME JobAssumption ==
  \A j \in Job :
    /\ j.calls \in [Thread -> Seq([call : DOMAIN Readings, index : Nat])]
    /\ j.files = [p \in DOMAIN j.files |-> j.files[p]]
    /\ Given \subseteq DOMAIN j.files /\ DOMAIN j.files \subseteq STRING \X Int \X Int
    /\ VendorOf(j.files) \in {"I", "A", "R", "?"}
    /\ \A p \in DOMAIN j.files : /\ p[1] = "temp" => j.files[p] \in Temperatures
                                 /\ p = Stat => j.files[p] \in Samples

\* Files keep to the contents of their kind.  The counters of /proc/stat do not
\* make a whole turn; of those modelled only iowait may fall.
ASSUME ContentsAssumption ==
  /\ Temperatures \subseteq Int
  /\ \A h \in 0 .. HwmonMax - 1, i \in 1 .. InputMax, c \in Temperatures :
       New(Input("temp", h, i), c) \subseteq Temperatures
  /\ Samples \subseteq [user : Nat, idle : Nat, iowait : Nat]
  /\ \A a \in Samples, b \in Samples :
       (b.user - a.user) + (b.idle - a.idle) + (b.iowait - a.iowait) < Wide
  /\ \A a \in Samples : \A b \in New(Stat, a) :
       b \in Samples /\ b.user >= a.user /\ b.idle >= a.idle

Idle == [pc |-> "idle", call |-> "hwsense_read_all", index |-> 0, todo |-> <<>>,
         data |-> <<>>, h |-> 0, i |-> 0, seen |-> 0, type |-> "none",
         best |-> {}, list |-> <<>>, vals |-> <<>>]

Init ==
  \E j \in Job :
    /\ fs = j.files
    /\ plan = j.calls
    /\ vendor = VendorOf(j.files)      \* hwsense_init
    /\ me = [t \in Thread |-> Idle]
    /\ nv = [tried |-> FALSE, lib |-> FALSE, fn |-> {}, opens |-> 0]
    /\ image = [symbols |-> {}, works |-> FALSE]
    /\ moments = [t \in Thread |-> {}]
    /\ changes = 0
    /\ raced = FALSE

-----------------------------------------------------------------------------
(* The environment: drivers, devices and permissions. *)

Busy(t) == me[t].pc \notin {"idle", "done", "crashed"}

Become(f) ==
  /\ changes < MaxChanges /\ \E t \in Thread : Busy(t)
  /\ f # fs
  /\ fs' = f
  /\ moments' = [t \in Thread |-> IF Busy(t) THEN moments[t] \cup {f} ELSE moments[t]]
  /\ changes' = changes + 1
  /\ UNCHANGED <<plan, me, vendor, nv, image, raced>>

Without(P) == [p \in DOMAIN fs \ P |-> fs[p]]

\* A file cannot be read any more, or reads otherwise.
Deny == \E p \in DOMAIN fs \ Given : Become(Without({p}))
Rewrite == \E p \in DOMAIN fs : \E c \in New(p, fs[p]) : Become([fs EXCEPT ![p] = c])

HwmonFiles(h) == {p \in DOMAIN fs : p[1] \in OfHwmon /\ p[2] = h}

\* A driver is unloaded; two devices come back with each other's numbers.
Unplug == \E h \in 0 .. HwmonMax - 1 : Become(Without(HwmonFiles(h)))
Renumber ==
  \E h \in 0 .. HwmonMax - 1, k \in 0 .. HwmonMax - 1 :
    LET other(p) == IF p[1] \notin OfHwmon THEN p
                    ELSE <<p[1], IF p[2] = h THEN k ELSE IF p[2] = k THEN h ELSE p[2], p[3]>>
    IN  h < k /\ Become([p \in {other(q) : q \in DOMAIN fs} |-> fs[other(p)]])

-----------------------------------------------------------------------------
(* Calls and readings. *)

At(t, label) == me[t].pc = label

Step(t, m) ==
  /\ me' = [me EXCEPT ![t] = m]
  /\ UNCHANGED <<fs, plan, vendor, nv, image, moments, changes, raced>>

Begin(m) ==
  [m EXCEPT !.pc = IF m.todo = <<>> THEN "done" ELSE Entry[Head(m.todo)],
            !.h = 0, !.i = 0, !.seen = 0, !.type = "none",
            !.best = {}, !.list = <<>>, !.vals = <<>>]

\* hwsense_read_all has zeros for what cannot be read and for a temperature
\* below zero, at most 8 fans, of the GPU its temperature, and the size of the
\* root file system for a drive.
Stored(r, v, f) ==
  CASE r \in {"identity", "uptime"} -> v
    [] r \in {"cpu_temp", "clock", "max_clock", "load"} ->
         IF \E x \in v : x > 0 THEN v ELSE {0}
    [] r = "memory" -> IF v = {} THEN {[total |-> 0, used |-> 0]} ELSE v
    [] r = "fan" -> IF v = {} THEN {<<>>} ELSE {UpTo(8, x) : x \in v}
    [] r = "gpu" -> IF \E x \in v : x.temp # {} THEN UNION {x.temp : x \in v} ELSE {0}
    [] r = "nvme" -> IF \E x \in v : x >= 0 THEN {<<x, f[Root]>> : x \in v} ELSE {}

\* The reading in turn is the set v.
Done(m, v) ==
  LET r == Head(m.todo)
      w == IF m.call = "hwsense_read_all" THEN Stored(r, v, fs) ELSE v
  IN  Begin([m EXCEPT !.data = With(@, r, w), !.todo = Tail(@)])

Has(p) == p \in DOMAIN fs

Call(t) ==
  /\ me[t].pc \in {"idle", "done"} /\ plan[t] # <<>>
  /\ LET c == Head(plan[t])
     IN  me' = [me EXCEPT ![t] = Begin([Idle EXCEPT !.call = c.call, !.index = c.index,
                                                    !.todo = Readings[c.call]])]
  /\ plan' = [plan EXCEPT ![t] = Tail(@)]
  /\ moments' = [moments EXCEPT ![t] = {fs}]
  /\ UNCHANGED <<fs, vendor, nv, image, changes, raced>>

-----------------------------------------------------------------------------
(* The temperature of the processor. *)

ToZones(m) == [m EXCEPT !.pc = "zone_type", !.h = 0, !.best = {}]

NextCpuChip(m) ==
  IF m.h + 1 < CpuHwmonMax THEN [m EXCEPT !.pc = "cpu_name", !.h = @ + 1]
  ELSE IF vendor = "I" THEN [m EXCEPT !.pc = "msr_target"]
  ELSE ToZones(m)

\* Mutant: input 1 is kept only until the labels run out.
NextCpuInputForgets(m) ==
  IF m.i < InputMax THEN [m EXCEPT !.pc = "cpu_label", !.i = @ + 1]
  ELSE NextCpuChip([m EXCEPT !.best = {}])

NextCpuInput(m) ==
  IF m.i < InputMax THEN [m EXCEPT !.pc = "cpu_label", !.i = @ + 1]
  ELSE IF m.best # {} THEN Done(m, m.best)
  ELSE NextCpuChip(m)

CpuName(t) ==
  /\ At(t, "cpu_name")
  /\ LET m == me[t]
     IN  Step(t, IF Is(fs, Name(m.h), CpuChips)
                 THEN [m EXCEPT !.pc = "cpu_label", !.i = 1]
                 ELSE NextCpuChip(m))

CpuLabel(t) ==
  /\ At(t, "cpu_label")
  /\ LET m == me[t]
         preferred == Is(fs, Label(m.h, m.i), Preferred)
     IN  Step(t, IF preferred \/ m.i = 1
                 THEN [m EXCEPT !.pc = "cpu_input", !.type = IF preferred THEN "preferred" ELSE "plain"]
                 ELSE NextCpuInput(m))

CpuInput(t) ==
  /\ At(t, "cpu_input")
  /\ LET m == me[t]
         v == Read(fs, Input("temp", m.h, m.i))
     IN  Step(t, IF v # {} /\ m.type = "preferred" THEN Done(m, v)
                 ELSE NextCpuInput([m EXCEPT !.best = Else(v, @)]))

\* Intel without hwmon: the two registers of processor 0, then the zones.
MsrTarget(t) ==
  /\ At(t, "msr_target")
  /\ Step(t, IF Has(Target) THEN [me[t] EXCEPT !.pc = "msr_status", !.seen = TjMax(fs[Target])]
             ELSE ToZones(me[t]))

MsrStatus(t) ==
  /\ At(t, "msr_status")
  /\ Step(t, IF Has(Status) /\ fs[Status].valid
             THEN Done(me[t], {1000 * (me[t].seen - fs[Status].readout)})
             ELSE ToZones(me[t]))

\* Thermal zones: the hottest of the processor or of the GPU, or all of them.
Wanted(m) == CASE Head(m.todo) = "cpu_temp" -> m.type \in CpuZones
               [] Head(m.todo) = "gpu"      -> m.type \in GpuZones
               [] Head(m.todo) = "zones"    -> TRUE

Hotter(best, c) == IF \A x \in best : c > x THEN {c} ELSE best

AfterZones(m) ==
  CASE Head(m.todo) = "cpu_temp" -> Done(m, m.best)
    [] Head(m.todo) = "gpu"      -> [m EXCEPT !.pc = "kgsl", !.i = 1]
    [] Head(m.todo) = "zones"    -> Done(m, m.list)

\* Mutant: one zone too many is looked at.
NextZoneTooFar(m) ==
  IF m.h < Max(Index) /\ Len(m.list) < ListMax
  THEN [m EXCEPT !.pc = "zone_type", !.h = @ + 1] ELSE AfterZones(m)

NextZone(m) ==
  IF m.h + 1 < ZoneMax /\ Len(m.list) < ListMax
  THEN [m EXCEPT !.pc = "zone_type", !.h = @ + 1] ELSE AfterZones(m)

ReadZoneType(t) ==
  /\ At(t, "zone_type")
  /\ LET m == me[t]
     IN  Step(t, IF Has(ZoneType(m.h))
                 THEN [m EXCEPT !.pc = "zone_temp", !.type = fs[ZoneType(m.h)]]
                 ELSE NextZone(m))

ReadZoneTemp(t) ==
  /\ At(t, "zone_temp")
  /\ LET m == me[t]
         raw == fs[ZoneTemp(m.h)]
     IN  Step(t, NextZone(
           IF ~Has(ZoneTemp(m.h)) \/ ~Plausible(raw) \/ ~Wanted(m) THEN m
           ELSE IF Head(m.todo) = "zones"
           THEN [m EXCEPT !.list = Append(@, [type |-> m.type, temp |-> Celsius(raw)])]
           ELSE [m EXCEPT !.best = Hotter(@, Celsius(raw))]))

-----------------------------------------------------------------------------
(* Drives, the board and the clock. *)

NextDrive(m) ==
  IF m.h + 1 < HwmonMax THEN [m EXCEPT !.pc = "nvme_name", !.h = @ + 1]
  ELSE Done(m, {Round(x) : x \in m.best})

NvmeName(t) ==
  /\ At(t, "nvme_name")
  /\ Step(t, IF Is(fs, Name(me[t].h), {"nvme"}) THEN [me[t] EXCEPT !.pc = "nvme_temp"]
             ELSE NextDrive(me[t]))

NvmeInput(t) ==
  /\ At(t, "nvme_temp")
  /\ LET m == me[t]
         v == {x \in Read(fs, Input("temp", m.h, 1)) : x > Max(m.best \cup {-1})}
     IN  Step(t, NextDrive([m EXCEPT !.best = Else(v, @)]))

\* The open, the log page and its decoding.
NvmeSmart(t) ==
  /\ At(t, "smart")
  /\ Step(t, Done(me[t], {SmartOf(x) : x \in Read(fs, Smart(me[t].index))}))

\* superio_scan for the kind of input in turn.
Kind(m) == Head(m.todo)

NextChip(m) ==
  IF m.h + 1 < HwmonMax THEN [m EXCEPT !.pc = "board_name", !.h = @ + 1]
  ELSE IF m.list # <<>> THEN Done(m, {m.list})
  ELSE [m EXCEPT !.pc = "board_chip"]

BoardName(t) ==
  /\ At(t, "board_name")
  /\ LET m == me[t]
     IN  Step(t, IF /\ Has(Name(m.h)) /\ fs[Name(m.h)] \notin NonBoard
                    /\ Len(m.list) < BoardMax
                 THEN [m EXCEPT !.pc = "board_input", !.i = FirstInput(Kind(m))]
                 ELSE NextChip(m))

BoardInput(t) ==
  /\ At(t, "board_input")
  /\ LET m == me[t]
         p == Input(Kind(m), m.h, m.i)
         n == IF Has(p) THEN [m EXCEPT !.list = Append(@, BoardValue(Kind(m), fs[p]))] ELSE m
     IN  Step(t, IF m.i < InputMax /\ Len(n.list) < BoardMax
                 THEN [n EXCEPT !.i = @ + 1] ELSE NextChip(n))

\* Nothing of the kind: the chip is read directly (SuperIo has its steps),
\* whether or not a driver is at work on it.
BoardChip(t) ==
  /\ At(t, "board_chip")
  /\ Step(t, Done(me[t], Read(fs, Chip(Kind(me[t])))))

\* hwsense_cpu_core_clock stops at the first processor without a frequency.
ClockFreq(t) ==
  /\ At(t, "clock")
  /\ LET m == me[t]
         n == IF Has(Freq(m.h)) THEN [m EXCEPT !.list = Append(@, fs[Freq(m.h)])] ELSE m
     IN  Step(t, IF Has(Freq(m.h)) /\ m.h + 1 < CpuMax THEN [n EXCEPT !.h = @ + 1]
                 ELSE IF n.list # <<>> THEN Done(n, {Mean(n.list) \div 1000})
                 ELSE [n EXCEPT !.pc = "clock_cpuinfo"])

ClockCpuinfo(t) ==
  /\ At(t, "clock_cpuinfo")
  /\ Step(t, Done(me[t], {Mean(x.mhz) : x \in {x \in Read(fs, Cpuinfo) : x.mhz # <<>>}}))

-----------------------------------------------------------------------------
(* The readings of one file, and the load, which takes two samples. *)

MaxClock(t) ==
  At(t, "max_clock") /\ Step(t, Done(me[t], {x \div 1000 : x \in Read(fs, MaxFreq)}))

MemoryUse(t) == At(t, "memory") /\ Step(t, Done(me[t], Memory(fs)))

UptimeOf(s) == [days |-> s \div 86400, hours |-> (s \div 3600) % 24]
ReadUptime(t) == At(t, "uptime") /\ Step(t, Done(me[t], UptimeOf(Seconds(fs))))

ReadIdentity(t) == At(t, "identity") /\ Step(t, Done(me[t], Identity(fs)))

LoadFirst(t) ==
  /\ At(t, "load_first")
  /\ Step(t, IF Has(Stat) THEN [me[t] EXCEPT !.pc = "load_second", !.vals = fs[Stat]]
             ELSE Done(me[t], {}))

LoadSecond(t) ==
  /\ At(t, "load_second")
  /\ Step(t, Done(me[t], {Load(me[t].vals, b) : b \in Read(fs, Stat)}))

-----------------------------------------------------------------------------
(* The GPU: NVML, then amdgpu, then the sources of a phone. *)

ToMobile(m) == IF m.index = 0 THEN ToZones(m) ELSE Done(m, {})
ToAmd(m) == [m EXCEPT !.pc = "amd_name", !.h = 0, !.seen = 0, !.vals = <<>>]
ToDevice(m) == [m EXCEPT !.pc = "nvml_device"]

Loading(t) == me[t].pc \in {"nvml_try", "nvml_open", "nvml_symbol", "nvml_init"}

NvmlStep(t, m, n) ==
  /\ me' = [me EXCEPT ![t] = m]
  /\ nv' = n
  /\ UNCHANGED <<fs, plan, vendor, moments, changes>>

\* nvml_load
NvmlCheck(t) ==
  /\ At(t, "nvml_check")
  /\ raced' = (raced \/ \E u \in Thread \ {t} : Loading(u))
  /\ NvmlStep(t, IF ~nv.tried THEN [me[t] EXCEPT !.pc = "nvml_try"]
                 ELSE IF nv.lib THEN ToDevice(me[t]) ELSE ToAmd(me[t]), nv)
  /\ UNCHANGED image

NvmlTry(t) ==
  /\ At(t, "nvml_try")
  /\ NvmlStep(t, [me[t] EXCEPT !.pc = "nvml_open"], [nv EXCEPT !.tried = TRUE])
  /\ UNCHANGED <<image, raced>>

NvmlOpen(t) ==
  /\ At(t, "nvml_open")
  /\ IF Has(Library)
     THEN /\ image' = fs[Library]
          /\ NvmlStep(t, [me[t] EXCEPT !.pc = "nvml_symbol", !.i = 1],
                         [nv EXCEPT !.lib = TRUE, !.opens = @ + 1])
     ELSE NvmlStep(t, ToAmd(me[t]), [nv EXCEPT !.lib = FALSE]) /\ UNCHANGED image
  /\ UNCHANGED raced

\* dlsym: a function that the library does not have is stored as NULL.
NvmlSymbol(t) ==
  /\ At(t, "nvml_symbol")
  /\ LET s == Symbols[me[t].i]
     IN  NvmlStep(t, IF me[t].i < Len(Symbols) THEN [me[t] EXCEPT !.i = @ + 1]
                     ELSE [me[t] EXCEPT !.pc = "nvml_init"],
                     [nv EXCEPT !.fn = IF nv.lib /\ s \in image.symbols
                                       THEN @ \cup {s} ELSE @ \ {s}])
  /\ UNCHANGED <<image, raced>>

\* A call through a pointer that is NULL or leads into a closed library.
Wild(s) == s \notin nv.fn \/ nv.opens = 0

Crash(m) == [m EXCEPT !.pc = "crashed"]

\* Mutant: of the functions called unconditionally only the first is checked.
NvmlInitUnchecked(t) ==
  /\ At(t, "nvml_init")
  /\ LET usable == "init" \in nv.fn /\ image.works
     IN  IF ("init" \in nv.fn /\ Wild("init")) \/ (~usable /\ ~nv.lib)
         THEN NvmlStep(t, Crash(me[t]), nv)
         ELSE IF usable THEN NvmlStep(t, ToDevice(me[t]), nv)
         ELSE NvmlStep(t, ToAmd(me[t]), [nv EXCEPT !.lib = FALSE, !.opens = @ - 1])
  /\ UNCHANGED <<image, raced>>

\* A library without a required function, or that does not start, is closed;
\* there is nothing to close once another thread has closed it.
NvmlInit(t) ==
  /\ At(t, "nvml_init")
  /\ LET complete == Required \subseteq nv.fn
         usable == complete /\ image.works
     IN  IF (complete /\ Wild("init")) \/ (~usable /\ ~nv.lib)
         THEN NvmlStep(t, Crash(me[t]), nv)
         ELSE IF usable THEN NvmlStep(t, ToDevice(me[t]), nv)
         ELSE NvmlStep(t, ToAmd(me[t]), [nv EXCEPT !.lib = FALSE, !.opens = @ - 1])
  /\ UNCHANGED <<image, raced>>

NvmlDevice(t) ==
  /\ At(t, "nvml_device")
  /\ Step(t, IF Wild("by_index") THEN Crash(me[t])
             ELSE IF Has(Nvml(me[t].index, 0)) THEN [me[t] EXCEPT !.pc = "nvml_row", !.i = 1]
             ELSE ToAmd(me[t]))

\* The functions that are not required are called when they are there.
NvmlRow(t) ==
  /\ At(t, "nvml_row")
  /\ LET m == me[t]
         s == Rows[m.i]
         p == Nvml(m.index, m.i)
         called == s \in Required \cup nv.fn
         n == IF called /\ Has(p) THEN [m EXCEPT !.vals = With(@, m.i, fs[p])] ELSE m
     IN  Step(t, IF called /\ Wild(s) THEN Crash(m)
                 ELSE IF m.i < Len(Rows) THEN [n EXCEPT !.i = @ + 1]
                 ELSE Done(n, {NvmlResult(n.vals)}))

\* hwsense_amdgpu_info_linux
NextCard(m) ==
  IF m.h + 1 < HwmonMax THEN [m EXCEPT !.pc = "amd_name", !.h = @ + 1] ELSE ToMobile(m)

AmdName(t) ==
  /\ At(t, "amd_name")
  /\ LET m == me[t]
     IN  Step(t, IF ~Is(fs, Name(m.h), {"amdgpu"}) THEN NextCard(m)
                 ELSE IF m.seen = m.index THEN [m EXCEPT !.pc = "amd_temp"]
                 ELSE NextCard([m EXCEPT !.seen = @ + 1]))

AmdTemp(t) ==
  /\ At(t, "amd_temp")
  /\ LET m == me[t]
         v == Read(fs, Input("temp", m.h, 1))
     IN  Step(t, IF v = {} THEN ToMobile(m)
                 ELSE [m EXCEPT !.pc = "amd_file", !.i = 1, !.best = {Round(x) : x \in v}])

WithFile(m, p) == IF Has(p) THEN [m EXCEPT !.vals = With(@, m.i, fs[p])] ELSE m

AmdFile(t) ==
  /\ At(t, "amd_file")
  /\ LET m == WithFile(me[t], Amd(me[t].h, me[t].i))
     IN  Step(t, IF m.i < AmdFiles THEN [m EXCEPT !.i = @ + 1]
                 ELSE Done(m, {[from |-> "amdgpu", temp |-> m.best, vals |-> m.vals]}))

KgslFile(t) ==
  /\ At(t, "kgsl")
  /\ LET m == WithFile(me[t], Kgsl(me[t].i))
     IN  Step(t, IF m.i < KgslFiles THEN [m EXCEPT !.i = @ + 1]
                 ELSE Done(m, IF m.best = {} /\ m.vals = <<>> THEN {}
                              ELSE {[from |-> "mobile", temp |-> {Round(x) : x \in m.best},
                                     vals |-> m.vals]}))

-----------------------------------------------------------------------------

LoadNvml(t) == NvmlCheck(t) \/ NvmlTry(t) \/ NvmlOpen(t) \/ NvmlSymbol(t) \/ NvmlInit(t)
Gpu(t) == NvmlDevice(t) \/ NvmlRow(t) \/ AmdName(t) \/ AmdTemp(t) \/ AmdFile(t) \/ KgslFile(t)
CpuTemperature(t) ==
  CpuName(t) \/ CpuLabel(t) \/ CpuInput(t) \/ MsrTarget(t) \/ MsrStatus(t)
    \/ ReadZoneType(t) \/ ReadZoneTemp(t)
Other(t) ==
  \/ NvmeName(t) \/ NvmeInput(t) \/ NvmeSmart(t)
  \/ BoardName(t) \/ BoardInput(t) \/ BoardChip(t)
  \/ ClockFreq(t) \/ ClockCpuinfo(t) \/ MaxClock(t)
  \/ MemoryUse(t) \/ ReadUptime(t) \/ ReadIdentity(t) \/ LoadFirst(t) \/ LoadSecond(t)

Next ==
  \/ \E t \in Thread : Call(t) \/ CpuTemperature(t) \/ Other(t) \/ LoadNvml(t) \/ Gpu(t)
  \/ Deny \/ Rewrite \/ Unplug \/ Renumber

Spec == Init /\ [][Next]_vars
-----------------------------------------------------------------------------
(* Properties. *)

\* The usable libraries: the one that was opened, whatever became of its file
\* and whatever nvml_load made of it, else one that could be.
Usable(f) ==
  {x \in IF image.symbols # {} THEN {image} ELSE Read(f, Library) :
     x.works /\ Required \subseteq x.symbols}

\* What the reading r of a call is worth with the files f.
Truth(m, r, f) ==
  CASE r = "cpu_temp"  -> CpuTemp(f, vendor)
    [] r = "clock"     -> Clock(f)
    [] r = "max_clock" -> {x \div 1000 : x \in Read(f, MaxFreq)}
    [] r \in {"temp", "fan", "in"} -> Board(f, r)
    [] r = "gpu"       -> Else(UNION {NvmlGpu(f, m.index, x.symbols) : x \in Usable(f)},
                               Else(AmdGpu(f, m.index),
                                    IF m.index = 0 THEN MobileGpu(f) ELSE {}))
    [] r = "nvme"      -> NvmeTemp(f)
    [] r = "smart"     -> {SmartOf(x) : x \in Read(f, Smart(m.index))}
    [] r = "zones"     -> Zones(f)
    [] r = "memory"    -> Memory(f)
    [] r = "uptime"    -> UptimeOf(Seconds(f))
    [] r = "identity"  -> Identity(f)

\* The load is the busy share between two moments of the call, from 0 to 100,
\* or there was nothing to read.  Nothing is claimed when iowait, which the
\* kernel may count down, has fallen: the unsigned difference wraps.
LoadFaithful(S, v) ==
  \/ v \in {{}, {0}} /\ \E f \in S : Stat \notin DOMAIN f
  \/ \E f \in S, g \in S :
       /\ Stat \in DOMAIN f /\ Stat \in DOMAIN g
       /\ LET a == f[Stat]
              b == g[Stat]
              total == (b.user - a.user) + (b.idle - a.idle) + (b.iowait - a.iowait)
          IN  \/ b.iowait < a.iowait
              \/ /\ v \subseteq 0 .. 100
                 /\ \E x \in v : IF total = 0 THEN x = 0
                                 ELSE x = (100 * (b.user - a.user)) \div total

\* A reading is the best source's that there was: of the files, each as it was
\* at some moment of the call, the one the order of preference gives, or
\* nothing when none can be read, however the devices come, go and change
\* numbers meanwhile.  A thread that comes to the GPU while another loads NVML
\* may miss the library.
ReportFaithful ==
  \A t \in Thread : At(t, "done") =>
    \A r \in DOMAIN me[t].data :
      \/ r = "load" /\ LoadFaithful(moments[t], me[t].data[r])
      \/ r = "gpu" /\ raced
      \/ /\ r # "load"
         /\ \E f \in Mixtures(moments[t]) :
              LET v == Truth(me[t], r, f)
              IN  me[t].data[r] = IF me[t].call = "hwsense_read_all"
                                  THEN Stored(r, v, f) ELSE v

\* No call is made through a pointer that NVML left NULL or into a closed
\* library, whichever functions it lacks and however often it is asked for,
\* unless a thread came to nvml_load with another still inside it.
NvmlGuarded == \A t \in Thread : At(t, "crashed") => raced
=============================================================================
