--------------------------- MODULE WindowsSources ---------------------------
(***************************************************************************)
(* What the Windows readers ask, and what each reading is for a machine    *)
(* that stands still.  A source is a tuple <<what, device, number>> that   *)
(* is there when the call that asks for it succeeds, as in Sources; all    *)
(* but the processor's own registers, which other modules model, belongs   *)
(* to the system or to a library.                                          *)
(***************************************************************************)
EXTENDS Sources, FiniteSets, SequencesExt, FiniteSetsExt, Functions, TLC

CONSTANTS
  DriveMax,    \* drives that are asked for a temperature (16)
  LetterMax,   \* drive letters from C on (24)
  FanMax,      \* fans of a report (8)
  FirstChunk   \* processes that the first buffer holds (128)

ASSUME LimitAssumption == {DriveMax, LetterMax, FanMax, FirstChunk} \subseteq Nat \ {0}

Vendor          == <<"cpuid_vendor", 0, 0>>
Driver          == <<"driver_handle", 0, 0>>
Register(by, k) == <<by \o "_" \o k, 0, 0>>
ComLibrary      == <<"CoInitializeEx", 0, 0>>
Security        == <<"CoInitializeSecurity", 0, 0>>   \* or RPC_E_TOO_LATE
Locator         == <<"CoCreateInstance", 0, 0>>
Namespace(n)    == <<"ConnectServer_" \o n, 0, 0>>
Class(c)        == <<"class_" \o c, 0, 0>>
Times           == <<"GetSystemTimes", 0, 0>>
MemoryStatus    == <<"GlobalMemoryStatusEx", 0, 0>>
Ticks           == <<"GetTickCount64", 0, 0>>
Letter(l)       == <<"GetDiskFreeSpaceEx", l, 0>>
Drive(d)        == <<"PhysicalDrive", d, 0>>
Counters(d)     == <<"IOCTL_DISK_PERFORMANCE", d, 0>>
SmartData(d)    == <<"smart_data", d, 0>>
IdentifyData(d) == <<"identify_device", d, 0>>
Interfaces      == <<"GetIfTable2", 0, 0>>
Snapshot        == <<"CreateToolhelp32Snapshot", 0, 0>>
Process(p)      == <<"OpenProcess", p, 0>>
Heap            == <<"realloc", 0, 0>>
NvmlDll         == <<"nvml.dll", 0, 0>>
NvmlDriver      == <<"nvmlInit", 0, 0>>
Nvml(g, i)      == <<"nvml", g, i>>
AdlDll          == <<"atiadlxx.dll", 0, 0>>
AdlAdapters     == <<"ADL_Adapter_NumberOfAdapters_Get", 0, 0>>
Adl(g)          == <<"ADL_Overdrive5_Temperature_Get", g, 0>>

-----------------------------------------------------------------------------
(* Dispatch: the readings that go to the registers of the processor's      *)
(* maker.  Some take every processor that is not Intel's for AMD's, and    *)
(* the diagnostics do not ask.                                             *)

NotIntelIsAmd == {"voltage_value", "power_watts"}
NeverAsks == {"smn", "smu", "pmtable"}
AmdOnly == {"soc"} \cup NeverAsks
IntelOnly == {"pp0", "pp1", "dram"}
Dispatched == {"temp", "voltage", "power", "clock"} \cup NotIntelIsAmd \cup AmdOnly \cup IntelOnly

Maker(k, v) ==
  IF k \in NeverAsks \/ (v = "A" /\ k \notin IntelOnly) \/ (v # "I" /\ k \in NotIntelIsAmd)
  THEN {"amd"}
  ELSE IF v = "I" /\ k \notin AmdOnly THEN {"intel"} ELSE {}

OfProcessor(f, k) ==
  IF Driver \notin DOMAIN f THEN {}
  ELSE UNION {Read(f, Register(by, k)) : by \in Maker(k, f[Vendor])}

-----------------------------------------------------------------------------
(* WMI.  A row of a class maps the properties it has to variants.          *)

\* Where each class lives, what is read of a row, and without which property
\* the row does not count.
HomeOf == [zones |-> "ROOT/WMI", probes |-> "ROOT/CIMV2", cpu_info |-> "ROOT/CIMV2",
           fans |-> "ROOT/CIMV2", voltages |-> "ROOT/CIMV2"]
FieldsOf == [zones |-> {"temp"}, probes |-> {"name", "temp"},
             cpu_info |-> {"name", "max", "voltage", "load"},
             fans |-> {"name", "active", "speed"},
             voltages |-> {"name", "voltage", "highest", "lowest"}]
Needs == [zones |-> {"temp"}, probes |-> {"temp"}, cpu_info |-> {}, fans |-> {}, voltages |-> {}]

\* The variant type that the code takes for each property.
TypeOf(field) == CASE field = "name" -> "BSTR" [] field = "active" -> "BOOL" [] OTHER -> "I4"

Typed(row, field) == field \in DOMAIN row /\ row[field].type = TypeOf(field)
Counted(c, row) == \A field \in Needs[c] : Typed(row, field)

\* VARIANT.iVal: the low 16 bits, signed.
IVal(n) == ((n + 32768) % 65536) - 32768

\* Tenths of a kelvin become tenths of a degree, tenths of a volt millivolts.
Scaled(c, field, n) == CASE c = "zones" -> n - 2732
                         [] c = "cpu_info" /\ field = "voltage" -> 100 * n
                         [] OTHER -> n

\* What is right for a property that has the expected type and fits 16 bits.
RowFits(c, row, e) ==
  /\ DOMAIN e = FieldsOf[c]
  /\ \A field \in FieldsOf[c] :
       Typed(row, field) /\ IVal(row[field].val) = row[field].val
         => e[field] = Scaled(c, field, row[field].val)

\* The rows of c that a connection to the services has.
RowsOf(f, services, c) ==
  IF HomeOf[c] \in services
  THEN {SelectSeq(r, LAMBDA x : Counted(c, x)) : r \in Read(f, Class(c))} ELSE {}

\* At most n rows.  A class that stops answering may cut them short.
ListFits(c, rows, n, cut, v) ==
  LET all == UpTo(n, rows)
  IN  /\ Len(v) = Len(all) \/ (cut /\ Len(v) < Len(all))
      /\ \A i \in DOMAIN v : RowFits(c, all[i], v[i])

-----------------------------------------------------------------------------
(* System statistics.                                                      *)

Truncate(a, b) == IF a >= 0 THEN a \div b ELSE -((-a) \div b)

\* The busy share in percent between two samples; kernel time has the idle
\* time in it.
Share(a, b) ==
  LET total == (b.kernel - a.kernel) + (b.user - a.user)
  IN  IF total > 0 THEN Truncate(100 * (total - (b.idle - a.idle)), total) ELSE 0

Uptime(s) == [days |-> s \div 86400, hours |-> (s \div 3600) % 24,
              minutes |-> (s \div 60) % 60, seconds |-> s % 60]

Used(s) == [total |-> s.total, used |-> s.total - s.avail, percent |-> s.load]

Disk(l, d) == [letter |-> l, free |-> d.free, percent |-> (100 * (d.total - d.free)) \div d.total]

\* The letters that have a disk, in order.
Disks(f, n) ==
  LET order == SetToSortSeq({l \in 1 .. LetterMax : Letter(l) \in DOMAIN f}, <)
  IN  UpTo(n, [i \in DOMAIN order |-> Disk(order[i], f[Letter(order[i])])])

\* The first n drives, where they have counters.
DiskIo(f, n) ==
  LET order == SetToSortSeq({d \in 0 .. n - 1 : {Drive(d), Counters(d)} \subseteq DOMAIN f}, <)
  IN  [i \in DOMAIN order |-> <<order[i], f[Counters(order[i])]>>]

\* Neither loopback nor filters; an adapter without a name gets its index.
Adapters(f, n) ==
  LET name(r, i) == CASE r.alias # "" -> r.alias
                      [] r.alias = "" /\ r.description # "" -> r.description
                      [] OTHER -> "adapter" \o ToString(i)
      listed(table) == SetToSortSeq({i \in DOMAIN table : table[i].kind = "adapter"}, <)
      result(table) == [i \in DOMAIN listed(table) |->
                          [name  |-> name(table[listed(table)[i]], listed(table)[i]),
                           bytes |-> table[listed(table)[i]].bytes]]
  IN  Else({UpTo(n, result(table)) : table \in Read(f, Interfaces)}, {<<>>})

-----------------------------------------------------------------------------
(* Processes: the greatest of those in the snapshot.                       *)

\* A process that cannot be opened has zeros.
Row(f, p) == [pid |-> p, cpu |-> Max({0} \cup UNION {x.cpu : x \in Read(f, Process(p))}),
              memory |-> Max({0} \cup UNION {x.memory : x \in Read(f, Process(p))})]

Key(by, row) == IF by = 1 THEN row.cpu ELSE row.memory

Sorted(by, s) == \A i \in 1 .. Len(s) - 1 : Key(by, s[i]) >= Key(by, s[i + 1])

\* The n greatest of the rows R, the greatest first.
IsTop(by, n, R, s) ==
  /\ Len(s) = Min({n, Cardinality(R)}) /\ IsInjective(s) /\ Range(s) \subseteq R
  /\ Sorted(by, s)
  /\ \A r \in R \ Range(s), x \in Range(s) : Key(by, r) <= Key(by, x)

-----------------------------------------------------------------------------
(* Drives and GPUs.                                                        *)

\* The attributes 0xE2 and 0xC2 of the SMART data.
SmartTemp(attributes) ==
  LET temps == SelectSeq(attributes, LAMBDA a : /\ a.id \in {"0xE2", "0xC2"}
                                                /\ a.val \in 1 .. 126)
  IN  IF temps = <<>> THEN {} ELSE {temps[1].val}

\* The low byte of word 209, as it is.
IdentifyTemp(byte) == {byte} \cap 0 .. 127

\* The first drive that has a temperature, by SMART or else by IDENTIFY.
DriveTemp(f) ==
  LET smart(d) == UNION {SmartTemp(x) : x \in Read(f, SmartData(d))}
      identify(d) == UNION {IdentifyTemp(x) : x \in Read(f, IdentifyData(d))}
      temp(d) == IF Drive(d) \in DOMAIN f THEN Else(smart(d), identify(d) \ {0}) ELSE {}
      found == {d \in 0 .. DriveMax - 1 : temp(d) # {}}
  IN  IF found = {} THEN {} ELSE {<<Min(found), x>> : x \in temp(Min(found))}

Required == {"init", "shutdown", "by_index", "get_temp"}

\* The functions hwsense_gpu_info calls for a GPU, in order; get_clock twice.
Rows == <<"get_name", "get_temp", "get_mem", "get_power", "get_limit", "get_util",
          "get_clock", "get_clock">>
TempRow == 2

\* What p may answer: a snapshot and a class have rows, and of nvml.dll those
\* functions matter that are looked up in it.
OfKind(p, c) ==
  /\ p = Snapshot \/ (\E k \in DOMAIN HomeOf : p = Class(k)) => c \in Seq(Range(c))
  /\ p = NvmlDll => c \subseteq Required \cup Range(Rows)

\* A GPU of an NVML that is loaded with the functions fn.
NvmlGpu(f, g, fn) ==
  LET rows == {i \in DOMAIN Rows : Rows[i] \in fn /\ Nvml(g, i) \in DOMAIN f}
  IN  IF {NvmlDriver, Nvml(g, 0)} \subseteq DOMAIN f THEN {[i \in rows |-> f[Nvml(g, i)]]}
      ELSE {}

NvmlTemp(f, g, fn) ==
  {<<"nvml", x[TempRow]>> : x \in {x \in NvmlGpu(f, g, fn) : TempRow \in DOMAIN x}}
AdlTemp(f, g) ==
  IF AdlAdapters \in DOMAIN f /\ f[AdlAdapters] > 0
  THEN {<<"adl", Truncate(x, 10)>> : x \in Read(f, Adl(g))} ELSE {}
=============================================================================
