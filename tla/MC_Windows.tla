----------------------------- MODULE MC_Windows -----------------------------
(* A small instance of WindowsSensors for TLC: machines that differ in what  *)
(* one reading depends on, and two threads at WMI and at the GPU.            *)
EXTENDS WindowsSensors

One == "t1"
Two == "t2"
Both == {One, Two}

Calls(a, b) == [t \in Both |-> IF t = One THEN a ELSE b]
Ask(c, n) == <<[call |-> c, max |-> n, by |-> 0]>>
AskBy(c, n, k) == <<[call |-> c, max |-> n, by |-> k]>>

None == <<>>
Bare(v) == (Vendor :> v) @@ (Driver :> 0) @@ (Ticks :> 100000)
Put(S, c) == [p \in S |-> c]

-----------------------------------------------------------------------------
(* COM and WMI. *)

ComSources == Put({ComLibrary, Security, Locator, Namespace("ROOT/WMI"), Namespace("ROOT/CIMV2")}, 0)
Apartments == [none |-> [mode |-> "none", count |-> 0], mta |-> [mode |-> "mta", count |-> 1],
               sta |-> [mode |-> "sta", count |-> 1]]

I4(n) == [type |-> "I4", val |-> n]
Text(n) == [type |-> "BSTR", val |-> n]
Bool(n) == [type |-> "BOOL", val |-> n]
Null == [type |-> "NULL", val |-> 0]

ZoneRows == {<<>>, <<[temp |-> I4(3032)], [temp |-> Null], [temp |-> I4(3102)]>>}
ProbeRows == {<<>>, <<[name |-> Text(1), temp |-> Null], [temp |-> I4(450)]>>,
              <<[name |-> Text(1), temp |-> I4(300)], [name |-> Text(2), temp |-> I4(40000)]>>}
CpuRows == {<<>>, <<[name |-> Text(4), max |-> I4(3600), voltage |-> I4(12), load |-> I4(9)]>>,
            <<[name |-> Text(4), max |-> I4(3600), voltage |-> Null], [name |-> Text(5)]>>}
FanRows == {<<>>, <<[name |-> Text(6), active |-> Bool(1), speed |-> I4(900)],
                    [active |-> Null, speed |-> Text(7)], [name |-> Text(8)]>>}
VoltageRows == {<<[name |-> Text(3), voltage |-> I4(33), highest |-> I4(36)], [lowest |-> I4(30)]>>}

WmiMachines(c, S) == {(Class(c) :> r) @@ ComSources @@ Bare("A") : r \in S}
LifeMachines == {(Class("cpu_info") :> CHOOSE r \in CpuRows : Len(r) = 1) @@ ComSources @@ Bare("A")}
ZoneMachines == {a @@ b @@ ComSources @@ Bare("A") : a \in {None} \cup {Class("zones") :> r : r \in ZoneRows},
                   b \in {None} \cup {Class("probes") :> r : r \in ProbeRows}}

-----------------------------------------------------------------------------
(* Registers, statistics, drives, processes. *)

RegisterMachines ==
  {[p \in {Register(by, k) : by \in {"amd", "intel"}, k \in Dispatched} |->
      IF p = Register("amd", "clock") THEN 0 ELSE 5]
     @@ Bare(v) : v \in {"I", "A", "?"}}

Sample(u, k, i) == [user |-> u, kernel |-> k, idle |-> i]
Statistics1 == (Times :> Sample(2, 9, 5)) @@ (MemoryStatus :> [total |-> 16, avail |-> 6, load |-> 62])

DiskMachines == {[p \in {Letter(l) : l \in S} |-> [total |-> 10, free |-> p[2]]] @@ Bare("A") :
                   S \in SUBSET (1 .. LetterMax)}

DriveParts(d) ==
  {None, Drive(d) :> 0, (Drive(d) :> 0) @@ (IdentifyData(d) :> 35 + d),
   (Drive(d) :> 0) @@ (IdentifyData(d) :> 0) @@ (SmartData(d) :> <<[id |-> "0xE2", val |-> 127]>>),
   (Drive(d) :> 0) @@ (IdentifyData(d) :> 200)
     @@ (SmartData(d) :> <<[id |-> "0x05", val |-> 9], [id |-> "0xC2", val |-> 40 + d]>>)}
DriveMachines == {a @@ b @@ Bare("A") : a \in DriveParts(0), b \in DriveParts(1)}
CounterMachines == {a @@ b @@ Bare("A") :
   a \in {None, Drive(0) :> 0, (Drive(0) :> 0) @@ (Counters(0) :> 7)},
   b \in {None, (Drive(1) :> 0) @@ (Counters(1) :> 8)}}

Adapter(k, a, d) == [kind |-> k, alias |-> a, description |-> d, bytes |-> 1]
NetMachines == {Bare("A"), Bare("A") @@ (Interfaces :>
  <<Adapter("loopback", "lo", ""), Adapter("adapter", "", "Intel I225"), Adapter("filter", "x", ""),
    Adapter("adapter", "", ""), Adapter("adapter", "LAN", "y")>>)}

Usage(c, m) == [cpu |-> c, memory |-> m]
ProcessMachines ==
  {a @@ b @@ (Process(12) :> Usage({2}, {6})) @@ h @@ (Snapshot :> <<4, 8, 12>>) @@ Bare("A") :
     a \in {None, Process(4) :> Usage({3}, {6})}, b \in {Process(8) :> Usage({1}, {}), Process(8) :> Usage({9}, {7})},
     h \in {None, Heap :> 0}}

-----------------------------------------------------------------------------
(* GPUs. *)

Dlls == {None} \cup {NvmlDll :> S : S \in {Required, Required \cup {"get_name", "get_mem"},
                                           (Required \cup {"get_name"}) \ {"get_temp"}}}
NvmlParts == {None, NvmlDriver :> 0, Put({NvmlDriver, Nvml(0, 0)}, 0),
              Put({NvmlDriver} \cup {Nvml(0, i) : i \in 0 .. 4}, 66)}
AdlParts == {None, AdlDll :> "works", (AdlDll :> "works") @@ (AdlAdapters :> 0),
             (AdlDll :> "fails"), (AdlDll :> "works") @@ (AdlAdapters :> 1) @@ (Adl(0) :> 455)}
GpuMachines == {d @@ n @@ a @@ Bare("A") : d \in Dlls, n \in NvmlParts, a \in AdlParts}
TwoGpuMachines == {d @@ (NvmlDriver :> 0) @@ a @@ Bare("A") : d \in Dlls, a \in AdlParts}

-----------------------------------------------------------------------------

ReportMachines ==
  {Statistics1 @@ m @@ ComSources @@ (Class("cpu_info") :> r)
     @@ (Class("fans") :> CHOOSE r2 \in FanRows : Len(r2) = 3) :
     m \in RegisterMachines, r \in CpuRows}

MCJob ==
  LET job(M, a, b, x) == {[sources |-> m, calls |-> Calls(a, b),
                           com |-> [t \in Both |-> Apartments[x]]] : m \in M}
      init == Ask("init", 0)
      down == Ask("shutdown", 0)
      ask(c) == Ask(c, 2)
      cpu == ask("cpu_info")
  IN  UNION {
        UNION {job(LifeMachines, init \o cpu \o init \o down, <<>>, x) : x \in DOMAIN Apartments},
        UNION {job(LifeMachines, init \o cpu \o down, cpu, x) : x \in {"none", "mta"}},
        job(LifeMachines, init \o init, init \o down, "none"),
        job(ZoneMachines, init \o ask("zones") \o down, <<>>, "none"),
        job(WmiMachines("cpu_info", CpuRows), init \o cpu, <<>>, "none"),
        job(WmiMachines("fans", FanRows), init \o ask("fans"), <<>>, "none"),
        job(WmiMachines("voltages", VoltageRows), init \o ask("voltages"), <<>>, "none"),
        UNION {job(RegisterMachines \cup {[p \in {Vendor, Ticks} |-> "?"]}, ask(k), <<>>, "none") :
                 k \in Dispatched},
        job({Statistics1 @@ Bare("A")}, ask("load"), <<>>, "none"),
        job({Statistics1 @@ Bare("A")}, ask("load_since") \o ask("load_since"), <<>>, "none"),
        job(DiskMachines, ask("disks") \o Ask("disks", 0), <<>>, "none"),
        job(CounterMachines, ask("disk_io") \o Ask("disk_io", 0), <<>>, "none"),
        job(DriveMachines, ask("drive_temp"), <<>>, "none"),
        job(NetMachines, ask("net"), <<>>, "none"),
        UNION {job(ProcessMachines, AskBy("processes", 2, k), <<>>, "none") : k \in {0, 1}},
        job(GpuMachines, Ask("gpu_temp", 0) \o Ask("gpu_info", 0), <<>>, "none"),
        job(TwoGpuMachines, Ask("gpu_temp", 0), Ask("gpu_temp", 0), "none"),
        job(ReportMachines, init \o Ask("hwsense_read_all", 0) \o down, <<>>, "none")}

\* What a source may change to.
MCNew(p, c) ==
  CASE p = Times -> {Sample(c.user + d[1], c.kernel + d[2], c.idle + d[3]) :
                       d \in {<<2, 3, 1>>, <<0, 4, 4>>, <<0, 0, 0>>}}
    [] p[1] = "OpenProcess" -> {Usage({9}, {9})}
    [] p[1] = "identify_device" -> {50}
    [] p[1] = "GetDiskFreeSpaceEx" -> {[total |-> 10, free |-> 9]}
    [] p = MemoryStatus -> {[total |-> 16, avail |-> 2, load |-> 87]}
    [] p[1] = "nvml" -> {70}
    [] p = Class("cpu_info") -> {<<[name |-> Text(5), voltage |-> I4(11)]>>}
    [] OTHER -> {}
=============================================================================
