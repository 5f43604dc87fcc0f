------------------------------ MODULE MC_Linux ------------------------------
(* A small instance of LinuxSensors for TLC: machines that differ in what one *)
(* reading depends on, and two threads at the GPU.                            *)
EXTENDS LinuxSensors

One == "t1"
Two == "t2"
Both == {One, Two}

Calls(a, b) == [t \in Both |-> IF t = One THEN a ELSE b]
Ask(c, n) == <<[call |-> c, index |-> n]>>

JoinAll(S) == [p \in UNION {DOMAIN f : f \in S} |-> (CHOOSE f \in S : p \in DOMAIN f)[p]]
None == <<>>
Bare == (Boot :> 90000) @@ (Online :> 2) @@ (Root :> 5)

Device(h, n) == Name(h) :> n

-----------------------------------------------------------------------------
(* The processor's temperature. *)

\* One input: absent, without a label, with one, or with one and unreadable.
TempInput(h, i) ==
  {None, Input("temp", h, i) :> (40000 + i),
   (Input("temp", h, i) :> (50000 + i)) @@ (Label(h, i) :> "Tctl"),
   Label(h, i) :> "Tctl"}

CpuDevices(h) == {Device(h, "k10temp") @@ a @@ b : a \in TempInput(h, 1), b \in TempInput(h, 2)}

MsrFiles == {None, Target :> 90,
             (Target :> 90) @@ (Status :> [valid |-> TRUE, readout |-> 30]),
             (Target :> 0) @@ (Status :> [valid |-> FALSE, readout |-> 30])}

Zone(z, type, raw) == (ZoneType(z) :> type) @@ (ZoneTemp(z) :> raw)
ZoneFiles ==
  {None, ZoneType(0) :> "cpu-0-0", Zone(0, "cpu-0-0", -273000) @@ Zone(1, "x86_pkg_temp", 27),
   Zone(0, "cpu-0-0", 45000) @@ Zone(1, "cpu-0-0", 44000),
   Zone(0, "cpu-0-0", -20000) @@ Zone(1, "gpuss-0", 60000)}

Vendor(v) == Cpuinfo :> [vendor |-> <<v>>, model |-> {}, hardware |-> {"SM8550"},
                         siblings |-> <<0, 4>>, cores |-> <<>>, mhz |-> <<800, 900>>]

CpuMachines ==
  {d @@ e @@ Zone(0, "cpu-0-0", 33000) @@ Vendor("A") :
     d \in CpuDevices(0) \cup {Device(0, "acpitz") @@ (Input("temp", 0, 1) :> 20000)},
     e \in {None, Device(1, "coretemp") @@ (Input("temp", 1, 2) :> 70000)
                     @@ (Label(1, 2) :> "Package id 0"),
            Device(2, "coretemp") @@ (Input("temp", 2, 1) :> 71000)}}
  \cup {m @@ z @@ v : m \in MsrFiles, z \in ZoneFiles, v \in {Vendor("I"), Vendor("R"), None}}

-----------------------------------------------------------------------------
(* Drives, board, clock, load. *)

Drive(h) == {None, Device(h, "nvme"), Device(h, "nvme") @@ (Input("temp", h, 1) :> (41400 + h * 300)),
             Device(h, "nvme") @@ (Input("temp", h, 1) :> -5000)}
DriveMachines == {a @@ b @@ c : a \in Drive(0), b \in Drive(1), c \in Drive(2)}

Inputs(k, h, S) == [p \in {Input(k, h, i) : i \in S} |-> 1500 + 10 * p[2] + p[3]]
BoardMachines(k) ==
  {Device(0, n) @@ Inputs(k, 0, S) @@ Device(2, "it87") @@ Inputs(k, 2, T) @@ c :
     n \in {"nct6775", "k10temp"},
     S \in SUBSET (FirstInput(k) .. 2), T \in {{}, {1}, {1, 2}},
     c \in {None, Chip(k) :> <<>>, Chip(k) :> <<7>>}}

ClockMachines ==
  {f @@ v @@ (MaxFreq :> 4000000) :
     f \in {None, Freq(0) :> 1000000, Freq(1) :> 2000000, (Freq(0) :> 1000000) @@ (Freq(1) :> 2000500)},
     v \in {None, Vendor("A"), Cpuinfo :> [Vendor("I")[Cpuinfo] EXCEPT !.mhz = <<>>]}}

Sample(u, i, w) == [user |-> u, idle |-> i, iowait |-> w]
LoadMachines == {None, Stat :> Sample(3, 5, 1), Stat :> Sample(14, 15, 2)}

\* The counters of a machine, and after one change.
Grown(c) == {Sample(c.user + d[1], c.idle + d[2], c.iowait + d[3]) :
               d \in {<<2, 1, 1>>, <<0, 4, 0>>, <<1, 3, -1>>, <<3, 0, 0>>, <<0, 1, -1>>}}
MCSamples == {Sample(3, 5, 1), Sample(14, 15, 2)} \cup Grown(Sample(3, 5, 1)) \cup Grown(Sample(14, 15, 2))

SmartMachines ==
  {None} \cup {Smart(0) :> [composite |-> 300, sensors |-> s] : s \in [1 .. 3 -> {0, 310}]}

-----------------------------------------------------------------------------
(* GPUs. *)

AmdCards(h) == {None, Device(h, "amdgpu") @@ (Amd(h, 2) :> 9),
                Device(h, "amdgpu") @@ (Input("temp", h, 1) :> (55400 + 100 * h)) @@ (Amd(h, 2) :> h)}
Libraries ==
  {None} \cup {Library :> [symbols |-> Range(Symbols) \ S, works |-> TRUE] :
                 S \in {{"get_mem"}, {"get_temp"}, {"by_index"}}}
         \cup {Library :> [symbols |-> Range(Symbols), works |-> w] : w \in BOOLEAN}
Cards == {None, Nvml(0, 0) :> 1, (Nvml(0, 0) :> 1) @@ (Nvml(0, 2) :> 66) @@ (Nvml(0, 3) :> 8)}
PhoneFiles == {None, Kgsl(1) :> 740, Zone(0, "gpuss-0", 31500) @@ (Kgsl(3) :> 37)}

GpuMachines ==
  {a @@ b @@ l @@ n : a \in AmdCards(0), b \in AmdCards(2),
     l \in {None, Library :> [symbols |-> Range(Symbols), works |-> TRUE]},
     n \in {None, Nvml(0, 0) :> 1}}
PhoneMachines == {a @@ p : a \in AmdCards(1), p \in PhoneFiles}
NvmlMachines == {l @@ n @@ (Device(0, "amdgpu") @@ (Input("temp", 0, 1) :> 50000)) :
                   l \in Libraries, n \in Cards}

-----------------------------------------------------------------------------
(* Whole reports. *)

Desktop ==
  Device(0, "k10temp") @@ (Input("temp", 0, 1) :> 52000) @@ (Label(0, 1) :> "Tctl")
    @@ Device(1, "nvme") @@ (Input("temp", 1, 1) :> 38600)
    @@ Device(2, "nct6775") @@ Inputs("fan", 2, {1, 2})
    @@ (Freq(0) :> 3000000) @@ (MaxFreq :> 4500000) @@ Vendor("A")
    @@ (Stat :> Sample(3, 5, 1)) @@ (Uptime :> 100000)
    @@ (Meminfo :> [total |-> 16, avail |-> {10}])
Phone ==
  Zone(0, "cpu-0-0", 41000) @@ Zone(1, "gpuss-0", 39500) @@ (Kgsl(1) :> 740) @@ Vendor("R")
    @@ (Meminfo :> [total |-> 8, avail |-> {}])

ReportMachines == {Desktop, Phone, None}
  \cup {[Desktop EXCEPT ![Input("temp", 0, 1)] = -3000, ![Meminfo].total = 0]}

MCJob ==
  LET job(M, a, b) == {[files |-> m @@ Bare, calls |-> Calls(a, b)] : m \in M}
      gpu(n) == Ask("hwsense_gpu_info", n)
  IN  job(CpuMachines, Ask("hwsense_cpu_package_temp", 0), <<>>)
      \cup job(DriveMachines, Ask("hwsense_nvme_temperature", 0), <<>>)
      \cup job(BoardMachines("temp"), Ask("hwsense_superio_temps", 0), <<>>)
      \cup job(BoardMachines("fan"), Ask("hwsense_superio_fans", 0), <<>>)
      \cup job(BoardMachines("in"), Ask("hwsense_superio_voltages", 0), <<>>)
      \cup job(ClockMachines, Ask("hwsense_cpu_core_clock", 0), <<>>)
      \cup job(LoadMachines, Ask("hwsense_get_cpu_load", 0), <<>>)
      \cup job(SmartMachines, Ask("hwsense_nvme_smart", 0), <<>>)
      \cup job(ReportMachines, Ask("hwsense_get_memory_used", 0), <<>>)
      \cup job({z @@ Vendor("R") : z \in ZoneFiles}, Ask("hwsense_thermal_zones", 0), <<>>)
      \cup job(GpuMachines, gpu(0) \o gpu(1), <<>>)
      \cup job(PhoneMachines, gpu(0), gpu(0))
      \cup job(NvmlMachines, gpu(0), gpu(0))
      \cup job(ReportMachines, Ask("hwsense_read_all", 0), <<>>)

\* What a file may change to.
MCNew(p, c) ==
  CASE p[1] = "temp" -> {61000, -700}
    [] p[1] = "label" -> {"Core 0"}
    [] p[1] = "fan" -> {900}
    [] p[1] = "zone_temp" -> {0, 48000}
    [] p[1] = "zone_type" -> {"gpuss-0"}
    [] p[1] = "msr_status" -> {[valid |-> FALSE, readout |-> 20]}
    [] p[1] = "cur_freq" -> {2500000}
    [] p[1] = "stat" -> Grown(c) \cap MCSamples
    [] p[1] = "meminfo" -> {[total |-> 8, avail |-> {3}]}
    [] p[1] = "nvml" -> {5}
    [] OTHER -> {}

MCTemperatures ==
  {61000, -700} \cup UNION {{j.files[p] : p \in {p \in DOMAIN j.files : p[1] = "temp"}} : j \in MCJob}
=============================================================================
