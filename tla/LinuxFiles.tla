----------------------------- MODULE LinuxFiles -----------------------------
(***************************************************************************)
(* The files that the Linux readers read, and what each reading is: the    *)
(* sources of a value in their order of preference, stated without the     *)
(* loops of the code, for a file system that stands still.                 *)
(*                                                                         *)
(* A file is a tuple <<what, device, number>>, a file system a function    *)
(* from the files that can be read to their contents, as in Sources.       *)
(* Temperatures are in millidegrees.                                       *)
(***************************************************************************)
EXTENDS Sources, SequencesExt, FiniteSetsExt

CONSTANTS
  HwmonMax,     \* hwmon directories that are looked at (64)
  CpuHwmonMax,  \* those looked at for the processor (32)
  InputMax,     \* inputs of a hwmon directory (16)
  ZoneMax,      \* thermal zones (256)
  CpuMax,       \* processors (1024)
  BoardMax,     \* readings of one kind of a board (7, 8 and 16)
  ListMax,      \* entries of the caller's array of zones
  Wide          \* 2^64: the counters of /proc/stat

ASSUME LimitAssumption ==
  /\ {HwmonMax, InputMax, ZoneMax, CpuMax, BoardMax, ListMax, Wide} \subseteq Nat \ {0}
  /\ CpuHwmonMax \in 1 .. HwmonMax

Name(h)        == <<"name", h, 0>>
Label(h, i)    == <<"label", h, i>>
Input(k, h, i) == <<k, h, i>>        \* k is "temp", "fan" or "in"
Amd(h, i)      == <<"amd", h, i>>
ZoneType(z)    == <<"zone_type", z, 0>>
ZoneTemp(z)    == <<"zone_temp", z, 0>>
Target         == <<"msr_target", 0, 0>>
Status         == <<"msr_status", 0, 0>>
Freq(c)        == <<"cur_freq", c, 0>>
MaxFreq        == <<"max_freq", 0, 0>>
Kgsl(i)        == <<"kgsl", 0, i>>
Nvml(g, i)     == <<"nvml", g, i>>
Library        == <<"libnvidia-ml", 0, 0>>
Smart(d)       == <<"smart_log", d, 0>>
Chip(k)        == <<"superio_" \o k, 0, 0>>
Cpuinfo        == <<"cpuinfo", 0, 0>>
Stat           == <<"stat", 0, 0>>
Meminfo        == <<"meminfo", 0, 0>>
Uptime         == <<"uptime", 0, 0>>
Boot           == <<"CLOCK_BOOTTIME", 0, 0>>
Online         == <<"_SC_NPROCESSORS_ONLN", 0, 0>>
Root           == <<"statvfs_root", 0, 0>>

\* The files of a hwmon directory.
OfHwmon == {"name", "label", "temp", "fan", "in", "amd"}

\* power1_average, power1_cap, freq1_input, freq2_input, gpu_busy_percent,
\* mem_info_vram_used, mem_info_vram_total
AmdFiles == 7
\* gpu_model, clock_mhz, gpu_busy_percentage
KgslFiles == 3

\* The functions of NVML in the order nvml_load looks them up; those
\* it requires, and those it then calls for a GPU, one after the other.
Symbols == <<"init", "by_index", "get_name", "get_temp", "get_mem", "get_power",
             "get_limit", "get_util", "get_clock">>
Required == {"init", "by_index", "get_temp"}
Rows == SubSeq(Symbols, 3, Len(Symbols))

CpuChips == {"k10temp", "zenpower", "coretemp"}
\* is_non_board_chip
NonBoard == CpuChips \cup {"nvme", "amdgpu", "nouveau", "radeon", "acpitz",
                           "BAT0", "AC", "iwlwifi_1", "drivetemp"}
Preferred == {"Tctl", "Package id 0"}
CpuZones  == {"cpu-0-0", "x86_pkg_temp", "soc-thermal"}
GpuZones  == {"gpuss-0", "gpu-thermal"}

-----------------------------------------------------------------------------

\* Division of C, towards zero.
Divide(a, b) == IF a >= 0 THEN a \div b ELSE -((-a) \div b)
Round(m) == Divide(m + 500, 1000)

\* hwsense_thermal_decode
Celsius(raw) == IF raw \in -999 .. 999 THEN raw * 1000 ELSE raw
Coldest == -40000
Warmest == 150000
Plausible(raw) == raw # 0 /\ Celsius(raw) \in Coldest .. Warmest

\* hwsense_intel_tjmax, hwsense_intel_temp_c
TjMax(target) == IF target \in 50 .. 150 THEN target ELSE 100

\* The busy share in percent between two samples of the counters user,
\* idle and iowait, all arithmetic modulo Wide.
Load(a, b) ==
  LET total == ((b.user + b.idle + b.iowait) - (a.user + a.idle + a.iowait)) % Wide
      idle  == ((b.idle + b.iowait) - (a.idle + a.iowait)) % Wide
  IN  IF total = 0 THEN 0 ELSE (100 * ((total - idle) % Wide)) \div total

\* hwsense_detect_vendor: the first line that tells.
VendorOf(f) ==
  IF Cpuinfo \notin DOMAIN f \/ f[Cpuinfo].vendor = <<>> THEN "?"
  ELSE Head(f[Cpuinfo].vendor)

-----------------------------------------------------------------------------
(* The readings of a file system f.                                        *)

Hottest(f, kinds) ==
  LET temps == {Celsius(f[ZoneTemp(z)]) : z \in
                  {z \in 0 .. ZoneMax - 1 :
                     /\ Is(f, ZoneType(z), kinds)
                     /\ ZoneTemp(z) \in DOMAIN f /\ Plausible(f[ZoneTemp(z)])}}
  IN  IF temps = {} THEN {} ELSE {Max(temps)}

\* The first chip of the processor that has a reading gives the first of its
\* inputs with a preferred label, else its input 1.
HwmonTemp(f) ==
  LET labelled(h) == {i \in 1 .. InputMax : /\ Is(f, Label(h, i), Preferred)
                                            /\ Input("temp", h, i) \in DOMAIN f}
      inputs(h) == IF labelled(h) # {} THEN labelled(h)
                   ELSE {i \in {1} : Input("temp", h, i) \in DOMAIN f}
      chips == {h \in 0 .. CpuHwmonMax - 1 : Is(f, Name(h), CpuChips) /\ inputs(h) # {}}
  IN  IF chips = {} THEN {}
      ELSE LET h == Min(chips) IN {f[Input("temp", h, Min(inputs(h)))]}

MsrTemp(f) ==
  IF /\ {Target, Status} \subseteq DOMAIN f
     /\ f[Status].valid
  THEN {1000 * (TjMax(f[Target]) - f[Status].readout)} ELSE {}

CpuTemp(f, vendor) ==
  Else(HwmonTemp(f), Else(IF vendor = "I" THEN MsrTemp(f) ELSE {}, Hottest(f, CpuZones)))

\* The hottest of the drives that are not below zero.
NvmeTemp(f) ==
  LET temps == {f[Input("temp", h, 1)] : h \in
                  {h \in 0 .. HwmonMax - 1 : /\ Is(f, Name(h), {"nvme"})
                                             /\ Input("temp", h, 1) \in DOMAIN f}}
  IN  IF \E x \in temps : x >= 0 THEN {Round(Max(temps))} ELSE {}

FirstInput(k) == IF k = "in" THEN 0 ELSE 1
BoardValue(k, v) == IF k = "temp" THEN Round(v) ELSE v

\* The inputs of the chips of the board in order, as many as the result holds;
\* without any, what the chip itself gives.
Board(f, k) ==
  LET found == {hi \in (0 .. HwmonMax - 1) \X (FirstInput(k) .. InputMax) :
                  /\ Name(hi[1]) \in DOMAIN f /\ f[Name(hi[1])] \notin NonBoard
                  /\ Input(k, hi[1], hi[2]) \in DOMAIN f}
      order == UpTo(BoardMax, InOrder(found))
  IN  IF found = {} THEN Read(f, Chip(k))
      ELSE {[n \in DOMAIN order |-> BoardValue(k, f[Input(k, order[n][1], order[n][2])])]}

Mean(s) == FoldSeq(+, 0, s) \div Len(s)

\* The mean of the processors before the first whose frequency cannot be
\* read, else of the lines of /proc/cpuinfo.
Clock(f) ==
  LET gaps == {c \in 0 .. CpuMax - 1 : Freq(c) \notin DOMAIN f} \cup {CpuMax}
      s == [c \in 1 .. Min(gaps) |-> f[Freq(c - 1)]]
  IN  IF s # <<>> THEN {Mean(s) \div 1000}
      ELSE {Mean(x.mhz) : x \in {x \in Read(f, Cpuinfo) : x.mhz # <<>>}}

\* The contents of the files of a list that can be read.
Values(f, files) == [i \in {i \in DOMAIN files : files[i] \in DOMAIN f} |-> f[files[i]]]

AmdGpu(f, g) ==
  LET cards == {c \in (0 .. HwmonMax - 1) \X {0} : Is(f, Name(c[1]), {"amdgpu"})}
      card  == Nth(cards, g)[1]
      files == [i \in 1 .. AmdFiles |-> Amd(card, i)]
  IN  IF Cardinality(cards) <= g THEN {}
      ELSE {[from |-> "amdgpu", temp |-> {Round(x)}, vals |-> Values(f, files)] :
              x \in Read(f, Input("temp", card, 1))}

NvmlResult(vals) ==
  [from |-> "nvml", temp |-> {vals[i] : i \in {i \in DOMAIN vals : Rows[i] = "get_temp"}},
   vals |-> vals]

\* A GPU of a loaded library that has the functions fn.
NvmlGpu(f, g, fn) ==
  LET files == [i \in DOMAIN Rows |-> Nvml(g, IF Rows[i] \in fn THEN i ELSE -1)]
  IN  {NvmlResult(Values(f, files)) : x \in Read(f, Nvml(g, 0))}

MobileGpu(f) ==
  LET temp == {Round(x) : x \in Hottest(f, GpuZones)}
      vals == Values(f, [i \in 1 .. KgslFiles |-> Kgsl(i)])
  IN  IF temp = {} /\ vals = <<>> THEN {}
      ELSE {[from |-> "mobile", temp |-> temp, vals |-> vals]}

Zones(f) ==
  LET found == {z \in (0 .. ZoneMax - 1) \X {0} :
                  /\ {ZoneType(z[1]), ZoneTemp(z[1])} \subseteq DOMAIN f
                  /\ Plausible(f[ZoneTemp(z[1])])}
      order == UpTo(ListMax, InOrder(found))
      zone(z) == [type |-> f[ZoneType(z)], temp |-> Celsius(f[ZoneTemp(z)])]
  IN  [n \in DOMAIN order |-> zone(order[n][1])]

Identity(f) ==
  LET info == Read(f, Cpuinfo)
      nonzero(s) == SelectSeq(s, LAMBDA n : n # 0)
      first(s, none) == IF nonzero(s) = <<>> THEN none ELSE Head(nonzero(s))
      threads == IF info = {} THEN f[Online]
                 ELSE first(f[Cpuinfo].siblings, f[Online])
  IN  [name    |-> IF info = {} THEN {}
                   ELSE Else(f[Cpuinfo].model, f[Cpuinfo].hardware),
       threads |-> threads,
       cores   |-> IF info = {} THEN threads ELSE first(f[Cpuinfo].cores, threads)]

\* meminfo: without the line MemAvailable, all of it counts as used.
Memory(f) ==
  {[total |-> x.total, used |-> IF x.avail = {} THEN x.total ELSE x.total - Max(x.avail)] :
     x \in {x \in Read(f, Meminfo) : x.total # 0}}

Seconds(f) == Max(Else(Read(f, Uptime), Read(f, Boot)))

\* hwsense_nvme_smart_decode: a sensor that reads 0 does not exist.
SmartOf(log) == [temp |-> log.composite, sensors |-> SelectSeq(log.sensors, LAMBDA k : k # 0)]
=============================================================================
