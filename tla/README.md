# A TLA+ model of libhwsense

libhwsense reads the temperatures, clocks, powers, fans and voltages of a PC:
on Windows through the WinRing0 kernel driver (model-specific registers, PCI
configuration space, I/O ports, physical memory), WMI and the makers' GPU
libraries, on Linux through `/dev/port`, `/dev/cpu/*/msr`, sysfs and procfs.
Most of it decodes one register. What is hard is what lies under the decoding: a
kernel service that all contexts of a machine share, protocols with firmware
that answers late or never, index/data register pairs that are not atomic,
per-core registers read by a thread the scheduler moves, counters that wrap,
libraries loaded once by whichever thread comes first, devices that vanish or
are renumbered between the file that names them and the file that holds the
value, and calls that fail between two steps of all this. That is what these
modules model, check with TLC and prove with TLAPS.

File names without a directory are in `src/` of the repository (`core/`,
`cpu/`, `gpu/`, `motherboard/`, `storage/`).

## Running it

    tlc -workers 2 -config DriverService_faults.cfg MC_DriverService.tla
    tlapm DriverServiceProofs.tla

Every run is a pair of an `MC_` module and a `.cfg`; `PROJECT.json` lists them
with their properties, the findings, the hazards and, for every definition that
models code, the lines it models. A definition whose comment begins with
"Mutant:" is a wrong version of the definition after it, of the kind a slip in
the code would be. No specification uses it: it is there to be put in place of
the right one, which must make the named property fail.

## Inventory

| Part | State it keeps | Operations | What is hard |
|---|---|---|---|
| Driver service life cycle, `core/driver.c` | the service registration and the loaded driver (machine-wide), four handles and the retry counter per caller | `hwsense_init`, `hwsense_shutdown` | all contexts share one service; a deletion takes effect later; crashes leave registrations behind; each early return must close what is open |
| AMD window, `cpu/amd_zen.c` | the index register (machine-wide) | `smn_read`, `smn_write_dword`, package and CCD temperatures | two system calls per access, no lock, either may fail |
| AMD SMU mailbox, `cpu/amd_smu.c` | command, response and argument registers; the PM table in DRAM | `smu_send_command`, versions, DRAM base, table transfer, `hwsense_amd_smu_diag`, package power | late answers, unchecked writes, a command abandoned halfway |
| AMD SVI2, `cpu/amd_svi2.c` | none | telemetry planes, power of both | the window above |
| Per-core registers, `cpu/intel.c` and the frequency of `cpu/amd_zen.c` | the thread's affinity | temperatures, clock, voltage, frequency | the scheduler; the mask arithmetic; restore on every path |
| Intel RAPL, `cpu/intel.c` | static previous sample per domain | package, pp0, pp1, dram power | wraps, failed reads, threads sharing the statics |
| Intel on Linux, `cpu/intel_linux.c` | none | core and package temperature | the valid bit; a junction temperature that cannot be read |
| Super I/O on Windows, `motherboard/superio.c` | configuration mode, selected register and lock bit of the chip; thread-local monitor ports | detection, temperatures, fans, voltages | leaving configuration mode on every path; the write allow-list; banks |
| ITE decoding, `motherboard/ite_decode.c`, `ite_linux.c` | bank bits of the monitor | bank switch and restore, decoding | a failed switch; a chip in a state somebody else left |
| Nuvoton on Linux, `motherboard/nct_linux.c` | bank register and its cached copy | banked reads, lock bit, restore | the cached bank can be stale; results of writes are not looked at |
| Embedded controller, `motherboard/ec.c` | the controller's two buffers and its progress | `ec_read_all_sensors` | time-outs, late answers, one field failing among many |
| Alerts, `core/alert.c` | `hwsense_alert_t` | init, step, check with a callback | hysteresis, dropped readings, NaN, re-entrant callbacks |
| Export, `core/export.c` | `appender_t` on the caller's buffer | JSON, a CSV row, a CSV header | truncation at any character; names with the characters the formats treat specially |
| Linux readers, `core/sensors_linux.c`, `core/driver_linux.c`, `cpu/hwmon_linux.c`, `soc_linux.c`, `storage/nvme_linux.c` | the vendor in the context | temperatures, clock, fans, voltages, thermal zones, drives, GPU | which source wins when some fail; devices that come, go and change numbers during the call |
| NVML on Linux, `gpu/gpu_linux.c` | static `nv`: the library, its functions and a "tried" flag | load once, read | two threads loading at once; libraries that lack functions |
| GPU on Windows, `gpu/gpu.c` | statics: two libraries, NVML's functions, ADL's context | temperature, information | a session per call that every return must end; two libraries with fallbacks |
| WMI, `core/wmi.c` | statics: initialised, the locator, two services; the count of COM in each thread | init, shutdown, zones, CPU, fans, voltages | release on every early return; COM that the host has initialised already; properties that are missing |
| System statistics, `core/win_sysstats.c` | the static sample of the call before | load, memory, uptime, disks, network, processes | differences of samples; a list that grows until memory runs out |
| Storage on Windows, `storage/storage.c` | none | drive temperatures by SMART or IDENTIFY | a handle per drive, closed on every path |
| Dispatch, `core/api.c` | none | one function per reading | which maker's registers are read, for known and unknown makers |
| Unified reports, `core/hwsense_unified.c`, `core/unified_linux.c` | none | `hwsense_read_all`, getters | what is stored for a reading that failed |
| Diagnostics, `cpu/cpu_diag.c` | none | prints registers | formatting |

The parts interact by calls: a report calls the readers one after the other,
`api.c` dispatches to a vendor's reader, which uses the context's device handle.
They interact through shared state far more than through calls: every context
opens the same service and device, every AMD reader goes through the same
window, the RAPL functions, the WMI session and the GPU libraries are statics of
the process, and the firmware and other programs use the same ports. The only
callback is that of an alert; there are no threads, locks or queues in the
library itself, so every interleaving comes from its callers, the scheduler, the
firmware, the kernel or another process.

What makes each part correct: the life cycle leaks nothing and leaves nothing
behind, and can recover from what a crash left; a value that is returned stems
from the register, core, command, device and time it is reported for; among
several sources the preferred one that can be read wins; a protocol abandoned
halfway does not spoil the next one, or the model says precisely when it does;
every call returns; an alert reports exactly the changes its readings define;
what is exported can be read back.

## Modules

| Module | Models | Extends or composes |
|---|---|---|
| `DriverService` | `core/driver.c` with the service manager | |
| `DriverServiceProofs` | its theorems | `DriverService`, TLAPS |
| `SmuMailbox` | the register accesses and sensors of `cpu/amd_zen.c`, `cpu/amd_svi2.c`, all of `cpu/amd_smu.c`, the firmware | |
| `SmuMailboxProofs` | its theorems | `SmuMailbox`, TLAPS |
| `AlertPolicy` | what an alert promises, said of the readings alone | |
| `Alert` | `core/alert.c` and the callers of it | `INSTANCE AlertPolicy` |
| `Rapl` | the four energy functions of `cpu/intel.c` | |
| `MsrAffinity` | `read_msr_on_core` and its callers, `hwsense_amd_cpu_freq` | |
| `IntelProofs` | the theorems of the two | `Rapl`, `MsrAffinity`, TLAPS |
| `Ec` | `motherboard/ec.c` with the controller | |
| `EcProofs` | its theorems | `Ec`, TLAPS |
| `SuperIoChip` | the chips, as operators on a chip's state | |
| `SuperIoPort` | a call's state and its single port accesses, `portio_linux.h` | `SuperIoChip` |
| `SuperIoDecode` | reading the monitor: `ite_decode.c`, the decoders of `nct_linux.c` and `superio.c` | `SuperIoPort` |
| `SuperIoWindows` | `motherboard/superio.c` | `SuperIoDecode` |
| `SuperIoLinux` | `ite_linux.c`, `nct_linux.c`, `superio_scan` of `core/sensors_linux.c` | `SuperIoDecode` |
| `SuperIo` | a board, both systems, deaths; the properties | the two above |
| `SuperIoProofs` | its theorems | `SuperIo`, TLAPS |
| `Appender` | `append` of `core/export.c` on the caller's memory, for any text cut into any pieces | |
| `OutputProofs` | the theorems of `Appender` and of `Alert`, the refinement among them | `Alert`, `Appender`, TLAPS |
| `Export` | the pieces that the three writers of `core/export.c` append | `Appender` |
| `ExportReader` | readers of both formats, written from the RFCs | `Export` |
| `Sources` | a machine as the sources that can be read | |
| `LinuxFiles` | what each Linux reading is for files that stand still | `Sources` |
| `LinuxSensors` | the Linux readers, one step per file | `LinuxFiles` |
| `LinuxProofs` | its theorems | `LinuxSensors`, TLAPS |
| `WindowsSources` | what each Windows reading is for a machine that stands still | `Sources` |
| `WindowsSensors` | `core/wmi.c`, `win_sysstats.c`, `api.c`, `hwsense_unified.c`, `gpu/gpu.c`, `storage/storage.c`, one step per call to the system | `WindowsSources` |
| `WindowsProofs` | its theorems | `WindowsSensors`, TLAPS |
| `MC_*` | the small instances | the module of the name |

### DriverService

`reg` and `driver` are the machine's one registration and one loaded driver;
`open`, `pc`, `try`, `call` and `ret` belong to a caller, which stands for one
user of the library opening and closing one context at a time, in this process
or another. An action is one call to the operating system with the code up to
the next: `CreateService` to `OpenDevice` for `install_and_start_driver` and
`open_driver_handle`, `AllocContext` for the `calloc`, `StopService`,
`DeleteService` and `CloseService` for the tail that `hwsense_shutdown` and a
failing `hwsense_init` have in common. Each has a parameter `f`: the call fails
for a reason the service's state does not explain. `Crash` ends a caller
anywhere; the system closes its handles and nothing more.

The service manager is external. It is modelled from what the code's own
comments and retries rely on: a deleted registration stays "marked" until the
driver is stopped and the last handle is closed, and a stopped driver stays
loaded while its device is open.

`excuse` is history. It is raised in a caller's call when a system call of that
caller fails of itself or another caller holds the service or the device. It
lets the properties speak of a call that nobody interfered with, without
restricting what state earlier calls and crashes left.

### SmuMailbox

The window is `index` and the registers behind it; every access is
`SelectRegister` and then the access itself, so a second thread, a failure or
the firmware can come between. A mailbox's registers hold records of a kind and
of the *ticket* of the command they stem from. Tickets are history: no guard
reads them. `smu_send_command` is `WaitReady`, `ClearResponse`, `WriteArgument`
(for the transfer, the only command with one), `WriteCommand`, `PollResponse`,
`ReadLow`, `ReadHigh`; `Plan` says which commands a reader sends, and
`CommandDone` what it does with success and failure. `FirmwareAnswer` may
happen at any time or never. `Sensors` are the readers without a command: they
read registers in order, and differ in what a failure or an absent part does
(`ReadSensor`). Not told apart: the values of versions, addresses, telemetry
and table entries; which of the CPU families selects which mailbox address.
`hwsense_amd_smu_diag` is modelled with all of its output pointers given.

### Alert and AlertPolicy

`Alert` has the fields of `hwsense_alert_t`; readings are integers and one value
that compares false to everything, for the NaN. `CheckTempAlert` runs the
callback inside the check: `calls` is the stack of callbacks in progress, and
every operation is enabled at any depth, so a callback may step, check or set up
its own alert. `AlertPolicy` has no state machine at all: a breach stands when
some reading exceeded the threshold and none after it cleared the margin, and an
event is reported exactly when that changes.

### Rapl

One function with the domain as a parameter stands for the four, which are the
same text on different registers and statics. Between reading the counter, the
tick count, the unit register and storing the sample, energy and time go on.
`frame` holds a thread's locals and, as history, the true values behind them.
The first sample's three assignments are one action.

### MsrAffinity

`mask` and `on` are the thread's affinity and processor; `Migrate` moves it
within its mask at any time. A reading is the set of processors its registers
were read on, so a reading computed from two cores is visible as such.
`CoreMasks` is `(DWORD_PTR)(1 << core_id)`: the sign extension of bit 31, and
for a shift by the width or more, which C leaves undefined, what x86 builds
produce (the count modulo the width) or no bit at all.

### Ec

`ibf`, `obf` and `asked` are the controller: the byte it has not taken, the
answer nobody has read, and how far it is in a command. `Take` and `Answer` are
its steps, at any time. The library's actions are single port accesses; a wait
that runs out is `WaitFails`, at any moment, for the code bounds it by time. A
value is the register and the generation of its content, so an old or foreign
byte is visible.

### SuperIo

A procedure of the readers is mostly a list of port accesses. `todo` is the
list that is left, `Transfer` does the first access of it, and the actions of
`SuperIoDecode`, `SuperIoWindows` and `SuperIoLinux` are the code between two
lists: they look at `got`, what the accesses read, and decide what comes next,
with all early returns. An access is one byte to the index port, or an index and
the data after it; each half may fail, and what the code does then is in
`Outcome` and `GivesUp`: Windows gives up the access and, in a key sequence, the
procedure; Linux looks at no result, so data goes to the register that was
selected before.

`chip` holds a chip per pair of ports: how much of its key it has heard, its
configuration mode and selected register, its lock register, its bank and its
monitor's selected register. `hurt` are the registers written that nobody should
write. Bytes are named, so a reading is the list of the registers that answered,
and a reading of the wrong register, the wrong bank or an empty bus is visible.
The content of an ITE chip's bank register is one member of `Bank`; `Cleared`
says for those with bit 5 or 6 set what the code's `& ~0x60` leaves, and
`ReadBank` is so the bank the registers are read in, which is another than bank 0
if bit 7 was set (Findings).
The history `was`, `tried`, `cut`, `lost` and `stray` says how the chips were
when the call began, what was tried, and what failed in this call.

`Die` ends the process at any point and leaves the chips as they are; the next
call, of whichever family comes first, finds them like that.

### Appender, Export and ExportReader

`Appender` is `appender_t` and the memory around the caller's buffer: `size` and
`needed` are its fields, `mem` the memory up to some way past the end, and
`AppendPiece` one call of `append` with the `vsnprintf` in it. What is written
is a constant, so the contract is proved for every text and every way to cut it.
`Export` gives the pieces of the three writers in the order the code appends
them. A character is a short string and the digits of a number are one
character, named for the member they show: a number in the wrong place is
visible, how it is printed is not, except the decimal point, which the locale
chooses. `ExportReader` reads the two formats as RFC 8259 and RFC 4180 define
them; nothing in it comes from the writers.

### LinuxFiles and LinuxSensors

A file is `<<what, device, number>>`, a machine a function from the files that
can be read to what they hold. `LinuxFiles` says what each reading is as a set
expression on such a function: the sources in their order of preference, without
the loops of the code. `LinuxSensors` has the loops: `me[t]` are the locals of a
thread (`h` and `i` are the loops' counters, `best`, `list` and `vals` what has
been found), and a step opens and reads one file and decides what comes next,
early returns and fallbacks included. Between two steps a file can become
unreadable (`Deny`) or change (`Rewrite`), a driver can go (`Unplug`) and two
devices can come back with each other's numbers (`Renumber`). `moments` is
history: the machines there have been since a thread's call began.

The property relates the two: a result must be what `LinuxFiles` says for *some*
machine in `Mixtures(moments)`, in which each file is as it was at some moment
of the call. That is as much as a reader that takes no snapshot can promise, and
it fails as soon as a value is carried from one device to another, a fallback is
skipped, or a loop ends early. The direct Super I/O readers, which
`superio_scan` falls back on, are one source here and modelled in `SuperIoLinux`.

`nv` and `image` are the static table of `gpu_linux.c` and the library it points
into; a thread in `nvml_load` sets the flag, opens the library, looks the
functions up one by one and may close it again. A call through a function that
is missing or of a closed library is a crash, a state of its own. What the GPU's
reading should be does not depend on what `nvml_load` made of the library: with a
usable one there (`Usable`), a loader that ends without it is noticed.

### WindowsSources and WindowsSensors

Built the same way: `WindowsSources` says what a reading is for the answers a
machine gives (WMI rows, counters, adapters, processes, drives, GPU libraries,
registers of each maker), `WindowsSensors` asks for them one call to the system
at a time while any of them may fail or change. Beyond the values it keeps what
the library takes from the system: `com` is each thread's apartment and count,
`wmi`, `gpu` and `prev` are the statics, `held` counts locators, services,
enumerators, objects, handles, sessions and libraries. `ledger` is history: what
the host itself initialised, and which thread did `wmi_init`. `odd` is history
too, and marks the uses the library makes no provision for, which are listed
under Findings.
As on Linux, a GPU library that is usable (`UsableNvml`, `UsableAdl`) must have
been used, whether it was loaded or not.

`Leftover` is what memory holds that was not written: a member of a result that
the code leaves uninitialised may have any value of it.

## What is checked

| Run | Instance | Result |
|---|---|---|
| `driver_faults` | 2 callers, 3 retries, all eight system calls may fail, crashes | holds: no leaked handle, an undisturbed init succeeds from whatever state the service was left in, an undisturbed shutdown leaves nothing, when all are out and no call failed nothing is registered or loaded, every init returns |
| `smu_one` | 1 thread, 2 polls, 4 commands, 2 dies, any access fails, the process dies | holds: an accepted answer is the command's own, power is from its own transfer, a sensor's value is that sensor's, a wedged mailbox is one abandoned halfway, every reader returns |
| `smu_threads` | 2 threads, no failing call | finding |
| `alert` | 2 thresholds, 3 margins (one negative), 5 readings and NaN, 4 readings deep, 2 nested callbacks | holds, and refines `AlertPolicy` |
| `rapl_apart` | 2 threads, 2 domains, both counters wrap at 2, energy to 2, time to 3, failing reads | holds: the samples add up |
| `msr_cores` | 4 processors, int of 3 bits, every process and thread affinity, failing reads | holds: a value is of its core, for the cores below the int's sign bit; the affinity is restored on every path; the call for all cores goes on past those that fail and counts the valid readings |
| `ec_late` | a word and two byte fields, contents change twice, any access fails, the process dies | holds: values are the fields' own until a handshake is given up, no byte is overwritten, every field is tried |
| `sio_faults` | 6 boards, both systems, temperatures and voltages, 2 failing accesses or deaths in a behaviour | holds: chips leave configuration mode, registers are as they were, no other device is written to, readings are of the field's own registers, each temperature source is reported once |
| `sio_phantom` | the same boards, all readings, nothing fails | finding |
| `export` | every name of up to two special characters, counts from none to more than the arrays hold, seven buffer sizes, memory past the buffer | holds: nothing outside the buffer is written, the contract of the header, and what was not cut is read back as it was |
| `linux` | 563 machines with a call or two by one or two threads, one change of the files | holds: every reading is the best source's, no call goes through a bad pointer |
| `windows` | 244 machines with their calls, hosts without COM and with either apartment, two threads at WMI and at the GPU, one change or failure | holds: what was taken is given back on every path, every reading is the sources' own |

Bounds, and why they are enough. Two callers of the driver service give every
pair of conflicting calls, and a crash leaves every state a third would have
left.
Retries beyond two repeat the same round. Four SMU commands are two whole power
readings, so a late answer of the first meets each command of the second; the
poll limit only says how often nothing is found. Four readings visit every pair
of states of an alert and return. Moduli of 2 make a wrap and a whole turn that
goes unnoticed happen within the few units of energy and time allowed. Four
processors separate the core in turn, the one before, one at the sign of an int
of 3 bits and one beyond it. Three fields have a first, a middle and a last, and
the word is read in two handshakes. The boards have each kind of chip first,
behind another, behind an unknown one, locked, switched off and in another bank:
an ITE chip in one that clearing 0x60 leaves for bank 0 (0x20), in one that it
leaves for another (0xA0) and in one that it does not leave (0x80);
two failures are the least that leave a chip in a bad state in one call and
disturb the next. The fields have one of a word, one of two bytes, three that
show one source and one in another bank. The buffer sizes of `export` measure
only, cut a text in its first piece, in the middle and at its last character,
and just hold it.

In `linux`, three hwmon directories let a device be first, between and last, and
change numbers with another; two of them are within the reach of the scan for
the processor (32 of the 64 in the code) and one is not. Two inputs are the one
the code falls back on and another; two thermal zones and processors have a gap
before and after; the board's list is full after two readings and the caller's
list of zones after one, so both are cut. Counters wrap at 32. One change is
what it takes to come between a device's name and its value; two need two calls
that notice. In `windows` there are two drives and three letters (with a gap),
room for two fans and one process at first, so that the list grows; one change
is again the failure of any one call in the middle of all the others. The jobs
of both are chosen so that each reading meets every source present, absent and
unreadable, and are listed in the `MC_` modules. Each bound is a constant that
is named in the guard it limits.

Fairness. `DriverService` and `SmuMailbox` have a `FairSpec`: weak fairness of
the steps of a thread that is inside a call, for the operating system runs it on
and its waits are bounded by a counter or the tick count. Nothing is assumed of
the firmware or of other programs, and nothing makes a caller open, close or
read. The other modules have no loop that waits on somebody else: their calls
are finite lists of accesses, files or calls to the system (the waits of `Ec` end
in `WaitFails` whenever the time is up), so that a call returns holds by their
shape and is not stated.

Deadlock is checked, except in `SmuMailbox`, where a behaviour ends when its
commands are used up, and in `LinuxSensors` and `WindowsSensors`, where it ends
when all calls of its job are made or a thread has crashed.

## What is proved

`tlapm` checks the following for all values of the constants.

- `DriverServiceProofs`: `TypeCorrect`, `HandlesClosed` (`NoLeakedHandle`),
  `InitSucceeds` (`UndisturbedInitSucceeds`), `ShutdownCleans`
  (`UndisturbedShutdownCleans`), for any set of callers, faults and at least two
  retries, with or without crashes. None of the properties is inductive. `IInv`
  adds the handles each location implies (`Held`), how registration and driver
  depend on the handles of all callers (`Machine`: without it a stopped driver
  could come back under an undisturbed caller), the retry budget (`Rounds`), and
  what an undisturbed caller may rely on between two of its calls
  (`Undisturbed`, `UndisturbedExit`): the crucial part is that a registration
  marked for deletion can only be met in the first round, because stopping the
  driver purges it when nobody else holds it.
  `LeavesNothing` (`NothingLeftBehind`) has an invariant of its own, `Attended`:
  while no call failed and nobody died, a registration that is not marked has a
  caller that will still delete it, and a running driver one that will still stop
  it. The case that needs an argument is a start that finds the driver unloading:
  then somebody has the device open, and only somebody who will stop the driver
  has.
- `SmuMailboxProofs`: `TypeCorrect` for any number of threads, and with one
  thread (`One`) `AnswersOwn` (`AnswerIsOwn`), `PowersFresh` (`PowerIsFresh`),
  `WedgedByCut` (`WedgedOnlyByCut`) and `SensorsFaithful` (`SensorsOwn`), for
  every list of dies, every poll limit, any number of commands and firmware that
  answers any time or never. `One` is no convenience: two threads do break all of
  this (run `smu_threads`). `IInv` says that the window selects the target of an
  access that is half way (`Selected`), what each location implies for the
  mailbox in use (`Order`: before the command is written nothing is under way;
  while polling, either the own command is, or its answer is there), and that
  the registers hold the command's answer once it was accepted (`Answered`).
  Tickets are natural numbers that grow; the thread in a command always holds the
  latest one, so the answer it finds can be no later and, by `Order`, no earlier.
  The power reading adds `Table`: nothing rewrites the table between the transfer
  and the read, because `rsmu` has no command under way any more. `Busy` says
  that without an abandoned command a silent mailbox has one under way or a
  thread about to write it.
- `IntelProofs`, of `Rapl`: `TypeCorrect`, and `PowersAddUp`: `Exclusive => (Spec =>
  []SamplesAddUp)`, for counters of any width. `Exclusive` is the constant that
  keeps two threads out of the same function; without it the property is false
  (Findings). `Kept` relates the statics of a domain to the true values behind
  them (`StaticsOf`) and the locals of a thread to the statics it has read and
  the truth at that moment (`FrameOf`), which outlive the other threads' steps
  because they are at other domains (`Apart`). The rest is arithmetic: the
  difference of two residues is the residue of the difference, and equals it when
  less than a turn has passed.
- `IntelProofs`, of `MsrAffinity`: `CoreTypeCorrect`, `ReadingsOfCore`
  (`ReadingIsOfCore`), `MaskRestored` (`AffinityRestored`) and `AllCoresTried`
  (`EveryCoreTried`), for any number of processors, any width of an int and of a
  mask, and any starting affinity. `CoreInv` adds which mask each
  location implies (`Pinned`: between pinning and restoring, the core's mask, and
  `old_mask` is the thread's own) and that what was read so far was read on the
  core in turn (`CoreProgress`): the scheduler can move a thread only within a mask
  that, below the sign bit, has one processor. `Tried` says how far the loop over
  all cores has come and that `count` is the number of valid readings so far.
- `OutputProofs`, of `Alert`: `TypeCorrect`, `AlertLatched`, `EventsAlternate`,
  `CallbackInformed`, and `ImplementsAlertPolicy`: every behaviour of `Alert` is
  one of `AlertPolicy`. The argument is one lemma, `BreachedAppend`: what one
  more reading does to a definition that quantifies over all of them is what the
  one bit of state does.
- `EcProofs`: `TypeCorrect`, `BytesOwn` (`OwnUnlessCut`), `EveryFieldTried`
  (`ResultComplete`), `BytesTaken` (`NeverOverruns`), for any list of fields and
  any controller. `IInv` says how far the controller can be for where the
  library is (`InStep`), as long as no handshake was given up after its command
  byte, and that what a wait saw stays so (`Clear`), always: this is why bytes
  are never overwritten even after time-outs, while values can be foreign.

- `OutputProofs`, of `Appender`: `AppenderTypeCorrect` and `ContractKept` (`Contract`), for every
  text, every way to cut it into pieces, every buffer size and any memory.
  `AppenderInv` adds that `needed` counts the text even when the buffer is full (`Needed`),
  what the buffer holds meanwhile (`Prefix`): as much of the text as fits, with a
  terminator from the first piece on, and that a call starts from untouched
  memory (`Untouched`). The crucial step is that after the cut no later piece touches
  the terminator, since `needed` has reached `size`.

- `SuperIoProofs`: `TypeCorrect`, `ConfigModeLeft` (`LeavesConfigMode`),
  `RegistersAsFound` (`RegistersKept`), `BytesStayOnChip` (`StaysOnChip`),
  `ReadingsFromOwn` (`ReadingsOwn`) and `EachSourceOnce` (`SourcesOnce`), for any
  boards, any lists of fields and any number of failures and deaths, on both
  systems. The invariant is a tower, each
  storey using the ones below it. `Base`: types, and that `todo` is an end of the
  list its procedure began with (`Queue`), so that what is done is known from how
  much is left; at the pair that may not be written to nothing changes
  (`Outside`). `Modes`: how much of its key the chip has heard, and so its mode,
  as a function of the number of accesses left (`ModeAfter`); a chip of the other
  family, unless it was left in configuration mode before, hears at most one byte
  of its own key by chance (`Deaf`). The key of either family is a prefix of what
  the other could take for its own, so this is where the order of the families
  matters. `Hurts`: what is written in configuration mode hits only the registers
  meant, except the exit sequence of the other family. `Locks`: what is about to
  be written to the lock register was read from it and differs in the lock bit
  (`Loosened`). `Banks`: the saved bank is the one found, and the bank the reader
  believes selected (`cache` on Linux; for ITE the saved one without the bits of
  0x60, `ReadBank`) is selected, as far as the monitor can be reached at all
  (`Selected`, `Reached`). This is the claim the cached bank of `nct_linux.c`
  rests on. `Addressed` and `BaseKnown`: the logical
  device is selected before the registers of the monitor are read, so an address
  that is wrong has lost a byte. `OwnCells`: the lock is off before the monitor is
  used, and what was read for a field so far is from its own registers. It leaves
  out the chips `ReadingsOwn` excepts (`Exempt`): Nuvoton chips on Windows, and ITE
  chips found in a bank with bit 7 set (`Stuck`), which both are Findings. That
  every other ITE chip is read in bank 0 follows from `Banks`: the saved bank is the
  one it was found in.
  `SourcesTold` says, while nothing has failed, that the reader finds the chips it
  is for (`Known`, `Ruled`), that of the first `k` fields each source with a valid
  temperature is reported once (`Counting`), and that a field's value is read only
  for a source not reported yet (`Fresh`); the last is what a step needs that
  appends a reading. It rests on `IteFirst`, that no port has been tried for Nuvoton
  chips before the reader for ITE chips is through, and on `FieldsAssumption`, that
  the fields with a source are temperatures (`nct_linux.c:79`): clearing the
  readings of another kind must leave them alone. That no
  chip of a board starts in configuration mode is an assumption of `SuperIo`;
  processes that die produce such chips, and the theorems cover them.

- `LinuxProofs`: `TypeCorrect` and `GpuCallsGuarded` (`NvmlGuarded`), for any number
  of threads, any calls, any files that change any number of times, and any limits
  on devices, inputs and zones. `TypeOK` is not inductive: that an index
  stays below the end of its array depends on which loop of which reading the
  thread is in. `Typed` says this for every location (`Place`), how long the list
  may be there (`Bounded`), and that the contents of the files are of their kind
  (`Files`). `Guarded` says what `nvml_load` has done so far while no two threads
  were in it (`raced`): one thread at most is loading; past `dlopen` the library is
  there; a thread at a device has seen the load through; and once nobody is
  loading, a library that is kept has all required functions. The last is what a
  call through `nv.fn` needs, and it holds because a load that lacks one closes
  the library before `nvml_load` returns.

- `WindowsProofs`: `TypeCorrect` and `LeftAsFound` (`LeavesAsFound`), for any number of
  threads, any calls, any state of COM of the host's threads, any sources, any
  number of changes and any limits. `LeavesAsFound` speaks of the moments when
  nobody is in a call, so its invariant says at every place what has been taken so
  far. `HeldRight` counts: of enumerators, objects, drives, snapshots, processes
  and NVML sessions, as many are held as there are threads at a place that holds
  one (`Holds`). A step of one thread changes both sides by the same amount
  (`OneTaken`, `QuietHeld`), and no place outside a call holds any. This part
  holds even after an `odd` use. `LifeRight` is about the statics of `wmi.c`: one
  thread at most is between `CoInitializeEx` and the end of `wmi_init`; COM of a
  thread is initialised as often as the host did, once more inside `wmi_init`, and
  once more for the thread that owns WMI; a locator without `ready` exists only
  while a thread is connecting, with no more namespaces than those it has tried.
  `LibrariesRight` is the same for NVML and ADL: one loader each, a library that is
  kept and not being loaded has `nvmlInit`, and a thread past the load of ADL finds
  it ready, so no call is made through NULL. Both need the exceptions of `odd`; of
  the step that raises it only `WellTyped` is claimed. Steps that leave the statics
  alone are all instances of one lemma (`TakenKept`).

The constants' assumptions are in the modules that declare them and are
evaluated by every run. For the Super I/O readers they say, besides what is named
above, that a byte that was not read is no bank (`BanksAssumption`), that clearing
bits of a bank register leaves a bank (`ClearedAssumption`) and that the fields of
ITE chips are all in bank 0 (`BankAssumption`, `ite_decode.c:73`). For `SmuMailbox` they say that a package has a die, that
the part that is always there (`tctl`) is, and that no die has the name of
another register's content. For `LinuxSensors` and `WindowsSensors` they say that
the limits are positive, the threads finitely many, and that a behaviour starts
from calls of the interface and from files or sources with contents of their kind
(`JobAssumption`); on Linux also that a temperature is an integer and that between
two samples of the load less than one turn of the counters passes
(`ContentsAssumption`).

Only proved, and in no run: `CallbackSeesNewState` of `Alert` (`CallbackInformed`),
which is about the order of assignment and callback in one operation.

Only model-checked: the two liveness properties (`InitReturns`,
`ReaderReturns`), which the provers do not reach; `ReadsBack`, since `ExportReader`
parses by recursion; and `ReportFaithful` of `LinuxSensors` and `WindowsSensors`.
That one compares what a loop has collected with a definition that takes all files
or sources at once (the first so many of a set, in order; a best one; the greatest
of a list), each as it was at some moment of the call. A proof needs an invariant
of its own for the loop of every reader, and inductions over lists and sets.

## Findings

Two disagreements with what the repository says are runs of their own.

- `smu_threads`: two threads with a context each share the window, and one reads
  the register the other selected. `USAGE.md:455` recommends separate contexts
  for multi-threaded access. The service of the driver and the statics of the
  RAPL functions are shared the same way: with `Exclusive = FALSE`, `SamplesAddUp`
  of `Rapl` fails too.
- `sio_phantom`: on Windows the registers of a Nuvoton chip are read through the
  configuration ports after configuration mode has been left
  (`motherboard/superio.c:218`). Nothing drives the bus then, every byte is 0xFF,
  and all fans read 164 rpm and all voltages 2.04 V, with `ok` set.

A third shows as the exception `Stuck` of `ReadingsOwn`. `ite_decode.c:74` means
to read an ITE chip in bank 0 whatever bank it was left in, and line 19 says that
bits 7:5 of the register are the bank; line 82 tests and line 83 clears bits 6:5
only, and line 117 restores on the same test. A chip left in a bank with bit 7 set
alone (0x80) is read there, and one left in 0xA0 is read in 0x80. Either the mask or
the comment is wrong. Without the exception TLC finds `ReadingsOwn` violated on the
boards of `sio_faults`. The bank a chip was found in is there again at the end all
the same (`RegistersKept`).

The other weaknesses met while modelling are in the models as the code has them,
and show in an exception that a property needs or in a definition.

Registers and ports.

- The energy unit is taken from bits 4:0 of MSR 0x606, the power unit
  (`intel.c:218`), where `core/sensor_math.h:135` and its test have bits 12:8.
  `Rapl` samples the same field the code does (`UnitMsr`).
- From core 31 on, the affinity mask of `intel.c:57` is not that core's; the
  exception in `ReadingIsOfCore`.
- After a time-out of the embedded controller, the late answer is returned as the
  value of the next register (`ec.c:106`); the `cut` of `OwnUnlessCut`.
- `SmuMailbox`: `lost` (the clearing of the response is not checked, so an old
  response can pass for a new one) and `cut` (a failure after the clearing wedges
  the mailbox for good).
- `SuperIo`: on Linux a bank that could not be read is not restored
  (`nct_linux.c:300`); on Windows a lock register that could not be read is set to
  zero (`superio.c:495`), and the allow-list is opened at a wrong address when the
  low byte of the monitor's address could not be read (`superio.c:398`); after
  any failed write (`cut`) nothing is claimed, and on Linux such a failure sends
  data to the register selected before.
- `driver.c:175`, `185` and `210` pass no status pointer to `ControlService`; a
  stop that fails for that reason is the fault "stop".

Linux readers.

- Two threads that load NVML at once can call a function that is still NULL or
  one of a library that is being closed; `raced` is the exception. A load that
  failed is not tried again.
- An `amdgpu` device whose `temp1_input` cannot be read gives no GPU at all, and
  NVML gives one with a temperature of 0 when only that call fails. GPU numbers
  start from 0 for each maker.
- The processor's fallback on a chip without a preferred label is input 1 only,
  and its scan ends after 32 hwmon directories where the others look at 64.
- The mean clock is that of the processors before the first without a frequency.
- `superio_scan` reads the chip directly whenever sysfs has no input of the wanted
  kind, also when a driver owns the chip; such a result may be good and empty.
- The load wraps when the kernel counts `iowait` down; the header promises 0 to
  100.
- Without `MemAvailable` all memory counts as used. Temperatures below zero are 0
  in a report, drives below zero are left out, and rounding is towards zero. The
  size reported for a drive is that of the root file system.

Windows readers.

- In a thread of a single-threaded apartment `wmi_init` goes on without having
  initialised COM, and `wmi_shutdown` then takes the host's initialisation away;
  so does a shutdown in a thread that did no init. These are `odd`.
  `hwsense_unified_init` has no counterpart that releases WMI.
- Members of a result whose property is missing stay uninitialised in
  `wmi_cpu` (its voltage can be anything); 16 bits are taken from a value of
  any type; in the list of probes the name of a skipped probe is carried to the
  next, and neither a NULL array of names nor its size is looked at.
- For an unknown maker voltages and powers are read the AMD way, and the window,
  the mailbox and the table do not look at the maker at all.
- `hwsense.h:400` says that every other adapter is returned; filter interfaces
  are skipped besides.
- Disk statistics look only at drive numbers below the size of the caller's
  array. When memory runs out the top processes are those of a prefix of the list,
  and the call succeeds.
- In a report a power that cannot be read is -1, everything else 0.
- NVML and ADL are loaded without a lock, and the sample of `win_get_cpu_load` is
  shared by all threads.

Export: with a locale that has a decimal comma, `%.2f` makes two values of one,
in both formats; `ReadsBack` claims the decimal point only.

## Not modelled, and why

- The diagnostics, the request codes, the examples and bindings, and the printed
  report: formatting and constants.
- Floating-point arithmetic: unit conversion and the functions of `sensor_math.h`,
  one expression each with unit tests, except the ones a choice of source depends
  on. Of the Super I/O chips, the sizes of the result arrays (readings beyond them
  are left out).
- The Android properties of `soc_linux.c` (another source of the name).
- The search for the driver file in `hwsense_init`, folded into `BeginInit`, and
  the registry query for the vendor.
- A second client of the embedded controller or of the Super I/O ports: the
  library has no protocol with one, so every property about values would be given
  up (`ec.c:103`). For the same reason the two bytes of a word of the controller,
  read by two handshakes (`ec.c:114`), are each checked for themselves only.
- `wmi_shutdown` is one step, and so is the lookup of the functions of a GPU
  library on Windows: a second thread in between is marked `odd` in any case. For
  `win_get_cpu_load`, one thread is assumed.

## What is left

Every safety property is proved but `ReadsBack` and the two named `ReportFaithful`.
`ReportFaithful` could be proved one reader at a time: for each an invariant that
what its loop has found so far is what the definition in `LinuxFiles` or
`WindowsSources` makes of the sources read so far, in some mixture of the moments
of the call.
