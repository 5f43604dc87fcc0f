---------------------------- MODULE MsrAffinity ----------------------------
(***************************************************************************)
(* Per-core registers (read_msr_on_core and its callers, src/cpu/intel.c,  *)
(* and hwsense_amd_cpu_freq, src/cpu/amd_zen.c, which does the same for    *)
(* core 0).                                                                *)
(*                                                                         *)
(* rdmsr reads the register of the processor the thread runs on, so the    *)
(* library pins its thread to a core, reads, and restores the affinity     *)
(* mask.  The scheduler moves a thread between the processors of its mask  *)
(* at any time.  What a reading is of is a set of processors: those that   *)
(* the registers it was computed from were read on.                        *)
(***************************************************************************)
EXTENDS Naturals, FiniteSets, Sequences

CONSTANTS
  Processors,  \* processors of the machine, numbered from 0
  IntBits,     \* width of the int in 1 << core_id (32)
  MaskBits,    \* width of an affinity mask (64)
  MsrFaulty    \* may a register read fail, or a reading be invalid?

ASSUME MaskAssumption ==
  /\ IntBits \in Nat \ {0} /\ MaskBits \in Nat
  /\ Processors \in 1 .. MaskBits
ASSUME MsrFaultyAssumption == MsrFaulty \in BOOLEAN

Processor == 0 .. Processors - 1

\* What a call is asked for, with the registers it reads on a core.
Registers ==
  [temps |-> <<"target", "status">>,   \* hwsense_intel_all_core_temps
   temp  |-> <<"target", "status">>,   \* hwsense_intel_core_temp_on_core
   clock |-> <<"perf">>,               \* hwsense_intel_core_clock_on_core
   volts |-> <<"perf">>,               \* hwsense_intel_core_voltage
   freq  |-> <<"pstate">>]             \* hwsense_amd_cpu_freq

Call == DOMAIN Registers

\* The calls that refuse what they read when it is no valid reading: a thermal
\* status without its valid bit, a P-state without a divisor or out of range.
Validated == {"temps", "temp", "freq"}

VARIABLES
  allowed,   \* the affinity mask of the process
  home,      \* history: the thread's own mask, as it was before a call
  mask,      \* the thread's mask now
  on,        \* the processor the thread runs on
  at,        \* where the thread is
  call,      \* the call, the number of cores asked for, the core in turn,
             \* the registers still to read on it, the processors read on
             \* so far, and whether the last read went through
  old,       \* old_mask of read_msr_on_core
  reading,   \* per core: the processors its reading is of, or why not
  count      \* what hwsense_intel_all_core_temps returns

msrVars == <<allowed, home, mask, on, at, call, old, reading, count>>

MsrTypeOK ==
  /\ allowed \in (SUBSET Processor) \ {{}}
  /\ home \in (SUBSET allowed) \ {{}}
  /\ mask \in (SUBSET allowed) \ {{}}
  /\ on \in mask
  /\ at \in {"idle", "pin", "read", "restore", "decode"}
  /\ call \in [name : Call, cores : 0 .. Processors, core : Processor,
               left : 0 .. 2, seen : SUBSET Processor, ok : BOOLEAN]
  /\ old \in SUBSET allowed
  /\ reading \in [Processor -> [state : {"none", "failed", "ok"}, of : SUBSET Processor]]
  /\ count \in 0 .. Processors

None == [state |-> "none", of |-> {}]

MsrInit ==
  /\ allowed \in (SUBSET Processor) \ {{}}
  /\ home \in (SUBSET allowed) \ {{}}
  /\ mask = home
  /\ on \in mask
  /\ at = "idle"
  /\ call = [name |-> "temps", cores |-> 0, core |-> 0, left |-> 0,
             seen |-> {}, ok |-> TRUE]
  /\ old = {}
  /\ reading = [c \in Processor |-> None]
  /\ count = 0

-----------------------------------------------------------------------------
(* The system. *)

\* The scheduler moves the thread.
Migrate ==
  /\ \E p \in mask : p # on /\ on' = p
  /\ UNCHANGED <<allowed, home, mask, at, call, old, reading, count>>

\* SetThreadAffinityMask: takes effect at once.
SetMask(m) ==
  /\ mask' = m
  /\ on' \in m
  /\ on \in m => on' = on

\* The masks that (DWORD_PTR)(1 << core) may be: a set top bit of the int is
\* the sign and extends to all higher bits; a shift by the width or more is
\* undefined, and takes the count modulo the width or gives no bit.
CoreMasks(core) ==
  IF core < IntBits - 1 THEN {{core}}
  ELSE IF core = IntBits - 1 THEN {core .. MaskBits - 1}
  ELSE {{core % IntBits}, {}}

-----------------------------------------------------------------------------
(* The library. *)

GoTo(l, c) == at' = l /\ call' = c

Scheduled == UNCHANGED <<allowed, home, mask, on>>

\* The first register of a core is next.
Turn(c, core) ==
  [c EXCEPT !.core = core, !.left = Len(Registers[c.name]), !.seen = {}, !.ok = TRUE]

\* A call that asks for temperatures of all cores, or one value of one core
\* (of core 0 where the caller cannot choose).
BeginCores(name, cores, core) ==
  /\ at = "idle"
  /\ name # "temps" => cores = 1
  /\ name \in {"temps", "volts", "freq"} => core = 0
  /\ reading' = [c \in Processor |-> None]
  /\ count' = 0
  /\ LET c == [call EXCEPT !.name = name, !.cores = cores]
     IN  IF cores = 0 THEN GoTo("idle", c) ELSE GoTo("pin", Turn(c, core))
  /\ Scheduled /\ UNCHANGED old

\* Mutant: a core that fails ends the loop.
CoreDoneGivesUp(ok) ==
  /\ reading' = [reading EXCEPT ![call.core] =
       IF ok THEN [state |-> "ok", of |-> call.seen]
       ELSE [state |-> "failed", of |-> {}]]
  /\ count' = IF ok THEN count + 1 ELSE count
  /\ IF ok /\ call.name = "temps" /\ call.core + 1 < call.cores
     THEN GoTo("pin", Turn(call, call.core + 1))
     ELSE GoTo("idle", call)

\* The core in turn has a reading or (not ok) failed: on to the next core of the loop.
CoreDone(ok) ==
  /\ reading' = [reading EXCEPT ![call.core] =
       IF ok THEN [state |-> "ok", of |-> call.seen]
       ELSE [state |-> "failed", of |-> {}]]
  /\ count' = IF ok THEN count + 1 ELSE count
  /\ IF call.name = "temps" /\ call.core + 1 < call.cores
     THEN GoTo("pin", Turn(call, call.core + 1))
     ELSE GoTo("idle", call)

\* Mutant: the mask is not compared with what the process may use.
PinAnywhere ==
  /\ at = "pin"
  /\ \E m \in CoreMasks(call.core) :
       /\ SetMask(m)
       /\ old' = mask
       /\ GoTo("read", call)
       /\ UNCHANGED <<reading, count>>
  /\ UNCHANGED <<allowed, home>>

\* The thread pins itself to the core; no mask, or one with a processor that
\* the machine does not have or the process may not use, is refused.
Pin ==
  /\ at = "pin"
  /\ \E m \in CoreMasks(call.core) :
       \/ /\ m # {} /\ m \subseteq allowed
          /\ SetMask(m)
          /\ old' = mask
          /\ GoTo("read", call)
          /\ UNCHANGED <<reading, count>>
       \/ /\ m = {} \/ ~(m \subseteq allowed)
          /\ CoreDone(FALSE)
          /\ UNCHANGED <<mask, on, old>>
  /\ UNCHANGED <<allowed, home>>

ReadMsr(f) ==
  /\ at = "read"
  /\ f => MsrFaulty
  /\ GoTo("restore", [call EXCEPT !.ok = ~f, !.left = @ - 1,
                                !.seen = IF f THEN @ ELSE @ \cup {on}])
  /\ Scheduled /\ UNCHANGED <<old, reading, count>>

\* Mutant: a read that failed returns before the affinity is restored.
RestoreAfterSuccess ==
  /\ at = "restore"
  /\ IF call.ok THEN SetMask(old) ELSE UNCHANGED <<mask, on>>
  /\ old' = {}
  /\ \/ ~call.ok /\ CoreDone(FALSE)
     \/ call.ok /\ call.left > 0 /\ GoTo("pin", call) /\ UNCHANGED <<reading, count>>
     \/ call.ok /\ call.left = 0 /\ GoTo("decode", call) /\ UNCHANGED <<reading, count>>
  /\ UNCHANGED <<allowed, home>>

\* Mutant: the second register of a core is read without pinning again.
RestoreThenReads ==
  /\ at = "restore"
  /\ SetMask(old)
  /\ old' = mask'
  /\ \/ ~call.ok /\ CoreDone(FALSE)
     \/ call.ok /\ call.left > 0 /\ GoTo("read", call) /\ UNCHANGED <<reading, count>>
     \/ call.ok /\ call.left = 0 /\ GoTo("decode", call) /\ UNCHANGED <<reading, count>>
  /\ UNCHANGED <<allowed, home>>

\* The affinity goes back to what it was, whether the read went through or
\* not; the caller then reads the next register of the core or gives up.
Restore ==
  /\ at = "restore"
  /\ SetMask(old)
  /\ old' = {}
  /\ \/ ~call.ok /\ CoreDone(FALSE)
     \/ call.ok /\ call.left > 0 /\ GoTo("pin", call) /\ UNCHANGED <<reading, count>>
     \/ call.ok /\ call.left = 0 /\ GoTo("decode", call) /\ UNCHANGED <<reading, count>>
  /\ UNCHANGED <<allowed, home>>

\* The value is computed, or refused.
Decode ==
  /\ at = "decode"
  /\ \/ CoreDone(TRUE)
     \/ MsrFaulty /\ call.name \in Validated /\ CoreDone(FALSE)
  /\ Scheduled /\ UNCHANGED old

Work == Pin \/ (\E f \in BOOLEAN : ReadMsr(f)) \/ Restore \/ Decode

MsrNext ==
  \/ Migrate
  \/ \E name \in Call, cores \in 0 .. Processors, core \in Processor :
       BeginCores(name, cores, core)
  \/ Work

MsrSpec == MsrInit /\ [][MsrNext]_msrVars
-----------------------------------------------------------------------------
(* Properties. *)

\* A value reported for a core was computed from registers that were all read
\* on that core, wherever the scheduler moved the thread in between.  Nothing is
\* claimed from the core on whose bit is the sign of the int in 1 << core_id:
\* there the mask is another one, and so is the core.
ReadingIsOfCore ==
  \A c \in Processor : c < IntBits - 1 /\ reading[c].state = "ok" => reading[c].of = {c}

\* The thread leaves every call, also one that failed halfway or was for a core
\* beyond the int, with the affinity it came with (README: "always restore
\* affinity afterward").
AffinityRestored == at = "idle" => mask = home

\* hwsense_intel_all_core_temps goes through all cores it was asked for,
\* whichever of them could not be pinned, read or decoded, touches no others,
\* and returns how many have a valid reading (intel.c:135).
EveryCoreTried ==
  at = "idle" /\ call.name = "temps" =>
    /\ \A c \in Processor : reading[c].state # "none" <=> c < call.cores
    /\ count = Cardinality({c \in Processor : reading[c].state = "ok"})
=============================================================================
