-------------------------------- MODULE Rapl --------------------------------
(***************************************************************************)
(* Power from Intel's RAPL energy counters (hwsense_intel_package_power    *)
(* and the pp0, pp1 and dram functions of src/cpu/intel.c).                *)
(*                                                                         *)
(* Each function reads the counter of its domain and the tick count, and   *)
(* returns the energy over the time since the call before.  The previous   *)
(* sample lives in static variables of the function: one set per domain,   *)
(* shared by every context and thread of the process, without a lock.  The *)
(* counter and the tick count are unsigned and wrap.                       *)
(*                                                                         *)
(* The four functions are the same text on different registers and         *)
(* statics; here they are one, with the domain as a parameter.             *)
(***************************************************************************)
EXTENDS Integers

CONSTANTS
  Thread,      \* threads that read the power
  Domain,      \* package, pp0, pp1, dram
  CounterMod,  \* the energy counter wraps here (2^32)
  TickMod,     \* GetTickCount wraps here (2^32)
  UnitMsr,     \* low half of the power unit register (0x606)
  Exclusive,   \* do callers keep two threads out of one function?
  Faulty,      \* may a register read fail?
  MaxEnergy,   \* bound: energy units counted in a behaviour
  MaxTime      \* bound: milliseconds in a behaviour

ASSUME WidthAssumption == CounterMod \in Nat \ {0} /\ TickMod \in Nat \ {0}
ASSUME UnitAssumption == UnitMsr \in Nat
ASSUME FlagAssumption == Exclusive \in BOOLEAN /\ Faulty \in BOOLEAN
ASSUME BoundAssumption == MaxEnergy \in Nat /\ MaxTime \in Nat

VARIABLES
  energy,    \* per domain, energy units since the machine started
  time,      \* milliseconds since the machine started
  prev,      \* per domain, the statics has_prev, prev_energy, prev_tick
  pc,        \* per thread, where it is in the function
  frame,     \* per thread, its locals, and the true values behind them
  result,    \* per thread, what its last call returned
  since,     \* history, per domain: true values at the first sample
  last,      \* history, per domain: true values at the sample in prev
  reported,  \* history, per domain: sums of the deltas reported so far
  missed     \* history, per domain: a counter wrapped between two samples

vars == <<energy, time, prev, pc, frame, result, since, last, reported, missed>>

Sample == [energy : 0 .. MaxEnergy, time : 0 .. MaxTime]

Statics == [has : BOOLEAN, energy : 0 .. CounterMod - 1, tick : 0 .. TickMod - 1]

Frame == [domain : Domain, raw : 0 .. CounterMod - 1, tick : 0 .. TickMod - 1,
          energy : 0 .. CounterMod - 1, ms : 0 .. TickMod - 1,
          shift : 0 .. 31, true : Sample]

Result == [kind : {"none", "failed", "zero", "watts"}, domain : Domain,
           energy : 0 .. CounterMod - 1, ms : 0 .. TickMod - 1, shift : 0 .. 31]

TypeOK ==
  /\ energy \in [Domain -> 0 .. MaxEnergy]
  /\ time \in 0 .. MaxTime
  /\ prev \in [Domain -> Statics]
  /\ pc \in [Thread -> {"idle", "counter", "tick", "compare", "unit", "store"}]
  /\ frame \in [Thread -> Frame]
  /\ result \in [Thread -> Result]
  /\ since \in [Domain -> Sample] /\ last \in [Domain -> Sample]
  /\ reported \in [Domain -> [energy : Nat, ms : Nat]]
  /\ missed \in [Domain -> BOOLEAN]

Start == [energy |-> 0, time |-> 0]

\* The locals at the start of a call.
Locals(d) == [domain |-> d, raw |-> 0, tick |-> 0, energy |-> 0, ms |-> 0,
              shift |-> 0, true |-> Start]

NoResult(d) == [kind |-> "none", domain |-> d, energy |-> 0, ms |-> 0, shift |-> 0]

Init ==
  /\ energy = [d \in Domain |-> 0]
  /\ time = 0
  /\ prev = [d \in Domain |-> [has |-> FALSE, energy |-> 0, tick |-> 0]]
  /\ pc = [t \in Thread |-> "idle"]
  /\ \E d \in Domain : /\ frame = [t \in Thread |-> Locals(d)]
                      /\ result = [t \in Thread |-> NoResult(d)]
  /\ since = [d \in Domain |-> Start]
  /\ last = [d \in Domain |-> Start]
  /\ reported = [d \in Domain |-> [energy |-> 0, ms |-> 0]]
  /\ missed = [d \in Domain |-> FALSE]

-----------------------------------------------------------------------------
(* The machine: energy is used and time passes, also between two lines. *)

Elapse(d) ==
  /\ \/ /\ energy[d] < MaxEnergy
        /\ energy' = [energy EXCEPT ![d] = @ + 1]
        /\ UNCHANGED time
     \/ /\ time < MaxTime
        /\ time' = time + 1
        /\ UNCHANGED energy
  /\ UNCHANGED <<prev, pc, frame, result, since, last, reported, missed>>

-----------------------------------------------------------------------------
(* The function. *)

Go(t, l) == pc' = [pc EXCEPT ![t] = l]

\* The call of t returns: kind alone, or the power of its frame.
Return(t, kind) ==
  /\ Go(t, "idle")
  /\ result' = [result EXCEPT ![t] =
       [kind |-> kind, domain |-> frame[t].domain, energy |-> frame[t].energy,
        ms |-> frame[t].ms, shift |-> frame[t].shift]]
  /\ frame' = [frame EXCEPT ![t] = Locals(@.domain)]

Machine == UNCHANGED <<energy, time>>
History == UNCHANGED <<since, last, reported, missed>>

Begin(t, d) ==
  /\ pc[t] = "idle"
  /\ Exclusive => \A u \in Thread : pc[u] = "idle" \/ frame[u].domain # d
  /\ Go(t, "counter")
  /\ frame' = [frame EXCEPT ![t] = Locals(d)]
  /\ result' = [result EXCEPT ![t] = NoResult(d)]
  /\ Machine /\ History /\ UNCHANGED prev

\* read_msr_on_core0 of the energy status.
ReadCounter(t, f) ==
  /\ pc[t] = "counter"
  /\ f => Faulty
  /\ \/ /\ f
        /\ Return(t, "failed")
     \/ /\ ~f
        /\ Go(t, "tick")
        /\ LET e == energy[frame[t].domain]
           IN  frame' = [frame EXCEPT ![t].raw = e % CounterMod,
                                      ![t].true.energy = e]
        /\ UNCHANGED result
  /\ Machine /\ History /\ UNCHANGED prev

ReadTick(t) ==
  /\ pc[t] = "tick"
  /\ Go(t, "compare")
  /\ frame' = [frame EXCEPT ![t].tick = time % TickMod, ![t].true.time = time]
  /\ Machine /\ History /\ UNCHANGED <<prev, result>>

\* prev_energy and prev_tick become the sample of t.
Remember(t) ==
  LET d == frame[t].domain
  IN  /\ prev' = [prev EXCEPT ![d] =
           [has |-> TRUE, energy |-> frame[t].raw, tick |-> frame[t].tick]]
      /\ last' = [last EXCEPT ![d] = frame[t].true]

\* The first call stores its sample and returns 0.
FirstSample(t) ==
  LET d == frame[t].domain
  IN  /\ pc[t] = "compare"
      /\ ~prev[d].has
      /\ Remember(t)
      /\ since' = [since EXCEPT ![d] = frame[t].true]
      /\ Return(t, "zero")
      /\ Machine /\ UNCHANGED <<reported, missed>>

\* Mutant: the sample of a call without a time difference replaces the old.
CompareStores(t) ==
  LET d == frame[t].domain
      e == (frame[t].raw - prev[d].energy) % CounterMod
      m == (frame[t].tick - prev[d].tick) % TickMod
  IN  /\ pc[t] = "compare"
      /\ prev[d].has
      /\ \/ m = 0 /\ Return(t, "zero") /\ Remember(t)
         \/ /\ m # 0
            /\ Go(t, "unit")
            /\ frame' = [frame EXCEPT ![t].energy = e, ![t].ms = m]
            /\ UNCHANGED <<prev, last, result>>
      /\ Machine /\ UNCHANGED <<since, reported, missed>>

\* Mutant: signed differences, which a wrap makes negative.
CompareSigned(t) ==
  LET d == frame[t].domain
      e == frame[t].raw - prev[d].energy
      m == frame[t].tick - prev[d].tick
  IN  /\ pc[t] = "compare"
      /\ prev[d].has
      /\ \/ m = 0 /\ Return(t, "zero")
         \/ /\ m # 0
            /\ Go(t, "unit")
            /\ frame' = [frame EXCEPT ![t].energy = e, ![t].ms = m]
            /\ UNCHANGED result
      /\ Machine /\ History /\ UNCHANGED prev

\* The differences to the sample before; no time between them returns 0 and
\* leaves that sample in place.
Compare(t) ==
  LET d == frame[t].domain
      e == (frame[t].raw - prev[d].energy) % CounterMod
      m == (frame[t].tick - prev[d].tick) % TickMod
  IN  /\ pc[t] = "compare"
      /\ prev[d].has
      /\ \/ m = 0 /\ Return(t, "zero")
         \/ /\ m # 0
            /\ Go(t, "unit")
            /\ frame' = [frame EXCEPT ![t].energy = e, ![t].ms = m]
            /\ UNCHANGED result
      /\ Machine /\ History /\ UNCHANGED prev

\* The shift that get_rapl_energy_unit takes from the unit register.
UnitShift == UnitMsr % 32

\* get_rapl_energy_unit: 1/8 joule when the register cannot be read.
ReadUnit(t, f) ==
  /\ pc[t] = "unit"
  /\ f => Faulty
  /\ Go(t, "store")
  /\ frame' = [frame EXCEPT ![t].shift = IF f THEN 3 ELSE UnitShift]
  /\ Machine /\ History /\ UNCHANGED <<prev, result>>

StoreSample(t) ==
  LET d == frame[t].domain
  IN  /\ pc[t] = "store"
      /\ Remember(t)
      /\ reported' = [reported EXCEPT ![d].energy = @ + frame[t].energy,
                                      ![d].ms = @ + frame[t].ms]
      /\ missed' = [missed EXCEPT ![d] = \/ @
           \/ frame[t].true.energy - last[d].energy >= CounterMod
           \/ frame[t].true.time - last[d].time >= TickMod]
      /\ Return(t, "watts")
      /\ Machine /\ UNCHANGED since

-----------------------------------------------------------------------------
Next ==
  \/ \E d \in Domain : Elapse(d)
  \/ \E t \in Thread :
       \/ \E d \in Domain : Begin(t, d)
       \/ \E f \in BOOLEAN : ReadCounter(t, f) \/ ReadUnit(t, f)
       \/ ReadTick(t) \/ FirstSample(t) \/ Compare(t) \/ StoreSample(t)

Spec == Init /\ [][Next]_vars

-----------------------------------------------------------------------------
(* Properties. *)

\* The readings of a domain add up: the energy and the time of all powers
\* reported since the first call are those that passed between the first
\* sample and the last, with nothing lost or counted twice, across calls
\* that failed, calls within one tick and wraps of either counter.  Only a
\* whole turn of a counter between two samples goes unnoticed.
SamplesAddUp ==
  \A d \in Domain :
    missed[d] \/ /\ since[d].energy + reported[d].energy = last[d].energy
                 /\ since[d].time + reported[d].ms = last[d].time
=============================================================================
