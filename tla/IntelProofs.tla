---------------------------- MODULE IntelProofs -----------------------------
(***************************************************************************)
(* Proofs about the readers of Intel processors.                           *)
(* Rapl: the type invariant for any callers, and SamplesAddUp for callers  *)
(* that keep two threads out of one function, whatever the widths of the   *)
(* counters, the reads that fail and the wraps.                            *)
(* MsrAffinity: the type invariant, ReadingIsOfCore, AffinityRestored and  *)
(* EveryCoreTried, for every machine, width of int and affinity, and       *)
(* wherever the scheduler moves the thread.                                *)
(***************************************************************************)
EXTENDS Rapl, MsrAffinity, FiniteSetTheorems, TLAPS

USE WidthAssumption, UnitAssumption, FlagAssumption, BoundAssumption

-----------------------------------------------------------------------------
(* The inductive invariant. *)

\* Two threads in the library are in functions of different domains.
Apart ==
  \A t \in Thread, u \in Thread :
    t # u /\ pc[t] # "idle" /\ pc[u] # "idle" => frame[t].domain # frame[u].domain

\* The statics are what the counters showed at the sample they stand for, which
\* is not ahead of the machine; before the first sample nothing is reported.
StaticsOf(d) ==
  /\ last[d].energy <= energy[d] /\ last[d].time <= time
  /\ prev[d].has => /\ prev[d].energy = last[d].energy % CounterMod
                    /\ prev[d].tick = last[d].time % TickMod
  /\ ~prev[d].has => /\ last[d] = since[d] /\ ~missed[d]
                     /\ reported[d].energy = 0 /\ reported[d].ms = 0

\* The locals of t are of a sample no older than the last of its domain.
FrameOf(t) ==
  LET d == frame[t].domain
      f == frame[t]
  IN  /\ pc[t] \in {"tick", "compare", "unit", "store"} =>
           /\ f.raw = f.true.energy % CounterMod
           /\ f.true.energy \in last[d].energy .. energy[d]
      /\ pc[t] \in {"compare", "unit", "store"} =>
           /\ f.tick = f.true.time % TickMod
           /\ f.true.time \in last[d].time .. time
      /\ pc[t] \in {"unit", "store"} =>
           /\ prev[d].has
           /\ f.energy = (f.raw - prev[d].energy) % CounterMod
           /\ f.ms = (f.tick - prev[d].tick) % TickMod

\* With Exclusive, the invariant beside the types.
Kept ==
  /\ Apart
  /\ \A d \in Domain : StaticsOf(d)
  /\ \A t \in Thread : FrameOf(t)
  /\ SamplesAddUp

-----------------------------------------------------------------------------
(* Arithmetic of counters that wrap. *)

\* A remainder is unique.
LEMMA RemainderUnique ==
  ASSUME NEW m \in Nat \ {0}, NEW q \in Int, NEW k \in Int,
         NEW r \in 0 .. m - 1, NEW s \in 0 .. m - 1, m * q + r = m * k + s
  PROVE  r = s
OBVIOUS

LEMMA RemainderRange ==
  ASSUME NEW a \in Int, NEW m \in Nat \ {0} PROVE a % m \in 0 .. m - 1
OBVIOUS

LEMMA Division ==
  ASSUME NEW a \in Int, NEW m \in Nat \ {0}
  PROVE  a \div m \in Int /\ a = m * (a \div m) + (a % m)
OBVIOUS

LEMMA Distributes ==
  ASSUME NEW m \in Int, NEW p \in Int, NEW q \in Int, NEW r \in Int
  PROVE  m * (p - q + r) = m * p - m * q + m * r
OBVIOUS

\* The difference of two readings of a counter, modulo its size, is what was
\* counted between them, if that is less than a whole turn.
LEMMA WrappedDifference ==
  ASSUME NEW m \in Nat \ {0}, NEW a \in Nat, NEW b \in Nat, a - b \in 0 .. m - 1
  PROVE  ((a % m) - (b % m)) % m = a - b
<1> DEFINE x  == (a % m) - (b % m)
           qa == a \div m
           qb == b \div m
           qx == x \div m
<1>1. a % m \in Int /\ b % m \in Int
  BY RemainderRange
<1>2. x \in Int
  BY <1>1
<1>3. /\ qa \in Int /\ a = m * qa + (a % m)
      /\ qb \in Int /\ b = m * qb + (b % m)
  BY Division
<1> HIDE DEF x
<1>4. qx \in Int /\ x = m * qx + (x % m) /\ x % m \in 0 .. m - 1
  BY <1>2, Division, RemainderRange
<1> HIDE DEF qa, qb, qx
<1>5. a - b = m * (qa - qb + qx) + (x % m)
  <2>1. m * (qa - qb + qx) = m * qa - m * qb + m * qx
    BY <1>3, <1>4, Distributes
  <2>2. m * qa \in Int /\ m * qb \in Int /\ m * qx \in Int
    BY <1>3, <1>4
  <2>3. a - b = m * qa - m * qb + x
    BY <1>1, <1>3, <2>2 DEF x
  <2>4. QED
    BY <1>2, <1>4, <2>1, <2>2, <2>3
<1>6. m * 0 + (a - b) = m * (qa - qb + qx) + (x % m)
  BY <1>5
<1>7. qa - qb + qx \in Int
  BY <1>3, <1>4
<1>8. a - b = x % m
  BY <1>4, <1>6, <1>7, RemainderUnique
<1>9. QED
  BY <1>8 DEF x

-----------------------------------------------------------------------------
(* Types. *)

Locations == {"idle", "counter", "tick", "compare", "unit", "store"}

LEMMA FrameTyped ==
  ASSUME TypeOK, NEW t \in Thread
  PROVE  /\ frame[t] \in Frame /\ frame[t].domain \in Domain
         /\ frame[t].raw \in 0 .. CounterMod - 1 /\ frame[t].tick \in 0 .. TickMod - 1
         /\ frame[t].energy \in 0 .. CounterMod - 1 /\ frame[t].ms \in 0 .. TickMod - 1
         /\ frame[t].shift \in 0 .. 31 /\ frame[t].true \in Sample
         /\ frame[t].true.energy \in 0 .. MaxEnergy /\ frame[t].true.time \in 0 .. MaxTime
BY DEF TypeOK, Frame, Sample

LEMMA LocalsTyped == ASSUME NEW d \in Domain PROVE Locals(d) \in Frame
BY DEF Locals, Frame, Start, Sample

LEMMA ReturnTyped ==
  ASSUME TypeOK, NEW t \in Thread, NEW kind \in {"none", "failed", "zero", "watts"},
         Return(t, kind)
  PROVE  /\ pc' \in [Thread -> Locations]
         /\ frame' \in [Thread -> Frame]
         /\ result' \in [Thread -> Result]
<1>1. frame' = [frame EXCEPT ![t] = Locals(frame[t].domain)]
  BY DEF Return
<1>2. Locals(frame[t].domain) \in Frame
  BY FrameTyped, LocalsTyped
<1> DEFINE r == [kind |-> kind, domain |-> frame[t].domain, energy |-> frame[t].energy,
                 ms |-> frame[t].ms, shift |-> frame[t].shift]
<1>3. r \in Result
  BY FrameTyped DEF Result
<1>4. result' = [result EXCEPT ![t] = r]
  BY DEF Return
<1> HIDE DEF r
<1>5. QED
  BY <1>1, <1>2, <1>3, <1>4 DEF Return, Go, TypeOK, Locations

LEMMA RememberTyped ==
  ASSUME TypeOK, NEW t \in Thread, Remember(t)
  PROVE  prev' \in [Domain -> Statics] /\ last' \in [Domain -> Sample]
<1> DEFINE s == [has |-> TRUE, energy |-> frame[t].raw, tick |-> frame[t].tick]
<1>1. s \in Statics
  BY FrameTyped DEF Statics
<1>2. prev' = [prev EXCEPT ![frame[t].domain] = s]
  BY DEF Remember
<1>3. last' = [last EXCEPT ![frame[t].domain] = frame[t].true]
  BY DEF Remember
<1> HIDE DEF s
<1>4. QED
  BY <1>1, <1>2, <1>3, FrameTyped DEF TypeOK

LEMMA InitTyped == Init => TypeOK
<1> SUFFICES ASSUME Init PROVE TypeOK
  OBVIOUS
<1>1. PICK d \in Domain : /\ frame = [t \in Thread |-> Locals(d)]
                          /\ result = [t \in Thread |-> NoResult(d)]
  BY DEF Init
<1>2. Locals(d) \in Frame /\ NoResult(d) \in Result
  BY LocalsTyped DEF NoResult, Result
<1>3. frame \in [Thread -> Frame] /\ result \in [Thread -> Result]
  BY <1>1, <1>2
<1>4. Start \in Sample
  BY DEF Start, Sample
<1>5. [has |-> FALSE, energy |-> 0, tick |-> 0] \in Statics
  BY DEF Statics
<1>6. QED
  BY <1>3, <1>4, <1>5 DEF Init, TypeOK

LEMMA StepTyped == TypeOK /\ [Next]_vars => TypeOK'
<1> SUFFICES ASSUME TypeOK, [Next]_vars PROVE TypeOK'
  OBVIOUS
<1>1. ASSUME NEW d \in Domain, Elapse(d) PROVE TypeOK'
  BY <1>1 DEF Elapse, TypeOK
<1>2. ASSUME NEW t \in Thread, NEW d \in Domain, Begin(t, d) PROVE TypeOK'
  <2>1. Locals(d) \in Frame /\ NoResult(d) \in Result
    BY LocalsTyped DEF NoResult, Result
  <2>2. /\ pc' = [pc EXCEPT ![t] = "counter"]
        /\ frame' = [frame EXCEPT ![t] = Locals(d)]
        /\ result' = [result EXCEPT ![t] = NoResult(d)]
        /\ UNCHANGED <<energy, time, prev, since, last, reported, missed>>
    BY <1>2 DEF Begin, Go, Machine, History
  <2>3. frame' \in [Thread -> Frame] /\ result' \in [Thread -> Result]
    BY <2>1, <2>2 DEF TypeOK
  <2>4. QED
    BY <2>2, <2>3 DEF TypeOK
<1>3. ASSUME NEW t \in Thread, NEW f \in BOOLEAN, ReadCounter(t, f) PROVE TypeOK'
  <2>1. UNCHANGED <<energy, time, prev, since, last, reported, missed>>
    BY <1>3 DEF ReadCounter, Machine, History
  <2>2. CASE f
    <3>1. Return(t, "failed")
      BY <1>3, <2>2 DEF ReadCounter
    <3>2. QED
      BY <2>1, <3>1, ReturnTyped DEF TypeOK, Locations
  <2>3. CASE ~f
    <3> DEFINE e == energy[frame[t].domain]
    <3>1. e \in 0 .. MaxEnergy /\ e % CounterMod \in 0 .. CounterMod - 1
      <4>1. e \in 0 .. MaxEnergy
        BY FrameTyped DEF TypeOK
      <4> HIDE DEF e
      <4>2. QED
        BY <4>1, RemainderRange
    <3>2. /\ pc' = [pc EXCEPT ![t] = "tick"] /\ UNCHANGED result
          /\ frame' = [frame EXCEPT ![t].raw = e % CounterMod, ![t].true.energy = e]
      BY <1>3, <2>3 DEF ReadCounter, Go, Return
    <3> HIDE DEF e
    <3> DEFINE s == [frame[t].true EXCEPT !.energy = e]
    <3>3. s \in Sample
      BY <3>1, FrameTyped DEF Sample
    <3>4. frame' = [frame EXCEPT ![t] = [frame[t] EXCEPT !.raw = e % CounterMod, !.true = s]]
      BY <3>2, ZenonT(60) DEF TypeOK
    <3> HIDE DEF s
    <3>5. [frame[t] EXCEPT !.raw = e % CounterMod, !.true = s] \in Frame
      BY <3>1, <3>3, FrameTyped DEF Frame
    <3>6. frame' \in [Thread -> Frame]
      BY <3>4, <3>5 DEF TypeOK
    <3>7. QED
      BY <2>1, <3>2, <3>6 DEF TypeOK
  <2>4. QED
    BY <2>2, <2>3
<1>4. ASSUME NEW t \in Thread, NEW f \in BOOLEAN, ReadUnit(t, f) PROVE TypeOK'
  <2> DEFINE n == IF f THEN 3 ELSE UnitShift
  <2>1. n \in 0 .. 31
    <3>1. UnitMsr % 32 \in 0 .. 31
      OBVIOUS
    <3>2. QED
      BY <3>1 DEF UnitShift
  <2>2. /\ pc' = [pc EXCEPT ![t] = "store"]
        /\ frame' = [frame EXCEPT ![t].shift = n]
        /\ UNCHANGED <<energy, time, prev, result, since, last, reported, missed>>
    BY <1>4 DEF ReadUnit, Go, Machine, History
  <2> HIDE DEF n
  <2>3. [frame[t] EXCEPT !.shift = n] \in Frame
    BY <2>1, FrameTyped DEF Frame
  <2>4. frame' = [frame EXCEPT ![t] = [frame[t] EXCEPT !.shift = n]]
    BY <2>2 DEF TypeOK
  <2>5. frame' \in [Thread -> Frame]
    BY <2>3, <2>4 DEF TypeOK
  <2>6. QED
    BY <2>2, <2>5 DEF TypeOK
<1>5. ASSUME NEW t \in Thread, ReadTick(t) PROVE TypeOK'
  <2>1. /\ pc' = [pc EXCEPT ![t] = "compare"]
        /\ frame' = [frame EXCEPT ![t].tick = time % TickMod, ![t].true.time = time]
        /\ UNCHANGED <<energy, time, prev, result, since, last, reported, missed>>
    BY <1>5 DEF ReadTick, Go, Machine, History
  <2> DEFINE s == [frame[t].true EXCEPT !.time = time]
  <2>2. s \in Sample
    BY FrameTyped DEF Sample, TypeOK
  <2>3. time % TickMod \in 0 .. TickMod - 1
    BY RemainderRange DEF TypeOK
  <2>4. frame' = [frame EXCEPT ![t] = [frame[t] EXCEPT !.tick = time % TickMod, !.true = s]]
    BY <2>1, ZenonT(60) DEF TypeOK
  <2> HIDE DEF s
  <2>5. [frame[t] EXCEPT !.tick = time % TickMod, !.true = s] \in Frame
    BY <2>2, <2>3, FrameTyped DEF Frame
  <2>6. frame' \in [Thread -> Frame]
    BY <2>4, <2>5 DEF TypeOK
  <2>7. QED
    BY <2>1, <2>6 DEF TypeOK
<1>6. ASSUME NEW t \in Thread, FirstSample(t) PROVE TypeOK'
  <2>1. /\ Remember(t) /\ Return(t, "zero")
        /\ since' = [since EXCEPT ![frame[t].domain] = frame[t].true]
        /\ UNCHANGED <<energy, time, reported, missed>>
    BY <1>6 DEF FirstSample, Machine
  <2>2. since' \in [Domain -> Sample]
    BY <2>1, FrameTyped DEF TypeOK
  <2>3. QED
    BY <2>1, <2>2, ReturnTyped, RememberTyped DEF TypeOK, Locations
<1>7. ASSUME NEW t \in Thread, Compare(t) PROVE TypeOK'
  <2> DEFINE d == frame[t].domain
             e == (frame[t].raw - prev[d].energy) % CounterMod
             m == (frame[t].tick - prev[d].tick) % TickMod
  <2>1. UNCHANGED <<energy, time, prev, since, last, reported, missed>>
    BY <1>7 DEF Compare, Machine, History
  <2>2. e \in 0 .. CounterMod - 1 /\ m \in 0 .. TickMod - 1
    <3>1. prev[d].energy \in Int /\ prev[d].tick \in Int
      BY FrameTyped DEF TypeOK, Statics
    <3>2. frame[t].raw - prev[d].energy \in Int /\ frame[t].tick - prev[d].tick \in Int
      BY <3>1, FrameTyped
    <3>3. QED
      BY <3>2, RemainderRange
  <2>3. CASE Return(t, "zero")
    BY <2>1, <2>3, ReturnTyped DEF TypeOK, Locations
  <2>4. CASE /\ Go(t, "unit")
             /\ frame' = [frame EXCEPT ![t].energy = e, ![t].ms = m]
             /\ UNCHANGED result
    <3> HIDE DEF e, m
    <3>1. [frame[t] EXCEPT !.energy = e, !.ms = m] \in Frame
      BY <2>2, FrameTyped DEF Frame
    <3>2. frame' = [frame EXCEPT ![t] = [frame[t] EXCEPT !.energy = e, !.ms = m]]
      BY <2>4 DEF TypeOK
    <3>3. frame' \in [Thread -> Frame]
      BY <3>1, <3>2 DEF TypeOK
    <3>4. QED
      BY <2>1, <2>4, <3>3 DEF TypeOK, Go
  <2>5. QED
    BY <1>7, <2>3, <2>4 DEF Compare
<1>8. ASSUME NEW t \in Thread, StoreSample(t) PROVE TypeOK'
  <2> DEFINE d == frame[t].domain
  <2>1. /\ Remember(t) /\ Return(t, "watts")
        /\ reported' = [reported EXCEPT ![d].energy = @ + frame[t].energy,
                                        ![d].ms = @ + frame[t].ms]
        /\ missed' = [missed EXCEPT ![d] = \/ @
             \/ frame[t].true.energy - last[d].energy >= CounterMod
             \/ frame[t].true.time - last[d].time >= TickMod]
        /\ UNCHANGED <<energy, time, since>>
    BY <1>8 DEF StoreSample, Machine
  <2>2. missed' \in [Domain -> BOOLEAN]
    BY <2>1 DEF TypeOK
  <2>3. reported[d].energy + frame[t].energy \in Nat /\ reported[d].ms + frame[t].ms \in Nat
    BY FrameTyped DEF TypeOK
  <2>4. reported' \in [Domain -> [energy : Nat, ms : Nat]]
    BY <2>1, <2>3 DEF TypeOK
  <2>5. QED
    BY <2>1, <2>2, <2>4, ReturnTyped, RememberTyped DEF TypeOK, Locations
<1>9. CASE UNCHANGED vars
  BY <1>9 DEF vars, TypeOK
<1>10. QED
  BY <1>1, <1>2, <1>3, <1>4, <1>5, <1>6, <1>7, <1>8, <1>9 DEF Next

-----------------------------------------------------------------------------
(* Callers that keep threads apart. *)

\* A call that goes on or returns brings no two threads together.
LEMMA StayApart ==
  ASSUME Apart,
         \A u \in Thread : pc'[u] # "idle" =>
           pc[u] # "idle" /\ frame'[u].domain = frame[u].domain
  PROVE  Apart'
BY DEF Apart

\* What is known of a thread that does nothing, while the sample of its domain
\* is not replaced.
LEMMA OtherKept ==
  ASSUME TypeOK, NEW u \in Thread, FrameOf(u),
         pc'[u] = pc[u], frame'[u] = frame[u], UNCHANGED <<energy, time>>,
         pc[u] # "idle" => /\ prev'[frame[u].domain] = prev[frame[u].domain]
                           /\ last'[frame[u].domain] = last[frame[u].domain]
  PROVE  FrameOf(u)'
BY DEF FrameOf

\* A step that leaves samples and machine alone.
LEMMA SamplesKept ==
  ASSUME Kept, UNCHANGED <<energy, time, prev, since, last, reported, missed>>
  PROVE  (\A d \in Domain : StaticsOf(d)') /\ SamplesAddUp'
BY DEF Kept, StaticsOf, SamplesAddUp

\* The thread t steps, or returns, and leaves samples and machine alone.
LEMMA OwnStep ==
  ASSUME TypeOK, Kept, NEW t \in Thread, pc[t] # "idle",
         UNCHANGED <<energy, time, prev, since, last, reported, missed>>,
         \A u \in Thread : u # t => pc'[u] = pc[u] /\ frame'[u] = frame[u],
         pc'[t] # "idle" => frame'[t].domain = frame[t].domain,
         FrameOf(t)'
  PROVE  Kept'
<1>1. Apart'
  <2>1. \A u \in Thread : pc'[u] # "idle" =>
          pc[u] # "idle" /\ frame'[u].domain = frame[u].domain
    OBVIOUS
  <2>2. QED
    BY <2>1, StayApart DEF Kept
<1>2. ASSUME NEW u \in Thread PROVE FrameOf(u)'
  <2>1. CASE u = t
    BY <2>1
  <2>2. CASE u # t
    BY <2>2, OtherKept DEF Kept
  <2>3. QED
    BY <2>1, <2>2
<1>3. QED
  BY <1>1, <1>2, SamplesKept DEF Kept

\* A call of t that returns: where it is, and that the others are untouched.
LEMMA ReturnOwn ==
  ASSUME TypeOK, NEW t \in Thread, NEW kind, Return(t, kind)
  PROVE  /\ pc'[t] = "idle" /\ FrameOf(t)'
         /\ \A u \in Thread : u # t => pc'[u] = pc[u] /\ frame'[u] = frame[u]
BY DEF Return, Go, TypeOK, FrameOf

\* The sample of t replaces that of its domain, and t returns.
LEMMA RememberKept ==
  ASSUME TypeOK, Kept, NEW t \in Thread, pc[t] \in {"compare", "store"},
         NEW kind, Return(t, kind), Remember(t), UNCHANGED <<energy, time>>,
         \A d \in Domain : d # frame[t].domain =>
           /\ since'[d] = since[d] /\ reported'[d] = reported[d] /\ missed'[d] = missed[d]
  PROVE  /\ Apart'
         /\ \A u \in Thread : FrameOf(u)'
         /\ \A d \in Domain : StaticsOf(d)'
         /\ last'[frame[t].domain] = frame[t].true
         /\ \A d \in Domain : d # frame[t].domain =>
              last'[d] = last[d] /\ prev'[d] = prev[d]
<1> DEFINE k == frame[t].domain
<1>1. k \in Domain
  BY FrameTyped
<1>2. /\ last'[k] = frame[t].true
      /\ prev'[k] = [has |-> TRUE, energy |-> frame[t].raw, tick |-> frame[t].tick]
      /\ \A d \in Domain : d # k => last'[d] = last[d] /\ prev'[d] = prev[d]
  BY <1>1 DEF Remember, TypeOK
<1>3. Apart'
  <2>1. \A u \in Thread : pc'[u] # "idle" =>
          pc[u] # "idle" /\ frame'[u].domain = frame[u].domain
    BY ReturnOwn
  <2>2. QED
    BY <2>1, StayApart DEF Kept
<1>4. ASSUME NEW u \in Thread PROVE FrameOf(u)'
  <2>1. CASE u = t
    BY <2>1, ReturnOwn
  <2>2. CASE u # t
    <3>1. pc'[u] = pc[u] /\ frame'[u] = frame[u] /\ FrameOf(u)
      BY <2>2, ReturnOwn DEF Kept
    <3>2. pc[u] # "idle" => frame[u].domain # k /\ frame[u].domain \in Domain
      BY <2>2, FrameTyped DEF Kept, Apart
    <3>3. QED
      BY <1>2, <3>1, <3>2, OtherKept
  <2>3. QED
    BY <2>1, <2>2
<1>5. ASSUME NEW d \in Domain PROVE StaticsOf(d)'
  <2>1. CASE d = k
    <3>1. /\ frame[t].raw = frame[t].true.energy % CounterMod
          /\ frame[t].tick = frame[t].true.time % TickMod
          /\ frame[t].true.energy <= energy[k] /\ frame[t].true.time <= time
      BY DEF Kept, FrameOf
    <3>2. QED
      BY <1>2, <2>1, <3>1 DEF StaticsOf
  <2>2. CASE d # k
    BY <1>2, <2>2 DEF Kept, StaticsOf
  <2>3. QED
    BY <2>1, <2>2
<1>6. QED
  BY <1>2, <1>3, <1>4, <1>5

LEMMA InitKept == Init => Kept
<1> SUFFICES ASSUME Init PROVE Kept
  OBVIOUS
<1>1. \A t \in Thread : pc[t] = "idle"
  BY DEF Init
<1>2. Apart /\ \A t \in Thread : FrameOf(t)
  BY <1>1 DEF Apart, FrameOf
<1>3. \A d \in Domain : StaticsOf(d)
  BY DEF Init, StaticsOf, Start
<1>4. SamplesAddUp
  BY DEF Init, SamplesAddUp, Start
<1>5. QED
  BY <1>2, <1>3, <1>4 DEF Kept

\* With threads kept apart, a step keeps the invariant.
LEMMA StepKept ==
  ASSUME Exclusive, TypeOK, TypeOK', Kept, [Next]_vars
  PROVE  Kept'
<1>1. ASSUME NEW d \in Domain, Elapse(d) PROVE Kept'
  <2>1. /\ UNCHANGED <<prev, pc, frame, since, last, reported, missed>>
        /\ time <= time' /\ \A k \in Domain : energy[k] <= energy'[k]
    BY <1>1 DEF Elapse, TypeOK
  <2>2. Apart' /\ SamplesAddUp'
    BY <2>1 DEF Kept, Apart, SamplesAddUp
  <2>3. ASSUME NEW k \in Domain PROVE StaticsOf(k)'
    <3>1. /\ last[k].energy \in Int /\ last[k].time \in Int
          /\ energy[k] \in Int /\ energy'[k] \in Int /\ time \in Int /\ time' \in Int
      BY DEF TypeOK, Sample
    <3>2. QED
      BY <2>1, <3>1 DEF Kept, StaticsOf
  <2>4. ASSUME NEW u \in Thread PROVE FrameOf(u)'
    <3>1. /\ frame[u].domain \in Domain
          /\ energy[frame[u].domain] \in Int /\ energy'[frame[u].domain] \in Int
          /\ time \in Int /\ time' \in Int
      BY FrameTyped DEF TypeOK
    <3>2. /\ energy[frame[u].domain] <= energy'[frame[u].domain]
          /\ last[frame[u].domain].energy \in Int /\ last[frame[u].domain].time \in Int
      BY <2>1, <3>1 DEF TypeOK, Sample
    <3>3. QED
      BY <2>1, <3>1, <3>2 DEF Kept, FrameOf
  <2>5. QED
    BY <2>2, <2>3, <2>4 DEF Kept
<1>2. ASSUME NEW t \in Thread, NEW d \in Domain, Begin(t, d) PROVE Kept'
  <2>1. /\ UNCHANGED <<energy, time, prev, since, last, reported, missed>>
        /\ pc'[t] = "counter" /\ frame'[t].domain = d
        /\ \A u \in Thread : u # t => pc'[u] = pc[u] /\ frame'[u] = frame[u]
        /\ \A u \in Thread : pc[u] # "idle" => frame[u].domain # d
    BY <1>2 DEF Begin, Go, Machine, History, TypeOK, Locals
  <2>2. Apart'
    <3> SUFFICES ASSUME NEW u \in Thread, NEW v \in Thread,
                        u # v, pc'[u] # "idle", pc'[v] # "idle"
                 PROVE  frame'[u].domain # frame'[v].domain
      BY DEF Apart
    <3>1. CASE u = t
      BY <2>1, <3>1
    <3>2. CASE v = t
      BY <2>1, <3>2
    <3>3. CASE u # t /\ v # t
      BY <2>1, <3>3 DEF Kept, Apart
    <3>4. QED
      BY <3>1, <3>2, <3>3
  <2>3. ASSUME NEW u \in Thread PROVE FrameOf(u)'
    <3>1. CASE u = t
      BY <2>1, <3>1 DEF FrameOf
    <3>2. CASE u # t
      BY <2>1, <3>2, OtherKept DEF Kept
    <3>3. QED
      BY <3>1, <3>2
  <2>4. QED
    BY <2>1, <2>2, <2>3, SamplesKept DEF Kept
<1>3. ASSUME NEW t \in Thread, NEW f \in BOOLEAN, ReadCounter(t, f) PROVE Kept'
  <2>1. /\ pc[t] = "counter"
        /\ UNCHANGED <<energy, time, prev, since, last, reported, missed>>
    BY <1>3 DEF ReadCounter, Machine, History
  <2>2. CASE f
    <3>1. Return(t, "failed")
      BY <1>3, <2>2 DEF ReadCounter
    <3>2. QED
      BY <2>1, <3>1, ReturnOwn, OwnStep
  <2>3. CASE ~f
    <3> DEFINE e == energy[frame[t].domain]
    <3>1. /\ pc' = [pc EXCEPT ![t] = "tick"]
          /\ frame' = [frame EXCEPT ![t].raw = e % CounterMod, ![t].true.energy = e]
      BY <1>3, <2>3 DEF ReadCounter, Go
    <3>2. frame[t] \in Frame /\ frame[t].true \in Sample
      BY FrameTyped
    <3>3. /\ pc'[t] = "tick" /\ frame'[t].domain = frame[t].domain
          /\ frame'[t].raw = e % CounterMod /\ frame'[t].true.energy = e
          /\ \A u \in Thread : u # t => pc'[u] = pc[u] /\ frame'[u] = frame[u]
      BY <3>1, <3>2, ZenonT(60) DEF TypeOK, Frame, Sample
    <3>4. e \in last[frame[t].domain].energy .. e
      BY FrameTyped DEF Kept, StaticsOf, TypeOK, Sample
    <3>5. FrameOf(t)'
      BY <2>1, <3>3, <3>4 DEF FrameOf
    <3>6. QED
      BY <2>1, <3>3, <3>5, OwnStep
  <2>4. QED
    BY <2>2, <2>3
<1>4. ASSUME NEW t \in Thread, NEW f \in BOOLEAN, ReadUnit(t, f) PROVE Kept'
  <2> DEFINE n == IF f THEN 3 ELSE UnitShift
  <2>1. /\ pc[t] = "unit"
        /\ UNCHANGED <<energy, time, prev, since, last, reported, missed>>
        /\ pc' = [pc EXCEPT ![t] = "store"]
        /\ frame' = [frame EXCEPT ![t].shift = n]
    BY <1>4 DEF ReadUnit, Go, Machine, History
  <2> HIDE DEF n
  <2>2. frame[t] \in Frame
    BY FrameTyped
  <2>3. /\ pc'[t] = "store" /\ frame'[t].domain = frame[t].domain
        /\ frame'[t].raw = frame[t].raw /\ frame'[t].tick = frame[t].tick
        /\ frame'[t].energy = frame[t].energy /\ frame'[t].ms = frame[t].ms
        /\ frame'[t].true = frame[t].true
        /\ \A u \in Thread : u # t => pc'[u] = pc[u] /\ frame'[u] = frame[u]
    BY <2>1, <2>2 DEF TypeOK, Frame
  <2>4. FrameOf(t)'
    BY <2>1, <2>3 DEF Kept, FrameOf
  <2>5. QED
    BY <2>1, <2>3, <2>4, OwnStep
<1>5. ASSUME NEW t \in Thread, ReadTick(t) PROVE Kept'
  <2>1. /\ pc[t] = "tick"
        /\ UNCHANGED <<energy, time, prev, since, last, reported, missed>>
        /\ pc' = [pc EXCEPT ![t] = "compare"]
        /\ frame' = [frame EXCEPT ![t].tick = time % TickMod, ![t].true.time = time]
    BY <1>5 DEF ReadTick, Go, Machine, History
  <2>2. frame[t] \in Frame /\ frame[t].true \in Sample
    BY FrameTyped
  <2>3. /\ pc'[t] = "compare" /\ frame'[t].domain = frame[t].domain
        /\ frame'[t].raw = frame[t].raw /\ frame'[t].tick = time % TickMod
        /\ frame'[t].true.energy = frame[t].true.energy /\ frame'[t].true.time = time
        /\ \A u \in Thread : u # t => pc'[u] = pc[u] /\ frame'[u] = frame[u]
    BY <2>1, <2>2 DEF TypeOK, Frame, Sample
  <2>4. time \in last[frame[t].domain].time .. time
    BY FrameTyped DEF Kept, StaticsOf, TypeOK, Sample
  <2>5. FrameOf(t)'
    BY <2>1, <2>3, <2>4, ZenonT(60) DEF Kept, FrameOf
  <2>6. QED
    BY <2>1, <2>3, <2>5, OwnStep
<1>6. ASSUME NEW t \in Thread, FirstSample(t) PROVE Kept'
  <2> DEFINE k == frame[t].domain
  <2>1. /\ pc[t] = "compare" /\ ~prev[k].has /\ k \in Domain
        /\ Remember(t) /\ Return(t, "zero")
        /\ since' = [since EXCEPT ![k] = frame[t].true]
        /\ UNCHANGED <<energy, time, reported, missed>>
    BY <1>6, FrameTyped DEF FirstSample, Machine
  <2> HIDE DEF k
  <2>2. since'[k] = frame[t].true /\ \A d \in Domain : d # k => since'[d] = since[d]
    BY <2>1 DEF TypeOK
  <2>3. \A d \in Domain : d # frame[t].domain =>
          /\ since'[d] = since[d] /\ reported'[d] = reported[d] /\ missed'[d] = missed[d]
    BY <2>1, <2>2 DEF k
  <2>4. /\ Apart'
        /\ \A u \in Thread : FrameOf(u)'
        /\ \A d \in Domain : StaticsOf(d)'
        /\ last'[k] = frame[t].true
        /\ \A d \in Domain : d # k => last'[d] = last[d] /\ prev'[d] = prev[d]
    BY <2>1, <2>3, RememberKept DEF k
  <2>5. ASSUME NEW d \in Domain, ~missed'[d]
        PROVE  /\ since'[d].energy + reported'[d].energy = last'[d].energy
               /\ since'[d].time + reported'[d].ms = last'[d].time
    <3>1. CASE d = k
      <4>1. reported'[d].energy = 0 /\ reported'[d].ms = 0
        BY <2>1, <3>1 DEF Kept, StaticsOf
      <4>2. QED
        BY <2>2, <2>4, <3>1, <4>1, FrameTyped
    <3>2. CASE d # k
      BY <2>1, <2>2, <2>4, <2>5, <3>2 DEF Kept, SamplesAddUp
    <3>3. QED
      BY <3>1, <3>2
  <2>6. QED
    BY <2>4, <2>5 DEF Kept, SamplesAddUp
<1>7. ASSUME NEW t \in Thread, Compare(t) PROVE Kept'
  <2> DEFINE k == frame[t].domain
             e == (frame[t].raw - prev[k].energy) % CounterMod
             m == (frame[t].tick - prev[k].tick) % TickMod
  <2>1. /\ pc[t] = "compare" /\ prev[k].has
        /\ UNCHANGED <<energy, time, prev, since, last, reported, missed>>
    BY <1>7 DEF Compare, Machine, History
  <2>2. CASE Return(t, "zero")
    BY <2>1, <2>2, ReturnOwn, OwnStep
  <2>3. CASE Go(t, "unit") /\ frame' = [frame EXCEPT ![t].energy = e, ![t].ms = m]
    <3> HIDE DEF e, m
    <3>1. frame[t] \in Frame
      BY FrameTyped
    <3>2. /\ pc'[t] = "unit" /\ frame'[t].domain = frame[t].domain
          /\ frame'[t].raw = frame[t].raw /\ frame'[t].tick = frame[t].tick
          /\ frame'[t].energy = e /\ frame'[t].ms = m
          /\ frame'[t].true = frame[t].true
          /\ \A u \in Thread : u # t => pc'[u] = pc[u] /\ frame'[u] = frame[u]
      BY <2>3, <3>1 DEF TypeOK, Frame, Go
    <3>3. FrameOf(t)'
      BY <2>1, <3>2 DEF Kept, FrameOf, e, m
    <3>4. QED
      BY <2>1, <3>2, <3>3, OwnStep
  <2>4. QED
    BY <1>7, <2>2, <2>3 DEF Compare
<1>8. ASSUME NEW t \in Thread, StoreSample(t) PROVE Kept'
  <2> DEFINE k == frame[t].domain
             de == frame[t].true.energy - last[k].energy
             dt == frame[t].true.time - last[k].time
  <2>1. /\ pc[t] = "store" /\ k \in Domain
        /\ Remember(t) /\ Return(t, "watts")
        /\ reported' = [reported EXCEPT ![k].energy = @ + frame[t].energy,
                                        ![k].ms = @ + frame[t].ms]
        /\ missed' = [missed EXCEPT ![k] = \/ @ \/ de >= CounterMod \/ dt >= TickMod]
        /\ UNCHANGED <<energy, time, since>>
    BY <1>8, FrameTyped DEF StoreSample, Machine
  <2>2. /\ frame[t].energy = (frame[t].raw - prev[k].energy) % CounterMod
        /\ frame[t].ms = (frame[t].tick - prev[k].tick) % TickMod
        /\ prev[k].has
        /\ frame[t].raw = frame[t].true.energy % CounterMod
        /\ frame[t].tick = frame[t].true.time % TickMod
        /\ frame[t].true.energy >= last[k].energy /\ frame[t].true.time >= last[k].time
    BY <2>1 DEF Kept, FrameOf
  <2>3. prev[k].energy = last[k].energy % CounterMod /\ prev[k].tick = last[k].time % TickMod
    BY <2>1, <2>2 DEF Kept, StaticsOf
  <2>4. /\ last[k].energy \in Nat /\ last[k].time \in Nat
        /\ since[k].energy \in Nat /\ since[k].time \in Nat
        /\ reported[k].energy \in Nat /\ reported[k].ms \in Nat
        /\ frame[t].energy \in Nat /\ frame[t].ms \in Nat
        /\ frame[t].true.energy \in Nat /\ frame[t].true.time \in Nat
    <3>1. k \in Domain /\ last[k] \in Sample /\ since[k] \in Sample
          /\ reported[k] \in [energy : Nat, ms : Nat]
      BY FrameTyped DEF TypeOK
    <3>2. /\ last[k].energy \in Nat /\ last[k].time \in Nat
          /\ since[k].energy \in Nat /\ since[k].time \in Nat
      BY <3>1 DEF Sample
    <3>3. reported[k].energy \in Nat /\ reported[k].ms \in Nat
      BY <3>1
    <3>4. /\ frame[t].energy \in Nat /\ frame[t].ms \in Nat
          /\ frame[t].true.energy \in Nat /\ frame[t].true.time \in Nat
      BY FrameTyped
    <3>5. QED
      BY <3>2, <3>3, <3>4
  <2>5. /\ reported'[k].energy = reported[k].energy + frame[t].energy
        /\ reported'[k].ms = reported[k].ms + frame[t].ms
        /\ missed'[k] = (missed[k] \/ de >= CounterMod \/ dt >= TickMod)
        /\ \A d \in Domain : d # k => reported'[d] = reported[d] /\ missed'[d] = missed[d]
    BY <2>1 DEF TypeOK
  <2> HIDE DEF k
  <2>6. /\ Apart'
        /\ \A u \in Thread : FrameOf(u)'
        /\ \A d \in Domain : StaticsOf(d)'
        /\ last'[k] = frame[t].true
        /\ \A d \in Domain : d # k => last'[d] = last[d] /\ prev'[d] = prev[d]
    BY <2>1, <2>5, RememberKept DEF k
  <2>7. ASSUME ~missed'[k]
        PROVE  /\ since'[k].energy + reported'[k].energy = last'[k].energy
               /\ since'[k].time + reported'[k].ms = last'[k].time
    <3>1. de \in Nat /\ dt \in Nat
      BY <2>2, <2>4
    <3>2. ~missed[k] /\ de \in 0 .. CounterMod - 1 /\ dt \in 0 .. TickMod - 1
      <4> HIDE DEF de, dt
      <4>1. ~missed[k] /\ ~(de >= CounterMod) /\ ~(dt >= TickMod)
        BY <2>5, <2>7, Zenon
      <4>2. QED
        BY <3>1, <4>1
    <3>3. frame[t].energy = de
      <4>1. ((frame[t].true.energy % CounterMod) - (last[k].energy % CounterMod)) % CounterMod = de
        BY <2>4, <3>2, WrappedDifference, ZenonT(60)
      <4>2. QED
        BY <2>2, <2>3, <4>1
    <3>4. frame[t].ms = dt
      <4>1. ((frame[t].true.time % TickMod) - (last[k].time % TickMod)) % TickMod = dt
        BY <2>4, <3>2, WrappedDifference
      <4>2. QED
        BY <2>2, <2>3, <4>1
    <3>5. /\ since[k].energy + reported[k].energy = last[k].energy
          /\ since[k].time + reported[k].ms = last[k].time
      BY <2>1, <3>2 DEF Kept, SamplesAddUp
    <3>6. QED
      BY <2>1, <2>4, <2>5, <2>6, <3>3, <3>4, <3>5
  <2>8. ASSUME NEW d \in Domain, d # k, ~missed'[d]
        PROVE  /\ since'[d].energy + reported'[d].energy = last'[d].energy
               /\ since'[d].time + reported'[d].ms = last'[d].time
    BY <2>1, <2>5, <2>6, <2>8 DEF Kept, SamplesAddUp
  <2>9. QED
    BY <2>6, <2>7, <2>8 DEF Kept, SamplesAddUp
<1>9. CASE UNCHANGED vars
  BY <1>9 DEF vars, Kept, Apart, StaticsOf, FrameOf, SamplesAddUp
<1>10. QED
  BY <1>1, <1>2, <1>3, <1>4, <1>5, <1>6, <1>7, <1>8, <1>9 DEF Next

-----------------------------------------------------------------------------
(* Theorems. *)

\* The variables keep their types, whoever calls: the differences stay within
\* the width of the counters, however often they wrap.
THEOREM TypeCorrect == Spec => []TypeOK
BY InitTyped, StepTyped, PTL DEF Spec

\* For callers that keep two threads out of one function: all powers reported of
\* a domain add up to what passed between its first sample and its last, across
\* failed reads, calls within one tick and wraps of either counter.
THEOREM PowersAddUp == Exclusive => (Spec => []SamplesAddUp)
<1> SUFFICES ASSUME Exclusive PROVE Spec => []SamplesAddUp
  OBVIOUS
<1>1. TypeOK /\ TypeOK' /\ Kept /\ [Next]_vars => Kept'
  BY StepKept
<1>2. Kept => SamplesAddUp
  BY DEF Kept
<1>3. QED
  BY <1>1, <1>2, InitKept, TypeCorrect, PTL DEF Spec

USE MaskAssumption, MsrFaultyAssumption

-----------------------------------------------------------------------------
(* MsrAffinity: the inductive invariant. *)

\* Outside the two locations where it is pinned, the thread has its own mask;
\* there, read_msr_on_core holds that mask in old_mask.
Pinned ==
  /\ at \in {"idle", "pin", "decode"} => mask = home
  /\ at \in {"read", "restore"} => old = home /\ mask \in CoreMasks(call.core)

\* A core whose bit is below the sign of the int.
Below == call.core < IntBits - 1

\* How far the core in turn is: registers are left to read where one is read
\* next, and those read so far were read on that core.
CoreProgress ==
  /\ at \in {"pin", "read"} => call.left >= 1 /\ call.ok
  /\ at = "restore" => call.left <= 1
  /\ at # "idle" /\ Below => call.seen \subseteq {call.core}
  /\ at \in {"restore", "decode"} /\ call.ok /\ Below => call.seen = {call.core}
  /\ at = "decode" => call.ok

\* No more readings than cores that have been gone through.
CoresCounted == at # "idle" => count <= call.core

\* The cores with a valid reading.
Valid == {c \in Processor : reading[c].state = "ok"}

\* The loop over all cores has gone through those before the one in turn and,
\* when it ends, through all.
Tried ==
  /\ at # "idle" /\ call.name = "temps" =>
       /\ call.core < call.cores
       /\ \A c \in Processor : reading[c].state # "none" <=> c < call.core
       /\ count = Cardinality(Valid)
  /\ at = "idle" /\ call.name = "temps" =>
       /\ \A c \in Processor : reading[c].state # "none" <=> c < call.cores
       /\ count = Cardinality(Valid)

CoreInv ==
  MsrTypeOK /\ Pinned /\ CoreProgress /\ CoresCounted /\ ReadingIsOfCore /\ Tried

-----------------------------------------------------------------------------
(* Lemmas. *)

\* A thread pinned to a core below the sign bit is on that core.
LEMMA PinnedIsThere ==
  ASSUME MsrTypeOK, mask \in CoreMasks(call.core), Below
  PROVE  on = call.core
BY DEF MsrTypeOK, CoreMasks, Below, Processor

\* Every call reads one register or two.
LEMMA RegistersTyped ==
  ASSUME NEW n \in Call
  PROVE  Len(Registers[n]) \in 0 .. 2 /\ Len(Registers[n]) >= 1
BY DEF Call, Registers

\* The call at the first register of a core.
LEMMA TurnTyped ==
  ASSUME NEW c \in [name : Call, cores : 0 .. Processors, core : Processor,
                    left : 0 .. 2, seen : SUBSET Processor, ok : BOOLEAN],
         NEW core \in Processor
  PROVE  /\ Turn(c, core) \in [name : Call, cores : 0 .. Processors, core : Processor,
                    left : 0 .. 2, seen : SUBSET Processor, ok : BOOLEAN]
         /\ Turn(c, core).core = core /\ Turn(c, core).left >= 1
         /\ Turn(c, core).seen = {} /\ Turn(c, core).ok
<1> DEFINE n == Len(Registers[c.name])
<1>1. n \in 0 .. 2 /\ n >= 1
  BY RegistersTyped
<1>2. Turn(c, core) = [c EXCEPT !.core = core, !.left = n, !.seen = {}, !.ok = TRUE]
  BY DEF Turn
<1> HIDE DEF n
<1>3. QED
  BY <1>1, <1>2

LEMMA ValidFinite == IsFiniteSet(Valid)
<1>1. IsFiniteSet(Processor)
  BY FS_Interval DEF Processor
<1>2. Valid \subseteq Processor
  BY DEF Valid
<1>3. QED
  BY <1>1, <1>2, FS_Subset

\* Without a reading none is valid.
LEMMA NoneValid ==
  ASSUME \A c \in Processor : reading[c].state = "none" PROVE Cardinality(Valid) = 0
<1>1. Valid = {}
  BY DEF Valid
<1>2. QED
  BY <1>1, FS_EmptySet

\* A step within a core.
LEMMA TriedSame ==
  ASSUME Tried, at # "idle", at' # "idle", UNCHANGED <<reading, count>>,
         call'.name = call.name, call'.cores = call.cores, call'.core = call.core
  PROVE  Tried'
<1>1. Valid' = Valid
  BY DEF Valid
<1>2. QED
  BY <1>1 DEF Tried

\* The core in turn gets its reading and is counted if that is valid.
LEMMA DoneTried ==
  ASSUME MsrTypeOK, Tried, NEW ok \in BOOLEAN, CoreDone(ok), at # "idle"
  PROVE  Tried'
<1> USE DEF MsrTypeOK
<1> DEFINE k == call.core
<1>1. k \in Processor /\ k \in Nat
  BY DEF Processor
<1>2. /\ reading'[k].state = (IF ok THEN "ok" ELSE "failed")
      /\ \A c \in Processor : c # k => reading'[c] = reading[c]
      /\ count' = IF ok THEN count + 1 ELSE count
  BY <1>1 DEF CoreDone
<1>3. call'.name = call.name
  BY <1>1 DEF CoreDone, GoTo, Turn
<1> SUFFICES ASSUME call.name = "temps" PROVE Tried'
  BY <1>3 DEF Tried
<1>4. /\ k < call.cores /\ count = Cardinality(Valid)
      /\ \A c \in Processor : reading[c].state # "none" <=> c < k
  BY DEF Tried
<1>5. \A c \in Processor : reading'[c].state # "none" <=> c < k + 1
  <2> SUFFICES ASSUME NEW c \in Processor
               PROVE  reading'[c].state # "none" <=> c < k + 1
    OBVIOUS
  <2>1. c \in Nat
    BY DEF Processor
  <2>2. CASE c = k
    BY <1>1, <1>2, <2>2
  <2>3. CASE c # k
    BY <1>1, <1>2, <1>4, <2>1, <2>3
  <2>4. QED
    BY <2>2, <2>3
<1>6. count' = Cardinality(Valid)'
  <2>1. CASE ok
    <3>1. reading[k].state = "none"
      BY <1>1, <1>4
    <3>2. k \notin Valid
      BY <3>1 DEF Valid
    <3>3. Valid' = Valid \cup {k}
      BY <1>1, <1>2, <2>1 DEF Valid
    <3>4. Cardinality(Valid \cup {k}) = Cardinality(Valid) + 1
      BY <3>2, ValidFinite, FS_AddElement
    <3>5. QED
      BY <1>2, <1>4, <2>1, <3>3, <3>4
  <2>2. CASE ~ok
    <3>1. reading[k].state # "ok"
      BY <1>1, <1>4
    <3>2. Valid' = Valid
      BY <1>1, <1>2, <2>2, <3>1 DEF Valid
    <3>3. QED
      BY <1>2, <1>4, <2>2, <3>2
  <2>3. QED
    BY <2>1, <2>2
<1>7. CASE k + 1 < call.cores
  <2>1. at' = "pin" /\ call' = Turn(call, k + 1)
    BY <1>7 DEF CoreDone, GoTo
  <2>2. call'.core = k + 1 /\ call'.cores = call.cores
    BY <2>1 DEF Turn
  <2>3. QED
    BY <1>5, <1>6, <1>7, <2>1, <2>2 DEF Tried
<1>8. CASE ~(k + 1 < call.cores)
  <2>1. at' = "idle" /\ call' = call
    BY <1>8 DEF CoreDone, GoTo
  <2>2. call.cores = k + 1
    BY <1>1, <1>4, <1>8
  <2>3. QED
    BY <1>5, <1>6, <2>1, <2>2 DEF Tried
<1>9. QED
  BY <1>7, <1>8

\* The core in turn is done: the thread has its mask again, and what was read
\* was read on that core.
LEMMA CoreDoneKeeps ==
  ASSUME CoreInv, NEW ok \in BOOLEAN, CoreDone(ok),
         at # "idle",
         ok /\ Below => call.seen = {call.core},
         mask' = home, on' \in mask', old' \in SUBSET allowed,
         UNCHANGED <<allowed, home>>
  PROVE  CoreInv'
<1> USE DEF CoreInv, MsrTypeOK
<1>1. reading' \in [Processor -> [state : {"none", "failed", "ok"}, of : SUBSET Processor]]
  BY DEF CoreDone
<1>2. count \in Nat /\ call.core \in Nat /\ call.core < Processors /\ count <= call.core
  BY DEF CoresCounted, Processor
<1>3. count' \in 0 .. call.core + 1
  BY <1>2 DEF CoreDone
<1>4. ReadingIsOfCore'
  <2> SUFFICES ASSUME NEW c \in Processor, c < IntBits - 1, reading'[c].state = "ok"
               PROVE  reading'[c].of = {c}
    BY DEF ReadingIsOfCore
  <2>1. CASE c = call.core
    BY <2>1 DEF CoreDone, Below
  <2>2. CASE c # call.core
    BY <2>2 DEF CoreDone, ReadingIsOfCore
  <2>3. QED
    BY <2>1, <2>2
<1> HIDE DEF CoreInv
<1>5. Tried'
  BY DoneTried DEF CoreInv
<1> USE DEF CoreInv
<1>6. CASE call.name = "temps" /\ call.core + 1 < call.cores
  <2>1. at' = "pin" /\ call' = Turn(call, call.core + 1)
    BY <1>6 DEF CoreDone, GoTo
  <2>2. call.core + 1 \in Processor
    BY <1>2, <1>6 DEF Processor
  <2>3. /\ call' \in [name : Call, cores : 0 .. Processors, core : Processor,
                      left : 0 .. 2, seen : SUBSET Processor, ok : BOOLEAN]
        /\ call'.core = call.core + 1 /\ call'.left >= 1 /\ call'.seen = {} /\ call'.ok
    BY <2>1, <2>2, TurnTyped
  <2>4. count' \in 0 .. Processors
    BY <1>2, <1>3
  <2>5. MsrTypeOK'
    BY <1>1, <2>1, <2>3, <2>4
  <2>6. Pinned' /\ CoreProgress' /\ CoresCounted'
    BY <1>3, <2>1, <2>3 DEF Pinned, CoreProgress, CoresCounted
  <2>7. QED
    BY <1>4, <1>5, <2>5, <2>6
<1>7. CASE ~(call.name = "temps" /\ call.core + 1 < call.cores)
  <2>1. at' = "idle" /\ call' = call
    BY <1>7 DEF CoreDone, GoTo
  <2>2. MsrTypeOK'
    BY <1>1, <1>2, <1>3, <2>1
  <2>3. QED
    BY <1>4, <1>5, <2>1, <2>2 DEF Pinned, CoreProgress, CoresCounted
<1>8. QED
  BY <1>6, <1>7

LEMMA CoreInit == MsrInit => CoreInv
<1> SUFFICES ASSUME MsrInit PROVE CoreInv
  OBVIOUS
<1> USE DEF MsrInit
<1>1. "temps" \in Call
  BY DEF Call, Registers
<1>2. MsrTypeOK
  BY <1>1 DEF MsrTypeOK, Processor, None
<1>3. Tried
  <2>1. \A c \in Processor : reading[c].state = "none" /\ ~(c < call.cores)
    BY DEF None, Processor
  <2>2. QED
    BY <2>1, NoneValid DEF Tried
<1>4. QED
  BY <1>2, <1>3 DEF CoreInv, Pinned, CoreProgress, CoresCounted, ReadingIsOfCore, None

LEMMA CoreStep == CoreInv /\ [MsrNext]_msrVars => CoreInv'
<1> SUFFICES ASSUME CoreInv, [MsrNext]_msrVars PROVE CoreInv'
  OBVIOUS
<1> USE DEF CoreInv
<1>1. CASE Migrate
  <2>1. MsrTypeOK'
    BY <1>1 DEF Migrate, MsrTypeOK
  <2>2. Tried'
    BY <1>1 DEF Migrate, Tried, Valid
  <2>3. QED
    BY <1>1, <2>1, <2>2 DEF Migrate, Pinned, CoreProgress, CoresCounted, ReadingIsOfCore, Below
<1>2. ASSUME NEW name \in Call, NEW cores \in 0 .. Processors, NEW core \in Processor,
             BeginCores(name, cores, core)
      PROVE  CoreInv'
  <2> DEFINE c == [call EXCEPT !.name = name, !.cores = cores]
  <2>1. c \in [name : Call, cores : 0 .. Processors, core : Processor,
               left : 0 .. 2, seen : SUBSET Processor, ok : BOOLEAN]
    BY DEF MsrTypeOK
  <2>2. /\ at = "idle" /\ count' = 0
        /\ reading' = [p \in Processor |-> None]
        /\ UNCHANGED <<allowed, home, mask, on, old>>
    BY <1>2 DEF BeginCores, Scheduled
  <2>3. mask' = home'
    BY <2>2 DEF Pinned
  <2>4. ReadingIsOfCore'
    BY <2>2 DEF ReadingIsOfCore, None
  <2>5. /\ Cardinality(Valid)' = 0
        /\ \A p \in Processor : reading'[p].state = "none"
    <3>1. \A p \in Processor : reading'[p].state = "none"
      BY <2>2 DEF None
    <3>2. Valid' = {}
      BY <3>1 DEF Valid
    <3>3. QED
      BY <3>1, <3>2, FS_EmptySet
  <2>6. CASE cores = 0
    <3>1. at' = "idle" /\ call' = c
      BY <1>2, <2>6 DEF BeginCores, GoTo
    <3>2. MsrTypeOK'
      BY <2>1, <2>2, <3>1 DEF MsrTypeOK, None
    <3>3. Tried'
      <4>1. call'.cores = 0
        BY <2>1, <2>6, <3>1 DEF MsrTypeOK
      <4>2. QED
        BY <2>2, <2>5, <3>1, <4>1 DEF Tried, Processor
    <3>4. QED
      BY <2>3, <2>4, <3>1, <3>2, <3>3 DEF Pinned, CoreProgress, CoresCounted
  <2>7. CASE cores # 0
    <3>1. at' = "pin" /\ call' = Turn(c, core)
      BY <1>2, <2>7 DEF BeginCores, GoTo
    <3>2. call'.name = name /\ call'.cores = cores /\ (name = "temps" => core = 0)
      BY <1>2, <2>1, <3>1 DEF BeginCores, Turn, MsrTypeOK
    <3> HIDE DEF c
    <3>3. /\ call' \in [name : Call, cores : 0 .. Processors, core : Processor,
                        left : 0 .. 2, seen : SUBSET Processor, ok : BOOLEAN]
          /\ call'.core = core /\ call'.left >= 1 /\ call'.seen = {} /\ call'.ok
      BY <2>1, <3>1, TurnTyped
    <3>4. MsrTypeOK'
      BY <2>2, <3>1, <3>3 DEF MsrTypeOK, None
    <3>5. CoresCounted'
      BY <2>2, <3>3 DEF CoresCounted, Processor
    <3>6. Tried'
      BY <2>2, <2>5, <2>7, <3>1, <3>2, <3>3 DEF Tried, Processor
    <3>7. QED
      BY <2>3, <2>4, <3>1, <3>3, <3>4, <3>5, <3>6 DEF Pinned, CoreProgress
  <2>8. QED
    BY <2>6, <2>7
<1>3. CASE Pin
  <2>1. PICK m \in CoreMasks(call.core) :
          \/ /\ m # {} /\ m \subseteq allowed
             /\ SetMask(m)
             /\ old' = mask
             /\ GoTo("read", call)
             /\ UNCHANGED <<reading, count>>
          \/ /\ m = {} \/ ~(m \subseteq allowed)
             /\ CoreDone(FALSE)
             /\ UNCHANGED <<mask, on, old>>
    BY <1>3 DEF Pin
  <2>2. at = "pin" /\ UNCHANGED <<allowed, home>> /\ mask = home
    BY <1>3 DEF Pin, Pinned
  <2>3. CASE /\ m # {} /\ m \subseteq allowed
             /\ SetMask(m)
             /\ old' = mask
             /\ GoTo("read", call)
             /\ UNCHANGED <<reading, count>>
    <3>1. /\ at' = "read" /\ call' = call /\ mask' = m /\ on' \in m /\ old' = home
          /\ UNCHANGED <<reading, count>>
      BY <2>2, <2>3 DEF SetMask, GoTo
    <3>2. MsrTypeOK'
      BY <2>2, <2>3, <3>1 DEF MsrTypeOK
    <3>3. Pinned'
      BY <2>2, <3>1 DEF Pinned, CoreMasks
    <3>4. CoreProgress' /\ CoresCounted' /\ ReadingIsOfCore'
      BY <2>2, <3>1 DEF CoreProgress, CoresCounted, ReadingIsOfCore, Below
    <3>5. Tried'
      BY <2>2, <3>1, TriedSame
    <3>6. QED
      BY <3>2, <3>3, <3>4, <3>5
  <2>4. CASE CoreDone(FALSE) /\ UNCHANGED <<mask, on, old>>
    <3>1. on' \in mask' /\ old' \in SUBSET allowed
      BY <2>4 DEF MsrTypeOK
    <3>2. QED
      BY <2>2, <2>4, <3>1, CoreDoneKeeps
  <2>5. QED
    BY <2>1, <2>3, <2>4
<1>4. ASSUME NEW f \in BOOLEAN, ReadMsr(f) PROVE CoreInv'
  <2>1. /\ at = "read" /\ at' = "restore"
        /\ call' = [call EXCEPT !.ok = ~f, !.left = @ - 1,
                                !.seen = IF f THEN @ ELSE @ \cup {on}]
        /\ UNCHANGED <<allowed, home, mask, on, old, reading, count>>
    BY <1>4 DEF ReadMsr, GoTo, Scheduled
  <2>2. call.left - 1 \in 0 .. 2 /\ call.left - 1 <= 1 /\ on \in Processor
    BY <2>1 DEF CoreProgress, MsrTypeOK
  <2>3. MsrTypeOK'
    <3>1. CASE f
      BY <2>1, <2>2, <3>1 DEF MsrTypeOK
    <3>2. CASE ~f
      BY <2>1, <2>2, <3>2 DEF MsrTypeOK
    <3>3. QED
      BY <3>1, <3>2
  <2>4. Pinned' /\ CoresCounted' /\ ReadingIsOfCore'
    BY <2>1 DEF Pinned, CoresCounted, ReadingIsOfCore, MsrTypeOK, CoreMasks
  <2>5. call'.core = call.core /\ call'.left <= 1 /\ call'.ok = ~f
    BY <2>1, <2>2 DEF MsrTypeOK
  <2>6. ASSUME Below PROVE call'.seen \subseteq {call.core} /\ (~f => call'.seen = {call.core})
    <3>1. on = call.core
      BY <2>1, <2>6, PinnedIsThere DEF Pinned
    <3>2. call.seen \subseteq {call.core}
      BY <2>1, <2>6 DEF CoreProgress
    <3>3. QED
      BY <2>1, <3>1, <3>2 DEF MsrTypeOK
  <2>7. CoreProgress'
    BY <2>1, <2>5, <2>6 DEF CoreProgress, Below
  <2>8. Tried'
    <3>1. call'.name = call.name /\ call'.cores = call.cores
      BY <2>1 DEF MsrTypeOK
    <3>2. QED
      BY <2>1, <2>5, <3>1, TriedSame
  <2>9. QED
    BY <2>3, <2>4, <2>7, <2>8
<1>5. CASE Restore
  <2>1. /\ at = "restore" /\ old = home /\ mask' = home /\ on' \in mask' /\ old' = {}
        /\ UNCHANGED <<allowed, home>>
    BY <1>5 DEF Restore, SetMask, Pinned
  <2>2. CASE ~call.ok /\ CoreDone(FALSE)
    BY <2>1, <2>2, CoreDoneKeeps
  <2>3. CASE call.ok /\ call.left > 0 /\ GoTo("pin", call) /\ UNCHANGED <<reading, count>>
    <3>1. MsrTypeOK'
      BY <2>1, <2>3 DEF MsrTypeOK, GoTo
    <3>2. CoreProgress'
      BY <2>1, <2>3 DEF CoreProgress, Below, GoTo, MsrTypeOK
    <3>3. Tried'
      BY <2>1, <2>3, TriedSame DEF GoTo
    <3>4. QED
      BY <2>1, <2>3, <3>1, <3>2, <3>3 DEF Pinned, CoresCounted, ReadingIsOfCore, GoTo
  <2>4. CASE call.ok /\ call.left = 0 /\ GoTo("decode", call) /\ UNCHANGED <<reading, count>>
    <3>1. MsrTypeOK'
      BY <2>1, <2>4 DEF MsrTypeOK, GoTo
    <3>2. CoreProgress'
      BY <2>1, <2>4 DEF CoreProgress, Below, GoTo
    <3>3. Tried'
      BY <2>1, <2>4, TriedSame DEF GoTo
    <3>4. QED
      BY <2>1, <2>4, <3>1, <3>2, <3>3 DEF Pinned, CoresCounted, ReadingIsOfCore, GoTo
  <2>5. QED
    BY <1>5, <2>2, <2>3, <2>4 DEF Restore
<1>6. CASE Decode
  <2>1. /\ at = "decode" /\ call.ok /\ UNCHANGED <<allowed, home, mask, on, old>>
        /\ Below => call.seen = {call.core}
    BY <1>6 DEF Decode, Scheduled, CoreProgress
  <2>2. PICK ok \in BOOLEAN : CoreDone(ok)
    BY <1>6 DEF Decode
  <2>3. mask' = home /\ on' \in mask' /\ old' \in SUBSET allowed
    BY <2>1 DEF Pinned, MsrTypeOK
  <2>4. QED
    BY <2>1, <2>2, <2>3, CoreDoneKeeps
<1>7. CASE UNCHANGED msrVars
  BY <1>7 DEF msrVars, MsrTypeOK, Pinned, CoreProgress, CoresCounted, ReadingIsOfCore, Below, CoreMasks,
              Tried, Valid
<1>8. QED
  BY <1>1, <1>2, <1>3, <1>4, <1>5, <1>6, <1>7 DEF MsrNext, Work

LEMMA CoreInvariant == MsrSpec => []CoreInv
BY CoreInit, CoreStep, PTL DEF MsrSpec

-----------------------------------------------------------------------------
(* Theorems. *)

\* The variables keep their types: the thread is always on a processor of its
\* mask, the mask within that of the process, and no more cores are counted
\* than the machine has.
THEOREM CoreTypeCorrect == MsrSpec => []MsrTypeOK
<1>1. CoreInv => MsrTypeOK
  BY DEF CoreInv
<1>2. QED
  BY <1>1, CoreInvariant, PTL

\* Every value was computed from registers read on its own core, for the cores
\* below the sign bit of the int in 1 << core_id.
THEOREM ReadingsOfCore == MsrSpec => []ReadingIsOfCore
<1>1. CoreInv => ReadingIsOfCore
  BY DEF CoreInv
<1>2. QED
  BY <1>1, CoreInvariant, PTL

\* Every call leaves the thread with the affinity it came with, on every path
\* through read_msr_on_core and its callers.
THEOREM MaskRestored == MsrSpec => []AffinityRestored
<1>1. CoreInv => AffinityRestored
  BY DEF CoreInv, Pinned, AffinityRestored
<1>2. QED
  BY <1>1, CoreInvariant, PTL

\* The call for all cores goes through all it was asked for, also past cores
\* that fail, and returns the number of valid readings.
THEOREM AllCoresTried == MsrSpec => []EveryCoreTried
<1>1. CoreInv => EveryCoreTried
  BY DEF CoreInv, Tried, Valid, EveryCoreTried
<1>2. QED
  BY <1>1, CoreInvariant, PTL
=============================================================================
