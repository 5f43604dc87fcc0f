------------------------ MODULE DriverServiceProofs ------------------------
(***************************************************************************)
(* Theorems about DriverService, for every set of callers, every number of *)
(* retries above one, every set of faults, with or without crashes.        *)
(*                                                                         *)
(* The inductive invariant says which handles a caller holds at each       *)
(* location, how the registration and the driver depend on the handles     *)
(* held by all callers, and, for a caller that nothing has disturbed, what *)
(* it may rely on between two of its system calls.                         *)
(***************************************************************************)
EXTENDS DriverService, TLAPS

\* The handles are those the location implies.
Held ==
  \A p \in Proc :
    /\ "scm" \in open[p] <=> pc[p] # "idle"
    /\ "svc" \in open[p] <=>
         pc[p] \in {"start", "device", "alloc", "ready", "stop", "delete", "close"}
    /\ "stale" \in open[p] <=> pc[p] \in {"stale_stop", "stale_close"}
    /\ "dev" \in open[p] <=> pc[p] \in {"alloc", "ready"}

\* Handles keep the registration and the driver, and a marked registration
\* or an unloading driver without its handles does not stay.
Machine ==
  /\ reg = "absent" => driver = "stopped"
  /\ driver = "unloading" => DeviceHeld(open)
  /\ DeviceHeld(open) => driver # "stopped"
  /\ ServiceHeld(open) => reg # "absent"
  /\ reg = "marked" /\ driver = "stopped" => ServiceHeld(open)

\* A location belongs to a call, and a call in progress has no result.
Calls ==
  \A p \in Proc :
    /\ call[p] = "none" <=> pc[p] \in {"idle", "ready"}
    /\ call[p] = "shutdown" => pc[p] \in {"stop", "delete", "close"}
    /\ call[p] # "none" => ret[p] = "none"

\* The retry loop has rounds left until its test says otherwise.
Rounds ==
  \A p \in Proc :
    pc[p] \in {"create", "stale", "stale_stop", "stale_close", "sleep"} =>
      try[p] < Retries

\* What a caller inside hwsense_init finds when nothing interfered so far.
Undisturbed ==
  \A p \in Proc :
    call[p] = "init" /\ ~excuse[p] =>
      /\ \A q \in Proc \ {p} : ~Occupies(q, open)
      /\ pc[p] = "create" => try[p] = 0 \/ reg # "marked"
      /\ pc[p] = "open" => reg = "present"
      /\ pc[p] \in {"stale", "stale_stop"} => try[p] = 0 /\ reg = "marked"
      /\ pc[p] = "stale_close" => try[p] = 0 /\ reg = "marked" /\ driver = "stopped"
      /\ pc[p] = "sleep" => try[p] = 0 /\ reg # "marked"
      /\ pc[p] = "start" => reg = "present"
      /\ pc[p] = "device" => driver = "running"
      /\ pc[p] \notin {"stop", "delete", "close"}

\* The same inside hwsense_shutdown.
UndisturbedExit ==
  \A p \in Proc :
    call[p] = "shutdown" /\ ~excuse[p] =>
      /\ \A q \in Proc \ {p} : ~Occupies(q, open)
      /\ pc[p] = "delete" => driver = "stopped"
      /\ pc[p] = "close" => driver = "stopped" /\ reg = "marked"

IInv ==
  /\ TypeOK
  /\ Held
  /\ Machine
  /\ Calls
  /\ Rounds
  /\ Undisturbed
  /\ UndisturbedExit
  /\ UndisturbedInitSucceeds

\* One system call of a caller, before its effect on the history variable.
Act(p, f) == Work(p, f) \/ Caller(p, f)

-----------------------------------------------------------------------------
(* A step is a step of one caller, which changes only what is its own and  *)
(* the machine.                                                            *)

LEMMA ActCases ==
  ASSUME NEW p \in Proc, NEW f \in BOOLEAN, Act(p, f), NEW P,
         BeginInit(p, f) => P, CreateService(p, f) => P, OpenService(p, f) => P,
         OpenStale(p, f) => P, StopStale(p, f) => P, CloseStale(p, f) => P,
         Retry(p, f) => P, StartService(p, f) => P, OpenDevice(p, f) => P,
         AllocContext(p, f) => P, BeginShutdown(p, f) => P, StopService(p, f) => P,
         DeleteService(p, f) => P, CloseService(p, f) => P, Crash(p, f) => P
  PROVE  P
BY DEF Act, Work, Caller

LEMMA FrameStep ==
  ASSUME TypeOK, NEW p \in Proc, NEW f \in BOOLEAN, Act(p, f)
  PROVE  /\ open' = [open EXCEPT ![p] = open'[p]]
         /\ pc' = [pc EXCEPT ![p] = pc'[p]]
         /\ try' = [try EXCEPT ![p] = try'[p]]
         /\ call' = [call EXCEPT ![p] = call'[p]]
         /\ ret' = [ret EXCEPT ![p] = ret'[p]]
<1> DEFINE P == /\ open' = [open EXCEPT ![p] = open'[p]]
                /\ pc' = [pc EXCEPT ![p] = pc'[p]]
                /\ try' = [try EXCEPT ![p] = try'[p]]
                /\ call' = [call EXCEPT ![p] = call'[p]]
                /\ ret' = [ret EXCEPT ![p] = ret'[p]]
<1> USE DEF TypeOK, Go, Return, InCall, Acquire, Release
<1>1. BeginInit(p, f) => P
  BY DEF BeginInit
<1>2. CreateService(p, f) => P
  BY DEF CreateService
<1>3. OpenService(p, f) => P
  BY DEF OpenService
<1>4. OpenStale(p, f) => P
  BY DEF OpenStale
<1>5. StopStale(p, f) => P
  BY DEF StopStale
<1>6. CloseStale(p, f) => P
  BY DEF CloseStale
<1>7. Retry(p, f) => P
  BY DEF Retry
<1>8. StartService(p, f) => P
  BY DEF StartService
<1>9. OpenDevice(p, f) => P
  BY DEF OpenDevice
<1>10. AllocContext(p, f) => P
  BY DEF AllocContext
<1>11. BeginShutdown(p, f) => P
  BY DEF BeginShutdown
<1>12. StopService(p, f) => P
  BY DEF StopService
<1>13. DeleteService(p, f) => P
  BY DEF DeleteService
<1>14. CloseService(p, f) => P
  BY DEF CloseService
<1>15. Crash(p, f) => P
  BY DEF Crash
<1> HIDE DEF P
<1>16. P
  BY <1>1, <1>2, <1>3, <1>4, <1>5, <1>6, <1>7, <1>8, <1>9, <1>10, <1>11,
     <1>12, <1>13, <1>14, <1>15, ActCases
<1> QED
  BY <1>16 DEF P

\* Types after a step of p: what it assigns, and the rounds left to p.
LEMMA OwnTypes ==
  ASSUME TypeOK, Rounds, NEW p \in Proc, NEW f \in BOOLEAN, Act(p, f)
  PROVE  /\ reg' \in {"absent", "present", "marked"}
         /\ driver' \in {"stopped", "running", "unloading"}
         /\ open' \in [Proc -> SUBSET Handle]
         /\ pc' \in [Proc -> Location]
         /\ try' \in [Proc -> 0 .. Retries]
         /\ pc'[p] \in {"create", "stale", "stale_stop", "stale_close", "sleep"} =>
              try'[p] < Retries
         /\ call' \in [Proc -> {"none", "init", "shutdown"}]
         /\ ret' \in [Proc -> {"none", "context", "null", "down"}]
<1> DEFINE P == /\ reg' \in {"absent", "present", "marked"}
                /\ driver' \in {"stopped", "running", "unloading"}
                /\ open' \in [Proc -> SUBSET Handle]
                /\ pc' \in [Proc -> Location]
                /\ try' \in [Proc -> 0 .. Retries]
                /\ pc'[p] \in {"create", "stale", "stale_stop", "stale_close", "sleep"} =>
                     try'[p] < Retries
                /\ call' \in [Proc -> {"none", "init", "shutdown"}]
                /\ ret' \in [Proc -> {"none", "context", "null", "down"}]
<1> USE DEF TypeOK, Rounds, Go, Return, InCall, Acquire, Release, ControlStop, Drained, Purged,
            Handle, Location
<1>1. BeginInit(p, f) => P
  BY RetriesAssumption DEF BeginInit
<1>2. CreateService(p, f) => P
  BY DEF CreateService
<1>3. OpenService(p, f) => P
  BY DEF OpenService
<1>4. OpenStale(p, f) => P
  BY DEF OpenStale
<1>5. StopStale(p, f) => P
  BY DEF StopStale
<1>6. CloseStale(p, f) => P
  BY DEF CloseStale
<1>7. Retry(p, f) => P
  BY RetriesAssumption DEF Retry
<1>8. StartService(p, f) => P
  BY DEF StartService
<1>9. OpenDevice(p, f) => P
  BY DEF OpenDevice
<1>10. AllocContext(p, f) => P
  BY DEF AllocContext
<1>11. BeginShutdown(p, f) => P
  BY DEF BeginShutdown
<1>12. StopService(p, f) => P
  BY DEF StopService
<1>13. DeleteService(p, f) => P
  BY DEF DeleteService
<1>14. CloseService(p, f) => P
  BY DEF CloseService
<1>15. Crash(p, f) => P
  BY DEF Crash
<1> HIDE DEF P
<1>16. P
  BY <1>1, <1>2, <1>3, <1>4, <1>5, <1>6, <1>7, <1>8, <1>9, <1>10, <1>11,
     <1>12, <1>13, <1>14, <1>15, ActCases
<1> QED
  BY <1>16 DEF P

LEMMA TypeStep ==
  ASSUME TypeOK, Rounds, NEW p \in Proc, NEW f \in BOOLEAN, Act(p, f), Observe(p, f)
  PROVE  TypeOK'
<1>1. excuse' \in [Proc -> BOOLEAN]
  BY DEF Observe, TypeOK
<1>2. faulted' \in BOOLEAN
  BY DEF Observe
<1> QED
  BY <1>1, <1>2, OwnTypes DEF TypeOK

\* The handles of p and its call belong to its new location.
LEMMA OwnHandles ==
  ASSUME TypeOK, Held, Calls, NEW p \in Proc, NEW f \in BOOLEAN, Act(p, f)
  PROVE  /\ "scm" \in open'[p] <=> pc'[p] # "idle"
         /\ "svc" \in open'[p] <=>
              pc'[p] \in {"start", "device", "alloc", "ready", "stop", "delete", "close"}
         /\ "stale" \in open'[p] <=> pc'[p] \in {"stale_stop", "stale_close"}
         /\ "dev" \in open'[p] <=> pc'[p] \in {"alloc", "ready"}
         /\ call'[p] = "none" <=> pc'[p] \in {"idle", "ready"}
         /\ call'[p] = "shutdown" => pc'[p] \in {"stop", "delete", "close"}
         /\ call'[p] # "none" => ret'[p] = "none"
<1> DEFINE P == /\ "scm" \in open'[p] <=> pc'[p] # "idle"
                /\ "svc" \in open'[p] <=>
                     pc'[p] \in {"start", "device", "alloc", "ready", "stop", "delete", "close"}
                /\ "stale" \in open'[p] <=> pc'[p] \in {"stale_stop", "stale_close"}
                /\ "dev" \in open'[p] <=> pc'[p] \in {"alloc", "ready"}
                /\ call'[p] = "none" <=> pc'[p] \in {"idle", "ready"}
                /\ call'[p] = "shutdown" => pc'[p] \in {"stop", "delete", "close"}
                /\ call'[p] # "none" => ret'[p] = "none"
<1> USE DEF TypeOK, Held, Calls, Go, Return, InCall, Acquire, Release, Handle, Location
<1>1. BeginInit(p, f) => P
  BY DEF BeginInit
<1>2. CreateService(p, f) => P
  BY DEF CreateService
<1>3. OpenService(p, f) => P
  BY DEF OpenService
<1>4. OpenStale(p, f) => P
  BY DEF OpenStale
<1>5. StopStale(p, f) => P
  BY DEF StopStale
<1>6. CloseStale(p, f) => P
  BY DEF CloseStale
<1>7. Retry(p, f) => P
  BY DEF Retry
<1>8. StartService(p, f) => P
  BY DEF StartService
<1>9. OpenDevice(p, f) => P
  BY DEF OpenDevice
<1>10. AllocContext(p, f) => P
  BY DEF AllocContext
<1>11. BeginShutdown(p, f) => P
  BY DEF BeginShutdown
<1>12. StopService(p, f) => P
  BY DEF StopService
<1>13. DeleteService(p, f) => P
  BY DEF DeleteService
<1>14. CloseService(p, f) => P
  BY DEF CloseService
<1>15. Crash(p, f) => P
  BY DEF Crash
<1> HIDE DEF P
<1>16. P
  BY <1>1, <1>2, <1>3, <1>4, <1>5, <1>6, <1>7, <1>8, <1>9, <1>10, <1>11,
     <1>12, <1>13, <1>14, <1>15, ActCases
<1> QED
  BY <1>16 DEF P

LEMMA HandlesStep ==
  ASSUME TypeOK, Rounds, Held, Calls, NEW p \in Proc, NEW f \in BOOLEAN, Act(p, f)
  PROVE  Held' /\ Calls' /\ Rounds'
<1> SUFFICES ASSUME NEW q \in Proc
             PROVE  /\ "scm" \in open'[q] <=> pc'[q] # "idle"
                    /\ "svc" \in open'[q] <=>
                         pc'[q] \in {"start", "device", "alloc", "ready",
                                     "stop", "delete", "close"}
                    /\ "stale" \in open'[q] <=> pc'[q] \in {"stale_stop", "stale_close"}
                    /\ "dev" \in open'[q] <=> pc'[q] \in {"alloc", "ready"}
                    /\ call'[q] = "none" <=> pc'[q] \in {"idle", "ready"}
                    /\ call'[q] = "shutdown" => pc'[q] \in {"stop", "delete", "close"}
                    /\ call'[q] # "none" => ret'[q] = "none"
                    /\ pc'[q] \in {"create", "stale", "stale_stop", "stale_close", "sleep"}
                         => try'[q] < Retries
  BY DEF Held, Calls, Rounds
<1>1. CASE q = p
  BY <1>1, OwnHandles, OwnTypes
<1>2. CASE q # p
  <2>1. /\ open'[q] = open[q] /\ pc'[q] = pc[q]
        /\ try'[q] = try[q] /\ call'[q] = call[q] /\ ret'[q] = ret[q]
    BY <1>2, FrameStep DEF TypeOK
  <2> QED
    BY <2>1 DEF Held, Calls, Rounds
<1> QED
  BY <1>1, <1>2

-----------------------------------------------------------------------------
(* The machine.                                                            *)

LEMMA AcquireHeld ==
  ASSUME TypeOK, NEW p \in Proc, NEW h \in Handle, Acquire(p, h)
  PROVE  /\ DeviceHeld(open') <=> DeviceHeld(open) \/ h = "dev"
         /\ ServiceHeld(open') <=> ServiceHeld(open) \/ h \in {"svc", "stale"}
BY DEF Acquire, DeviceHeld, ServiceHeld, TypeOK

LEMMA ReleaseMachine ==
  ASSUME TypeOK, Machine, NEW p \in Proc, NEW hs \in SUBSET Handle, Release(p, hs)
  PROVE  Machine'
<1>1. DeviceHeld(open') => DeviceHeld(open)
  BY DEF Release, DeviceHeld, TypeOK
<1>2. ServiceHeld(open') => ServiceHeld(open)
  BY DEF Release, ServiceHeld, TypeOK
<1>3. driver' = Drained(driver, open') /\ reg' = Purged(reg, driver', open')
  BY DEF Release
<1> QED
  BY <1>1, <1>2, <1>3 DEF Machine, Drained, Purged, TypeOK

LEMMA MachineStep ==
  ASSUME TypeOK, Held, Machine, NEW p \in Proc, NEW f \in BOOLEAN, Act(p, f)
  PROVE  Machine'
<1>1. ASSUME UNCHANGED <<reg, driver, open>>  PROVE Machine'
  BY <1>1 DEF Machine, DeviceHeld, ServiceHeld
<1>2. ASSUME NEW hs \in SUBSET Handle, Release(p, hs)  PROVE Machine'
  BY <1>2, ReleaseMachine
<1>3. ASSUME NEW h \in Handle, Acquire(p, h), UNCHANGED <<reg, driver>>,
             h \in {"svc", "stale"} => reg # "absent",
             h = "dev" => driver = "running"
      PROVE  Machine'
  BY <1>3, AcquireHeld DEF Machine
<1>4. ASSUME ControlStop(f), UNCHANGED <<reg, open>>, ServiceHeld(open)
      PROVE  Machine'
  <2>1. DeviceHeld(open') = DeviceHeld(open) /\ ServiceHeld(open') = ServiceHeld(open)
    BY <1>4 DEF DeviceHeld, ServiceHeld
  <2> QED
    BY <1>4, <2>1 DEF Machine, ControlStop, Drained, TypeOK
<1>5. {"scm"} \in SUBSET Handle /\ {"svc", "scm"} \in SUBSET Handle
      /\ {"stale"} \in SUBSET Handle /\ {"dev"} \in SUBSET Handle
      /\ Handle \in SUBSET Handle
      /\ "scm" \in Handle /\ "svc" \in Handle /\ "stale" \in Handle /\ "dev" \in Handle
  BY DEF Handle
<1>6. pc[p] \in {"start", "stale_stop", "stop", "delete"} => ServiceHeld(open)
  BY DEF Held, ServiceHeld
<1>7. BeginInit(p, f) => Machine'
  BY <1>1, <1>3, <1>5 DEF BeginInit
<1>8. CreateService(p, f) => Machine'
  <2>1. ASSUME reg = "absent", reg' = "present", Acquire(p, "svc"), UNCHANGED driver
        PROVE  Machine'
    BY <2>1, <1>5, AcquireHeld DEF Machine
  <2> QED
    BY <1>1, <1>2, <1>5, <2>1 DEF CreateService
<1>9. OpenService(p, f) => Machine'
  BY <1>2, <1>3, <1>5 DEF OpenService
<1>10. OpenStale(p, f) => Machine'
  BY <1>1, <1>3, <1>5 DEF OpenStale
<1>11. StopStale(p, f) => Machine'
  BY <1>4, <1>6 DEF StopStale
<1>12. CloseStale(p, f) => Machine'
  BY <1>2, <1>5 DEF CloseStale
<1>13. Retry(p, f) => Machine'
  BY <1>1, <1>2, <1>5 DEF Retry
<1>14. StartService(p, f) => Machine'
  <2>1. ASSUME UNCHANGED <<reg, open>>, reg # "marked", ServiceHeld(open),
               driver' = IF driver = "stopped" THEN "running" ELSE driver
        PROVE  Machine'
    <3>1. DeviceHeld(open') = DeviceHeld(open) /\ ServiceHeld(open') = ServiceHeld(open)
      BY <2>1 DEF DeviceHeld, ServiceHeld
    <3> QED
      BY <2>1, <3>1 DEF Machine, TypeOK
  <2> QED
    BY <1>2, <1>5, <1>6, <2>1 DEF StartService
<1>15. OpenDevice(p, f) => Machine'
  BY <1>1, <1>3, <1>5 DEF OpenDevice
<1>16. AllocContext(p, f) => Machine'
  BY <1>1, <1>2, <1>5 DEF AllocContext
<1>17. BeginShutdown(p, f) => Machine'
  BY <1>2, <1>5 DEF BeginShutdown
<1>18. StopService(p, f) => Machine'
  BY <1>4, <1>6 DEF StopService
<1>19. DeleteService(p, f) => Machine'
  <2>1. ASSUME DeleteService(p, f)  PROVE Machine'
    <3>1. DeviceHeld(open') = DeviceHeld(open) /\ ServiceHeld(open') = ServiceHeld(open)
      BY <2>1 DEF DeleteService, DeviceHeld, ServiceHeld
    <3> QED
      BY <1>6, <2>1, <3>1 DEF DeleteService, Machine, TypeOK
  <2> QED
    BY <2>1
<1>20. CloseService(p, f) => Machine'
  BY <1>2, <1>5 DEF CloseService
<1>21. Crash(p, f) => Machine'
  BY <1>2, <1>5 DEF Crash
<1> QED
  BY <1>7, <1>8, <1>9, <1>10, <1>11, <1>12, <1>13, <1>14, <1>15, <1>16, <1>17,
     <1>18, <1>19, <1>20, <1>21, ActCases

-----------------------------------------------------------------------------
(* A caller that has neither the service nor the device open leaves the     *)
(* machine alone.                                                           *)

LEMMA ReleaseQuiet ==
  ASSUME TypeOK, Machine, NEW p \in Proc, NEW hs \in SUBSET Handle,
         Release(p, hs), ~Occupies(p, open)
  PROVE  reg' = reg /\ driver' = driver
<1>1. \A q \in Proc : \A h \in {"svc", "stale", "dev"} : h \in open'[q] <=> h \in open[q]
  BY DEF Release, Occupies, TypeOK
<1>2. DeviceHeld(open') = DeviceHeld(open)
  BY <1>1 DEF DeviceHeld
<1>3. ServiceHeld(open') = ServiceHeld(open)
  BY <1>1 DEF ServiceHeld
<1> QED
  BY <1>2, <1>3 DEF Release, Machine, Drained, Purged, TypeOK

LEMMA QuietStep ==
  ASSUME TypeOK, Held, Machine, NEW p \in Proc, NEW f \in BOOLEAN, Act(p, f),
         ~Occupies(p, open), ~Occupies(p, open')
  PROVE  reg' = reg /\ driver' = driver
<1> DEFINE P == reg' = reg /\ driver' = driver
<1>1. ASSUME NEW hs \in SUBSET Handle, Release(p, hs)  PROVE P
  BY <1>1, ReleaseQuiet
<1>2. {"scm"} \in SUBSET Handle /\ Handle \in SUBSET Handle
  BY DEF Handle
<1>3. ~Acquire(p, "svc")
  BY DEF Acquire, Occupies, TypeOK
<1>4. pc[p] \notin {"stale_stop", "stale_close", "start", "device", "alloc",
                   "ready", "stop", "delete", "close"}
  BY DEF Held, Occupies
<1> HIDE DEF P
<1>5. UNCHANGED <<reg, driver>> => P
  BY DEF P
<1>6. BeginInit(p, f) => P
  BY <1>5 DEF BeginInit
<1>7. CreateService(p, f) => P
  BY <1>1, <1>2, <1>3, <1>5 DEF CreateService
<1>8. OpenService(p, f) => P
  BY <1>1, <1>2, <1>3 DEF OpenService
<1>9. OpenStale(p, f) => P
  BY <1>5 DEF OpenStale
<1>10. Retry(p, f) => P
  BY <1>1, <1>2, <1>5 DEF Retry
<1>11. Crash(p, f) => P
  BY <1>1, <1>2 DEF Crash
<1>12. ~StopStale(p, f) /\ ~CloseStale(p, f) /\ ~StartService(p, f)
       /\ ~OpenDevice(p, f) /\ ~AllocContext(p, f) /\ ~BeginShutdown(p, f)
       /\ ~StopService(p, f) /\ ~DeleteService(p, f) /\ ~CloseService(p, f)
  BY <1>4 DEF StopStale, CloseStale, StartService, OpenDevice, AllocContext,
              BeginShutdown, StopService, DeleteService, CloseService
<1>13. P
  BY <1>6, <1>7, <1>8, <1>9, <1>10, <1>11, <1>12, ActCases
<1> QED
  BY <1>13 DEF P

-----------------------------------------------------------------------------
(* The history variable. *)

\* A call that is still without excuse saw no fault and nobody else.
LEMMA NoExcuse ==
  ASSUME TypeOK, NEW p \in Proc, NEW f \in BOOLEAN, Observe(p, f),
         NEW q \in Proc, ~excuse'[q], call[q] # "none" \/ q = p,
         q = p => pc[p] \in {"idle", "ready"} \/ call[p] # "none"
  PROVE  /\ \A r \in Proc \ {q} : ~Occupies(r, open) /\ ~Occupies(r, open')
         /\ q = p => ~f
         /\ q # p \/ pc[p] \notin {"idle", "ready"} => ~excuse[q]
<1> DEFINE others == \E r \in Proc \ {q} : Occupies(r, open) \/ Occupies(r, open')
           struck == q = p /\ f
<1>1. excuse'[q] = IF q = p /\ pc[p] \in {"idle", "ready"} THEN others \/ struck
                   ELSE IF call[q] = "none" THEN excuse[q]
                   ELSE excuse[q] \/ others \/ struck
  BY DEF Observe
<1> HIDE DEF others, struck
<1>2. ~others /\ ~struck
  BY <1>1
<1>3. q # p \/ pc[p] \notin {"idle", "ready"} => ~excuse[q]
  BY <1>1 DEF TypeOK
<1> QED
  BY <1>2, <1>3 DEF others, struck

\* An excuse stays as long as the call and after it.
LEMMA ExcuseStays ==
  ASSUME TypeOK, NEW p \in Proc, NEW f \in BOOLEAN, Observe(p, f),
         NEW q \in Proc, excuse[q], q # p \/ pc[p] \notin {"idle", "ready"}
  PROVE  excuse'[q]
BY DEF Observe, TypeOK

-----------------------------------------------------------------------------
(* What an undisturbed caller inside hwsense_init relies on. *)

\* When the others hold nothing, the machine depends on p's handles alone.
LEMMA Alone ==
  ASSUME NEW p \in Proc, NEW o, \A q \in Proc \ {p} : ~Occupies(q, o)
  PROVE  /\ DeviceHeld(o) <=> "dev" \in o[p]
         /\ ServiceHeld(o) <=> "svc" \in o[p] \/ "stale" \in o[p]
BY DEF Occupies, DeviceHeld, ServiceHeld

\* The step of the caller itself.
LEMMA OwnUndisturbed ==
  ASSUME TypeOK, Held, Machine, Calls, Undisturbed,
         NEW p \in Proc, Act(p, FALSE), Observe(p, FALSE),
         \A q \in Proc \ {p} : ~Occupies(q, open) /\ ~Occupies(q, open'),
         pc[p] \notin {"idle", "ready"} => ~excuse[p],
         call'[p] = "init"
  PROVE  /\ pc'[p] = "create" => try'[p] = 0 \/ reg' # "marked"
         /\ pc'[p] = "open" => reg' = "present"
         /\ pc'[p] \in {"stale", "stale_stop"} => try'[p] = 0 /\ reg' = "marked"
         /\ pc'[p] = "stale_close" =>
              try'[p] = 0 /\ reg' = "marked" /\ driver' = "stopped"
         /\ pc'[p] = "sleep" => try'[p] = 0 /\ reg' # "marked"
         /\ pc'[p] = "start" => reg' = "present"
         /\ pc'[p] = "device" => driver' = "running"
         /\ pc'[p] \notin {"stop", "delete", "close"}
<1> DEFINE P == /\ pc'[p] = "create" => try'[p] = 0 \/ reg' # "marked"
                /\ pc'[p] = "open" => reg' = "present"
                /\ pc'[p] \in {"stale", "stale_stop"} => try'[p] = 0 /\ reg' = "marked"
                /\ pc'[p] = "stale_close" =>
                     try'[p] = 0 /\ reg' = "marked" /\ driver' = "stopped"
                /\ pc'[p] = "sleep" => try'[p] = 0 /\ reg' # "marked"
                /\ pc'[p] = "start" => reg' = "present"
                /\ pc'[p] = "device" => driver' = "running"
                /\ pc'[p] \notin {"stop", "delete", "close"}
<1>1. ASSUME pc[p] \notin {"idle", "ready"}, call[p] = "init"
      PROVE  /\ pc[p] = "create" => try[p] = 0 \/ reg # "marked"
             /\ pc[p] = "open" => reg = "present"
             /\ pc[p] \in {"stale", "stale_stop"} => try[p] = 0 /\ reg = "marked"
             /\ pc[p] = "stale_close" =>
                  try[p] = 0 /\ reg = "marked" /\ driver = "stopped"
             /\ pc[p] = "sleep" => try[p] = 0 /\ reg # "marked"
             /\ pc[p] = "start" => reg = "present"
             /\ pc[p] = "device" => driver = "running"
             /\ pc[p] \notin {"stop", "delete", "close"}
  BY <1>1 DEF Undisturbed
<1>2. /\ DeviceHeld(open) <=> pc[p] \in {"alloc", "ready"}
      /\ ServiceHeld(open') <=> "svc" \in open'[p] \/ "stale" \in open'[p]
  BY Alone DEF Held
<1> USE DEF TypeOK, Go, Return, InCall
<1>3. BeginInit(p, FALSE) => P
  BY DEF BeginInit
<1>4. CreateService(p, FALSE) => P
  <2> SUFFICES ASSUME CreateService(p, FALSE)  PROVE P
    OBVIOUS
  <2>1. try[p] = 0 \/ reg # "marked"
    BY <1>1 DEF CreateService
  <2> QED
    BY <2>1 DEF CreateService
<1>5. OpenService(p, FALSE) => P
  BY <1>1 DEF OpenService
<1>6. OpenStale(p, FALSE) => P
  BY <1>1 DEF OpenStale
<1>7. StopStale(p, FALSE) => P
  BY <1>1, <1>2 DEF StopStale, ControlStop, Drained, Machine
<1>8. CloseStale(p, FALSE) => P
  <2> SUFFICES ASSUME CloseStale(p, FALSE)  PROVE P
    OBVIOUS
  <2>1. try[p] = 0 /\ reg = "marked" /\ driver = "stopped"
    BY <1>1 DEF CloseStale
  <2>2. driver' = "stopped" /\ "stale" \notin open'[p] /\ "svc" \notin open'[p]
    BY <2>1 DEF CloseStale, Release, Drained, Held
  <2>3. reg' = "absent"
    BY <1>2, <2>1, <2>2 DEF CloseStale, Release, Purged
  <2> QED
    BY <2>1, <2>3 DEF CloseStale
<1>9. Retry(p, FALSE) => P
  BY <1>1, RetriesAssumption DEF Retry
<1>10. StartService(p, FALSE) => P
  BY <1>1, <1>2 DEF StartService, Machine
<1>11. OpenDevice(p, FALSE) => P
  BY <1>1 DEF OpenDevice
<1>12. AllocContext(p, FALSE) => P
  BY DEF AllocContext
<1>13. BeginShutdown(p, FALSE) => P
  BY DEF BeginShutdown
<1>14. StopService(p, FALSE) => P
  BY <1>1 DEF StopService
<1>15. DeleteService(p, FALSE) => P
  BY <1>1 DEF DeleteService
<1>16. CloseService(p, FALSE) => P
  BY DEF CloseService
<1>17. Crash(p, FALSE) => P
  BY DEF Crash
<1> HIDE DEF P
<1>18. P
  BY <1>3, <1>4, <1>5, <1>6, <1>7, <1>8, <1>9, <1>10, <1>11, <1>12, <1>13,
     <1>14, <1>15, <1>16, <1>17, ActCases
<1> QED
  BY <1>18 DEF P

\* The step of the caller itself inside hwsense_shutdown.
LEMMA OwnUndisturbedExit ==
  ASSUME TypeOK, Held, Machine, Calls, UndisturbedExit,
         NEW p \in Proc, Act(p, FALSE),
         \A q \in Proc \ {p} : ~Occupies(q, open) /\ ~Occupies(q, open'),
         pc[p] \notin {"idle", "ready"} => ~excuse[p],
         call'[p] = "shutdown"
  PROVE  /\ pc'[p] = "delete" => driver' = "stopped"
         /\ pc'[p] = "close" => driver' = "stopped" /\ reg' = "marked"
<1> DEFINE P == /\ pc'[p] = "delete" => driver' = "stopped"
                /\ pc'[p] = "close" => driver' = "stopped" /\ reg' = "marked"
<1>1. pc[p] \notin {"idle", "ready"} => call'[p] = call[p] \/ call'[p] = "none"
  <2> DEFINE Q == pc[p] \notin {"idle", "ready"} =>
                    call'[p] = call[p] \/ call'[p] = "none"
  <2> USE DEF TypeOK, Return, InCall
  <2>1. BeginInit(p, FALSE) => Q
    BY DEF BeginInit
  <2>2. CreateService(p, FALSE) => Q
    BY DEF CreateService
  <2>3. OpenService(p, FALSE) => Q
    BY DEF OpenService
  <2>4. OpenStale(p, FALSE) => Q
    BY DEF OpenStale
  <2>5. StopStale(p, FALSE) => Q
    BY DEF StopStale
  <2>6. CloseStale(p, FALSE) => Q
    BY DEF CloseStale
  <2>7. Retry(p, FALSE) => Q
    BY DEF Retry
  <2>8. StartService(p, FALSE) => Q
    BY DEF StartService
  <2>9. OpenDevice(p, FALSE) => Q
    BY DEF OpenDevice
  <2>10. AllocContext(p, FALSE) => Q
    BY DEF AllocContext
  <2>11. BeginShutdown(p, FALSE) => Q
    BY DEF BeginShutdown
  <2>12. StopService(p, FALSE) => Q
    BY DEF StopService
  <2>13. DeleteService(p, FALSE) => Q
    BY DEF DeleteService
  <2>14. CloseService(p, FALSE) => Q
    BY DEF CloseService
  <2>15. Crash(p, FALSE) => Q
    BY DEF Crash
  <2> HIDE DEF Q
  <2>16. Q
    BY <2>1, <2>2, <2>3, <2>4, <2>5, <2>6, <2>7, <2>8, <2>9, <2>10, <2>11,
       <2>12, <2>13, <2>14, <2>15, ActCases
  <2> QED
    BY <2>16 DEF Q
<1>2. CASE pc[p] \in {"idle", "ready"}
  <2>1. BeginInit(p, FALSE) => P
    BY DEF BeginInit, Go, Return, TypeOK
  <2>2. BeginShutdown(p, FALSE) => P
    BY DEF BeginShutdown, Go, TypeOK
  <2>3. Crash(p, FALSE) => P
    BY DEF Crash
  <2> HIDE DEF P
  <2>4. P
    BY <1>2, <2>1, <2>2, <2>3 DEF Act, Work, Caller, CreateService, OpenService,
       OpenStale, StopStale, CloseStale, Retry, StartService, OpenDevice,
       AllocContext, StopService, DeleteService, CloseService
  <2> QED
    BY <2>4 DEF P
<1>3. CASE pc[p] \notin {"idle", "ready"}
  <2>1. call[p] = "shutdown" /\ ~excuse[p]
    BY <1>1, <1>3
  <2>2. pc[p] \in {"stop", "delete", "close"}
    BY <2>1 DEF Calls
  <2>3. ~DeviceHeld(open) /\ ServiceHeld(open)
    BY <2>2, Alone DEF Held
  <2>4. pc[p] = "delete" => driver = "stopped"
    BY <2>1 DEF UndisturbedExit
  <2>5. StopService(p, FALSE) => P
    BY <2>3 DEF StopService, ControlStop, Drained, Machine, TypeOK, Go
  <2>6. DeleteService(p, FALSE) => P
    BY <2>3, <2>4 DEF DeleteService, Machine, TypeOK, Go
  <2>7. CloseService(p, FALSE) => P
    BY DEF CloseService, Return, TypeOK, Go
  <2>8. Crash(p, FALSE) => P
    BY DEF Crash
  <2> HIDE DEF P
  <2>9. P
    BY <2>2, <2>5, <2>6, <2>7, <2>8 DEF Act, Work, Caller, BeginInit, CreateService,
       OpenService, OpenStale, StopStale, CloseStale, Retry, StartService, OpenDevice,
       AllocContext, BeginShutdown
  <2> QED
    BY <2>9 DEF P
<1> QED
  BY <1>2, <1>3

\* What a caller q relies on survives its own steps and everybody else's.
LEMMA UndisturbedStep ==
  ASSUME TypeOK, Held, Machine, Calls, Undisturbed, UndisturbedExit,
         NEW p \in Proc, NEW f \in BOOLEAN, Act(p, f), Observe(p, f)
  PROVE  Undisturbed' /\ UndisturbedExit'
<1>1. ASSUME NEW q \in Proc, q # p, call'[q] # "none", ~excuse'[q]
      PROVE  /\ call[q] = call'[q] /\ pc'[q] = pc[q] /\ try'[q] = try[q]
             /\ ~excuse[q]
             /\ \A r \in Proc \ {q} : ~Occupies(r, open')
             /\ reg' = reg /\ driver' = driver
  <2>1. call[q] = call'[q] /\ pc'[q] = pc[q] /\ try'[q] = try[q]
    BY <1>1, FrameStep DEF TypeOK
  <2>2. ~excuse[q] /\ \A r \in Proc \ {q} : ~Occupies(r, open) /\ ~Occupies(r, open')
    BY <1>1, <2>1, NoExcuse
  <2>3. reg' = reg /\ driver' = driver
    BY <1>1, <2>2, QuietStep
  <2> QED
    BY <2>1, <2>2, <2>3
<1>2. ASSUME call'[p] # "none", ~excuse'[p]
      PROVE  /\ ~f
             /\ pc[p] \notin {"idle", "ready"} => ~excuse[p]
             /\ \A r \in Proc \ {p} : ~Occupies(r, open) /\ ~Occupies(r, open')
  <2>1. pc[p] \in {"idle", "ready"} \/ call[p] # "none"
    BY DEF Calls
  <2> QED
    BY <1>2, <2>1, NoExcuse
<1>3. Undisturbed'
  <2> SUFFICES ASSUME NEW q \in Proc, call'[q] = "init", ~excuse'[q]
               PROVE  /\ \A r \in Proc \ {q} : ~Occupies(r, open')
                      /\ pc'[q] = "create" => try'[q] = 0 \/ reg' # "marked"
                      /\ pc'[q] = "open" => reg' = "present"
                      /\ pc'[q] \in {"stale", "stale_stop"} =>
                           try'[q] = 0 /\ reg' = "marked"
                      /\ pc'[q] = "stale_close" =>
                           try'[q] = 0 /\ reg' = "marked" /\ driver' = "stopped"
                      /\ pc'[q] = "sleep" => try'[q] = 0 /\ reg' # "marked"
                      /\ pc'[q] = "start" => reg' = "present"
                      /\ pc'[q] = "device" => driver' = "running"
                      /\ pc'[q] \notin {"stop", "delete", "close"}
    BY DEF Undisturbed, Occupies
  <2>1. CASE q # p
    BY <1>1, <2>1 DEF Undisturbed
  <2>2. CASE q = p
    BY <1>2, <2>2, OwnUndisturbed
  <2> QED
    BY <2>1, <2>2
<1>4. UndisturbedExit'
  <2> SUFFICES ASSUME NEW q \in Proc, call'[q] = "shutdown", ~excuse'[q]
               PROVE  /\ \A r \in Proc \ {q} : ~Occupies(r, open')
                      /\ pc'[q] = "delete" => driver' = "stopped"
                      /\ pc'[q] = "close" => driver' = "stopped" /\ reg' = "marked"
    BY DEF UndisturbedExit, Occupies
  <2>1. CASE q # p
    BY <1>1, <2>1 DEF UndisturbedExit
  <2>2. CASE q = p
    BY <1>2, <2>2, OwnUndisturbedExit
  <2> QED
    BY <2>1, <2>2
<1> QED
  BY <1>3, <1>4

\* hwsense_init that gives up has an excuse.
LEMMA InitSucceedsStep ==
  ASSUME TypeOK, Held, Machine, Calls, Undisturbed, UndisturbedInitSucceeds,
         NEW p \in Proc, NEW f \in BOOLEAN, Act(p, f), Observe(p, f)
  PROVE  UndisturbedInitSucceeds'
<1> SUFFICES ASSUME NEW q \in Proc, ret'[q] = "null", ~excuse'[q]
             PROVE  FALSE
  BY DEF UndisturbedInitSucceeds
<1>1. CASE q # p
  <2>1. ret[q] = "null"
    BY <1>1, FrameStep DEF TypeOK
  <2> QED
    BY <1>1, <2>1, ExcuseStays DEF UndisturbedInitSucceeds
<1>2. CASE q = p
  <2>1. pc[p] \in {"idle", "ready"} \/ call[p] # "none"
    BY DEF Calls
  <2>2. /\ ~f
        /\ pc[p] \notin {"idle", "ready"} => ~excuse[p]
        /\ \A r \in Proc \ {p} : ~Occupies(r, open)
    BY <1>2, <2>1, NoExcuse
  <2>3. pc[p] \notin {"idle", "ready"} => ret[p] # "null"
    BY <2>2 DEF UndisturbedInitSucceeds
  <2>4. ASSUME pc[p] \notin {"idle", "ready", "stop", "delete", "close"}
        PROVE  /\ pc[p] = "open" => reg = "present"
               /\ pc[p] = "sleep" => try[p] = 0
               /\ pc[p] = "start" => reg = "present"
    <3>1. call[p] = "init"
      BY <2>4 DEF Calls, TypeOK
    <3> QED
      BY <2>2, <2>4, <3>1 DEF Undisturbed
  <2>5. pc[p] = "start" => driver # "unloading"
    BY <2>2, Alone DEF Machine, Held
  <2>6. ret'[p] = "null"
    BY <1>2
  <2> USE DEF TypeOK, Return, InCall
  <2>7. ~BeginInit(p, f)
    BY <2>2, <2>6 DEF BeginInit
  <2>8. ~CreateService(p, f)
    BY <2>2, <2>3, <2>6 DEF CreateService
  <2>9. ~OpenService(p, f)
    BY <2>2, <2>3, <2>4, <2>6 DEF OpenService
  <2>10. ~OpenStale(p, f) /\ ~StopStale(p, f) /\ ~CloseStale(p, f)
    BY <2>3, <2>6 DEF OpenStale, StopStale, CloseStale
  <2>11. ~Retry(p, f)
    BY <2>3, <2>4, <2>6, RetriesAssumption DEF Retry
  <2>12. ~StartService(p, f)
    BY <2>2, <2>3, <2>4, <2>5, <2>6 DEF StartService
  <2>13. ~OpenDevice(p, f)
    BY <2>3, <2>6 DEF OpenDevice
  <2>14. ~AllocContext(p, f)
    BY <2>2, <2>6 DEF AllocContext
  <2>15. ~BeginShutdown(p, f)
    BY <2>6 DEF BeginShutdown
  <2>16. ~StopService(p, f) /\ ~DeleteService(p, f)
    BY <2>3, <2>6 DEF StopService, DeleteService
  <2>17. ~CloseService(p, f)
    <3>1. pc[p] = "close" => call[p] # "init"
      BY <2>2 DEF Undisturbed
    <3> QED
      BY <2>6, <3>1 DEF CloseService
  <2>18. ~Crash(p, f)
    BY <2>2 DEF Crash
  <2> QED
    BY <2>7, <2>8, <2>9, <2>10, <2>11, <2>12, <2>13, <2>14, <2>15, <2>16,
       <2>17, <2>18 DEF Act, Work, Caller
<1> QED
  BY <1>1, <1>2

-----------------------------------------------------------------------------
(* The invariant and the theorems. *)

LEMMA InitIInv == Init => IInv
<1> SUFFICES ASSUME Init  PROVE IInv
  OBVIOUS
<1> USE DEF Init
<1>1. faulted \in BOOLEAN
  OBVIOUS
<1>2. TypeOK
  BY <1>1, RetriesAssumption DEF TypeOK, Location
<1>3. Held /\ Calls /\ Rounds
  BY DEF Held, Calls, Rounds
<1>4. Machine
  BY DEF Machine, DeviceHeld, ServiceHeld
<1>5. Undisturbed /\ UndisturbedExit /\ UndisturbedInitSucceeds
  BY DEF Undisturbed, UndisturbedExit, UndisturbedInitSucceeds
<1> QED
  BY <1>2, <1>3, <1>4, <1>5 DEF IInv

LEMMA NextIInv == IInv /\ [Next]_vars => IInv'
<1> SUFFICES ASSUME IInv, [Next]_vars  PROVE IInv'
  OBVIOUS
<1>1. CASE Next
  <2>1. PICK p \in Proc, f \in BOOLEAN : Act(p, f) /\ Observe(p, f)
    BY <1>1 DEF Next, ProcStep, Act
  <2>2. TypeOK'
    BY <2>1, TypeStep DEF IInv
  <2>3. Held' /\ Calls' /\ Rounds'
    BY <2>1, HandlesStep DEF IInv
  <2>4. Machine'
    BY <2>1, MachineStep DEF IInv
  <2>5. Undisturbed' /\ UndisturbedExit'
    BY <2>1, UndisturbedStep DEF IInv
  <2>6. UndisturbedInitSucceeds'
    BY <2>1, InitSucceedsStep DEF IInv
  <2> QED
    BY <2>2, <2>3, <2>4, <2>5, <2>6 DEF IInv
<1>2. CASE UNCHANGED vars
  BY <1>2 DEF vars, IInv, TypeOK, Held, Machine, Calls, Rounds, Undisturbed,
              UndisturbedExit, UndisturbedInitSucceeds, Occupies, DeviceHeld,
              ServiceHeld
<1> QED
  BY <1>1, <1>2

LEMMA Invariance == Spec => []IInv
BY InitIInv, NextIInv, PTL DEF Spec

\* Every variable keeps its type: in particular the retry counter of
\* install_and_start_driver never passes its bound.
THEOREM TypeCorrect == Spec => []TypeOK
BY Invariance, PTL DEF IInv

\* No early return of hwsense_init or hwsense_shutdown keeps a handle: a
\* caller outside the library without a context holds none.
THEOREM HandlesClosed == Spec => []NoLeakedHandle
<1>1. IInv => NoLeakedHandle
  BY DEF IInv, TypeOK, Held, NoLeakedHandle, Handle
<1> QED
  BY <1>1, Invariance, PTL

\* hwsense_init fails only when one of its system calls failed of itself or
\* another caller had the service or the device open during the call,
\* whatever state earlier runs and crashes left the service in.
THEOREM InitSucceeds == Spec => []UndisturbedInitSucceeds
BY Invariance, PTL DEF IInv

\* The last step of an undisturbed hwsense_shutdown.
LEMMA CleanExit ==
  ASSUME IInv, NEW p \in Proc, NEW f \in BOOLEAN, Act(p, f), Observe(p, f),
         NEW q \in Proc, call[q] = "shutdown", ret'[q] = "down", ~excuse'[q]
  PROVE  reg' = "absent" /\ driver' = "stopped"
<1>1. /\ TypeOK /\ Held /\ Machine /\ Calls /\ UndisturbedExit
  BY DEF IInv
<1>2. q = p
  <2>1. q # p => ret'[q] = ret[q]
    BY <1>1, FrameStep DEF TypeOK
  <2> QED
    BY <1>1, <2>1 DEF Calls
<1>3. /\ ~f /\ ~excuse[p]
      /\ \A r \in Proc \ {p} : ~Occupies(r, open) /\ ~Occupies(r, open')
  BY <1>1, <1>2, NoExcuse DEF Calls
<1>4. pc[p] \in {"stop", "delete", "close"} /\ ret[p] = "none" /\ ret'[p] = "down"
  BY <1>1, <1>2 DEF Calls
<1>5. CloseService(p, f)
  BY <1>1, <1>3, <1>4 DEF Act, Work, Caller, BeginInit, CreateService, OpenService,
     OpenStale, StopStale, CloseStale, Retry, StartService, OpenDevice, AllocContext,
     BeginShutdown, StopService, DeleteService, Crash, InCall, TypeOK
<1>6. driver = "stopped" /\ reg = "marked"
  BY <1>1, <1>2, <1>3, <1>5 DEF UndisturbedExit, CloseService
<1>7. "svc" \notin open'[p] /\ "stale" \notin open'[p]
  BY <1>1, <1>5 DEF CloseService, Release, Held, TypeOK
<1>8. ~ServiceHeld(open')
  BY <1>3, <1>7, Alone
<1> QED
  BY <1>5, <1>6, <1>8 DEF CloseService, Release, Drained, Purged

\* A hwsense_shutdown that no other caller and no failing system call
\* interfered with has removed the registration and unloaded the driver when
\* it returns.
THEOREM ShutdownCleans == Spec => UndisturbedShutdownCleans
<1> DEFINE A == \A p \in Proc :
                  call[p] = "shutdown" /\ ret'[p] = "down" /\ ~excuse'[p]
                    => reg' = "absent" /\ driver' = "stopped"
<1>1. IInv /\ [Next]_vars => [A]_vars
  <2> SUFFICES ASSUME IInv, Next  PROVE A
    OBVIOUS
  <2>1. PICK p \in Proc, f \in BOOLEAN : Act(p, f) /\ Observe(p, f)
    BY DEF Next, ProcStep, Act
  <2> QED
    BY <2>1, CleanExit
<1>2. Spec => [][A]_vars
  <2> HIDE DEF A
  <2> QED
    BY <1>1, Invariance, PTL DEF Spec
<1> QED
  BY <1>2 DEF UndisturbedShutdownCleans

-----------------------------------------------------------------------------
(* Who cleans up when nothing fails.                                       *)

\* The locations of a caller that will delete the registration, or stop the
\* driver, before it is done.
Deleting == {"start", "device", "alloc", "ready", "stop", "delete"}
Stopping == {"device", "alloc", "ready", "stop"}

\* While nothing failed, a registration that is not marked has a caller that
\* will delete it, and a running driver one that will stop it.
Attended ==
  ~faulted =>
    /\ reg = "present" => \E p \in Proc : pc[p] \in Deleting
    /\ driver = "running" => \E p \in Proc : pc[p] \in Stopping

\* A caller that no call of its own failed hands its duty to nobody: a start
\* that finds the driver unloading leaves it to one that has the device open.
LEMMA OwnAttends ==
  ASSUME TypeOK, Held, Machine, NEW p \in Proc, Act(p, FALSE)
  PROVE  /\ reg' = "present" =>
              \/ pc'[p] \in Deleting
              \/ reg = "present" /\ pc[p] \notin Deleting
              \/ \E q \in Proc \ {p} : pc[q] \in Deleting
         /\ driver' = "running" =>
              \/ pc'[p] \in Stopping
              \/ driver = "running" /\ pc[p] \notin Stopping
<1> DEFINE P == /\ reg' = "present" =>
                     \/ pc'[p] \in Deleting
                     \/ reg = "present" /\ pc[p] \notin Deleting
                     \/ \E q \in Proc \ {p} : pc[q] \in Deleting
                /\ driver' = "running" =>
                     \/ pc'[p] \in Stopping
                     \/ driver = "running" /\ pc[p] \notin Stopping
<1>1. driver = "unloading" /\ pc[p] = "start" =>
        \E q \in Proc \ {p} : pc[q] \in Deleting
  <2> SUFFICES ASSUME driver = "unloading", pc[p] = "start"
               PROVE  \E q \in Proc \ {p} : pc[q] \in Deleting
    OBVIOUS
  <2>1. PICK q \in Proc : "dev" \in open[q]
    BY DEF Machine, DeviceHeld
  <2>2. pc[q] \in {"alloc", "ready"}
    BY <2>1 DEF Held
  <2> QED
    BY <2>2 DEF Deleting
<1> USE DEF TypeOK, Go, Return, InCall, Acquire, Release, Drained, Purged,
            Deleting, Stopping
<1>2. BeginInit(p, FALSE) => P
  BY DEF BeginInit
<1>3. CreateService(p, FALSE) => P
  BY DEF CreateService
<1>4. OpenService(p, FALSE) => P
  BY DEF OpenService
<1>5. OpenStale(p, FALSE) => P
  BY DEF OpenStale
<1>6. StopStale(p, FALSE) => P
  BY DEF StopStale, ControlStop
<1>7. CloseStale(p, FALSE) => P
  BY DEF CloseStale
<1>8. Retry(p, FALSE) => P
  BY DEF Retry
<1>9. StartService(p, FALSE) => P
  BY <1>1 DEF StartService
<1>10. OpenDevice(p, FALSE) => P
  BY DEF OpenDevice
<1>11. AllocContext(p, FALSE) => P
  BY DEF AllocContext
<1>12. BeginShutdown(p, FALSE) => P
  BY DEF BeginShutdown
<1>13. StopService(p, FALSE) => P
  BY DEF StopService, ControlStop
<1>14. DeleteService(p, FALSE) => P
  BY DEF DeleteService
<1>15. CloseService(p, FALSE) => P
  BY DEF CloseService
<1>16. Crash(p, FALSE) => P
  BY DEF Crash
<1> HIDE DEF P
<1>17. P
  BY <1>2, <1>3, <1>4, <1>5, <1>6, <1>7, <1>8, <1>9, <1>10, <1>11, <1>12,
     <1>13, <1>14, <1>15, <1>16, ActCases
<1> QED
  BY <1>17 DEF P

LEMMA AttendedStep ==
  ASSUME IInv, Attended, [Next]_vars
  PROVE  Attended'
<1>1. CASE Next
  <2>1. PICK p \in Proc, f \in BOOLEAN : Act(p, f) /\ Observe(p, f)
    BY <1>1 DEF Next, ProcStep, Act
  <2>2. SUFFICES ASSUME ~faulted'
        PROVE  /\ reg' = "present" => \E q \in Proc : pc'[q] \in Deleting
               /\ driver' = "running" => \E q \in Proc : pc'[q] \in Stopping
    BY DEF Attended
  <2>3. ~f /\ ~faulted
    BY <2>1, <2>2 DEF Observe
  <2>4. Act(p, FALSE) /\ TypeOK /\ Held /\ Machine
    BY <2>1, <2>3 DEF IInv
  <2>5. \A q \in Proc \ {p} : pc'[q] = pc[q]
    BY <2>1, <2>4, FrameStep DEF TypeOK
  <2>6. reg' = "present" => \E q \in Proc : pc'[q] \in Deleting
    BY <2>3, <2>4, <2>5, OwnAttends DEF Attended
  <2>7. driver' = "running" => \E q \in Proc : pc'[q] \in Stopping
    BY <2>3, <2>4, <2>5, OwnAttends DEF Attended
  <2> QED
    BY <2>6, <2>7
<1>2. CASE UNCHANGED vars
  BY <1>2 DEF vars, Attended
<1> QED
  BY <1>1, <1>2

\* While no system call fails of itself and nobody dies, the last caller out,
\* also one whose hwsense_init gave up, leaves no registration and no loaded
\* driver.
THEOREM LeavesNothing == Spec => []NothingLeftBehind
<1>1. Init => Attended
  BY DEF Init, Attended
<1>2. Spec => []Attended
  BY <1>1, AttendedStep, Invariance, PTL DEF Spec
<1>3. IInv /\ Attended => NothingLeftBehind
  <2> SUFFICES ASSUME IInv, Attended, ~faulted, \A p \in Proc : pc[p] = "idle"
               PROVE  reg = "absent" /\ driver = "stopped"
    BY DEF NothingLeftBehind
  <2>1. reg # "present" /\ driver # "running"
    BY DEF Attended, Deleting, Stopping
  <2>2. ~DeviceHeld(open) /\ ~ServiceHeld(open)
    BY DEF IInv, Held, DeviceHeld, ServiceHeld
  <2> QED
    BY <2>1, <2>2 DEF IInv, Machine, TypeOK
<1> QED
  BY <1>2, <1>3, Invariance, PTL
=============================================================================
