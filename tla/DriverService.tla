--------------------------- MODULE DriverService ---------------------------
(***************************************************************************)
(* The life cycle of the WinRing0 kernel service (src/core/driver.c).      *)
(*                                                                         *)
(* hwsense_init registers the service with the Service Control Manager,    *)
(* starts it and opens its device; hwsense_shutdown stops it, deletes the  *)
(* registration and closes the handles.  There is one service name on the  *)
(* machine, so every context of every process works on the same            *)
(* registration and the same loaded driver: reg and driver are shared, the *)
(* rest is kept per caller.  A caller is one user of the library that      *)
(* opens and closes one context at a time.  Every action is one call to    *)
(* the operating system with the code up to the next one.                  *)
(*                                                                         *)
(* The service manager itself is not part of the library; it is modelled   *)
(* from what the code relies on: a deleted registration stays, marked,     *)
(* until the driver is stopped and the last service handle is closed, and  *)
(* a stopped driver stays loaded until the last device handle is closed.   *)
(***************************************************************************)
EXTENDS Naturals

CONSTANTS
  Proc,       \* the callers of the library
  Retries,    \* rounds of the MARKED_FOR_DELETE loop (3 in the code)
  Faults,     \* the system calls that may fail for a reason of their own
  Crashes     \* may a caller die at any point?

ASSUME RetriesAssumption == Retries \in Nat /\ Retries >= 2
ASSUME CrashesAssumption == Crashes \in BOOLEAN

VARIABLES
  reg,      \* the registration: "absent", "present" or "marked" for delete
  driver,   \* the kernel driver: "stopped", "running" or "unloading"
  open,     \* per caller, the handles it holds
  pc,       \* per caller, the next system call; "idle" or "ready" outside
  try,      \* per caller, i of install_and_start_driver
  call,     \* per caller, the library call in progress
  ret,      \* per caller, what the last library call returned
  excuse,   \* history: during this call something outside it interfered
  faulted   \* history: a system call failed of itself, or a caller died

vars == <<reg, driver, open, pc, try, call, ret, excuse, faulted>>

Handle == {"scm", "svc", "stale", "dev"}

Location == {"idle", "create", "open", "stale", "stale_stop", "stale_close",
             "sleep", "start", "device", "alloc", "ready",
             "stop", "delete", "close"}

TypeOK ==
  /\ reg \in {"absent", "present", "marked"}
  /\ driver \in {"stopped", "running", "unloading"}
  /\ open \in [Proc -> SUBSET Handle]
  /\ pc \in [Proc -> Location]
  /\ try \in [Proc -> 0 .. Retries]
  /\ call \in [Proc -> {"none", "init", "shutdown"}]
  /\ ret \in [Proc -> {"none", "context", "null", "down"}]
  /\ excuse \in [Proc -> BOOLEAN]
  /\ faulted \in BOOLEAN

Init ==
  /\ reg = "absent"
  /\ driver = "stopped"
  /\ open = [p \in Proc |-> {}]
  /\ pc = [p \in Proc |-> "idle"]
  /\ try = [p \in Proc |-> 0]
  /\ call = [p \in Proc |-> "none"]
  /\ ret = [p \in Proc |-> "none"]
  /\ excuse = [p \in Proc |-> FALSE]
  /\ faulted = FALSE

-----------------------------------------------------------------------------
(* The service manager and the kernel. *)

ServiceHeld(o) == \E p \in Proc : o[p] \cap {"svc", "stale"} # {}
DeviceHeld(o) == \E p \in Proc : "dev" \in o[p]

\* p holds something that keeps the service or the driver in place.
Occupies(p, o) == o[p] \cap {"svc", "stale", "dev"} # {}

\* A driver that was told to unload is gone with its last device handle.
Drained(d, o) == IF d = "unloading" /\ ~DeviceHeld(o) THEN "stopped" ELSE d

\* A marked registration is gone once it is stopped and nobody has it open.
Purged(r, d, o) ==
  IF r = "marked" /\ d = "stopped" /\ ~ServiceHeld(o) THEN "absent" ELSE r

Acquire(p, h) ==
  open' = [open EXCEPT ![p] = @ \cup {h}]

Release(p, hs) ==
  /\ open' = [open EXCEPT ![p] = @ \ hs]
  /\ driver' = Drained(driver, open')
  /\ reg' = Purged(reg, driver', open')

\* ControlService(SERVICE_CONTROL_STOP): no effect unless it is running.
ControlStop(refused) ==
  driver' = IF refused \/ driver # "running" THEN driver
            ELSE Drained("unloading", open)

-----------------------------------------------------------------------------
(* The library.  The parameter f says that the system call fails for a     *)
(* reason of its own, which the service's state does not explain.          *)

Fault(f, name) == f => name \in Faults

Go(p, l) == pc' = [pc EXCEPT ![p] = l]

\* The call in progress returns result.
Return(p, l, result) ==
  /\ Go(p, l)
  /\ call' = [call EXCEPT ![p] = "none"]
  /\ ret' = [ret EXCEPT ![p] = result]

InCall == UNCHANGED <<call, ret>>

\* hwsense_init: the driver file, then the service manager.
BeginInit(p, f) ==
  /\ pc[p] = "idle"
  /\ Fault(f, "scm")
  /\ try' = [try EXCEPT ![p] = 0]
  /\ \/ /\ f
        /\ Return(p, "idle", "null")
        /\ UNCHANGED <<reg, driver, open>>
     \/ /\ ~f
        /\ Go(p, "create")
        /\ call' = [call EXCEPT ![p] = "init"]
        /\ ret' = [ret EXCEPT ![p] = "none"]
        /\ Acquire(p, "scm")
        /\ UNCHANGED <<reg, driver>>

CreateService(p, f) ==
  /\ pc[p] = "create"
  /\ Fault(f, "create")
  /\ UNCHANGED try
  /\ \/ /\ f
        /\ Release(p, {"scm"})
        /\ Return(p, "idle", "null")
     \/ /\ ~f /\ reg = "absent"
        /\ reg' = "present"
        /\ Acquire(p, "svc")
        /\ Go(p, "start") /\ InCall /\ UNCHANGED driver
     \/ /\ ~f /\ reg = "present"
        /\ Go(p, "open") /\ InCall /\ UNCHANGED <<reg, driver, open>>
     \/ /\ ~f /\ reg = "marked"
        /\ Go(p, "stale") /\ InCall /\ UNCHANGED <<reg, driver, open>>

\* ERROR_SERVICE_EXISTS: take over the service that is there.
OpenService(p, f) ==
  /\ pc[p] = "open"
  /\ Fault(f, "open")
  /\ UNCHANGED try
  /\ \/ /\ f \/ reg = "absent"
        /\ Release(p, {"scm"})
        /\ Return(p, "idle", "null")
     \/ /\ ~f /\ reg # "absent"
        /\ Acquire(p, "svc")
        /\ Go(p, "start") /\ InCall /\ UNCHANGED <<reg, driver>>

\* ERROR_SERVICE_MARKED_FOR_DELETE: force the cleanup.
OpenStale(p, f) ==
  /\ pc[p] = "stale"
  /\ Fault(f, "open")
  /\ UNCHANGED <<reg, driver, try>> /\ InCall
  /\ \/ /\ f \/ reg = "absent"
        /\ Go(p, "sleep") /\ UNCHANGED open
     \/ /\ ~f /\ reg # "absent"
        /\ Acquire(p, "stale")
        /\ Go(p, "stale_stop")

\* Mutant: the stale service is opened and closed but not stopped.
StopStaleForgotten(p, f) ==
  /\ pc[p] = "stale_stop"
  /\ Fault(f, "stop")
  /\ Go(p, "stale_close") /\ InCall /\ UNCHANGED <<reg, driver, open, try>>

StopStale(p, f) ==
  /\ pc[p] = "stale_stop"
  /\ Fault(f, "stop")
  /\ ControlStop(f)
  /\ Go(p, "stale_close") /\ InCall /\ UNCHANGED <<reg, open, try>>

CloseStale(p, f) ==
  /\ pc[p] = "stale_close"
  /\ ~f
  /\ Release(p, {"stale"})
  /\ Go(p, "sleep") /\ InCall /\ UNCHANGED try

\* Mutant: the loop counts its rounds and never tests them.
RetryUntested(p, f) ==
  /\ pc[p] = "sleep"
  /\ ~f
  /\ try' = [try EXCEPT ![p] = @ + 1]
  /\ Go(p, "create") /\ InCall /\ UNCHANGED <<reg, driver, open>>

\* Mutant: a round of the loop is not counted.
RetryUncounted(p, f) ==
  /\ pc[p] = "sleep"
  /\ ~f
  /\ Go(p, "create") /\ InCall /\ UNCHANGED <<reg, driver, open, try>>

\* Sleep(2000), i++ and the loop test.
Retry(p, f) ==
  /\ pc[p] = "sleep"
  /\ ~f
  /\ try' = [try EXCEPT ![p] = @ + 1]
  /\ \/ /\ try[p] + 1 < Retries
        /\ Go(p, "create") /\ InCall /\ UNCHANGED <<reg, driver, open>>
     \/ /\ try[p] + 1 >= Retries
        /\ Release(p, {"scm"})
        /\ Return(p, "idle", "null")

\* Mutant: a failed start closes the service handle only.
StartServiceLeaks(p, f) ==
  /\ pc[p] = "start"
  /\ Fault(f, "start")
  /\ UNCHANGED try
  /\ \/ /\ f \/ reg = "marked" \/ driver = "unloading"
        /\ Release(p, {"svc"})
        /\ Return(p, "idle", "null")
     \/ /\ ~f /\ reg # "marked"
        /\ driver' = IF driver = "stopped" THEN "running" ELSE driver
        /\ Go(p, "device") /\ InCall /\ UNCHANGED <<reg, open>>

\* A failed start leaves the registration it may have created.
StartService(p, f) ==
  /\ pc[p] = "start"
  /\ Fault(f, "start")
  /\ UNCHANGED try
  /\ \/ /\ f \/ reg = "marked" \/ driver = "unloading"
        /\ Release(p, {"svc", "scm"})
        /\ Return(p, "idle", "null")
     \/ /\ ~f /\ reg # "marked"
        /\ driver' = IF driver = "stopped" THEN "running" ELSE driver
        /\ Go(p, "device") /\ InCall /\ UNCHANGED <<reg, open>>

OpenDevice(p, f) ==
  /\ pc[p] = "device"
  /\ Fault(f, "device")
  /\ UNCHANGED <<reg, driver, try>> /\ InCall
  /\ \/ /\ f \/ driver # "running"
        /\ Go(p, "stop") /\ UNCHANGED open
     \/ /\ ~f /\ driver = "running"
        /\ Acquire(p, "dev")
        /\ Go(p, "alloc")

AllocContext(p, f) ==
  /\ pc[p] = "alloc"
  /\ Fault(f, "calloc")
  /\ UNCHANGED try
  /\ \/ /\ f
        /\ Release(p, {"dev"})
        /\ Go(p, "stop") /\ InCall
     \/ /\ ~f
        /\ Return(p, "ready", "context")
        /\ UNCHANGED <<reg, driver, open>>

\* hwsense_shutdown closes the device first.
BeginShutdown(p, f) ==
  /\ pc[p] = "ready"
  /\ ~f
  /\ Release(p, {"dev"})
  /\ Go(p, "stop")
  /\ call' = [call EXCEPT ![p] = "shutdown"]
  /\ ret' = [ret EXCEPT ![p] = "none"]
  /\ UNCHANGED try

\* Mutant: the service is deleted without having been stopped.
StopServiceForgotten(p, f) ==
  /\ pc[p] = "stop"
  /\ Fault(f, "stop")
  /\ Go(p, "delete") /\ InCall /\ UNCHANGED <<reg, driver, open, try>>

\* The tail of hwsense_shutdown, and of hwsense_init when it gives up.
StopService(p, f) ==
  /\ pc[p] = "stop"
  /\ Fault(f, "stop")
  /\ ControlStop(f)
  /\ Go(p, "delete") /\ InCall /\ UNCHANGED <<reg, open, try>>

\* Mutant: the service is stopped and closed but stays registered.
DeleteServiceForgotten(p, f) ==
  /\ pc[p] = "delete"
  /\ Fault(f, "delete")
  /\ Go(p, "close") /\ InCall /\ UNCHANGED <<reg, driver, open, try>>

DeleteService(p, f) ==
  /\ pc[p] = "delete"
  /\ Fault(f, "delete")
  /\ reg' = IF ~f /\ reg = "present" THEN "marked" ELSE reg
  /\ Go(p, "close") /\ InCall /\ UNCHANGED <<driver, open, try>>

CloseService(p, f) ==
  /\ pc[p] = "close"
  /\ ~f
  /\ Release(p, {"svc", "scm"})
  /\ Return(p, "idle", IF call[p] = "init" THEN "null" ELSE "down")
  /\ UNCHANGED try

\* A caller dies: the system closes its handles, nothing is stopped.
Crash(p, f) ==
  /\ Crashes /\ f
  /\ pc[p] # "idle"
  /\ Release(p, Handle)
  /\ Return(p, "idle", "none")
  /\ UNCHANGED try

-----------------------------------------------------------------------------
\* The code's own steps, which the thread inside a call keeps taking.
Work(p, f) ==
  \/ CreateService(p, f) \/ OpenService(p, f)
  \/ OpenStale(p, f) \/ StopStale(p, f) \/ CloseStale(p, f) \/ Retry(p, f)
  \/ StartService(p, f) \/ OpenDevice(p, f) \/ AllocContext(p, f)
  \/ StopService(p, f) \/ DeleteService(p, f) \/ CloseService(p, f)

\* The caller's choices.
Caller(p, f) == BeginInit(p, f) \/ BeginShutdown(p, f) \/ Crash(p, f)

\* excuse[q]: since q's call began a system call of q failed of itself, or
\* another caller had the service or the device open.
Observe(p, f) ==
  /\ excuse' = [q \in Proc |->
       LET others == \E r \in Proc \ {q} : Occupies(r, open) \/ Occupies(r, open')
           struck == q = p /\ f
       IN  IF q = p /\ pc[p] \in {"idle", "ready"} THEN others \/ struck
           ELSE IF call[q] = "none" THEN excuse[q]
           ELSE excuse[q] \/ others \/ struck]
  /\ faulted' = (faulted \/ f)

ProcStep(p) == \E f \in BOOLEAN : (Work(p, f) \/ Caller(p, f)) /\ Observe(p, f)

Next == \E p \in Proc : ProcStep(p)

Spec == Init /\ [][Next]_vars

\* A thread inside hwsense_init or hwsense_shutdown keeps running; when to
\* open or close a context is the caller's choice.
Fairness ==
  \A p \in Proc : WF_vars(\E f \in BOOLEAN : Work(p, f) /\ Observe(p, f))

FairSpec == Spec /\ Fairness

-----------------------------------------------------------------------------
(* Properties. *)

\* A caller outside the library that has no context holds no handle, however
\* its last hwsense_init or hwsense_shutdown went: every early return of
\* install_and_start_driver and hwsense_init closes what was opened so far.
NoLeakedHandle == \A p \in Proc : pc[p] = "idle" => open[p] = {}

\* hwsense_init gives a context whenever nothing outside interferes during
\* the call, in whatever state earlier runs left the service: still running
\* after a crash, registered but stopped after a failed start, or marked for
\* deletion and running because a stop was refused.
UndisturbedInitSucceeds == \A p \in Proc : ret[p] = "null" => excuse[p]

\* hwsense_shutdown that nobody interferes with leaves no registration and no
\* loaded driver, whoever registered and started the service.
UndisturbedShutdownCleans ==
  [][\A p \in Proc :
       call[p] = "shutdown" /\ ret'[p] = "down" /\ ~excuse'[p]
         => reg' = "absent" /\ driver' = "stopped"]_vars

\* While no system call has failed of itself and nobody died, the last caller out
\* leaves the machine as the first one found it, in every interleaving of
\* inits, shutdowns and inits that gave up.
NothingLeftBehind ==
  ~faulted /\ (\A p \in Proc : pc[p] = "idle") => reg = "absent" /\ driver = "stopped"

\* hwsense_init always returns: the retry loop is bounded even while another
\* caller keeps the marked registration alive.
InitReturns == \A p \in Proc : call[p] = "init" ~> call[p] = "none"
=============================================================================
