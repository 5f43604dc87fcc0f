---------------------------- MODULE SmuMailbox -----------------------------
(***************************************************************************)
(* AMD registers over the System Management Network (smn_read and          *)
(* smn_write_dword of src/cpu/amd_zen.c): the sensors that are read through *)
(* it (amd_zen.c and src/cpu/amd_svi2.c) and the SMU mailbox protocol that *)
(* runs over it (smu_send_command and its callers, src/cpu/amd_smu.c).     *)
(*                                                                         *)
(* The network has one window in PCI configuration space: an index         *)
(* register that selects an address and a data register that accesses it.  *)
(* Each register access of the library is therefore two system calls, and  *)
(* nothing makes the pair atomic.  A mailbox is four registers: a command, *)
(* a response that is zero while a command runs, and two arguments.  The   *)
(* firmware answers a command whenever it likes, also after the library    *)
(* has given up waiting for it.                                            *)
(*                                                                         *)
(* A register value is a record: its kind and the ticket of the command it *)
(* stems from.  Tickets are history, the hardware does not carry them.     *)
(***************************************************************************)
EXTENDS Naturals, Sequences

CONSTANTS
  Client,       \* threads that use the window, each with its own context
  PollLimit,    \* SMU_TIMEOUT, the reads of a polling loop
  Ccd,          \* the temperature registers of the core dies, in order
  Absent,       \* the sensors this processor lacks, or has switched off
  MaxCommands,  \* bound: commands sent in a behaviour
  Faulty        \* may a DeviceIoControl fail, or a process die in a call?

ASSUME PollAssumption == PollLimit \in Nat \ {0}
ASSUME FaultyAssumption == Faulty \in BOOLEAN
ASSUME BoundAssumption == MaxCommands \in Nat

Box == {"mp1", "rsmu"}

\* The registers the library reads and writes through the window.
Sensor == {"tctl", "plane0", "plane1"} \cup {Ccd[i] : i \in 1 .. Len(Ccd)}

Reg == (Box \X {"msg", "rsp", "arg0", "arg1"}) \cup ({"svi"} \X Sensor)

ASSUME CcdAssumption == Ccd \in Seq(STRING) /\ Ccd # <<>>
ASSUME AbsentAssumption == Absent \subseteq Sensor \ {"tctl"}

\* The jobs of a thread: the commands each of them sends, in order,
Plan == [diag  |-> <<"smu_version", "pm_version", "dram">>,
         power |-> <<"dram", "transfer">>]

\* or the sensors it reads, in order.
Sensors == [temp |-> <<"tctl">>, ccds |-> Ccd, core |-> <<"plane0">>,
            soc |-> <<"plane1">>, svi_power |-> <<"plane0", "plane1">>]

Task == DOMAIN Plan \cup DOMAIN Sensors

\* Each of the dies is a result of its own.
Separate == {"ccds"}

Command == {"smu_version", "pm_version", "dram", "transfer"}

Word == Command \cup
        {"zero", "ok", "err", "lo", "hi", "input", "absent",
         "none", "failed", "power", "diag", "read"}

\* A sensor's value is told from everything else by its name.
ASSUME NameAssumption == Sensor \cap Word = {}

Kind == Word \cup Sensor

Value == [kind : Kind, id : Nat]

V(k, n) == [kind |-> k, id |-> n]

Zero == V("zero", 0)

Location == {"idle", "wait", "clear", "arg", "cmd", "poll", "lo", "hi",
             "sensor", "phys"}

VARIABLES
  index,     \* the register the window selects
  regs,      \* the registers behind it
  table,     \* ticket of the transfer that last wrote the PM table to DRAM
  sent,      \* history: tickets given out
  pc,        \* per client, the register access it is at
  phase,     \* per client, the half of that access: "index" or "data"
  job,       \* per client: task, step of its plan, ticket, loop counter,
             \* halves of the address it read, sensors it read, and
             \* (history) whether every success was its own command's
  result,    \* per client, what its last task returned
  lost,      \* history: a write of zero to a response register failed
  cut        \* history: a command was abandoned after clearing the response

vars == <<index, regs, table, sent, pc, phase, job, result, lost, cut>>

Job == [task : Task, step : Nat, seen : [Sensor -> Value], id : Nat,
        tries : 0 .. PollLimit, lo : Value, hi : Value, own : BOOLEAN]

TypeOK ==
  /\ index \in Reg
  /\ regs \in [Reg -> Value]
  /\ table \in Nat
  /\ sent \in Nat
  /\ pc \in [Client -> Location]
  /\ phase \in [Client -> {"index", "data"}]
  /\ job \in [Client -> Job]
  /\ result \in [Client -> Value]
  /\ lost \in BOOLEAN
  /\ cut \in BOOLEAN

NoJob == [task |-> "temp", step |-> 0, id |-> 0, tries |-> 0,
          seen |-> [s \in Sensor |-> V("none", 0)],
          lo |-> Zero, hi |-> Zero, own |-> TRUE]

\* The firmware starts with the response to a command of the boot software.
Init ==
  /\ index \in Reg
  /\ regs = [r \in Reg |->
       IF r[1] = "svi" THEN V(IF r[2] \in Absent THEN "absent" ELSE r[2], 0)
       ELSE IF r[2] = "rsp" THEN V("ok", 0) ELSE Zero]
  /\ table = 0
  /\ sent = 0
  /\ pc = [c \in Client |-> "idle"]
  /\ phase = [c \in Client |-> "index"]
  /\ job = [c \in Client |-> NoJob]
  /\ result = [c \in Client |-> V("none", 0)]
  /\ lost = FALSE
  /\ cut = FALSE

-----------------------------------------------------------------------------
(* The firmware: answers the command in a mailbox, in its own time.        *)

FirmwareAnswer(b, ok) ==
  LET m == regs[<<b, "msg">>]
  IN  /\ m # Zero
      /\ ok => m.kind \in Command
      /\ regs' = [regs EXCEPT
           ![<<b, "msg">>]  = Zero,
           ![<<b, "rsp">>]  = V(IF ok THEN "ok" ELSE "err", m.id),
           ![<<b, "arg0">>] = IF ok /\ m.kind # "transfer" THEN V("lo", m.id) ELSE @,
           ![<<b, "arg1">>] = IF ok /\ m.kind = "dram" THEN V("hi", m.id) ELSE @]
      /\ table' = IF ok /\ m.kind = "transfer" THEN m.id ELSE table
      /\ UNCHANGED <<index, sent, pc, phase, job, result, lost, cut>>

-----------------------------------------------------------------------------
(* The window: one access is a write of the index and then the data.       *)

CurrentCommand(c) == Plan[job[c].task][job[c].step]

MailboxOf(cmd) == IF cmd = "smu_version" THEN "mp1" ELSE "rsmu"

RegisterAt ==
  [wait |-> "rsp", clear |-> "rsp", arg |-> "arg0", cmd |-> "msg",
   poll |-> "rsp", lo |-> "arg0", hi |-> "arg1"]

\* The register the access at pc[c] is meant for.
Target(c) ==
  IF pc[c] = "sensor" THEN <<"svi", Sensors[job[c].task][job[c].step]>>
  ELSE <<MailboxOf(CurrentCommand(c)), RegisterAt[pc[c]]>>

\* First half: the index register now selects the target.
SelectRegister(c) ==
  /\ pc[c] \notin {"idle", "phys"}
  /\ phase[c] = "index"
  /\ index' = Target(c)
  /\ phase' = [phase EXCEPT ![c] = "data"]
  /\ UNCHANGED <<regs, table, sent, pc, job, result, lost, cut>>

\* Mutant: the write of the index is not checked before the data is accessed.
AccessedUnchecked(c, f) ==
  /\ IF f THEN Faulty ELSE TRUE
  /\ phase' = [phase EXCEPT ![c] = "index"]
  /\ UNCHANGED <<index, table>>

\* The access is over: the second half went through, or (f) either failed.
Accessed(c, f) ==
  /\ IF f THEN Faulty ELSE phase[c] = "data"
  /\ phase' = [phase EXCEPT ![c] = "index"]
  /\ UNCHANGED <<index, table>>

Read == regs[index]

Write(v, f) == regs' = IF f THEN regs ELSE [regs EXCEPT ![index] = v]

-----------------------------------------------------------------------------
(* smu_send_command and its callers.  The new value of the job is passed   *)
(* along, for a step may record a value and end the command.               *)

Go(c, l, j) ==
  /\ pc' = [pc EXCEPT ![c] = l]
  /\ job' = [job EXCEPT ![c] = j]
  /\ UNCHANGED <<sent, result>>

\* The call returns r, computed from what j says.
Finish(c, j, r) ==
  /\ pc' = [pc EXCEPT ![c] = "idle"]
  /\ job' = [job EXCEPT ![c] = j]
  /\ result' = [result EXCEPT ![c] = r]
  /\ UNCHANGED sent

\* The next command of the plan gets the next ticket.
NextCommand(c, j) ==
  /\ pc' = [pc EXCEPT ![c] = "wait"]
  /\ job' = [job EXCEPT ![c] =
       [j EXCEPT !.step = @ + 1, !.id = sent + 1, !.tries = 0]]
  /\ sent' = sent + 1

\* Mutant: the power reading goes on after a command that failed.
CommandDoneUnchecked(c, j, ok) ==
  \/ /\ j.step < Len(Plan[j.task])
     /\ NextCommand(c, j)
     /\ UNCHANGED result
  \/ /\ j.task = "power" /\ j.step = Len(Plan[j.task])
     /\ Go(c, "phys", j)
  \/ /\ j.task = "diag" /\ j.step = Len(Plan[j.task])
     /\ Finish(c, NoJob, V("diag", 0))

\* A command is over.  The diagnostic goes on whatever it returned; the
\* power reading gives up at the first failure.
CommandDone(c, j, ok) ==
  \/ /\ (ok \/ j.task = "diag") /\ j.step < Len(Plan[j.task])
     /\ NextCommand(c, j)
     /\ UNCHANGED result
  \/ /\ ok /\ j.task = "power" /\ j.step = Len(Plan[j.task])
     /\ Go(c, "phys", j)
  \/ /\ ~ok /\ j.task = "power"
     /\ Finish(c, NoJob, V("failed", 0))
  \/ /\ j.task = "diag" /\ j.step = Len(Plan[j.task])
     /\ Finish(c, NoJob, V("diag", 0))

\* A thread calls a reader that sends commands,
Begin(c, t) ==
  /\ pc[c] = "idle"
  /\ sent + Len(Plan[t]) <= MaxCommands
  /\ result' = [result EXCEPT ![c] = V("none", 0)]
  /\ NextCommand(c, [NoJob EXCEPT !.task = t])
  /\ UNCHANGED <<index, regs, table, phase, lost, cut>>

\* or one that reads sensors.
BeginSensors(c, t) ==
  /\ pc[c] = "idle"
  /\ pc' = [pc EXCEPT ![c] = "sensor"]
  /\ job' = [job EXCEPT ![c] = [NoJob EXCEPT !.task = t, !.step = 1]]
  /\ result' = [result EXCEPT ![c] = V("none", 0)]
  /\ UNCHANGED <<index, regs, table, sent, phase, lost, cut>>

\* Mutant: the loop counts its reads and never gives up.
PolledUntested(c, f) ==
  \/ /\ ~f /\ Read = Zero
     /\ Go(c, pc[c], [job[c] EXCEPT !.tries = @ + 1])
  \/ /\ f
     /\ CommandDone(c, job[c], FALSE)

\* Mutant: the loop does not count its reads.
PolledUncounted(c, f) ==
  \/ /\ ~f /\ Read = Zero
     /\ Go(c, pc[c], job[c])
  \/ /\ f
     /\ CommandDone(c, job[c], FALSE)

\* One read of a polling loop that found no response, or failed.
Polled(c, f) ==
  \/ /\ ~f /\ Read = Zero /\ job[c].tries + 1 < PollLimit
     /\ Go(c, pc[c], [job[c] EXCEPT !.tries = @ + 1])
  \/ /\ f \/ (Read = Zero /\ job[c].tries + 1 >= PollLimit)
     /\ CommandDone(c, job[c], FALSE)

\* Mutant: a command is sent while the previous one may still run.
WaitReadyOnce(c, f) ==
  /\ pc[c] = "wait"
  /\ Accessed(c, f)
  /\ \/ ~f /\ Go(c, "clear", job[c])
     \/ f /\ Polled(c, f)
  /\ UNCHANGED <<regs, lost, cut>>

\* Wait for the previous command to be answered.
WaitReady(c, f) ==
  /\ pc[c] = "wait"
  /\ Accessed(c, f)
  /\ \/ /\ ~f /\ Read # Zero
        /\ Go(c, "clear", job[c])
     \/ Polled(c, f)
  /\ UNCHANGED <<regs, lost, cut>>

\* The write of zero to the response register is not checked.
ClearResponse(c, f) ==
  /\ pc[c] = "clear"
  /\ Accessed(c, f)
  /\ Write(Zero, f)
  /\ Go(c, IF CurrentCommand(c) = "transfer" THEN "arg" ELSE "cmd", job[c])
  /\ lost' = (lost \/ f)
  /\ UNCHANGED cut

WriteArgument(c, f) ==
  /\ pc[c] = "arg"
  /\ Accessed(c, f)
  /\ Write(V("input", job[c].id), f)
  /\ IF f THEN CommandDone(c, job[c], FALSE) ELSE Go(c, "cmd", job[c])
  /\ cut' = (cut \/ f)
  /\ UNCHANGED lost

WriteCommand(c, f) ==
  /\ pc[c] = "cmd"
  /\ Accessed(c, f)
  /\ Write(V(CurrentCommand(c), job[c].id), f)
  /\ IF f THEN CommandDone(c, job[c], FALSE)
     ELSE Go(c, "poll", [job[c] EXCEPT !.tries = 0])
  /\ cut' = (cut \/ f)
  /\ UNCHANGED lost

\* The response is a success: the arguments are read, unless the command has
\* no answer but that.
Succeeded(c) ==
  LET j == [job[c] EXCEPT !.own = @ /\ Read.id = job[c].id]
  IN  IF CurrentCommand(c) = "transfer" THEN CommandDone(c, j, TRUE)
      ELSE Go(c, "lo", j)

\* Mutant: the response register is cleared again once it has been read.
PollResponseClears(c, f) ==
  /\ pc[c] = "poll"
  /\ Accessed(c, f)
  /\ \/ /\ ~f /\ Read.kind = "ok"
        /\ Write(Zero, f)
        /\ Succeeded(c)
     \/ /\ ~f /\ Read.kind # "ok" /\ Read # Zero
        /\ CommandDone(c, job[c], FALSE)
        /\ UNCHANGED regs
     \/ /\ Polled(c, f)
        /\ UNCHANGED regs
  /\ UNCHANGED <<lost, cut>>

\* Any response that is not zero ends the wait; only 1 is success.
PollResponse(c, f) ==
  /\ pc[c] = "poll"
  /\ Accessed(c, f)
  /\ \/ /\ ~f /\ Read.kind = "ok"
        /\ Succeeded(c)
     \/ /\ ~f /\ Read.kind # "ok" /\ Read # Zero
        /\ CommandDone(c, job[c], FALSE)
     \/ Polled(c, f)
  /\ UNCHANGED <<regs, lost, cut>>

\* The reads of the arguments are not checked: a failed one reads as zero.
ReadLow(c, f) ==
  LET j == [job[c] EXCEPT !.lo = IF f THEN Zero ELSE Read]
  IN  /\ pc[c] = "lo"
      /\ Accessed(c, f)
      /\ IF CurrentCommand(c) = "dram" THEN Go(c, "hi", j)
         ELSE CommandDone(c, j, TRUE)
      /\ UNCHANGED <<regs, lost, cut>>

\* An address of zero is the only one refused.
ReadHigh(c, f) ==
  LET j == [job[c] EXCEPT !.hi = IF f THEN Zero ELSE Read]
  IN  /\ pc[c] = "hi"
      /\ Accessed(c, f)
      /\ CommandDone(c, j, ~(j.lo = Zero /\ j.hi = Zero))
      /\ UNCHANGED <<regs, lost, cut>>

\* Read the table at the address: a power in range, or the failure value.
ReadTable(c, f) ==
  /\ pc[c] = "phys"
  /\ IF f THEN Finish(c, NoJob, V("failed", 0))
     ELSE Finish(c, job[c], V("power", job[c].id))
  /\ UNCHANGED <<index, regs, table, phase, lost, cut>>

\* What is kept of the value that was read: a die whose temperature is not
\* plausible is not there.
Kept(c, v) ==
  IF job[c].task = "ccds" /\ v.kind = "absent" THEN V("none", 0) ELSE v

\* A failed read of one die leaves the others, a failed read of anything else
\* ends the call, and so does a single plane that is off.
ReadSensor(c, f) ==
  LET t == job[c].task
      v == IF f THEN V("failed", 0) ELSE Kept(c, Read)
      j == [job[c] EXCEPT !.seen[Sensors[t][job[c].step]] = v]
      over == f \/ (t \in {"core", "soc"} /\ Read.kind = "absent")
  IN  /\ pc[c] = "sensor"
      /\ Accessed(c, f)
      /\ \/ /\ over /\ t \notin Separate
            /\ Finish(c, NoJob, V("failed", 0))
         \/ /\ ~over \/ t \in Separate
            /\ job[c].step < Len(Sensors[t])
            /\ Go(c, "sensor", [j EXCEPT !.step = @ + 1])
         \/ /\ ~over \/ t \in Separate
            /\ job[c].step = Len(Sensors[t])
            /\ Finish(c, j, V("read", 0))
      /\ UNCHANGED <<regs, lost, cut>>

\* The process of the thread is killed inside a call; a new one takes over.
Die(c) ==
  /\ Faulty
  /\ pc[c] # "idle"
  /\ phase' = [phase EXCEPT ![c] = "index"]
  /\ cut' = (cut \/ pc[c] \in {"arg", "cmd"})
  /\ Finish(c, NoJob, V("none", 0))
  /\ UNCHANGED <<index, regs, table, lost>>

-----------------------------------------------------------------------------
Access(c, f) ==
  \/ WaitReady(c, f) \/ ClearResponse(c, f) \/ WriteArgument(c, f)
  \/ WriteCommand(c, f) \/ PollResponse(c, f)
  \/ ReadLow(c, f) \/ ReadHigh(c, f) \/ ReadTable(c, f) \/ ReadSensor(c, f)

Work(c) == SelectRegister(c) \/ \E f \in BOOLEAN : Access(c, f)

Next ==
  \/ \E c \in Client : Work(c)
  \/ \E c \in Client, t \in DOMAIN Plan : Begin(c, t)
  \/ \E c \in Client, t \in DOMAIN Sensors : BeginSensors(c, t)
  \/ \E c \in Client : Die(c)
  \/ \E b \in Box, ok \in BOOLEAN : FirmwareAnswer(b, ok)

Spec == Init /\ [][Next]_vars

\* A thread inside a call keeps running.  Nothing is assumed of the firmware,
\* and when to call a reader is the caller's choice.
FairSpec == Spec /\ \A c \in Client : WF_vars(Work(c))

-----------------------------------------------------------------------------
(* Properties. *)

\* A response that smu_send_command takes for success answers the command it
\* sent, never an earlier one answered late, as long as every write of zero
\* to the response register reached it.
AnswerIsOwn == \A c \in Client : job[c].own \/ lost

\* A power reading comes from the table that its own transfer wrote, at an
\* address whose halves are its own command's (or a failed read of one).
PowerIsFresh ==
  \A c \in Client :
    result[c].kind = "power" =>
      \/ lost
      \/ /\ table = job[c].id
         /\ job[c].lo \in {Zero, V("lo", job[c].id - 1)}
         /\ job[c].hi \in {Zero, V("hi", job[c].id - 1)}

\* Between calls a mailbox whose response is zero has a command under way:
\* it will be ready again when the firmware answers.  The exception is a
\* command abandoned after the response was cleared, which leaves a mailbox
\* that every later command waits for in vain.
WedgedOnlyByCut ==
  (\A c \in Client : pc[c] = "idle") /\ ~cut =>
    \A b \in Box : regs[<<b, "rsp">>] = Zero => regs[<<b, "msg">>] # Zero

\* Of each sensor a reader asked for it returns that sensor's own content,
\* also after calls that failed between the halves of an access, and a die
\* that could not be read hides no other: only that one is missing.
SensorsOwn ==
  \A c \in Client : result[c].kind = "read" =>
    \A i \in 1 .. Len(Sensors[job[c].task]) :
      LET s == Sensors[job[c].task][i]
          k == job[c].seen[s].kind
      IN  IF s \in Absent
          THEN k = "absent" \/ (job[c].task \in Separate /\ k \in {"none", "failed"})
          ELSE k = s \/ (job[c].task \in Separate /\ k = "failed")

\* Every reader returns, whatever the firmware does and whichever calls fail.
ReaderReturns == \A c \in Client : pc[c] # "idle" ~> pc[c] = "idle"
=============================================================================
