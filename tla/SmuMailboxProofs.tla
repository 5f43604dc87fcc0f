------------------------- MODULE SmuMailboxProofs --------------------------
(***************************************************************************)
(* Proofs about SmuMailbox.  The types hold for any number of threads; the *)
(* other invariants for one thread (One), as the driver's window is shared *)
(* and nothing makes an access of it atomic, and for every set of sensors, *)
(* every polling limit and every behaviour of the firmware and of calls    *)
(* that fail.                                                              *)
(***************************************************************************)
EXTENDS SmuMailbox, TLAPS

USE PollAssumption, FaultyAssumption, BoundAssumption

-----------------------------------------------------------------------------
(* The jobs and their steps. *)

\* The locations of smu_send_command.
Sending == {"wait", "clear", "arg", "cmd", "poll", "lo", "hi"}

\* The commands of a job are commands.
LEMMA PlanTyped ==
  /\ DOMAIN Plan = {"diag", "power"}
  /\ Len(Plan["diag"]) = 3 /\ Len(Plan["power"]) = 2
  /\ Plan["power"][1] = "dram" /\ Plan["power"][2] = "transfer"
  /\ \A t \in DOMAIN Plan : \A i \in 1 .. Len(Plan[t]) : Plan[t][i] \in Command
  /\ \A i \in 1 .. 3 : Plan["diag"][i] # "transfer"
BY DEF Plan, Command

\* The sensors of a job are sensors, and there is at least one.
LEMMA SensorsTyped ==
  /\ DOMAIN Sensors = {"temp", "ccds", "core", "soc", "svi_power"}
  /\ \A t \in DOMAIN Sensors :
       /\ Len(Sensors[t]) \in Nat /\ 1 <= Len(Sensors[t])
       /\ \A i \in 1 .. Len(Sensors[t]) : Sensors[t][i] \in Sensor
<1>1. DOMAIN Sensors = {"temp", "ccds", "core", "soc", "svi_power"}
  BY DEF Sensors
<1>2. /\ Sensors["temp"] = <<"tctl">> /\ Sensors["ccds"] = Ccd
      /\ Sensors["core"] = <<"plane0">> /\ Sensors["soc"] = <<"plane1">>
      /\ Sensors["svi_power"] = <<"plane0", "plane1">>
  BY DEF Sensors
<1>3. Len(Ccd) \in Nat /\ 1 <= Len(Ccd)
  BY CcdAssumption
<1>4. \A i \in 1 .. Len(Ccd) : Ccd[i] \in Sensor
  BY DEF Sensor
<1>5. {"tctl", "plane0", "plane1"} \subseteq Sensor
  BY DEF Sensor
<1>6. QED
  BY <1>1, <1>2, <1>3, <1>4, <1>5

\* The kinds of values, and what tells them apart.
LEMMA KindTyped ==
  /\ Command \subseteq Kind /\ Sensor \subseteq Kind
  /\ {"zero", "ok", "err", "lo", "hi", "input", "absent",
      "none", "failed", "power", "diag", "read"} \subseteq Kind
  /\ \A s \in Sensor : s \notin {"zero", "absent", "none", "failed"}
BY NameAssumption DEF Kind, Word

LEMMA ValueTyped ==
  ASSUME NEW k \in Kind, NEW n \in Nat
  PROVE  V(k, n) \in Value /\ V(k, n).kind = k /\ V(k, n).id = n
BY DEF V, Value

LEMMA ZeroTyped == Zero \in Value /\ Zero.kind = "zero"
BY ValueTyped, KindTyped DEF Zero

LEMMA NoJobTyped ==
  /\ NoJob \in Job /\ NoJob.own /\ NoJob.step = 0
  /\ NoJob.seen \in [Sensor -> Value]
<1>1. "temp" \in Task /\ 0 \in Nat /\ 0 \in 0 .. PollLimit /\ TRUE \in BOOLEAN
  BY DEF Task, Sensors
<1>2. Zero \in Value /\ V("none", 0) \in Value
  BY ZeroTyped, ValueTyped, KindTyped
<1>3. [s \in Sensor |-> V("none", 0)] \in [Sensor -> Value]
  BY <1>2
<1>4. QED
  BY <1>1, <1>2, <1>3 DEF NoJob, Job

\* The jobs a thread may be at a location with.
At(l, j) ==
  /\ l \in Sending =>
       /\ j.task \in DOMAIN Plan
       /\ j.step \in 1 .. Len(Plan[j.task])
  /\ l = "arg" => Plan[j.task][j.step] = "transfer"
  /\ l = "lo" => Plan[j.task][j.step] # "transfer"
  /\ l = "hi" => Plan[j.task][j.step] = "dram"
  /\ l = "phys" => j.task = "power" /\ j.step = 2
  /\ l = "sensor" =>
       /\ j.task \in DOMAIN Sensors
       /\ j.step \in 1 .. Len(Sensors[j.task])

TypeInv == TypeOK /\ \A c \in Client : At(pc[c], job[c])

-----------------------------------------------------------------------------
(* Type correctness. *)

\* A thread goes to l with job j, and the others stay where they are.
Moves(c, l, j) ==
  pc' = [pc EXCEPT ![c] = l] /\ job' = [job EXCEPT ![c] = j]

LEMMA MovesTyped ==
  ASSUME TypeInv, NEW c \in Client, NEW l \in Location, NEW j \in Job,
         Moves(c, l, j), At(l, j)
  PROVE  /\ pc' \in [Client -> Location] /\ job' \in [Client -> Job]
         /\ \A d \in Client : At(pc[d], job[d])'
<1>1. pc' \in [Client -> Location] /\ job' \in [Client -> Job]
  BY DEF TypeInv, TypeOK, Moves
<1>2. ASSUME NEW d \in Client PROVE At(pc[d], job[d])'
  <2>1. At(pc[d], job[d])
    BY DEF TypeInv
  <2>2. CASE d = c
    <3>1. pc'[d] = l /\ job'[d] = j
      BY <2>2 DEF Moves, TypeInv, TypeOK
    <3>2. QED
      BY <3>1 DEF At
  <2>3. CASE d # c
    <3>1. pc'[d] = pc[d] /\ job'[d] = job[d]
      BY <2>3 DEF Moves, TypeInv, TypeOK
    <3>2. QED
      BY <2>1, <3>1 DEF At
  <2>4. QED
    BY <2>2, <2>3
<1>3. QED
  BY <1>1, <1>2

LEMMA NextCommandTyped ==
  ASSUME TypeInv, NEW c \in Client, NEW j \in Job, NextCommand(c, j),
         j.task \in DOMAIN Plan, j.step < Len(Plan[j.task])
  PROVE  /\ sent' = sent + 1 /\ sent' \in Nat
         /\ \E k \in Job :
              /\ Moves(c, "wait", k) /\ At("wait", k)
              /\ k.task = j.task /\ k.step = j.step + 1 /\ k.id = sent + 1
              /\ k.lo = j.lo /\ k.hi = j.hi /\ k.own = j.own
<1> DEFINE n == j.step + 1
           m == sent + 1
           k == [j EXCEPT !.step = n, !.id = m, !.tries = 0]
<1>1. sent \in Nat /\ j.step \in Nat
  BY DEF TypeInv, TypeOK, Job
<1>2. n \in Nat /\ m \in Nat /\ 0 \in 0 .. PollLimit
  BY <1>1
<1>3. n \in 1 .. Len(Plan[j.task])
  BY <1>1, PlanTyped
<1>4. Moves(c, "wait", k) /\ sent' = m
  BY DEF NextCommand, Moves
<1> HIDE DEF n, m
<1>5. k \in Job
  BY <1>2 DEF Job
<1>6. /\ k.task = j.task /\ k.step = n /\ k.id = m
      /\ k.lo = j.lo /\ k.hi = j.hi /\ k.own = j.own
  BY DEF Job
<1>7. At("wait", k)
  BY <1>3, <1>6 DEF At
<1>8. QED
  BY <1>2, <1>4, <1>5, <1>6, <1>7 DEF n, m

\* After a command a thread sends the next one, reads the table or returns.
LEMMA CommandDoneTyped ==
  ASSUME TypeInv, NEW c \in Client, NEW j \in Job, NEW ok \in BOOLEAN,
         CommandDone(c, j, ok),
         j.task \in DOMAIN Plan, j.step \in 1 .. Len(Plan[j.task])
  PROVE  /\ sent' \in Nat
         /\ result' \in [Client -> Value]
         /\ \E l \in Location, k \in Job : Moves(c, l, k) /\ At(l, k)
<1> USE DEF TypeInv, TypeOK
<1>1. CASE j.step < Len(Plan[j.task]) /\ NextCommand(c, j) /\ UNCHANGED result
  <2>1. "wait" \in Location
    BY DEF Location
  <2>2. QED
    BY <1>1, <2>1, NextCommandTyped
<1>2. CASE j.task = "power" /\ j.step = Len(Plan[j.task]) /\ Go(c, "phys", j)
  <2>1. "phys" \in Location /\ Moves(c, "phys", j)
    BY <1>2 DEF Location, Go, Moves
  <2>2. At("phys", j)
    BY <1>2, PlanTyped DEF At, Sending
  <2>3. QED
    BY <1>2, <2>1, <2>2 DEF Go
<1>3. CASE \E r \in {"failed", "diag"} : Finish(c, NoJob, V(r, 0))
  <2>1. PICK r \in {"failed", "diag"} : Finish(c, NoJob, V(r, 0))
    BY <1>3
  <2>2. V(r, 0) \in Value
    BY ValueTyped, KindTyped
  <2>3. "idle" \in Location /\ Moves(c, "idle", NoJob) /\ At("idle", NoJob)
    BY <2>1 DEF Location, Finish, Moves, At, Sending
  <2>4. result' \in [Client -> Value] /\ sent' \in Nat
    BY <2>1, <2>2 DEF Finish
  <2>5. QED
    BY <2>3, <2>4, NoJobTyped
<1>4. QED
  BY <1>1, <1>2, <1>3 DEF CommandDone

\* The part of the type invariant that the threads' steps disturb.
ThreadTyped ==
  /\ pc \in [Client -> Location]
  /\ job \in [Client -> Job]
  /\ sent \in Nat
  /\ result \in [Client -> Value]
  /\ \A c \in Client : At(pc[c], job[c])

\* The rest of it.
WindowTyped ==
  /\ index \in Reg
  /\ regs \in [Reg -> Value]
  /\ table \in Nat
  /\ phase \in [Client -> {"index", "data"}]
  /\ lost \in BOOLEAN
  /\ cut \in BOOLEAN

LEMMA TypeInvParts ==
  ASSUME ThreadTyped', WindowTyped'
  PROVE  TypeInv'
BY DEF TypeInv, TypeOK, ThreadTyped, WindowTyped

LEMMA GoTyped ==
  ASSUME TypeInv, NEW c \in Client, NEW l \in Location, NEW j \in Job,
         Go(c, l, j), At(l, j)
  PROVE  ThreadTyped'
<1>1. Moves(c, l, j) /\ UNCHANGED <<sent, result>>
  BY DEF Go, Moves
<1>2. QED
  BY <1>1, MovesTyped DEF TypeInv, TypeOK, ThreadTyped

LEMMA FinishTyped ==
  ASSUME TypeInv, NEW c \in Client, NEW j \in Job, NEW k \in Kind, NEW n \in Nat,
         Finish(c, j, V(k, n))
  PROVE  ThreadTyped'
<1>1. Moves(c, "idle", j) /\ At("idle", j) /\ "idle" \in Location
  BY DEF Finish, Moves, At, Sending, Location
<1>2. result' \in [Client -> Value] /\ sent' \in Nat
  BY ValueTyped DEF Finish, TypeInv, TypeOK
<1>3. QED
  BY <1>1, <1>2, MovesTyped DEF ThreadTyped

LEMMA DoneTyped ==
  ASSUME TypeInv, NEW c \in Client, NEW j \in Job, NEW ok \in BOOLEAN,
         CommandDone(c, j, ok),
         j.task \in DOMAIN Plan, j.step \in 1 .. Len(Plan[j.task])
  PROVE  ThreadTyped'
BY CommandDoneTyped, MovesTyped DEF ThreadTyped

\* The new values of a job.
LEMMA JobUpdates ==
  ASSUME NEW j \in Job
  PROVE  /\ \A n \in 0 .. PollLimit : [j EXCEPT !.tries = n] \in Job
         /\ \A v \in Value : /\ [j EXCEPT !.lo = v] \in Job
                             /\ [j EXCEPT !.hi = v] \in Job
         /\ \A b \in BOOLEAN : [j EXCEPT !.own = b] \in Job
         /\ \A s \in Sensor, v \in Value, n \in Nat :
              /\ [j EXCEPT !.seen[s] = v] \in Job
              /\ [[j EXCEPT !.seen[s] = v] EXCEPT !.step = n] \in Job
<1>1. \A n \in 0 .. PollLimit : [j EXCEPT !.tries = n] \in Job
  BY DEF Job
<1>2. \A v \in Value : [j EXCEPT !.lo = v] \in Job /\ [j EXCEPT !.hi = v] \in Job
  BY DEF Job
<1>3. \A b \in BOOLEAN : [j EXCEPT !.own = b] \in Job
  BY DEF Job
<1>4. ASSUME NEW s \in Sensor, NEW v \in Value, NEW n \in Nat
      PROVE  /\ [j EXCEPT !.seen[s] = v] \in Job
             /\ [[j EXCEPT !.seen[s] = v] EXCEPT !.step = n] \in Job
  <2> DEFINE f == [j.seen EXCEPT ![s] = v]
  <2>1. f \in [Sensor -> Value]
    BY DEF Job
  <2>2. [j EXCEPT !.seen[s] = v] = [j EXCEPT !.seen = f]
    BY DEF Job
  <2> HIDE DEF f
  <2>3. [j EXCEPT !.seen = f] \in Job
    BY <2>1 DEF Job
  <2>4. [[j EXCEPT !.seen = f] EXCEPT !.step = n] \in Job
    BY <2>3 DEF Job
  <2>5. QED
    BY <2>2, <2>3, <2>4
<1>5. QED
  BY <1>1, <1>2, <1>3, <1>4

\* The registers of the window's users.
LEMMA RegTyped ==
  /\ \A b \in Box, x \in {"msg", "rsp", "arg0", "arg1"} : <<b, x>> \in Reg
  /\ \A s \in Sensor : <<"svi", s>> \in Reg
  /\ "svi" \notin Box
  /\ \A k \in Command : MailboxOf(k) \in Box
BY DEF Reg, Box, MailboxOf

\* What an access is meant for.
LEMMA TargetIs ==
  ASSUME NEW c \in Client, At(pc[c], job[c])
  PROVE  /\ pc[c] \in {"wait", "clear", "poll"} => Target(c) = <<MailboxOf(CurrentCommand(c)), "rsp">>
         /\ pc[c] \in {"arg", "lo"} => Target(c) = <<MailboxOf(CurrentCommand(c)), "arg0">>
         /\ pc[c] = "cmd" => Target(c) = <<MailboxOf(CurrentCommand(c)), "msg">>
         /\ pc[c] = "hi" => Target(c) = <<MailboxOf(CurrentCommand(c)), "arg1">>
         /\ pc[c] \in Sending => CurrentCommand(c) \in Command
         /\ pc[c] = "sensor" =>
              /\ Sensors[job[c].task][job[c].step] \in Sensor
              /\ Target(c) = <<"svi", Sensors[job[c].task][job[c].step]>>
<1>1. pc[c] \in Sending => CurrentCommand(c) \in Command
  BY PlanTyped DEF At, CurrentCommand
<1>2. pc[c] = "sensor" => Sensors[job[c].task][job[c].step] \in Sensor
  BY SensorsTyped DEF At
<1>3. QED
  BY <1>1, <1>2 DEF Target, RegisterAt, Sending

LEMMA TargetTyped ==
  ASSUME TypeInv, NEW c \in Client, pc[c] \notin {"idle", "phys"}
  PROVE  Target(c) \in Reg
<1>1. At(pc[c], job[c]) /\ pc[c] \in Location
  BY DEF TypeInv, TypeOK
<1>2. CASE pc[c] = "sensor"
  BY <1>1, <1>2, TargetIs, RegTyped
<1>3. CASE pc[c] \in Sending
  BY <1>1, <1>3, TargetIs, RegTyped DEF Sending
<1>4. QED
  BY <1>1, <1>2, <1>3 DEF Location, Sending

\* An access keeps the types of the window, whatever it writes.
LEMMA AccessedTyped ==
  ASSUME TypeInv, NEW c \in Client, NEW f \in BOOLEAN, Accessed(c, f),
         UNCHANGED regs \/ \E v \in Value : Write(v, f),
         lost' \in BOOLEAN, cut' \in BOOLEAN
  PROVE  WindowTyped'
<1>1. regs' \in [Reg -> Value]
  BY DEF TypeInv, TypeOK, Write
<1>2. QED
  BY <1>1 DEF TypeInv, TypeOK, Accessed, WindowTyped

LEMMA ReadTyped ==
  ASSUME TypeInv
  PROVE  Read \in Value
BY DEF TypeInv, TypeOK, Read

LEMMA JobTyped ==
  ASSUME TypeInv, NEW c \in Client
  PROVE  /\ job[c] \in Job /\ pc[c] \in Location /\ At(pc[c], job[c])
         /\ pc[c] \in Sending =>
              /\ job[c].task \in DOMAIN Plan
              /\ job[c].step \in 1 .. Len(Plan[job[c].task])
BY DEF TypeInv, TypeOK, At

LEMMA PolledTyped ==
  ASSUME TypeInv, NEW c \in Client, NEW f \in BOOLEAN, Polled(c, f),
         pc[c] \in {"wait", "poll"}
  PROVE  ThreadTyped'
<1> DEFINE n == job[c].tries + 1
           j == [job[c] EXCEPT !.tries = n]
<1>1. pc[c] \in Sending
  BY DEF Sending
<1>2. CASE n < PollLimit /\ Go(c, pc[c], j)
  <2>1. n \in 0 .. PollLimit
    BY <1>2, JobTyped DEF Job
  <2> HIDE DEF n
  <2>2. j \in Job /\ j.task = job[c].task /\ j.step = job[c].step
    <3>1. job[c] \in Job
      BY JobTyped
    <3>2. j \in Job
      BY <2>1, <3>1, JobUpdates
    <3>3. QED
      BY <3>1, <3>2 DEF Job
  <2> HIDE DEF j
  <2>3. At(pc[c], j)
    BY <2>2, JobTyped DEF At
  <2>4. QED
    BY <1>2, <2>2, <2>3, JobTyped, GoTyped
<1>3. CASE CommandDone(c, job[c], FALSE)
  BY <1>1, <1>3, JobTyped, DoneTyped
<1>4. QED
  BY <1>2, <1>3 DEF Polled

LEMMA WaitReadyTyped ==
  ASSUME TypeInv, NEW c \in Client, NEW f \in BOOLEAN, WaitReady(c, f)
  PROVE  TypeInv'
<1>1. pc[c] = "wait" /\ pc[c] \in Sending /\ "clear" \in Location
  BY DEF WaitReady, Sending, Location
<1>2. WindowTyped'
  BY AccessedTyped DEF WaitReady, TypeInv, TypeOK
<1>3. CASE Go(c, "clear", job[c])
  <2>1. At("clear", job[c])
    BY <1>1, JobTyped DEF At
  <2>2. QED
    BY <1>1, <1>2, <1>3, <2>1, JobTyped, GoTyped, TypeInvParts
<1>4. CASE Polled(c, f)
  BY <1>1, <1>2, <1>4, PolledTyped, TypeInvParts
<1>5. QED
  BY <1>3, <1>4 DEF WaitReady

LEMMA ClearResponseTyped ==
  ASSUME TypeInv, NEW c \in Client, NEW f \in BOOLEAN, ClearResponse(c, f)
  PROVE  TypeInv'
<1> DEFINE l == IF CurrentCommand(c) = "transfer" THEN "arg" ELSE "cmd"
<1>1. pc[c] = "clear" /\ pc[c] \in Sending /\ l \in Location
  BY DEF ClearResponse, Sending, Location
<1>2. WindowTyped'
  BY AccessedTyped, ZeroTyped DEF ClearResponse, TypeInv, TypeOK
<1>3. At(l, job[c])
  BY <1>1, JobTyped DEF At, CurrentCommand
<1>4. Go(c, l, job[c])
  BY DEF ClearResponse
<1> HIDE DEF l
<1>5. QED
  BY <1>1, <1>2, <1>3, <1>4, JobTyped, GoTyped, TypeInvParts

\* The tail that the writes of a command share.
LEMMA WrittenTyped ==
  ASSUME TypeInv, NEW c \in Client, NEW f \in BOOLEAN, NEW v \in Value,
         pc[c] \in Sending, Accessed(c, f), Write(v, f),
         cut' = (cut \/ f), UNCHANGED lost,
         NEW l \in {"cmd", "poll"}, NEW j \in Job,
         j.task = job[c].task, j.step = job[c].step,
         IF f THEN CommandDone(c, job[c], FALSE) ELSE Go(c, l, j)
  PROVE  TypeInv'
<1>1. WindowTyped'
  BY AccessedTyped DEF TypeInv, TypeOK
<1>2. CASE f
  BY <1>1, <1>2, JobTyped, DoneTyped, TypeInvParts
<1>3. CASE ~f
  <2>1. At(l, j) /\ l \in Location
    BY JobTyped DEF At, Location
  <2>2. QED
    BY <1>1, <1>3, <2>1, GoTyped, TypeInvParts
<1>4. QED
  BY <1>2, <1>3

LEMMA WriteArgumentTyped ==
  ASSUME TypeInv, NEW c \in Client, NEW f \in BOOLEAN, WriteArgument(c, f)
  PROVE  TypeInv'
<1>1. pc[c] \in Sending /\ job[c] \in Job
  BY JobTyped DEF WriteArgument, Sending
<1>2. V("input", job[c].id) \in Value
  BY <1>1, ValueTyped, KindTyped DEF Job
<1>3. QED
  BY <1>1, <1>2, WrittenTyped DEF WriteArgument

LEMMA WriteCommandTyped ==
  ASSUME TypeInv, NEW c \in Client, NEW f \in BOOLEAN, WriteCommand(c, f)
  PROVE  TypeInv'
<1> DEFINE j == [job[c] EXCEPT !.tries = 0]
<1>1. pc[c] \in Sending /\ job[c] \in Job
  BY JobTyped DEF WriteCommand, Sending
<1>2. V(CurrentCommand(c), job[c].id) \in Value
  BY <1>1, ValueTyped, KindTyped, TargetIs, JobTyped DEF Job
<1>3. j \in Job /\ j.task = job[c].task /\ j.step = job[c].step
  <2>1. 0 \in 0 .. PollLimit
    OBVIOUS
  <2>2. j \in Job
    BY <1>1, <2>1, JobUpdates
  <2>3. QED
    BY <1>1, <2>2 DEF Job
<1>4. IF f THEN CommandDone(c, job[c], FALSE) ELSE Go(c, "poll", j)
  BY DEF WriteCommand
<1> HIDE DEF j
<1>5. QED
  BY <1>1, <1>2, <1>3, <1>4, WrittenTyped DEF WriteCommand

LEMMA PollResponseTyped ==
  ASSUME TypeInv, NEW c \in Client, NEW f \in BOOLEAN, PollResponse(c, f)
  PROVE  TypeInv'
<1>1. pc[c] = "poll" /\ pc[c] \in Sending /\ job[c] \in Job
  BY JobTyped DEF PollResponse, Sending
<1>2. WindowTyped'
  BY AccessedTyped DEF PollResponse, TypeInv, TypeOK
<1>3. CASE Succeeded(c)
  <2> DEFINE b == job[c].own /\ Read.id = job[c].id
             j == [job[c] EXCEPT !.own = b]
  <2>1. b \in BOOLEAN
    BY <1>1 DEF Job
  <2>2. IF CurrentCommand(c) = "transfer" THEN CommandDone(c, j, TRUE) ELSE Go(c, "lo", j)
    BY <1>3 DEF Succeeded
  <2> HIDE DEF b
  <2>3. j \in Job /\ j.task = job[c].task /\ j.step = job[c].step
    BY <1>1, <2>1, JobUpdates DEF Job
  <2> HIDE DEF j
  <2>4. CASE CommandDone(c, j, TRUE)
    BY <1>1, <1>2, <2>3, <2>4, JobTyped, DoneTyped, TypeInvParts
  <2>5. CASE CurrentCommand(c) # "transfer" /\ Go(c, "lo", j)
    <3>1. At("lo", j) /\ "lo" \in Location
      BY <1>1, <2>3, <2>5, JobTyped DEF At, Location, CurrentCommand
    <3>2. QED
      BY <1>2, <2>3, <2>5, <3>1, GoTyped, TypeInvParts
  <2>6. QED
    BY <2>2, <2>4, <2>5
<1>4. CASE CommandDone(c, job[c], FALSE)
  BY <1>1, <1>2, <1>4, JobTyped, DoneTyped, TypeInvParts
<1>5. CASE Polled(c, f)
  BY <1>1, <1>2, <1>5, PolledTyped, TypeInvParts
<1>6. QED
  BY <1>3, <1>4, <1>5 DEF PollResponse

LEMMA ReadLowTyped ==
  ASSUME TypeInv, NEW c \in Client, NEW f \in BOOLEAN, ReadLow(c, f)
  PROVE  TypeInv'
<1> DEFINE v == IF f THEN Zero ELSE Read
           j == [job[c] EXCEPT !.lo = v]
<1>1. pc[c] = "lo" /\ pc[c] \in Sending /\ job[c] \in Job
  BY JobTyped DEF ReadLow, Sending
<1>2. WindowTyped'
  BY AccessedTyped DEF ReadLow, TypeInv, TypeOK
<1>3. v \in Value
  BY ReadTyped, ZeroTyped
<1>4. IF CurrentCommand(c) = "dram" THEN Go(c, "hi", j) ELSE CommandDone(c, j, TRUE)
  BY DEF ReadLow
<1> HIDE DEF v
<1>5. j \in Job /\ j.task = job[c].task /\ j.step = job[c].step
  <2>1. j \in Job
    BY <1>1, <1>3, JobUpdates
  <2>2. QED
    BY <1>1, <2>1 DEF Job
<1> HIDE DEF j
<1>6. CASE CurrentCommand(c) = "dram" /\ Go(c, "hi", j)
  <2>1. At("hi", j) /\ "hi" \in Location
    BY <1>1, <1>5, <1>6, JobTyped DEF At, Location, CurrentCommand
  <2>2. QED
    BY <1>2, <1>5, <1>6, <2>1, GoTyped, TypeInvParts
<1>7. CASE CommandDone(c, j, TRUE)
  BY <1>1, <1>2, <1>5, <1>7, JobTyped, DoneTyped, TypeInvParts
<1>8. QED
  BY <1>4, <1>6, <1>7

LEMMA ReadHighTyped ==
  ASSUME TypeInv, NEW c \in Client, NEW f \in BOOLEAN, ReadHigh(c, f)
  PROVE  TypeInv'
<1> DEFINE v == IF f THEN Zero ELSE Read
           j == [job[c] EXCEPT !.hi = v]
           ok == ~(j.lo = Zero /\ j.hi = Zero)
<1>1. pc[c] = "hi" /\ pc[c] \in Sending /\ job[c] \in Job
  BY JobTyped DEF ReadHigh, Sending
<1>2. WindowTyped'
  BY AccessedTyped DEF ReadHigh, TypeInv, TypeOK
<1>3. v \in Value
  BY ReadTyped, ZeroTyped
<1>4. CommandDone(c, j, ok) /\ ok \in BOOLEAN
  BY DEF ReadHigh
<1> HIDE DEF v
<1>5. j \in Job /\ j.task = job[c].task /\ j.step = job[c].step
  <2>1. j \in Job
    BY <1>1, <1>3, JobUpdates
  <2>2. QED
    BY <1>1, <2>1 DEF Job
<1> HIDE DEF j, ok
<1>6. QED
  BY <1>1, <1>2, <1>4, <1>5, JobTyped, DoneTyped, TypeInvParts

LEMMA ReadTableTyped ==
  ASSUME TypeInv, NEW c \in Client, NEW f \in BOOLEAN, ReadTable(c, f)
  PROVE  TypeInv'
<1>1. job[c] \in Job /\ job[c].id \in Nat
  BY JobTyped DEF Job
<1>2. WindowTyped'
  BY DEF ReadTable, TypeInv, TypeOK, WindowTyped
<1>3. {"failed", "power"} \subseteq Kind
  BY KindTyped
<1>4. ThreadTyped'
  BY <1>1, <1>3, NoJobTyped, FinishTyped DEF ReadTable
<1>5. QED
  BY <1>2, <1>4, TypeInvParts

LEMMA ReadSensorTyped ==
  ASSUME TypeInv, NEW c \in Client, NEW f \in BOOLEAN, ReadSensor(c, f)
  PROVE  TypeInv'
<1> DEFINE t == job[c].task
           x == Sensors[t][job[c].step]
           v == IF f THEN V("failed", 0) ELSE Kept(c, Read)
           j == [job[c] EXCEPT !.seen[x] = v]
           n == j.step + 1
           k == [j EXCEPT !.step = n]
<1>1. pc[c] = "sensor" /\ job[c] \in Job /\ job[c].step \in Nat
  BY JobTyped DEF ReadSensor, Job
<1>2. WindowTyped'
  BY AccessedTyped DEF ReadSensor, TypeInv, TypeOK
<1>3. x \in Sensor /\ t \in DOMAIN Sensors /\ job[c].step \in 1 .. Len(Sensors[t])
  BY <1>1, JobTyped, TargetIs DEF At
<1>4. v \in Value
  BY ReadTyped, ValueTyped, KindTyped DEF Kept
<1>5. {"failed", "read"} \subseteq Kind
  BY KindTyped
<1>6. \/ Finish(c, NoJob, V("failed", 0))
      \/ job[c].step < Len(Sensors[t]) /\ Go(c, "sensor", k)
      \/ Finish(c, j, V("read", 0))
  BY DEF ReadSensor
<1> HIDE DEF v
<1>7. j \in Job
  BY <1>1, <1>3, <1>4, JobUpdates
<1>8. j.step = job[c].step /\ j.task = t
  BY <1>1 DEF Job
<1>9. n \in Nat
  BY <1>1, <1>8
<1> HIDE DEF n
<1>10. k \in Job
  BY <1>1, <1>3, <1>4, <1>9, JobUpdates
<1>11. k.step = n /\ k.task = t
  BY <1>7, <1>8 DEF Job
<1>12. CASE job[c].step < Len(Sensors[t]) /\ Go(c, "sensor", k)
  <2> DEFINE s == job[c].step
             m == Len(Sensors[t])
  <2>1. s \in Nat /\ m \in Nat /\ s < m /\ n = s + 1
    BY <1>1, <1>3, <1>8, <1>12, SensorsTyped DEF n
  <2> HIDE DEF s, m
  <2>2. n \in 1 .. m
    BY <2>1
  <2>3. n \in 1 .. Len(Sensors[t])
    BY <2>2 DEF m
  <2> HIDE DEF k
  <2>4. At("sensor", k) /\ "sensor" \in Location
    BY <1>3, <1>11, <2>3 DEF At, Location, Sending
  <2>5. QED
    BY <1>2, <1>10, <1>12, <2>4, GoTyped, TypeInvParts
<1>13. CASE Finish(c, NoJob, V("failed", 0))
  BY <1>2, <1>5, <1>13, NoJobTyped, FinishTyped, TypeInvParts
<1>14. CASE Finish(c, j, V("read", 0))
  <2> HIDE DEF j
  <2>1. QED
    BY <1>2, <1>5, <1>7, <1>14, FinishTyped, TypeInvParts
<1>15. QED
  BY <1>6, <1>12, <1>13, <1>14

LEMMA DieTyped ==
  ASSUME TypeInv, NEW c \in Client, Die(c)
  PROVE  TypeInv'
<1>1. WindowTyped'
  BY DEF Die, TypeInv, TypeOK, WindowTyped
<1>2. ThreadTyped'
  BY NoJobTyped, KindTyped, FinishTyped DEF Die
<1>3. QED
  BY <1>1, <1>2, TypeInvParts

LEMMA BeginTyped ==
  ASSUME TypeInv, NEW c \in Client, NEW t \in DOMAIN Plan, Begin(c, t)
  PROVE  TypeInv'
<1> DEFINE j == [NoJob EXCEPT !.task = t]
<1>1. WindowTyped'
  BY DEF Begin, TypeInv, TypeOK, WindowTyped
<1>2. t \in Task
  BY DEF Task
<1>3. j \in Job /\ j.task = t /\ j.step = 0
  BY <1>2, NoJobTyped DEF Job
<1>4. NextCommand(c, j)
  BY DEF Begin
<1> HIDE DEF j
<1>5. j.step < Len(Plan[j.task])
  BY <1>3, PlanTyped
<1>6. sent' \in Nat /\ \E k \in Job : Moves(c, "wait", k) /\ At("wait", k)
  BY <1>3, <1>4, <1>5, NextCommandTyped
<1>7. "wait" \in Location
  BY DEF Location
<1>8. result' \in [Client -> Value]
  BY ValueTyped, KindTyped DEF Begin, TypeInv, TypeOK
<1>9. QED
  BY <1>1, <1>6, <1>7, <1>8, MovesTyped, TypeInvParts DEF ThreadTyped

LEMMA BeginSensorsTyped ==
  ASSUME TypeInv, NEW c \in Client, NEW t \in DOMAIN Sensors, BeginSensors(c, t)
  PROVE  TypeInv'
<1> DEFINE j == [NoJob EXCEPT !.task = t, !.step = 1]
<1>1. WindowTyped'
  BY DEF BeginSensors, TypeInv, TypeOK, WindowTyped
<1>2. t \in Task /\ 1 \in Nat
  BY DEF Task
<1>3. j \in Job /\ j.task = t /\ j.step = 1
  BY <1>2, NoJobTyped DEF Job
<1>4. Moves(c, "sensor", j) /\ UNCHANGED sent
  BY DEF BeginSensors, Moves
<1> HIDE DEF j
<1>5. At("sensor", j) /\ "sensor" \in Location
  BY <1>3, SensorsTyped DEF At, Location, Sending
<1>6. result' \in [Client -> Value]
  BY ValueTyped, KindTyped DEF BeginSensors, TypeInv, TypeOK
<1>7. QED
  BY <1>1, <1>3, <1>4, <1>5, <1>6, MovesTyped, TypeInvParts DEF ThreadTyped, TypeInv, TypeOK

LEMMA FirmwareAnswerTyped ==
  ASSUME TypeInv, NEW b \in Box, NEW ok \in BOOLEAN, FirmwareAnswer(b, ok)
  PROVE  TypeInv'
<1> DEFINE m == regs[<<b, "msg">>]
           r == V(IF ok THEN "ok" ELSE "err", m.id)
           l == V("lo", m.id)
           h == V("hi", m.id)
<1>1. m \in Value /\ m.id \in Nat
  BY RegTyped DEF TypeInv, TypeOK, Value
<1>2. r \in Value /\ l \in Value /\ h \in Value /\ Zero \in Value
  BY <1>1, ValueTyped, KindTyped, ZeroTyped
<1>3. /\ regs' = [regs EXCEPT
           ![<<b, "msg">>]  = Zero,
           ![<<b, "rsp">>]  = r,
           ![<<b, "arg0">>] = IF ok /\ m.kind # "transfer" THEN l ELSE @,
           ![<<b, "arg1">>] = IF ok /\ m.kind = "dram" THEN h ELSE @]
      /\ table' \in {table, m.id}
  BY DEF FirmwareAnswer
<1> HIDE DEF r, l, h, m
<1>4. regs' \in [Reg -> Value]
  BY <1>2, <1>3 DEF TypeInv, TypeOK
<1>5. WindowTyped' /\ ThreadTyped'
  BY <1>1, <1>3, <1>4 DEF FirmwareAnswer, TypeInv, TypeOK, WindowTyped, ThreadTyped, At
<1>6. QED
  BY <1>5, TypeInvParts

LEMMA SelectRegisterTyped ==
  ASSUME TypeInv, NEW c \in Client, SelectRegister(c)
  PROVE  TypeInv'
<1>1. Target(c) \in Reg
  BY TargetTyped DEF SelectRegister
<1>2. WindowTyped' /\ ThreadTyped'
  BY <1>1 DEF SelectRegister, TypeInv, TypeOK, WindowTyped, ThreadTyped, At
<1>3. QED
  BY <1>2, TypeInvParts

LEMMA TypeInvInit == Init => TypeInv
<1> SUFFICES ASSUME Init PROVE TypeInv
  OBVIOUS
<1>1. regs \in [Reg -> Value]
  <2>1. \A r \in Reg : r[1] = "svi" => r[2] \in Sensor
    BY DEF Reg, Box
  <2>2. {"absent", "ok"} \cup Sensor \subseteq Kind
    BY KindTyped
  <2>3. QED
    BY <2>1, <2>2, ValueTyped, ZeroTyped DEF Init
<1>2. "idle" \in Location /\ V("none", 0) \in Value
  BY ValueTyped, KindTyped DEF Location
<1>3. \A c \in Client : At(pc[c], job[c])
  BY DEF Init, At, Sending
<1>4. QED
  BY <1>1, <1>2, <1>3, NoJobTyped DEF Init, TypeInv, TypeOK

LEMMA TypeInvNext == TypeInv /\ [Next]_vars => TypeInv'
<1> SUFFICES ASSUME TypeInv, [Next]_vars PROVE TypeInv'
  OBVIOUS
<1>1. ASSUME NEW c \in Client, Work(c) PROVE TypeInv'
  BY <1>1, SelectRegisterTyped, WaitReadyTyped, ClearResponseTyped,
     WriteArgumentTyped, WriteCommandTyped, PollResponseTyped, ReadLowTyped,
     ReadHighTyped, ReadTableTyped, ReadSensorTyped DEF Work, Access
<1>2. ASSUME NEW c \in Client, NEW t \in DOMAIN Plan, Begin(c, t) PROVE TypeInv'
  BY <1>2, BeginTyped
<1>3. ASSUME NEW c \in Client, NEW t \in DOMAIN Sensors, BeginSensors(c, t)
      PROVE TypeInv'
  BY <1>3, BeginSensorsTyped
<1>4. ASSUME NEW c \in Client, Die(c) PROVE TypeInv'
  BY <1>4, DieTyped
<1>5. ASSUME NEW b \in Box, NEW ok \in BOOLEAN, FirmwareAnswer(b, ok) PROVE TypeInv'
  BY <1>5, FirmwareAnswerTyped
<1>6. CASE UNCHANGED vars
  BY <1>6 DEF vars, TypeInv, TypeOK, At
<1>7. QED
  BY <1>1, <1>2, <1>3, <1>4, <1>5, <1>6 DEF Next

\* The type invariant of the window, its mailboxes and any number of threads.
THEOREM TypeCorrect == Spec => []TypeOK
<1>1. Spec => []TypeInv
  BY TypeInvInit, TypeInvNext, PTL DEF Spec
<1>2. TypeInv => TypeOK
  BY DEF TypeInv
<1>3. QED
  BY <1>1, <1>2, PTL

-----------------------------------------------------------------------------
(* The inductive invariant for one thread. *)

One == \A c, d \in Client : c = d

Rsp(b) == regs[<<b, "rsp">>]
Msg(b) == regs[<<b, "msg">>]

\* The command a job is at, and its mailbox.
Sends(j) == Plan[j.task][j.step]
Mail(j) == MailboxOf(Sends(j))

\* The window selects the target of an access that is half way.
Selected(c) ==
  phase[c] = "data" => pc[c] \notin {"idle", "phys"} /\ index = Target(c)

\* No access changes the sensors.
SensorsKept ==
  \A s \in Sensor :
    regs[<<"svi", s>>] = V(IF s \in Absent THEN "absent" ELSE s, 0)

\* The commands under way are commands of their mailbox, and as long as no
\* clearing of a response is lost, they have no response yet.
Mailboxes ==
  \A b \in Box :
    /\ Msg(b) # Zero => Msg(b).kind \in Command /\ MailboxOf(Msg(b).kind) = b
    /\ ~lost /\ Rsp(b) # Zero => Msg(b) = Zero

\* The effect of the success of the command a job is at.
Answered(j) ==
  IF Sends(j) = "transfer" THEN table = j.id
  ELSE /\ regs[<<Mail(j), "arg0">>] = V("lo", j.id)
       /\ Sends(j) = "dram" => regs[<<Mail(j), "arg1">>] = V("hi", j.id)

\* The halves of an address that the command of ticket n read, or failed to.
Halves(j, n) == j.lo \in {Zero, V("lo", n)} /\ j.hi \in {Zero, V("hi", n)}

\* The table is what the job's transfer wrote, and no other is under way.
Table(j) == table = j.id /\ Msg("rsmu") = Zero /\ Halves(j, j.id - 1)

\* Where a thread is tells what its mailbox holds.
Order(l, j) ==
  /\ l = "clear" => Rsp(Mail(j)) # Zero
  /\ l \in {"arg", "cmd"} => Rsp(Mail(j)) = Zero /\ Msg(Mail(j)) = Zero
  /\ l = "poll" =>
       \/ Rsp(Mail(j)) = Zero /\ Msg(Mail(j)) = V(Sends(j), j.id)
       \/ /\ Rsp(Mail(j)) # Zero /\ Msg(Mail(j)) = Zero
          /\ Rsp(Mail(j)).id = j.id
          /\ Rsp(Mail(j)).kind = "ok" => Answered(j)
  /\ l \in {"lo", "hi"} => Msg(Mail(j)) = Zero /\ Answered(j)
  /\ l = "hi" => j.lo \in {Zero, V("lo", j.id)}
  /\ l \in Sending /\ j.task = "power" /\ j.step = 2 => Halves(j, j.id - 1)
  /\ l = "phys" => Table(j)

\* What a job may have kept of a sensor.
Faithful(t, s, k) ==
  IF s \in Absent THEN k = "absent" \/ (t \in Separate /\ k \in {"none", "failed"})
  ELSE k = s \/ (t \in Separate /\ k = "failed")

\* The first n sensors of a job are read.
ReadUpTo(j, n) ==
  \A i \in 1 .. n : LET s == Sensors[j.task][i]
                    IN  Faithful(j.task, s, j.seen[s].kind)

\* A thread at l with job j and last result r: it holds the last ticket, has no
\* result yet, its sensors are read, its answers are its own commands'.
ThreadInv(l, j, r) ==
  /\ l \in Sending \cup {"phys"} => j.id = sent
  /\ r.kind \in {"power", "read"} => l = "idle"
  /\ l = "sensor" => ReadUpTo(j, j.step - 1)
  /\ r.kind = "read" => ReadUpTo(j, Len(Sensors[j.task]))
  /\ \/ lost
     \/ j.own /\ Order(l, j) /\ (r.kind = "power" => Table(j))

\* A mailbox without a response has a command under way, or is about to.
About(l, j, b) == l \in {"arg", "cmd"} /\ Mail(j) = b

Busy ==
  ~cut => \A b \in Box : Rsp(b) = Zero =>
    Msg(b) # Zero \/ \E c \in Client : About(pc[c], job[c], b)

IInv ==
  /\ TypeInv
  /\ SensorsKept
  /\ Mailboxes
  /\ Busy
  /\ \A c \in Client : Selected(c) /\ ThreadInv(pc[c], job[c], result[c])

-----------------------------------------------------------------------------
(* What the invariant says of the checked properties. *)

LEMMA AnswerFollows == IInv => AnswerIsOwn
BY DEF IInv, ThreadInv, AnswerIsOwn

LEMMA PowerFollows == IInv => PowerIsFresh
BY DEF IInv, ThreadInv, PowerIsFresh, Table, Halves

LEMMA WedgeFollows == IInv => WedgedOnlyByCut
BY DEF IInv, Busy, About, WedgedOnlyByCut, Rsp, Msg

LEMMA SensorsFollow == IInv => SensorsOwn
BY DEF IInv, ThreadInv, SensorsOwn, ReadUpTo, Faithful

-----------------------------------------------------------------------------
(* The steps of the one thread. *)

\* The one thread's part of the next state, and the registers', are all of it.
LEMMA ThreadKeeps ==
  ASSUME One, TypeInv', SensorsKept', Mailboxes', NEW c \in Client, Selected(c)',
         NEW l, NEW j, NEW r, pc'[c] = l, job'[c] = j, result'[c] = r,
         ThreadInv(l, j, r)',
         ~cut' => \A b \in Box : Rsp(b)' = Zero =>
                    Msg(b)' # Zero \/ About(l, j, b)
  PROVE  IInv'
<1>1. \A d \in Client : d = c
  BY DEF One
<1>2. ThreadInv(pc[c], job[c], result[c])'
  BY DEF ThreadInv
<1>3. Busy'
  BY DEF Busy
<1>4. QED
  BY <1>1, <1>2, <1>3 DEF IInv

\* No mailbox waits for a command.
Settled == ~cut => \A b \in Box : Rsp(b) = Zero => Msg(b) # Zero

LEMMA CommandDoneKeeps ==
  ASSUME One, TypeInv, TypeInv', SensorsKept', Mailboxes', Settled',
         NEW c \in Client, phase'[c] = "index",
         NEW j \in Job, NEW ok \in BOOLEAN, CommandDone(c, j, ok),
         j.task \in DOMAIN Plan, j.step \in 1 .. Len(Plan[j.task]),
         j.id = sent, result[c].kind \notin {"power", "read"},
         \/ lost'
         \/ /\ j.own
            /\ ok /\ j.task = "power" =>
                 IF j.step = 1 THEN Halves(j, j.id) ELSE Table(j)'
  PROVE  IInv'
<1>1. Selected(c)'
  BY DEF Selected
<1>2. CASE /\ ok \/ j.task = "diag"
           /\ j.step < Len(Plan[j.task]) /\ NextCommand(c, j) /\ UNCHANGED result
  <2>1. PICK k \in Job :
          /\ Moves(c, "wait", k)
          /\ k.task = j.task /\ k.step = j.step + 1 /\ k.id = sent + 1
          /\ k.lo = j.lo /\ k.hi = j.hi /\ k.own = j.own /\ sent' = sent + 1
    BY <1>2, NextCommandTyped
  <2>2. pc'[c] = "wait" /\ job'[c] = k /\ result'[c] = result[c]
    BY <1>2, <2>1 DEF Moves, TypeInv, TypeOK
  <2>3. j.step \in Nat /\ sent \in Nat /\ j.id \in Nat /\ sent + 1 - 1 = sent
    BY DEF Job, TypeInv, TypeOK
  <2>4. k.task = "power" /\ k.step = 2 /\ ~lost' => Halves(k, k.id - 1)
    <3>1. SUFFICES ASSUME k.task = "power", k.step = 2, ~lost'
                   PROVE  Halves(k, k.id - 1)
      OBVIOUS
    <3>2. j.step = 1 /\ j.task = "power" /\ ok
      BY <1>2, <2>1, <2>3, <3>1
    <3>3. Halves(j, sent)
      BY <3>1, <3>2
    <3>4. k.id - 1 = sent
      BY <2>1, <2>3
    <3>5. QED
      BY <2>1, <3>3, <3>4 DEF Halves
  <2>5. ThreadInv("wait", k, result[c])'
    <3>1. ~lost' => k.own /\ Order("wait", k)'
      BY <2>1, <2>4 DEF Order, Halves
    <3>2. QED
      BY <2>1, <2>2, <3>1 DEF ThreadInv
  <2>6. QED
    BY <1>1, <2>2, <2>5, ThreadKeeps DEF Settled
<1>3. CASE ok /\ j.task = "power" /\ j.step = Len(Plan[j.task]) /\ Go(c, "phys", j)
  <2>1. pc'[c] = "phys" /\ job'[c] = j /\ result'[c] = result[c] /\ sent' = sent
    BY <1>3 DEF Go, TypeInv, TypeOK
  <2>2. j.step = 2
    BY <1>3, PlanTyped
  <2>3. ThreadInv("phys", j, result[c])'
    BY <1>3, <2>1, <2>2 DEF ThreadInv, Order, Sending
  <2>4. QED
    BY <1>1, <2>1, <2>3, ThreadKeeps DEF Settled
<1>4. CASE \E r \in {"failed", "diag"} : Finish(c, NoJob, V(r, 0))
  <2>1. PICK r \in {"failed", "diag"} : Finish(c, NoJob, V(r, 0))
    BY <1>4
  <2>2. pc'[c] = "idle" /\ job'[c] = NoJob /\ result'[c] = V(r, 0)
    BY <2>1 DEF Finish, TypeInv, TypeOK
  <2>3. ThreadInv("idle", NoJob, V(r, 0))'
    BY NoJobTyped DEF ThreadInv, Order, Sending, V
  <2>4. QED
    BY <1>1, <2>2, <2>3, ThreadKeeps DEF Settled
<1>5. QED
  BY <1>2, <1>3, <1>4 DEF CommandDone

LEMMA GoKeeps ==
  ASSUME One, TypeInv, TypeInv', SensorsKept', Mailboxes',
         NEW c \in Client, phase'[c] = "index",
         NEW l, NEW j, Go(c, l, j),
         NEW r, result[c] = r, ThreadInv(l, j, r)',
         ~cut' => \A b \in Box : Rsp(b)' = Zero =>
                    Msg(b)' # Zero \/ About(l, j, b)
  PROVE  IInv'
<1>1. Selected(c)'
  BY DEF Selected
<1>2. pc'[c] = l /\ job'[c] = j /\ result'[c] = r
  BY DEF Go, TypeInv, TypeOK
<1>3. QED
  BY <1>1, <1>2, ThreadKeeps

LEMMA FinishKeeps ==
  ASSUME One, TypeInv, TypeInv', SensorsKept', Mailboxes', Settled',
         NEW c \in Client, Selected(c)',
         NEW j, NEW r, Finish(c, j, r), ThreadInv("idle", j, r)'
  PROVE  IInv'
<1>1. pc'[c] = "idle" /\ job'[c] = j /\ result'[c] = r
  BY DEF Finish, TypeInv, TypeOK
<1>2. QED
  BY <1>1, ThreadKeeps DEF Settled

\* A job that differs in its loop counter alone is as good.
LEMMA CounterFree ==
  ASSUME NEW l, NEW j, NEW k, NEW r, ThreadInv(l, j, r),
         k.task = j.task, k.step = j.step, k.id = j.id, k.seen = j.seen,
         k.lo = j.lo, k.hi = j.hi, k.own = j.own
  PROVE  ThreadInv(l, k, r)
BY DEF ThreadInv, ReadUpTo, Order, Answered, Table, Halves, Mail, Sends

\* What a thread knows depends on the registers, the table and the tickets.
LEMMA Unmoved ==
  ASSUME NEW l, NEW j, NEW r, ThreadInv(l, j, r),
         UNCHANGED <<regs, table, lost, sent>>
  PROVE  ThreadInv(l, j, r)'
<1>1. Answered(j) => Answered(j)'
  BY DEF Answered
<1>2. Table(j) => Table(j)'
  BY DEF Table, Msg, Halves
<1>3. Order(l, j) => Order(l, j)'
  BY <1>1, <1>2 DEF Order, Rsp, Msg, Halves
<1>4. \A n : ReadUpTo(j, n) => ReadUpTo(j, n)'
  BY DEF ReadUpTo
<1>5. QED
  BY <1>2, <1>3, <1>4 DEF ThreadInv

\* An access that writes nothing leaves what was there.
LEMMA UnwrittenKeeps ==
  ASSUME One, IInv, NEW c \in Client, UNCHANGED <<regs, lost, cut>>
  PROVE  /\ SensorsKept' /\ Mailboxes'
         /\ pc[c] \notin {"arg", "cmd"} => Settled'
<1>1. SensorsKept' /\ Mailboxes'
  BY DEF IInv, SensorsKept, Mailboxes, Rsp, Msg
<1>2. pc[c] \notin {"arg", "cmd"} => Settled'
  BY DEF IInv, One, Busy, About, Settled, Rsp, Msg
<1>3. QED
  BY <1>1, <1>2

\* What an access that goes through reads, and writes.
LEMMA AccessIs ==
  ASSUME IInv, NEW c \in Client, NEW f \in BOOLEAN, Accessed(c, f)
  PROVE  /\ phase'[c] = "index"
         /\ ~f => index = Target(c) /\ Read = regs[Target(c)]
         /\ At(pc[c], job[c]) /\ job[c] \in Job
         /\ ThreadInv(pc[c], job[c], result[c])
         /\ UNCHANGED table
BY DEF IInv, Selected, Accessed, Read, TypeInv, TypeOK

LEMMA WriteIs ==
  ASSUME IInv, NEW c \in Client, NEW f \in BOOLEAN, Accessed(c, f),
         NEW v \in Value, Write(v, f),
         NEW b \in Box, NEW x \in {"msg", "rsp", "arg0", "arg1"},
         Target(c) = <<b, x>>
  PROVE  /\ SensorsKept'
         /\ \A d \in Box :
              /\ Rsp(d)' = IF ~f /\ d = b /\ x = "rsp" THEN v ELSE Rsp(d)
              /\ Msg(d)' = IF ~f /\ d = b /\ x = "msg" THEN v ELSE Msg(d)
<1>1. CASE f
  BY <1>1 DEF Write, IInv, SensorsKept, Rsp, Msg
<1>2. CASE ~f
  <2>1. regs' = [regs EXCEPT ![<<b, x>>] = v]
    BY <1>2, AccessIs DEF Write
  <2>2. \A d \in Box, y \in {"msg", "rsp", "arg0", "arg1"} :
          regs'[<<d, y>>] = IF d = b /\ y = x THEN v ELSE regs[<<d, y>>]
    BY <2>1, RegTyped DEF IInv, TypeInv, TypeOK
  <2>3. \A s \in Sensor : regs'[<<"svi", s>>] = regs[<<"svi", s>>]
    BY <2>1, RegTyped DEF IInv, TypeInv, TypeOK
  <2>4. QED
    BY <1>2, <2>2, <2>3 DEF IInv, SensorsKept, Rsp, Msg
<1>3. QED
  BY <1>1, <1>2

-----------------------------------------------------------------------------
(* Every step keeps the invariant. *)

LEMMA PolledKeeps ==
  ASSUME One, IInv, TypeInv', NEW c \in Client, NEW f \in BOOLEAN,
         Accessed(c, f), Polled(c, f), pc[c] \in {"wait", "poll"},
         UNCHANGED <<regs, lost, cut>>
  PROVE  IInv'
<1>0. PICK l, k, r : l = pc[c] /\ k = job[c] /\ r = result[c]
  OBVIOUS
<1> DEFINE n == k.tries + 1
           j == [k EXCEPT !.tries = n]
<1>1. /\ phase'[c] = "index" /\ k \in Job /\ UNCHANGED table
      /\ ThreadInv(l, k, r)
  BY <1>0, AccessIs
<1>2. SensorsKept' /\ Mailboxes' /\ Settled'
  BY <1>0, <1>1, UnwrittenKeeps
<1>3. TypeInv
  BY DEF IInv
<1>4. CASE n < PollLimit /\ Go(c, l, j)
  <2>1. UNCHANGED sent
    BY <1>4 DEF Go
  <2>2. /\ j.task = k.task /\ j.step = k.step /\ j.id = k.id
        /\ j.seen = k.seen /\ j.lo = k.lo /\ j.hi = k.hi
        /\ j.own = k.own
    BY <1>1 DEF Job
  <2> HIDE DEF j
  <2>3. ThreadInv(l, j, r)
    BY <1>1, <2>2, CounterFree
  <2>4. ThreadInv(l, j, r)'
    BY <1>1, <2>1, <2>3, Unmoved
  <2>5. QED
    BY <1>0, <1>1, <1>2, <1>3, <1>4, <2>4, GoKeeps DEF Settled
<1>5. CASE CommandDone(c, k, FALSE)
  <2>1. k.id = sent /\ r.kind \notin {"power", "read"} /\ (lost' \/ k.own)
    BY <1>0, <1>1 DEF ThreadInv, Sending
  <2>2. k.task \in DOMAIN Plan /\ k.step \in 1 .. Len(Plan[k.task])
    BY <1>0, <1>3, JobTyped DEF Sending
  <2>3. QED
    BY <1>0, <1>1, <1>2, <1>3, <1>5, <2>1, <2>2, CommandDoneKeeps
<1>6. QED
  BY <1>0, <1>4, <1>5 DEF Polled

LEMMA WaitReadyKeeps ==
  ASSUME One, IInv, TypeInv', NEW c \in Client, NEW f \in BOOLEAN, WaitReady(c, f)
  PROVE  IInv'
<1>0. PICK k, r : k = job[c] /\ r = result[c]
  OBVIOUS
<1>1. /\ phase'[c] = "index" /\ k \in Job /\ UNCHANGED table
      /\ ThreadInv("wait", k, r) /\ At(pc[c], k)
      /\ ~f => Read = regs[Target(c)]
  BY <1>0, AccessIs DEF WaitReady
<1>2. pc[c] = "wait" /\ Accessed(c, f) /\ UNCHANGED <<regs, lost, cut>>
  BY DEF WaitReady
<1>3. SensorsKept' /\ Mailboxes' /\ Settled'
  BY <1>2, UnwrittenKeeps
<1>4. TypeInv
  BY DEF IInv
<1>5. CASE ~f /\ Read # Zero /\ Go(c, "clear", k)
  <2>1. UNCHANGED sent
    BY <1>5 DEF Go
  <2>2. Target(c) = <<Mail(k), "rsp">>
    BY <1>0, <1>1, <1>2, TargetIs DEF Mail, Sends, CurrentCommand
  <2>3. Rsp(Mail(k)) # Zero
    BY <1>1, <1>5, <2>2 DEF Rsp
  <2>4. ThreadInv("clear", k, r)
    BY <1>1, <2>3 DEF ThreadInv, Order, Sending
  <2>5. ThreadInv("clear", k, r)'
    BY <1>1, <1>2, <2>1, <2>4, Unmoved
  <2>6. QED
    BY <1>0, <1>1, <1>3, <1>4, <1>5, <2>5, GoKeeps DEF Settled
<1>6. CASE Polled(c, f)
  BY <1>2, <1>6, PolledKeeps
<1>7. QED
  BY <1>0, <1>5, <1>6 DEF WaitReady

\* Where a thread that sends a command is, and where its access goes.
LEMMA SendingIs ==
  ASSUME IInv, NEW c \in Client, pc[c] \in Sending, NEW k, k = job[c]
  PROVE  /\ k \in Job /\ k.id \in Nat
         /\ k.task \in DOMAIN Plan /\ k.step \in 1 .. Len(Plan[k.task])
         /\ Sends(k) \in Command /\ Mail(k) \in Box
         /\ V(Sends(k), k.id).kind = Sends(k) /\ V(Sends(k), k.id) # Zero
         /\ V(Sends(k), k.id) \in Value
         /\ k.id = sent /\ result[c].kind \notin {"power", "read"}
<1>1. TypeInv /\ ThreadInv(pc[c], job[c], result[c])
  BY DEF IInv
<1>2. /\ k \in Job /\ k.id \in Nat
      /\ k.task \in DOMAIN Plan /\ k.step \in 1 .. Len(Plan[k.task])
  BY <1>1, JobTyped DEF Job
<1>3. Sends(k) \in Command
  BY <1>2, PlanTyped DEF Sends
<1>4. Mail(k) \in Box
  BY <1>3, RegTyped DEF Mail
<1>5. /\ V(Sends(k), k.id).kind = Sends(k) /\ V(Sends(k), k.id) # Zero
      /\ V(Sends(k), k.id) \in Value
  BY <1>2, <1>3, ValueTyped, KindTyped, ZeroTyped DEF Command
<1>6. k.id = sent /\ result[c].kind \notin {"power", "read"}
  BY <1>1 DEF ThreadInv, Sending
<1>7. QED
  BY <1>2, <1>3, <1>4, <1>5, <1>6

LEMMA ClearResponseKeeps ==
  ASSUME One, IInv, TypeInv', NEW c \in Client, NEW f \in BOOLEAN, ClearResponse(c, f)
  PROVE  IInv'
<1>0. PICK k, r : k = job[c] /\ r = result[c]
  OBVIOUS
<1> DEFINE l == IF Sends(k) = "transfer" THEN "arg" ELSE "cmd"
<1>1. /\ phase'[c] = "index" /\ UNCHANGED table
      /\ ThreadInv("clear", k, r) /\ At(pc[c], k)
  BY <1>0, AccessIs DEF ClearResponse
<1>2. pc[c] = "clear" /\ Accessed(c, f) /\ Write(Zero, f) /\ cut' = cut
  BY DEF ClearResponse
<1>3. lost' <=> (lost \/ f)
  BY DEF ClearResponse
<1>4. Go(c, l, k)
  BY <1>0 DEF ClearResponse, Sends, CurrentCommand
<1>5. l \in {"arg", "cmd"}
  OBVIOUS
<1> HIDE DEF l
<1>6. Mail(k) \in Box /\ k.id = sent /\ r.kind \notin {"power", "read"}
  BY <1>0, <1>2, SendingIs DEF Sending
<1>7. Target(c) = <<Mail(k), "rsp">>
  BY <1>0, <1>1, <1>2, TargetIs DEF Mail, Sends, CurrentCommand
<1>8. /\ SensorsKept'
      /\ \A b \in Box : Rsp(b)' = IF ~f /\ b = Mail(k) THEN Zero ELSE Rsp(b)
      /\ \A b \in Box : Msg(b)' = Msg(b)
  BY <1>2, <1>6, <1>7, ZeroTyped, WriteIs
<1>9. Mailboxes'
  BY <1>3, <1>8 DEF IInv, Mailboxes
<1>10. ThreadInv(l, k, r)'
  <2>1. ~lost' => ~f /\ ~lost
    BY <1>3
  <2>2. ~lost => Msg(Mail(k)) = Zero
    BY <1>1, <1>6 DEF IInv, Mailboxes, ThreadInv, Order
  <2>3. ~lost' => k.own /\ Order(l, k)'
    BY <1>1, <1>5, <1>6, <1>8, <2>1, <2>2 DEF ThreadInv, Order, Halves, Sending
  <2>4. QED
    BY <1>4, <1>5, <1>6, <2>3 DEF ThreadInv, Go
<1>11. ~cut' => \A b \in Box : Rsp(b)' = Zero => Msg(b)' # Zero \/ About(l, k, b)
  BY <1>2, <1>5, <1>8 DEF IInv, Busy, About, One
<1>12. TypeInv
  BY DEF IInv
<1>13. QED
  BY <1>0, <1>1, <1>4, <1>8, <1>9, <1>10, <1>11, <1>12, GoKeeps

LEMMA WriteArgumentKeeps ==
  ASSUME One, IInv, TypeInv', NEW c \in Client, NEW f \in BOOLEAN, WriteArgument(c, f)
  PROVE  IInv'
<1>0. PICK k, r : k = job[c] /\ r = result[c]
  OBVIOUS
<1>1. /\ phase'[c] = "index" /\ UNCHANGED table
      /\ ThreadInv("arg", k, r) /\ At(pc[c], k)
  BY <1>0, AccessIs DEF WriteArgument
<1>2. /\ pc[c] = "arg" /\ Accessed(c, f) /\ Write(V("input", k.id), f)
      /\ lost' = lost /\ cut' = (cut \/ f)
      /\ IF f THEN CommandDone(c, k, FALSE) ELSE Go(c, "cmd", k)
  BY <1>0 DEF WriteArgument
<1>3. /\ k \in Job /\ k.id \in Nat /\ Mail(k) \in Box
      /\ k.task \in DOMAIN Plan /\ k.step \in 1 .. Len(Plan[k.task])
      /\ k.id = sent /\ r.kind \notin {"power", "read"}
  BY <1>0, <1>2, SendingIs DEF Sending
<1>4. Target(c) = <<Mail(k), "arg0">>
  BY <1>0, <1>1, <1>2, TargetIs DEF Mail, Sends, CurrentCommand
<1>5. V("input", k.id) \in Value
  BY <1>3, ValueTyped, KindTyped
<1>6. SensorsKept' /\ \A b \in Box : Rsp(b)' = Rsp(b) /\ Msg(b)' = Msg(b)
  BY <1>2, <1>3, <1>4, <1>5, WriteIs
<1>7. Mailboxes'
  BY <1>2, <1>6 DEF IInv, Mailboxes
<1>8. TypeInv
  BY DEF IInv
<1>9. CASE f
  <2>1. Settled'
    BY <1>2, <1>9 DEF Settled
  <2>2. lost' \/ k.own
    BY <1>1, <1>2 DEF ThreadInv
  <2>3. QED
    BY <1>0, <1>1, <1>2, <1>3, <1>6, <1>7, <1>8, <1>9, <2>1, <2>2, CommandDoneKeeps
<1>10. CASE ~f
  <2>1. ~lost' => k.own /\ Order("cmd", k)'
    BY <1>1, <1>2, <1>3, <1>6 DEF ThreadInv, Order, Halves, Sending
  <2>2. ThreadInv("cmd", k, r)'
    BY <1>2, <1>3, <1>10, <2>1 DEF ThreadInv, Go
  <2>3. ~cut' => \A b \in Box : Rsp(b)' = Zero => Msg(b)' # Zero \/ About("cmd", k, b)
    BY <1>0, <1>2, <1>6, <1>10 DEF IInv, Busy, About, One
  <2>4. QED
    BY <1>0, <1>1, <1>2, <1>6, <1>7, <1>8, <1>10, <2>2, <2>3, GoKeeps
<1>11. QED
  BY <1>9, <1>10

LEMMA WriteCommandKeeps ==
  ASSUME One, IInv, TypeInv', NEW c \in Client, NEW f \in BOOLEAN, WriteCommand(c, f)
  PROVE  IInv'
<1>0. PICK k, r : k = job[c] /\ r = result[c]
  OBVIOUS
<1> DEFINE j == [k EXCEPT !.tries = 0]
           v == V(Sends(k), k.id)
<1>1. /\ phase'[c] = "index" /\ UNCHANGED table
      /\ ThreadInv("cmd", k, r) /\ At(pc[c], k)
  BY <1>0, AccessIs DEF WriteCommand
<1>2. /\ pc[c] = "cmd" /\ Accessed(c, f) /\ Write(v, f)
      /\ lost' = lost /\ cut' = (cut \/ f)
      /\ IF f THEN CommandDone(c, k, FALSE) ELSE Go(c, "poll", j)
  BY <1>0 DEF WriteCommand, Sends, CurrentCommand
<1>3. /\ k \in Job /\ k.id \in Nat /\ Mail(k) \in Box
      /\ k.task \in DOMAIN Plan /\ k.step \in 1 .. Len(Plan[k.task])
      /\ k.id = sent /\ r.kind \notin {"power", "read"}
      /\ v.kind \in Command /\ v # Zero /\ v \in Value
      /\ MailboxOf(v.kind) = Mail(k)
  BY <1>0, <1>2, SendingIs DEF Sending, Mail
<1>4. Target(c) = <<Mail(k), "msg">>
  BY <1>0, <1>1, <1>2, TargetIs DEF Mail, Sends, CurrentCommand
<1>5. v = V(Sends(k), k.id)
  OBVIOUS
<1> HIDE DEF v
<1>6. /\ SensorsKept'
      /\ \A b \in Box : Rsp(b)' = Rsp(b)
      /\ \A b \in Box : Msg(b)' = IF ~f /\ b = Mail(k) THEN v ELSE Msg(b)
  BY <1>2, <1>3, <1>4, WriteIs
<1>7. ~lost => Rsp(Mail(k)) = Zero
  BY <1>1 DEF ThreadInv, Order
<1>8. Mailboxes'
  BY <1>2, <1>3, <1>6, <1>7 DEF IInv, Mailboxes
<1>9. TypeInv
  BY DEF IInv
<1>10. CASE f
  <2>1. Settled'
    BY <1>2, <1>10 DEF Settled
  <2>2. lost' \/ k.own
    BY <1>1, <1>2 DEF ThreadInv
  <2>3. QED
    BY <1>0, <1>1, <1>2, <1>3, <1>6, <1>8, <1>9, <1>10, <2>1, <2>2, CommandDoneKeeps
<1>11. CASE ~f
  <2>1. /\ j.task = k.task /\ j.step = k.step /\ j.id = k.id
        /\ j.seen = k.seen /\ j.lo = k.lo /\ j.hi = k.hi /\ j.own = k.own
    BY <1>3 DEF Job
  <2>2. Go(c, "poll", j)
    BY <1>2, <1>11
  <2> HIDE DEF j
  <2>3. Mail(j) = Mail(k) /\ v = V(Sends(j), j.id)
    BY <1>5, <2>1 DEF Mail, Sends
  <2>4. ~lost' => j.own /\ Order("poll", j)'
    BY <1>1, <1>2, <1>3, <1>6, <1>7, <1>11, <2>1, <2>3
       DEF ThreadInv, Order, Halves, Sending
  <2>5. ThreadInv("poll", j, r)'
    BY <1>3, <2>1, <2>2, <2>4 DEF ThreadInv, Go
  <2>6. ~cut' => \A b \in Box : Rsp(b)' = Zero => Msg(b)' # Zero
    BY <1>0, <1>2, <1>3, <1>6, <1>11 DEF IInv, Busy, About, One
  <2>7. QED
    BY <1>0, <1>1, <1>6, <1>8, <1>9, <2>2, <2>5, <2>6, GoKeeps
<1>12. QED
  BY <1>10, <1>11

\* A success answers the thread's own command, and comes with its effect.
LEMMA SuccessKeeps ==
  ASSUME One, IInv, TypeInv', NEW c \in Client,
         pc[c] = "poll", Accessed(c, FALSE), Read.kind = "ok", Succeeded(c),
         UNCHANGED <<regs, lost, cut>>
  PROVE  IInv'
<1>0. PICK k, r, o : k = job[c] /\ r = result[c] /\ o = (k.own /\ Read.id = k.id)
  OBVIOUS
<1> DEFINE j == [k EXCEPT !.own = o]
<1>1. /\ phase'[c] = "index" /\ UNCHANGED table
      /\ ThreadInv("poll", k, r) /\ At("poll", k)
      /\ Read = regs[Target(c)]
  BY <1>0, AccessIs
<1>2. /\ k \in Job /\ Mail(k) \in Box
      /\ k.task \in DOMAIN Plan /\ k.step \in 1 .. Len(Plan[k.task])
      /\ k.id = sent /\ r.kind \notin {"power", "read"}
  BY <1>0, SendingIs DEF Sending
<1>3. Target(c) = <<Mail(k), "rsp">>
  BY <1>0, <1>1, TargetIs DEF Mail, Sends, CurrentCommand
<1>4. Read = Rsp(Mail(k)) /\ Rsp(Mail(k)) # Zero
  BY <1>1, <1>3, ZeroTyped DEF Rsp
<1>5. SensorsKept' /\ Mailboxes' /\ Settled'
  BY UnwrittenKeeps
<1>6. TypeInv
  BY DEF IInv
<1>7. o \in BOOLEAN
  BY <1>0, <1>2 DEF Job
<1>8. j \in Job
  BY <1>2, <1>7, JobUpdates
<1>9. /\ j.task = k.task /\ j.step = k.step /\ j.id = k.id
      /\ j.seen = k.seen /\ j.lo = k.lo /\ j.hi = k.hi /\ j.own = o
  BY <1>2 DEF Job
<1>10. IF Sends(k) = "transfer" THEN CommandDone(c, j, TRUE) ELSE Go(c, "lo", j)
  BY <1>0 DEF Succeeded, Sends, CurrentCommand
<1> HIDE DEF j
<1>11. ~lost => o /\ Msg(Mail(k)) = Zero /\ Answered(k) /\ Order("poll", k)
  BY <1>0, <1>1, <1>4 DEF ThreadInv, Order
<1>12. CASE Sends(k) = "transfer" /\ CommandDone(c, j, TRUE)
  <2>1. k.task = "power" => k.step = 2 /\ k.step # 1
    BY <1>2, <1>12, PlanTyped DEF Sends
  <2>2. Mail(k) = "rsmu"
    BY <1>12 DEF Mail, MailboxOf
  <2>3. ~lost /\ k.task = "power" => Table(k)
    BY <1>11, <1>12, <2>1, <2>2 DEF Table, Answered, Order, Sending
  <2>4. ~lost' /\ j.task = "power" => Table(j)'
    BY <1>1, <1>9, <2>3 DEF Table, Halves, Msg
  <2>5. lost' \/ (j.own /\ (j.task = "power" =>
                   IF j.step = 1 THEN Halves(j, j.id) ELSE Table(j)'))
    BY <1>9, <1>11, <2>1, <2>4
  <2>6. QED
    BY <1>0, <1>1, <1>2, <1>5, <1>6, <1>8, <1>9, <1>12, <2>5, CommandDoneKeeps
<1>13. CASE Sends(k) # "transfer" /\ Go(c, "lo", j)
  <2>1. Mail(j) = Mail(k) /\ Sends(j) = Sends(k)
    BY <1>9 DEF Mail, Sends
  <2>2. Answered(k) => Answered(j)
    BY <1>9, <2>1 DEF Answered
  <2>3. ~lost => j.own /\ Order("lo", j)
    BY <1>9, <1>11, <2>1, <2>2 DEF Order, Halves, Sending
  <2>4. ThreadInv("lo", j, r)
    BY <1>2, <1>9, <2>3 DEF ThreadInv
  <2>5. ThreadInv("lo", j, r)'
    BY <1>1, <1>13, <2>4, Unmoved DEF Go
  <2>6. QED
    BY <1>0, <1>1, <1>5, <1>6, <1>13, <2>5, GoKeeps DEF Settled
<1>14. QED
  BY <1>10, <1>12, <1>13

LEMMA PollResponseKeeps ==
  ASSUME One, IInv, TypeInv', NEW c \in Client, NEW f \in BOOLEAN, PollResponse(c, f)
  PROVE  IInv'
<1>1. /\ pc[c] = "poll" /\ pc[c] \in Sending
      /\ Accessed(c, f) /\ UNCHANGED <<regs, lost, cut>>
  BY DEF PollResponse, Sending
<1>2. CASE ~f /\ Read.kind = "ok" /\ Succeeded(c)
  <2>1. Accessed(c, FALSE)
    BY <1>1, <1>2
  <2>2. QED
    BY <1>1, <1>2, <2>1, SuccessKeeps
<1>3. CASE CommandDone(c, job[c], FALSE)
  <2>0. PICK k : k = job[c]
    OBVIOUS
  <2>1. /\ k \in Job
        /\ k.task \in DOMAIN Plan /\ k.step \in 1 .. Len(Plan[k.task])
        /\ k.id = sent /\ result[c].kind \notin {"power", "read"}
    BY <1>1, <2>0, SendingIs
  <2>2. phase'[c] = "index" /\ UNCHANGED table
    BY <1>1, AccessIs
  <2>3. SensorsKept' /\ Mailboxes' /\ Settled' /\ TypeInv
    BY <1>1, UnwrittenKeeps DEF IInv
  <2>4. lost' \/ k.own
    BY <1>1, <2>0 DEF IInv, ThreadInv
  <2>5. QED
    BY <1>3, <2>0, <2>1, <2>2, <2>3, <2>4, CommandDoneKeeps
<1>4. CASE Polled(c, f)
  BY <1>1, <1>4, PolledKeeps
<1>5. QED
  BY <1>2, <1>3, <1>4 DEF PollResponse

LEMMA ReadLowKeeps ==
  ASSUME One, IInv, TypeInv', NEW c \in Client, NEW f \in BOOLEAN, ReadLow(c, f)
  PROVE  IInv'
<1>0. PICK k, r, v : k = job[c] /\ r = result[c] /\ v = IF f THEN Zero ELSE Read
  OBVIOUS
<1> DEFINE j == [k EXCEPT !.lo = v]
<1>1. /\ phase'[c] = "index" /\ UNCHANGED table
      /\ ThreadInv("lo", k, r) /\ At("lo", k)
      /\ ~f => Read = regs[Target(c)]
  BY <1>0, AccessIs DEF ReadLow
<1>2. /\ pc[c] = "lo" /\ Accessed(c, f) /\ UNCHANGED <<regs, lost, cut>>
      /\ IF Sends(k) = "dram" THEN Go(c, "hi", j) ELSE CommandDone(c, j, TRUE)
  BY <1>0 DEF ReadLow, Sends, CurrentCommand
<1>3. /\ k \in Job /\ Mail(k) \in Box
      /\ k.task \in DOMAIN Plan /\ k.step \in 1 .. Len(Plan[k.task])
      /\ k.id = sent /\ r.kind \notin {"power", "read"}
  BY <1>0, <1>2, SendingIs DEF Sending
<1>4. Target(c) = <<Mail(k), "arg0">>
  BY <1>0, <1>1, <1>2, TargetIs DEF Mail, Sends, CurrentCommand
<1>5. SensorsKept' /\ Mailboxes' /\ Settled' /\ TypeInv
  BY <1>2, UnwrittenKeeps DEF IInv
<1>6. v \in Value
  BY <1>0, <1>5, ReadTyped, ZeroTyped
<1>7. j \in Job
  BY <1>3, <1>6, JobUpdates
<1>8. /\ j.task = k.task /\ j.step = k.step /\ j.id = k.id
      /\ j.seen = k.seen /\ j.lo = v /\ j.hi = k.hi /\ j.own = k.own
  BY <1>3 DEF Job
<1> HIDE DEF j
<1>9. Sends(k) # "transfer" /\ (k.task = "power" => k.step = 1 /\ Sends(k) = "dram")
  BY <1>1, <1>3, PlanTyped DEF At, Sends
<1>10. ~lost => /\ k.own /\ Msg(Mail(k)) = Zero /\ Answered(k)
                /\ v \in {Zero, V("lo", k.id)}
  BY <1>0, <1>1, <1>4, <1>9 DEF ThreadInv, Order, Answered
<1>11. CASE Sends(k) = "dram" /\ Go(c, "hi", j)
  <2>1. Mail(j) = Mail(k) /\ Sends(j) = Sends(k)
    BY <1>8 DEF Mail, Sends
  <2>2. Answered(k) => Answered(j)
    BY <1>8, <2>1 DEF Answered
  <2>3. j.task = "power" => j.step # 2
    BY <1>8, <1>9
  <2>4. ~lost => j.own /\ Order("hi", j)
    BY <1>8, <1>10, <2>1, <2>2, <2>3 DEF Order
  <2>5. ThreadInv("hi", j, r)
    BY <1>3, <1>8, <2>4 DEF ThreadInv
  <2>6. ThreadInv("hi", j, r)'
    BY <1>1, <1>2, <1>11, <2>5, Unmoved DEF Go
  <2>7. QED
    BY <1>0, <1>1, <1>5, <1>11, <2>6, GoKeeps DEF Settled
<1>12. CASE Sends(k) # "dram" /\ CommandDone(c, j, TRUE)
  <2>1. j.task # "power" /\ (lost' \/ j.own)
    BY <1>2, <1>8, <1>9, <1>10, <1>12
  <2>2. QED
    BY <1>0, <1>1, <1>3, <1>5, <1>7, <1>8, <1>12, <2>1, CommandDoneKeeps
<1>13. QED
  BY <1>2, <1>11, <1>12

LEMMA ReadHighKeeps ==
  ASSUME One, IInv, TypeInv', NEW c \in Client, NEW f \in BOOLEAN, ReadHigh(c, f)
  PROVE  IInv'
<1>0. PICK k, r, v : k = job[c] /\ r = result[c] /\ v = IF f THEN Zero ELSE Read
  OBVIOUS
<1> DEFINE j == [k EXCEPT !.hi = v]
           ok == ~(j.lo = Zero /\ j.hi = Zero)
<1>1. /\ phase'[c] = "index" /\ UNCHANGED table
      /\ ThreadInv("hi", k, r) /\ At("hi", k)
      /\ ~f => Read = regs[Target(c)]
  BY <1>0, AccessIs DEF ReadHigh
<1>2. /\ pc[c] = "hi" /\ Accessed(c, f) /\ UNCHANGED <<regs, lost, cut>>
      /\ CommandDone(c, j, ok) /\ ok \in BOOLEAN
  BY <1>0 DEF ReadHigh
<1>3. /\ k \in Job /\ Mail(k) \in Box
      /\ k.task \in DOMAIN Plan /\ k.step \in 1 .. Len(Plan[k.task])
      /\ k.id = sent /\ r.kind \notin {"power", "read"}
  BY <1>0, <1>2, SendingIs DEF Sending
<1>4. Target(c) = <<Mail(k), "arg1">>
  BY <1>0, <1>1, <1>2, TargetIs DEF Mail, Sends, CurrentCommand
<1>5. SensorsKept' /\ Mailboxes' /\ Settled' /\ TypeInv
  BY <1>2, UnwrittenKeeps DEF IInv
<1>6. v \in Value
  BY <1>0, <1>5, ReadTyped, ZeroTyped
<1>7. j \in Job
  BY <1>3, <1>6, JobUpdates
<1>8. /\ j.task = k.task /\ j.step = k.step /\ j.id = k.id
      /\ j.seen = k.seen /\ j.lo = k.lo /\ j.hi = v /\ j.own = k.own
  BY <1>3 DEF Job
<1> HIDE DEF j, ok
<1>9. Sends(k) = "dram" /\ (k.task = "power" => k.step = 1)
  BY <1>1, <1>3, PlanTyped DEF At, Sends
<1>10. ~lost => /\ k.own /\ k.lo \in {Zero, V("lo", k.id)}
                /\ v \in {Zero, V("hi", k.id)}
  BY <1>0, <1>1, <1>4, <1>9 DEF ThreadInv, Order, Answered
<1>11. lost' \/ (j.own /\ (ok /\ j.task = "power" =>
                  IF j.step = 1 THEN Halves(j, j.id) ELSE Table(j)'))
  BY <1>2, <1>8, <1>9, <1>10 DEF Halves
<1>12. QED
  BY <1>0, <1>1, <1>2, <1>3, <1>5, <1>7, <1>8, <1>11, CommandDoneKeeps

LEMMA ReadTableKeeps ==
  ASSUME One, IInv, TypeInv', NEW c \in Client, NEW f \in BOOLEAN, ReadTable(c, f)
  PROVE  IInv'
<1>0. PICK k, r : k = job[c] /\ r = result[c]
  OBVIOUS
<1>1. /\ pc[c] = "phys" /\ UNCHANGED <<index, regs, table, phase, lost, cut>>
      /\ IF f THEN Finish(c, NoJob, V("failed", 0))
         ELSE Finish(c, k, V("power", k.id))
  BY <1>0 DEF ReadTable
<1>2. ThreadInv("phys", k, r) /\ Selected(c) /\ TypeInv
  BY <1>0, <1>1 DEF IInv
<1>3. phase'[c] # "data" /\ Selected(c)'
  BY <1>1, <1>2 DEF Selected
<1>4. SensorsKept' /\ Mailboxes' /\ Settled'
  BY <1>1, UnwrittenKeeps
<1>5. CASE f /\ Finish(c, NoJob, V("failed", 0))
  <2>1. ThreadInv("idle", NoJob, V("failed", 0))'
    BY NoJobTyped DEF ThreadInv, Order, Sending, V
  <2>2. QED
    BY <1>2, <1>3, <1>4, <1>5, <2>1, FinishKeeps
<1>6. CASE ~f /\ Finish(c, k, V("power", k.id))
  <2>1. ~lost => k.own /\ Table(k)
    BY <1>2 DEF ThreadInv, Order
  <2>2. ~lost' => k.own /\ Table(k)' /\ Order("idle", k)'
    BY <1>1, <2>1 DEF Table, Halves, Msg, Order, Sending
  <2>3. ThreadInv("idle", k, V("power", k.id))'
    BY <2>2 DEF ThreadInv, Sending, V
  <2>4. QED
    BY <1>2, <1>3, <1>4, <1>6, <2>3, FinishKeeps
<1>7. QED
  BY <1>1, <1>5, <1>6

\* What a reader keeps of the sensor it read says what the sensor is.
LEMMA KeptIsFaithful ==
  ASSUME IInv, NEW c \in Client, pc[c] = "sensor", Accessed(c, FALSE),
         NEW t, t = job[c].task, NEW x \in Sensor, Target(c) = <<"svi", x>>
  PROVE  Faithful(t, x, Kept(c, Read).kind)
<1>1. Read = V(IF x \in Absent THEN "absent" ELSE x, 0)
  BY AccessIs DEF IInv, SensorsKept
<1>2. Read.kind = IF x \in Absent THEN "absent" ELSE x
  BY <1>1 DEF V
<1>3. x # "absent"
  BY KindTyped
<1>4. V("none", 0).kind = "none"
  BY DEF V
<1>5. CASE x \in Absent /\ t = "ccds"
  BY <1>2, <1>4, <1>5 DEF Kept, Faithful, Separate
<1>6. CASE ~(x \in Absent /\ t = "ccds")
  BY <1>2, <1>3, <1>6 DEF Kept, Faithful
<1>7. QED
  BY <1>5, <1>6

LEMMA ReadSensorKeeps ==
  ASSUME One, IInv, TypeInv', NEW c \in Client, NEW f \in BOOLEAN, ReadSensor(c, f)
  PROVE  IInv'
<1>0. PICK k, r, t, x, v :
        /\ k = job[c] /\ r = result[c] /\ t = k.task /\ x = Sensors[t][k.step]
        /\ v = IF f THEN V("failed", 0) ELSE Kept(c, Read)
  OBVIOUS
<1> DEFINE j == [k EXCEPT !.seen[x] = v]
           n == j.step + 1
           m == [j EXCEPT !.step = n]
           over == f \/ (t \in {"core", "soc"} /\ Read.kind = "absent")
<1>1. /\ phase'[c] = "index" /\ UNCHANGED table
      /\ ThreadInv("sensor", k, r) /\ At("sensor", k) /\ k \in Job
  BY <1>0, AccessIs DEF ReadSensor
<1>2. /\ pc[c] = "sensor" /\ Accessed(c, f) /\ UNCHANGED <<regs, lost, cut>>
      /\ \/ Finish(c, NoJob, V("failed", 0))
         \/ /\ ~over \/ t \in Separate
            /\ k.step < Len(Sensors[t]) /\ Go(c, "sensor", m)
         \/ /\ ~over \/ t \in Separate
            /\ k.step = Len(Sensors[t]) /\ Finish(c, j, V("read", 0))
  BY <1>0 DEF ReadSensor
<1>3. /\ x \in Sensor /\ Target(c) = <<"svi", x>>
      /\ t \in DOMAIN Sensors /\ k.step \in 1 .. Len(Sensors[t])
  BY <1>0, <1>1, <1>2, TargetIs DEF At
<1>4. SensorsKept' /\ Mailboxes' /\ Settled' /\ TypeInv
  BY <1>2, UnwrittenKeeps DEF IInv
<1>5. ~f \/ t \in Separate => Faithful(t, x, v.kind)
  <2>1. CASE ~f
    <3>1. Accessed(c, FALSE)
      BY <1>2, <2>1
    <3>2. QED
      BY <1>0, <1>2, <1>3, <2>1, <3>1, KeptIsFaithful
  <2>2. CASE f
    BY <1>0, <2>2 DEF Faithful, V
  <2>3. QED
    BY <2>1, <2>2
<1>6. /\ j.task = t /\ j.step = k.step /\ j.seen = [k.seen EXCEPT ![x] = v]
      /\ j.own = k.own /\ k.step \in Nat /\ k.seen \in [Sensor -> Value]
  BY <1>0, <1>1 DEF Job
<1>7. m.task = t /\ m.step = n /\ m.seen = j.seen /\ m.own = k.own
  <2>1. m.task = j.task /\ m.step = n /\ m.seen = j.seen /\ m.own = j.own
    BY <1>1 DEF Job
  <2>2. QED
    BY <1>6, <2>1
<1>8. n = k.step + 1
  BY <1>6
<1>9. ~over \/ t \in Separate => ReadUpTo(j, k.step)
  <2>1. SUFFICES ASSUME ~over \/ t \in Separate, NEW i \in 1 .. k.step
                 PROVE  Faithful(t, Sensors[t][i], j.seen[Sensors[t][i]].kind)
    BY <1>6 DEF ReadUpTo
  <2>2. Sensors[t][i] \in Sensor
    BY <1>3, <1>6, SensorsTyped
  <2>3. CASE Sensors[t][i] = x
    <3>1. j.seen[Sensors[t][i]] = v
      BY <1>6, <2>2, <2>3
    <3>2. QED
      BY <1>5, <2>1, <2>3, <3>1
  <2>4. CASE Sensors[t][i] # x
    <3>1. j.seen[Sensors[t][i]] = k.seen[Sensors[t][i]]
      BY <1>6, <2>2, <2>4
    <3>2. i \in 1 .. k.step - 1
      BY <1>0, <1>6, <2>4
    <3>3. ReadUpTo(k, k.step - 1)
      BY <1>1 DEF ThreadInv
    <3>4. QED
      BY <1>0, <3>1, <3>2, <3>3 DEF ReadUpTo
  <2>5. QED
    BY <2>3, <2>4
<1>10. ReadUpTo(j, k.step) => ReadUpTo(m, k.step)
  BY <1>6, <1>7 DEF ReadUpTo
<1>11. r.kind \notin {"power", "read"} /\ (lost' \/ k.own)
  BY <1>1, <1>2 DEF ThreadInv
<1> HIDE DEF j, n, m, over
<1>12. CASE Finish(c, NoJob, V("failed", 0))
  <2>1. ThreadInv("idle", NoJob, V("failed", 0))'
    BY NoJobTyped DEF ThreadInv, Order, Sending, V
  <2>2. Selected(c)'
    BY <1>1 DEF Selected
  <2>3. QED
    BY <1>4, <1>12, <2>1, <2>2, FinishKeeps
<1>13. CASE (~over \/ t \in Separate) /\ Go(c, "sensor", m)
  <2>1. ReadUpTo(m, m.step - 1)
    BY <1>6, <1>7, <1>8, <1>9, <1>10, <1>13
  <2>2. ThreadInv("sensor", m, r)'
    BY <1>7, <1>11, <2>1 DEF ThreadInv, Order, Sending, ReadUpTo
  <2>3. QED
    BY <1>0, <1>1, <1>4, <1>13, <2>2, GoKeeps DEF Settled
<1>14. CASE /\ ~over \/ t \in Separate
            /\ k.step = Len(Sensors[t]) /\ Finish(c, j, V("read", 0))
  <2>1. ReadUpTo(j, Len(Sensors[j.task]))
    BY <1>6, <1>9, <1>14
  <2>2. ThreadInv("idle", j, V("read", 0))'
    BY <1>6, <1>11, <2>1 DEF ThreadInv, Order, Sending, V, ReadUpTo
  <2>3. Selected(c)'
    BY <1>1 DEF Selected
  <2>4. QED
    BY <1>4, <1>14, <2>2, <2>3, FinishKeeps
<1>15. QED
  BY <1>2, <1>12, <1>13, <1>14

LEMMA DieKeeps ==
  ASSUME One, IInv, TypeInv', NEW c \in Client, Die(c)
  PROVE  IInv'
<1>1. /\ phase'[c] = "index" /\ UNCHANGED <<index, regs, table, lost>>
      /\ cut' = (cut \/ pc[c] \in {"arg", "cmd"})
      /\ Finish(c, NoJob, V("none", 0))
  BY DEF Die, IInv, TypeInv, TypeOK
<1>2. SensorsKept' /\ Mailboxes'
  BY <1>1 DEF IInv, SensorsKept, Mailboxes, Rsp, Msg
<1>3. Settled'
  BY <1>1 DEF IInv, One, Busy, About, Settled, Rsp, Msg
<1>4. ThreadInv("idle", NoJob, V("none", 0))'
  BY NoJobTyped DEF ThreadInv, Order, Sending, V
<1>5. Selected(c)' /\ TypeInv
  BY <1>1 DEF Selected, IInv
<1>6. QED
  BY <1>1, <1>2, <1>3, <1>4, <1>5, FinishKeeps

LEMMA BeginKeeps ==
  ASSUME One, IInv, TypeInv', NEW c \in Client, NEW t \in DOMAIN Plan, Begin(c, t)
  PROVE  IInv'
<1> DEFINE j == [NoJob EXCEPT !.task = t]
<1>1. /\ pc[c] = "idle" /\ UNCHANGED <<index, regs, table, phase, lost, cut>>
      /\ NextCommand(c, j) /\ result' = [result EXCEPT ![c] = V("none", 0)]
  BY DEF Begin
<1>2. t \in Task
  BY DEF Task
<1>3. j \in Job /\ j.task = t /\ j.step = 0 /\ j.own
  BY <1>2, NoJobTyped DEF Job
<1> HIDE DEF j
<1>4. TypeInv /\ Selected(c)
  BY DEF IInv
<1>5. j.step < Len(Plan[j.task]) /\ j.task \in DOMAIN Plan
  BY <1>3, PlanTyped
<1>6. PICK k \in Job : /\ Moves(c, "wait", k) /\ k.step = j.step + 1
                       /\ k.id = sent + 1 /\ k.own = j.own /\ sent' = sent + 1
  BY <1>1, <1>3, <1>4, <1>5, NextCommandTyped
<1>7. pc'[c] = "wait" /\ job'[c] = k /\ result'[c] = V("none", 0)
  BY <1>1, <1>4, <1>6 DEF Moves, TypeInv, TypeOK
<1>8. k.step # 2
  BY <1>3, <1>6
<1>9. ThreadInv("wait", k, V("none", 0))'
  BY <1>3, <1>6, <1>8 DEF ThreadInv, Order, Sending, V
<1>10. Selected(c)'
  BY <1>1, <1>4 DEF Selected
<1>11. SensorsKept' /\ Mailboxes' /\ Settled'
  BY <1>1, UnwrittenKeeps
<1>12. QED
  BY <1>7, <1>9, <1>10, <1>11, ThreadKeeps DEF Settled

LEMMA BeginSensorsKeeps ==
  ASSUME One, IInv, TypeInv', NEW c \in Client, NEW t \in DOMAIN Sensors,
         BeginSensors(c, t)
  PROVE  IInv'
<1> DEFINE j == [NoJob EXCEPT !.task = t, !.step = 1]
<1>1. /\ pc[c] = "idle" /\ UNCHANGED <<index, regs, table, phase, lost, cut>>
      /\ pc' = [pc EXCEPT ![c] = "sensor"] /\ job' = [job EXCEPT ![c] = j]
      /\ result' = [result EXCEPT ![c] = V("none", 0)]
  BY DEF BeginSensors
<1>2. j.step = 1 /\ j.own
  BY NoJobTyped DEF Job
<1> HIDE DEF j
<1>3. TypeInv /\ Selected(c)
  BY DEF IInv
<1>4. pc'[c] = "sensor" /\ job'[c] = j /\ result'[c] = V("none", 0)
  BY <1>1, <1>3 DEF TypeInv, TypeOK
<1>5. ThreadInv("sensor", j, V("none", 0))'
  BY <1>2 DEF ThreadInv, Order, Sending, ReadUpTo, V
<1>6. Selected(c)'
  BY <1>1, <1>3 DEF Selected
<1>7. SensorsKept' /\ Mailboxes' /\ Settled'
  BY <1>1, UnwrittenKeeps
<1>8. QED
  BY <1>4, <1>5, <1>6, <1>7, ThreadKeeps DEF Settled

LEMMA SelectRegisterKeeps ==
  ASSUME One, IInv, TypeInv', NEW c \in Client, SelectRegister(c)
  PROVE  IInv'
<1>0. PICK l, k, r : l = pc[c] /\ k = job[c] /\ r = result[c]
  OBVIOUS
<1>1. /\ l \notin {"idle", "phys"} /\ index' = Target(c)
      /\ UNCHANGED <<regs, table, sent, pc, job, result, lost, cut>>
  BY <1>0 DEF SelectRegister
<1>2. Target(c)' = Target(c)
  BY <1>1 DEF Target, CurrentCommand
<1>3. Selected(c)'
  BY <1>0, <1>1, <1>2 DEF Selected
<1>4. SensorsKept' /\ Mailboxes'
  BY <1>1, UnwrittenKeeps
<1>5. ThreadInv(l, k, r)
  BY <1>0 DEF IInv
<1>6. ThreadInv(l, k, r)'
  BY <1>1, <1>5, Unmoved
<1>7. ~cut' => \A b \in Box : Rsp(b)' = Zero => Msg(b)' # Zero \/ About(l, k, b)
  BY <1>0, <1>1 DEF IInv, One, Busy, About, Rsp, Msg
<1>8. QED
  BY <1>0, <1>1, <1>3, <1>4, <1>6, <1>7, ThreadKeeps

\* What an answer of the firmware changes.
LEMMA AnswerIs ==
  ASSUME IInv, NEW b \in Box, NEW ok \in BOOLEAN, FirmwareAnswer(b, ok),
         NEW m, m = Msg(b)
  PROVE  /\ m # Zero /\ m.kind \in Command /\ MailboxOf(m.kind) = b
         /\ SensorsKept'
         /\ Rsp(b)' # Zero /\ Rsp(b)'.id = m.id /\ (Rsp(b)'.kind = "ok" => ok)
         /\ \A d \in Box : d # b => Rsp(d)' = Rsp(d)
         /\ \A d \in Box :
              /\ Msg(d)' = IF d = b THEN Zero ELSE Msg(d)
              /\ d # b => /\ regs'[<<d, "arg0">>] = regs[<<d, "arg0">>]
                          /\ regs'[<<d, "arg1">>] = regs[<<d, "arg1">>]
         /\ ok /\ m.kind # "transfer" => regs'[<<b, "arg0">>] = V("lo", m.id)
         /\ ok /\ m.kind = "dram" => regs'[<<b, "arg1">>] = V("hi", m.id)
         /\ table' = IF ok /\ m.kind = "transfer" THEN m.id ELSE table
         /\ UNCHANGED <<index, sent, pc, phase, job, result, lost, cut>>
<1>1. m # Zero /\ m.kind \in Command /\ MailboxOf(m.kind) = b
  BY DEF FirmwareAnswer, IInv, Mailboxes, Msg
<1> DEFINE a == V(IF ok THEN "ok" ELSE "err", m.id)
           lo == V("lo", m.id)
           hi == V("hi", m.id)
<1>2. /\ regs' = [regs EXCEPT
           ![<<b, "msg">>]  = Zero,
           ![<<b, "rsp">>]  = a,
           ![<<b, "arg0">>] = IF ok /\ m.kind # "transfer" THEN lo ELSE @,
           ![<<b, "arg1">>] = IF ok /\ m.kind = "dram" THEN hi ELSE @]
      /\ table' = IF ok /\ m.kind = "transfer" THEN m.id ELSE table
      /\ UNCHANGED <<index, sent, pc, phase, job, result, lost, cut>>
  BY DEF FirmwareAnswer, Msg
<1>3. regs \in [Reg -> Value]
  BY DEF IInv, TypeInv, TypeOK
<1>4. \A d \in Box : /\ Msg(d)' = IF d = b THEN Zero ELSE Msg(d)
                     /\ Rsp(d)' = IF d = b THEN a ELSE Rsp(d)
  BY <1>2, <1>3, RegTyped DEF Msg, Rsp
<1>5. \A d \in Box : d # b => /\ regs'[<<d, "arg0">>] = regs[<<d, "arg0">>]
                              /\ regs'[<<d, "arg1">>] = regs[<<d, "arg1">>]
  BY <1>2, <1>3, RegTyped
<1>6. /\ ok /\ m.kind # "transfer" => regs'[<<b, "arg0">>] = lo
      /\ ok /\ m.kind = "dram" => regs'[<<b, "arg1">>] = hi
  BY <1>2, <1>3, RegTyped
<1>7. \A s \in Sensor : regs'[<<"svi", s>>] = regs[<<"svi", s>>]
  BY <1>2, <1>3, RegTyped
<1>8. SensorsKept'
  BY <1>7 DEF IInv, SensorsKept
<1>9. m \in Value /\ m.id \in Nat
  BY <1>3, RegTyped DEF Msg, Value
<1>10. a # Zero /\ a.id = m.id /\ (a.kind = "ok" => ok) /\ a \in Value
  BY <1>9, ValueTyped, KindTyped, ZeroTyped
<1> HIDE DEF a, lo, hi
<1>11. Rsp(b)' = a /\ \A d \in Box : d # b => Rsp(d)' = Rsp(d)
  BY <1>4
<1>12. QED
  BY <1>1, <1>2, <1>4, <1>5, <1>6, <1>8, <1>10, <1>11 DEF lo, hi

LEMMA FirmwareAnswerKeeps ==
  ASSUME One, IInv, TypeInv', NEW b \in Box, NEW ok \in BOOLEAN, FirmwareAnswer(b, ok)
  PROVE  IInv'
<1>0. PICK m : m = Msg(b)
  OBVIOUS
<1>1. /\ m # Zero /\ m.kind \in Command /\ MailboxOf(m.kind) = b
      /\ SensorsKept'
      /\ \A d \in Box : Msg(d)' = IF d = b THEN Zero ELSE Msg(d)
      /\ table' = IF ok /\ m.kind = "transfer" THEN m.id ELSE table
      /\ UNCHANGED <<index, sent, pc, phase, job, result, lost, cut>>
  BY <1>0, AnswerIs
<1>2. /\ Rsp(b)' # Zero /\ Rsp(b)'.id = m.id /\ (Rsp(b)'.kind = "ok" => ok)
      /\ \A d \in Box : d # b => Rsp(d)' = Rsp(d)
  BY <1>0, AnswerIs
<1>3. /\ \A d \in Box : d # b =>
           /\ regs'[<<d, "arg0">>] = regs[<<d, "arg0">>]
           /\ regs'[<<d, "arg1">>] = regs[<<d, "arg1">>]
      /\ ok /\ m.kind # "transfer" => regs'[<<b, "arg0">>] = V("lo", m.id)
      /\ ok /\ m.kind = "dram" => regs'[<<b, "arg1">>] = V("hi", m.id)
  BY <1>0, AnswerIs
<1>4. Mailboxes'
  BY <1>1, <1>2 DEF IInv, Mailboxes
<1>5. ~lost => Rsp(b) = Zero
  BY <1>0, <1>1 DEF IInv, Mailboxes
<1>6. Busy'
  BY <1>1, <1>2 DEF IInv, Busy, About
<1>7. ASSUME NEW c \in Client
      PROVE  Selected(c)' /\ ThreadInv(pc[c], job[c], result[c])'
  <2>0. PICK l, k, r : l = pc[c] /\ k = job[c] /\ r = result[c]
    OBVIOUS
  <2>1. ThreadInv(l, k, r) /\ Selected(c)
    BY <2>0 DEF IInv
  <2>2. Selected(c)'
    BY <1>1, <2>1 DEF Selected, Target, CurrentCommand
  <2>3. Table(k) => Table(k)'
    <3>1. SUFFICES ASSUME Table(k) PROVE Table(k)'
      OBVIOUS
    <3>2. b # "rsmu" /\ "rsmu" \in Box
      BY <1>0, <1>1, <3>1 DEF Table, Box
    <3>3. m.kind # "transfer"
      BY <1>1, <3>2 DEF MailboxOf
    <3>4. QED
      BY <1>1, <3>1, <3>2, <3>3 DEF Table, Halves
  <2>4. l \in Sending => Mail(k) \in Box /\ Sends(k) \in Command
    BY <2>0, SendingIs
  <2>5. l \in Sending /\ Mail(k) # b /\ Answered(k) => Answered(k)'
    <3>1. Mail(k) # b /\ Sends(k) = "transfer" => m.kind # "transfer"
      BY <1>1 DEF Mail
    <3>2. QED
      BY <1>1, <1>3, <2>4, <3>1 DEF Answered
  <2>6. Mail(k) = b /\ ok /\ m = V(Sends(k), k.id) => Answered(k)'
    <3>1. m = V(Sends(k), k.id) => m.kind = Sends(k) /\ m.id = k.id
      BY DEF V
    <3>2. QED
      BY <1>1, <1>3, <3>1 DEF Answered
  <2>7. ASSUME ~lost, Order(l, k) PROVE Order(l, k)'
    <3>1. l \in Sending /\ Mail(k) # b =>
            Rsp(Mail(k))' = Rsp(Mail(k)) /\ Msg(Mail(k))' = Msg(Mail(k))
      BY <1>1, <1>2, <2>4
    <3>2. Mail(k) = b => Rsp(Mail(k))' = Rsp(b)' /\ Msg(Mail(k))' = Zero
      BY <1>1, <1>2
    <3>3. l = "clear" => Rsp(Mail(k))' # Zero
      BY <1>2, <2>7, <3>1, <3>2 DEF Order, Sending
    <3>4. l \in {"arg", "cmd"} => Rsp(Mail(k))' = Zero /\ Msg(Mail(k))' = Zero
      BY <1>0, <1>1, <2>7, <3>1 DEF Order, Sending
    <3>5. l \in {"lo", "hi"} => Msg(Mail(k))' = Zero /\ Answered(k)'
      BY <1>0, <1>1, <2>5, <2>7, <3>1 DEF Order, Sending
    <3>6. ASSUME l = "poll"
          PROVE  \/ Rsp(Mail(k))' = Zero /\ Msg(Mail(k))' = V(Sends(k), k.id)
                 \/ /\ Rsp(Mail(k))' # Zero /\ Msg(Mail(k))' = Zero
                    /\ Rsp(Mail(k))'.id = k.id
                    /\ Rsp(Mail(k))'.kind = "ok" => Answered(k)'
      <4>1. CASE Mail(k) = b
        <5>1. m = V(Sends(k), k.id)
          BY <1>0, <1>1, <2>7, <3>6, <4>1 DEF Order
        <5>2. m.id = k.id
          BY <5>1 DEF V
        <5>3. QED
          BY <1>2, <2>6, <3>2, <4>1, <5>1, <5>2
      <4>2. CASE Mail(k) # b
        BY <2>5, <2>7, <3>1, <3>6, <4>2 DEF Order, Sending
      <4>3. QED
        BY <4>1, <4>2
    <3>7. QED
      BY <2>3, <2>7, <3>3, <3>4, <3>5, <3>6 DEF Order, Halves
  <2>8. ThreadInv(l, k, r)'
    BY <1>1, <2>1, <2>3, <2>7 DEF ThreadInv, ReadUpTo
  <2>9. QED
    BY <1>1, <2>0, <2>2, <2>8 DEF ThreadInv
<1>8. QED
  BY <1>1, <1>4, <1>6, <1>7 DEF IInv

LEMMA IInvInit == Init => IInv
<1> SUFFICES ASSUME Init PROVE IInv
  OBVIOUS
<1>1. TypeInv
  BY TypeInvInit
<1>2. SensorsKept
  BY RegTyped DEF Init, SensorsKept
<1>3. \A b \in Box : Rsp(b) = V("ok", 0) /\ Msg(b) = Zero
  BY RegTyped DEF Init, Rsp, Msg
<1>4. V("ok", 0) # Zero
  BY DEF V, Zero
<1>5. Mailboxes /\ Busy
  BY <1>3, <1>4 DEF Mailboxes, Busy
<1>6. ASSUME NEW c \in Client
      PROVE  Selected(c) /\ ThreadInv(pc[c], job[c], result[c])
  <2>1. pc[c] = "idle" /\ job[c] = NoJob /\ result[c] = V("none", 0) /\ phase[c] = "index"
    BY DEF Init
  <2>2. ThreadInv("idle", NoJob, V("none", 0))
    BY NoJobTyped DEF ThreadInv, Order, Sending, V
  <2>3. QED
    BY <2>1, <2>2 DEF Selected
<1>7. QED
  BY <1>1, <1>2, <1>5, <1>6 DEF IInv

LEMMA IInvNext == One /\ IInv /\ [Next]_vars => IInv'
<1> SUFFICES ASSUME One, IInv, [Next]_vars PROVE IInv'
  OBVIOUS
<1>0. TypeInv'
  BY TypeInvNext DEF IInv
<1>1. ASSUME NEW c \in Client, Work(c) PROVE IInv'
  BY <1>0, <1>1, SelectRegisterKeeps, WaitReadyKeeps, ClearResponseKeeps,
     WriteArgumentKeeps, WriteCommandKeeps, PollResponseKeeps, ReadLowKeeps,
     ReadHighKeeps, ReadTableKeeps, ReadSensorKeeps DEF Work, Access
<1>2. ASSUME NEW c \in Client, NEW t \in DOMAIN Plan, Begin(c, t) PROVE IInv'
  BY <1>0, <1>2, BeginKeeps
<1>3. ASSUME NEW c \in Client, NEW t \in DOMAIN Sensors, BeginSensors(c, t)
      PROVE IInv'
  BY <1>0, <1>3, BeginSensorsKeeps
<1>4. ASSUME NEW c \in Client, Die(c) PROVE IInv'
  BY <1>0, <1>4, DieKeeps
<1>5. ASSUME NEW b \in Box, NEW ok \in BOOLEAN, FirmwareAnswer(b, ok) PROVE IInv'
  BY <1>0, <1>5, FirmwareAnswerKeeps
<1>6. CASE UNCHANGED vars
  <2>1. SensorsKept' /\ Mailboxes' /\ Busy'
    BY <1>6 DEF vars, IInv, SensorsKept, Mailboxes, Busy, About, Rsp, Msg
  <2>2. ASSUME NEW c \in Client
        PROVE  Selected(c)' /\ ThreadInv(pc[c], job[c], result[c])'
    <3>1. PICK l, k, r : l = pc[c] /\ k = job[c] /\ r = result[c]
      OBVIOUS
    <3>2. ThreadInv(l, k, r)'
      BY <1>6, <3>1, Unmoved DEF vars, IInv
    <3>3. Selected(c)'
      BY <1>6 DEF vars, IInv, Selected, Target, CurrentCommand
    <3>4. QED
      BY <1>6, <3>1, <3>2, <3>3 DEF vars, ThreadInv
  <2>3. QED
    BY <1>0, <2>1, <2>2 DEF IInv
<1>7. QED
  BY <1>1, <1>2, <1>3, <1>4, <1>5, <1>6 DEF Next

LEMMA IInvHolds == One => (Spec => []IInv)
<1>1. ASSUME One PROVE IInv /\ [Next]_vars => IInv'
  BY <1>1, IInvNext
<1>2. ASSUME One PROVE Spec => []IInv
  BY <1>1, <1>2, IInvInit, PTL DEF Spec
<1>3. QED
  BY <1>2

-----------------------------------------------------------------------------
(* The theorems. *)

\* A response that the one thread takes for success answers the command it
\* sent, however late the firmware answers and whichever calls fail, as long
\* as no clearing of a response was lost.
THEOREM AnswersOwn == One => (Spec => []AnswerIsOwn)
<1>1. QED
  BY IInvHolds, AnswerFollows, PTL

\* The power it returns comes from the table its own transfer wrote, at an
\* address of its own.
THEOREM PowersFresh == One => (Spec => []PowerIsFresh)
<1>1. QED
  BY IInvHolds, PowerFollows, PTL

\* Only a command abandoned between the clearing of its response and its
\* sending leaves a mailbox that never gets ready again.
THEOREM WedgedByCut == One => (Spec => []WedgedOnlyByCut)
<1>1. QED
  BY IInvHolds, WedgeFollows, PTL

\* Every sensor it returns has that sensor's own content, for any number of
\* dies and any set of them absent.
THEOREM SensorsFaithful == One => (Spec => []SensorsOwn)
<1>1. QED
  BY IInvHolds, SensorsFollow, PTL
=============================================================================
