--------------------------------- MODULE Ec ---------------------------------
(***************************************************************************)
(* Sensors of the ACPI embedded controller (src/motherboard/ec.c).         *)
(*                                                                         *)
(* The controller is behind two ports.  A byte written to either fills its *)
(* input buffer (status bit IBF) until it takes the byte; an answer fills  *)
(* its output buffer (OBF) until the data port is read.  A read of a       *)
(* register is a command byte, the register's number and the answer; every *)
(* wait gives up after a time, and the controller may answer later.        *)
(*                                                                         *)
(* A value is a pair of the register it came from and the generation of    *)
(* the register's content.  Every action of the library is one port access *)
(* with the code up to the next.                                           *)
(***************************************************************************)
EXTENDS Naturals, Sequences

CONSTANTS
  Register,      \* the registers of the controller
  Fields,        \* the fields of ec_result_t in the order they are read:
                 \* the registers of each, one for a byte, two for a word
  Faulty,        \* may a port access fail, or the process die in a call?
  MaxChanges     \* bound: times the contents of the registers change

ASSUME RegisterAssumption == {"nothing", "address"} \cap Register = {}
ASSUME FieldsAssumption == Fields \in Seq(Seq(Register) \ {<< >>}) /\ Fields # << >>
ASSUME FaultyAssumption == Faulty \in BOOLEAN
ASSUME BoundAssumption == MaxChanges \in Nat

Read == "read"   \* the command byte EC_CMD_READ

Value == Register \X (0 .. MaxChanges)

None == << >>

VARIABLES
  ibf,      \* the byte in the input buffer: None, or <<port, byte>>
  obf,      \* the value in the output buffer, or None
  asked,    \* what the controller is at: "nothing", "address" when it has a
            \* command, or the register it is to answer with
  content,  \* the generation of the registers' contents
  pc,       \* the port access the library is at
  field,    \* the field in turn
  got,      \* the bytes read of it
  result,   \* per field: the bytes it was computed from, or why none
  ok,       \* the result's ok: "none" while there is no result
  began,    \* history: the generation of the contents when the call began
  cut       \* history: some handshake was given up after its command byte

vars == <<ibf, obf, asked, content, pc, field, got, result, ok, began, cut>>

library == <<pc, field, got, result, ok, began, cut>>

Location == {"idle", "probe", "ibf_command", "command", "ibf_address",
             "address", "obf", "data"}

Outcome == [state : {"none", "failed", "read"}, bytes : Seq(Value)]

TypeOK ==
  /\ ibf \in {None} \cup ({"cmd"} \X {Read}) \cup ({"data"} \X Register)
  /\ obf \in {None} \cup Value
  /\ asked \in {"nothing", "address"} \cup Register
  /\ content \in 0 .. MaxChanges
  /\ pc \in Location
  /\ field \in 1 .. Len(Fields)
  /\ got \in Seq(Value) /\ Len(got) < Len(Fields[field])
  /\ result \in [1 .. Len(Fields) -> Outcome]
  /\ ok \in {"none", "yes", "no"}
  /\ began \in 0 .. content
  /\ cut \in BOOLEAN

Blank == [state |-> "none", bytes |-> << >>]
Failed == [state |-> "failed", bytes |-> << >>]

Init ==
  /\ ibf = None
  /\ obf = None
  /\ asked = "nothing"
  /\ content = 0
  /\ pc = "idle"
  /\ field = 1
  /\ got = << >>
  /\ result = [i \in 1 .. Len(Fields) |-> Blank]
  /\ ok = "none"
  /\ began = 0
  /\ cut = FALSE

-----------------------------------------------------------------------------
(* The controller. *)

\* It takes the byte in the input buffer, unless it is at an answer: a read
\* command, the number of a register after one, or a number out of place.
Take ==
  /\ ibf # None
  /\ asked \in {"nothing", "address"}
  /\ ibf' = None
  /\ asked' = IF ibf[1] = "cmd" THEN "address"
              ELSE IF asked = "address" THEN ibf[2] ELSE "nothing"
  /\ UNCHANGED <<obf, content>> /\ UNCHANGED library

\* It answers, over an answer that nobody has read.
Answer ==
  /\ asked \in Register
  /\ obf' = <<asked, content>>
  /\ asked' = "nothing"
  /\ UNCHANGED <<ibf, content>> /\ UNCHANGED library

\* A fan turns faster, a temperature rises.
Change ==
  /\ content < MaxChanges
  /\ content' = content + 1
  /\ UNCHANGED <<ibf, obf, asked>> /\ UNCHANGED library

-----------------------------------------------------------------------------
(* The library. *)

Controller == UNCHANGED <<ibf, obf, asked, content>>

Go(l) == pc' = l /\ UNCHANGED <<field, got, result, ok, began>>

\* Mutant: the bytes read of a field stay when it fails.
FieldDoneKeeps(outcome) ==
  /\ result' = [result EXCEPT ![field] = outcome]
  /\ got' = IF outcome = Failed THEN got ELSE << >>
  /\ UNCHANGED began
  /\ IF field < Len(Fields)
     THEN field' = field + 1 /\ pc' = "ibf_command" /\ UNCHANGED ok
     ELSE field' = 1 /\ pc' = "idle" /\ ok' = "yes"

\* Mutant: the first field that fails ends the call with the fields so far.
FieldDoneStops(outcome) ==
  /\ result' = [result EXCEPT ![field] = outcome]
  /\ got' = << >>
  /\ UNCHANGED began
  /\ IF field < Len(Fields) /\ outcome # Failed
     THEN field' = field + 1 /\ pc' = "ibf_command" /\ UNCHANGED ok
     ELSE field' = 1 /\ pc' = "idle" /\ ok' = "yes"

\* The field in turn is known, or failed: on to the next one.  The result is
\* ok when all fields have been gone through, whatever came of them.
FieldDone(outcome) ==
  /\ result' = [result EXCEPT ![field] = outcome]
  /\ got' = << >>
  /\ UNCHANGED began
  /\ IF field < Len(Fields)
     THEN field' = field + 1 /\ pc' = "ibf_command" /\ UNCHANGED ok
     ELSE field' = 1 /\ pc' = "idle" /\ ok' = "yes"

\* ec_read_reg fails, and with it the field.
GiveUp ==
  /\ FieldDone(Failed)
  /\ cut' = (cut \/ pc \in {"ibf_address", "address", "obf", "data"})

\* ec_read_all_sensors.
Begin ==
  /\ pc = "idle"
  /\ pc' = "probe"
  /\ result' = [i \in 1 .. Len(Fields) |-> Blank]
  /\ ok' = "none"
  /\ began' = content
  /\ Controller /\ UNCHANGED <<field, got, cut>>

\* ec_is_available: (f) the status cannot be read, or is all ones for there is
\* no controller.
Probe(f) ==
  /\ pc = "probe"
  /\ f => Faulty
  /\ \/ /\ f
        /\ pc' = "idle" /\ ok' = "no" /\ UNCHANGED <<field, got, result, began>>
     \/ /\ ~f
        /\ Go("ibf_command")
  /\ Controller /\ UNCHANGED cut

\* Mutant: the wait for the controller to take the command is left out.
WaitDoneOnce ==
  /\ \/ pc = "ibf_command" /\ ibf = None /\ Go("command")
     \/ pc = "ibf_address" /\ Go("address")
     \/ pc = "obf" /\ obf # None /\ Go("data")
  /\ Controller /\ UNCHANGED cut

\* ec_wait_ibf, ec_wait_obf: the condition holds when the status is read.
WaitDone ==
  /\ \/ pc = "ibf_command" /\ ibf = None /\ Go("command")
     \/ pc = "ibf_address" /\ ibf = None /\ Go("address")
     \/ pc = "obf" /\ obf # None /\ Go("data")
  /\ Controller /\ UNCHANGED cut

\* The wait is over without it: the time is up, or the status cannot be read.
WaitFails(f) ==
  /\ pc \in {"ibf_command", "ibf_address", "obf"}
  /\ f => Faulty
  /\ GiveUp
  /\ Controller

\* Mutant: the low byte of a word is read twice.
WriteByteAgain(f) ==
  /\ pc \in {"command", "address"}
  /\ f => Faulty
  /\ \/ /\ f /\ GiveUp /\ UNCHANGED ibf
     \/ /\ ~f
        /\ ibf' = IF pc = "command" THEN <<"cmd", Read>>
                  ELSE <<"data", Fields[field][1]>>
        /\ Go(IF pc = "command" THEN "ibf_address" ELSE "obf")
        /\ UNCHANGED cut
  /\ UNCHANGED <<obf, asked, content>>

\* A write to a port, which (f) may fail.
WriteByte(f) ==
  /\ pc \in {"command", "address"}
  /\ f => Faulty
  /\ \/ /\ f /\ GiveUp /\ UNCHANGED ibf
     \/ /\ ~f
        /\ ibf' = IF pc = "command" THEN <<"cmd", Read>>
                  ELSE <<"data", Fields[field][Len(got) + 1]>>
        /\ Go(IF pc = "command" THEN "ibf_address" ELSE "obf")
        /\ UNCHANGED cut
  /\ UNCHANGED <<obf, asked, content>>

\* The read of the data port empties the output buffer.  A word goes on with
\* its high byte.
ReadData(f) ==
  /\ pc = "data"
  /\ f => Faulty
  /\ \/ /\ f /\ GiveUp /\ UNCHANGED obf
     \/ /\ ~f
        /\ obf' = None
        /\ LET bytes == Append(got, obf)
           IN  IF Len(bytes) < Len(Fields[field])
               THEN /\ pc' = "ibf_command" /\ got' = bytes
                    /\ UNCHANGED <<field, result, ok, began>>
               ELSE FieldDone([state |-> "read", bytes |-> bytes])
        /\ UNCHANGED cut
  /\ UNCHANGED <<ibf, asked, content>>

\* The process is killed inside the call; a new one takes over.
Die ==
  /\ Faulty
  /\ pc # "idle"
  /\ pc' = "idle" /\ field' = 1 /\ got' = << >>
  /\ result' = [i \in 1 .. Len(Fields) |-> Blank]
  /\ ok' = "none"
  /\ cut' = (cut \/ pc \in {"ibf_address", "address", "obf", "data"})
  /\ Controller /\ UNCHANGED began

Work ==
  \/ WaitDone
  \/ \E f \in BOOLEAN : Probe(f) \/ WaitFails(f) \/ WriteByte(f) \/ ReadData(f)

Next == Take \/ Answer \/ Change \/ Begin \/ Work \/ Die

Spec == Init /\ [][Next]_vars

-----------------------------------------------------------------------------
(* Properties. *)

\* ec.c: "Reads fan speeds, voltages, and temperatures from EC registers":
\* the bytes of a field come from the registers of that field.
ValueIsOwn ==
  \A i \in 1 .. Len(Fields) :
    result[i].state = "read" =>
      [j \in 1 .. Len(result[i].bytes) |-> result[i].bytes[j][1]] = Fields[i]

\* They do, and are no older than the call, for as long as no handshake has
\* been given up halfway.
OwnUnlessCut ==
  ~cut =>
    /\ ValueIsOwn
    /\ \A i \in 1 .. Len(Fields) : \A j \in 1 .. Len(result[i].bytes) :
         result[i].bytes[j][2] >= began

\* The library never writes over a byte that the controller has not taken,
\* also after waits that were given up.
NeverOverruns == [][ibf # None => ibf' \in {ibf, None}]_vars

\* A result that is ok has been through every field: one that cannot be read
\* does not keep the fields after it from being read.
ResultComplete ==
  ok = "yes" => \A i \in 1 .. Len(Fields) : result[i].state # "none"
=============================================================================
