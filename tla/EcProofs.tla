------------------------------ MODULE EcProofs ------------------------------
(***************************************************************************)
(* Proofs about Ec: the type invariant, OwnUnlessCut, ResultComplete and   *)
(* NeverOverruns, for every controller, list of fields and bound.          *)
(***************************************************************************)
EXTENDS Ec, SequenceTheorems, TLAPS

USE RegisterAssumption, FieldsAssumption, FaultyAssumption, BoundAssumption

-----------------------------------------------------------------------------
(* The inductive invariant. *)

Between == {"idle", "probe"}

\* The register whose byte is read next.
Wanted == Fields[field][Len(got) + 1]

\* A byte that field i may be computed from, as its j-th.
OwnByte(v, i, j) == v[1] = Fields[i][j] /\ v[2] >= began

\* Between two calls no field is begun.
Fresh == pc \in Between => field = 1 /\ got = << >>

\* What a wait saw stays so: nobody else fills the input buffer, and nobody
\* else empties the output buffer.
Clear ==
  /\ pc \in {"command", "address"} => ibf = None
  /\ pc = "data" => obf # None

\* How far the controller can be, for where the library is.
CommandSent == ibf = <<"cmd", Read>> /\ asked = "nothing"
CommandTaken == ibf = None /\ asked = "address"
AddressSent == ibf = <<"data", Wanted>> /\ asked = "address" /\ obf = None
AddressTaken == ibf = None /\ asked = Wanted /\ obf = None
Answered ==
  /\ ibf = None /\ asked = "nothing"
  /\ obf # None /\ obf[1] = Wanted /\ obf[2] >= began

InStep ==
  /\ pc \in {"idle", "probe", "ibf_command", "command"}
       => ibf = None /\ asked = "nothing" /\ obf = None
  /\ pc = "ibf_address" => obf = None /\ (CommandSent \/ CommandTaken)
  /\ pc = "address" => obf = None /\ CommandTaken
  /\ pc = "obf" => AddressSent \/ AddressTaken \/ Answered
  /\ pc = "data" => Answered

GotOwn == \A j \in 1 .. Len(got) : OwnByte(got[j], field, j)

ResultOwn ==
  \A i \in 1 .. Len(Fields) :
    /\ result[i].state = "read" => Len(result[i].bytes) = Len(Fields[i])
    /\ \A j \in 1 .. Len(result[i].bytes) : OwnByte(result[i].bytes[j], i, j)

\* The fields before the one in turn have been gone through.
Covered ==
  /\ ok = "yes" => pc = "idle" /\ \A i \in 1 .. Len(Fields) : result[i].state # "none"
  /\ \A i \in 1 .. field - 1 : result[i].state # "none"

IInv ==
  /\ TypeOK
  /\ Fresh
  /\ Clear
  /\ ~cut => InStep /\ GotOwn /\ ResultOwn
  /\ Covered

-----------------------------------------------------------------------------
(* Lemmas. *)

\* Every field has registers, one or more.
LEMMA FieldsTyped ==
  /\ Len(Fields) \in Nat \ {0}
  /\ \A i \in 1 .. Len(Fields) :
       Fields[i] \in Seq(Register) /\ Len(Fields[i]) \in Nat \ {0}
<1>1. Fields \in Seq(Seq(Register) \ {<< >>})
  OBVIOUS
<1>2. Len(Fields) \in Nat /\ Len(Fields) # 0
  BY <1>1, EmptySeq
<1>3. ASSUME NEW i \in 1 .. Len(Fields)
      PROVE  Fields[i] \in Seq(Register) /\ Len(Fields[i]) \in Nat \ {0}
  <2>1. Fields[i] \in Seq(Register) \ {<< >>}
    BY <1>1, ElementOfSeq
  <2> QED
    BY <2>1, EmptySeq
<1> QED
  BY <1>2, <1>3

\* The register wanted next is one of the controller's.
LEMMA WantedTyped ==
  ASSUME TypeOK
  PROVE  Wanted \in Register
<1>1. Fields[field] \in Seq(Register) /\ Len(got) + 1 \in 1 .. Len(Fields[field])
  BY FieldsTyped DEF TypeOK
<1> QED
  BY <1>1, ElementOfSeq DEF Wanted

\* On to the next field, or to the end of the call.
LEMMA FieldDoneStep ==
  ASSUME TypeOK, Covered, pc # "idle", NEW o \in Outcome, o.state # "none", FieldDone(o)
  PROVE  /\ field' \in 1 .. Len(Fields) /\ got' = << >>
         /\ result' \in [1 .. Len(Fields) -> Outcome]
         /\ result'[field] = o
         /\ \A i \in 1 .. Len(Fields) : i # field => result'[i] = result[i]
         /\ ok' \in {"none", "yes", "no"} /\ began' = began
         /\ pc' \in {"idle", "ibf_command"} /\ (pc' = "idle" => field' = 1)
         /\ Covered'
<1>1. /\ result' \in [1 .. Len(Fields) -> Outcome]
      /\ result'[field] = o
      /\ \A i \in 1 .. Len(Fields) : i # field => result'[i] = result[i]
  BY DEF TypeOK, FieldDone
<1>2. field \in 1 .. Len(Fields) /\ Len(Fields) \in Nat \ {0}
  BY FieldsTyped DEF TypeOK
<1>3. got' = << >> /\ began' = began
  BY DEF FieldDone
<1>4. CASE field < Len(Fields)
  <2>1. field' = field + 1 /\ pc' = "ibf_command" /\ ok' = ok
    BY <1>4 DEF FieldDone
  <2>2. ok # "yes"
    BY DEF Covered
  <2>3. ASSUME NEW i \in 1 .. field' - 1  PROVE result'[i].state # "none"
    <3>1. i \in 1 .. Len(Fields) /\ (i = field \/ i \in 1 .. field - 1)
      BY <1>2, <2>1
    <3>2. CASE i = field
      BY <1>1, <3>2
    <3>3. CASE i # field
      BY <1>1, <3>1, <3>3 DEF Covered
    <3> QED
      BY <3>2, <3>3
  <2>4. Covered'
    BY <2>1, <2>2, <2>3 DEF Covered
  <2> QED
    BY <1>1, <1>2, <1>3, <1>4, <2>1, <2>4 DEF TypeOK
<1>5. CASE ~(field < Len(Fields))
  <2>1. field' = 1 /\ pc' = "idle" /\ ok' = "yes"
    BY <1>5 DEF FieldDone
  <2>2. \A i \in 1 .. Len(Fields) : result'[i].state # "none"
    BY <1>1, <1>2, <1>5 DEF Covered
  <2>3. \A i \in 1 .. field' - 1 : result'[i].state # "none"
    BY <2>1
  <2>4. Covered'
    BY <2>1, <2>2, <2>3 DEF Covered
  <2> QED
    BY <1>1, <1>2, <1>3, <2>1, <2>4
<1> QED
  BY <1>4, <1>5

\* No byte read of a field yet leaves room for its first.
LEMMA NoneGot ==
  ASSUME NEW i \in 1 .. Len(Fields)
  PROVE  << >> \in Seq(Value) /\ Len(<< >>) < Len(Fields[i])
BY FieldsTyped, EmptySeq

\* A field that fails has no bytes.
LEMMA FailedTyped == Failed \in Outcome /\ Failed.state = "failed" /\ Failed.bytes = << >>
BY DEF Failed, Outcome

LEMMA BlankTyped == Blank \in Outcome /\ Blank.state = "none" /\ Blank.bytes = << >>
BY DEF Blank, Outcome

\* A register is given up.
LEMMA GiveUpStep ==
  ASSUME IInv, GiveUp, UNCHANGED <<ibf, obf, asked, content>>,
         pc \in {"ibf_command", "command", "ibf_address", "address", "obf", "data"}
  PROVE  IInv'
<1>1. FieldDone(Failed) /\ TypeOK /\ Covered
  BY DEF GiveUp, IInv
<1>2. /\ field' \in 1 .. Len(Fields) /\ got' = << >>
      /\ result' \in [1 .. Len(Fields) -> Outcome]
      /\ result'[field] = Failed
      /\ \A i \in 1 .. Len(Fields) : i # field => result'[i] = result[i]
      /\ ok' \in {"none", "yes", "no"} /\ began' = began
      /\ pc' \in {"idle", "ibf_command"} /\ (pc' = "idle" => field' = 1)
      /\ Covered'
  BY <1>1, FieldDoneStep, FailedTyped
<1>3. cut' \in BOOLEAN /\ (~cut' => ~cut /\ pc \in {"ibf_command", "command"})
  BY DEF GiveUp, IInv, TypeOK
<1>4. got' \in Seq(Value) /\ Len(got') < Len(Fields[field'])
  BY <1>2, NoneGot
<1>5. TypeOK'
  BY <1>2, <1>3, <1>4 DEF IInv, TypeOK, Location
<1>6. Fresh' /\ Clear'
  BY <1>2 DEF Fresh, Clear, Between
<1>7. ASSUME ~cut'  PROVE InStep' /\ GotOwn' /\ ResultOwn'
  <2>1. InStep'
    BY <1>2, <1>3, <1>7 DEF IInv, InStep
  <2>2. GotOwn'
    BY <1>2, EmptySeq DEF GotOwn
  <2>3. ASSUME NEW i \in 1 .. Len(Fields)
        PROVE  /\ result'[i].state = "read" => Len(result'[i].bytes) = Len(Fields[i])
               /\ \A j \in 1 .. Len(result'[i].bytes) : OwnByte(result[i].bytes[j], i, j)'
    <3>1. CASE i = field
      BY <1>2, <3>1, FailedTyped, EmptySeq
    <3>2. CASE i # field
      BY <1>2, <1>3, <1>7, <3>2 DEF IInv, ResultOwn, OwnByte
    <3> QED
      BY <3>1, <3>2
  <2> QED
    BY <2>1, <2>2, <2>3 DEF ResultOwn
<1> QED
  BY <1>2, <1>5, <1>6, <1>7 DEF IInv

-----------------------------------------------------------------------------
(* The invariant, action by action. *)

LEMMA InitIInv == Init => IInv
<1> SUFFICES ASSUME Init  PROVE IInv
  OBVIOUS
<1>1. result = [i \in 1 .. Len(Fields) |-> Blank] /\ got = << >> /\ field = 1
  BY DEF Init
<1>2. TypeOK
  <2>1. field \in 1 .. Len(Fields) /\ got \in Seq(Value) /\ Len(got) < Len(Fields[field])
    BY <1>1, FieldsTyped, NoneGot
  <2>2. result \in [1 .. Len(Fields) -> Outcome]
    BY <1>1, BlankTyped
  <2>3. ibf = None /\ obf = None /\ asked = "nothing" /\ pc = "idle" /\ ok = "none"
    BY DEF Init
  <2>4. content = 0 /\ began = 0
    BY DEF Init
  <2>5. content \in 0 .. MaxChanges /\ began \in 0 .. content
    BY <2>4
  <2>6. cut \in BOOLEAN
    BY DEF Init
  <2> QED
    BY <2>1, <2>2, <2>3, <2>5, <2>6 DEF TypeOK, Location
<1>3. Fresh /\ Clear /\ InStep /\ GotOwn
  BY EmptySeq DEF Init, Fresh, Clear, InStep, GotOwn, Between
<1>4. ResultOwn /\ Covered
  BY <1>1, BlankTyped, EmptySeq DEF Init, ResultOwn, Covered
<1> QED
  BY <1>2, <1>3, <1>4 DEF IInv

LEMMA TakeKeeps == IInv /\ Take => IInv'
<1> SUFFICES ASSUME IInv, Take  PROVE IInv'
  OBVIOUS
<1>1. /\ UNCHANGED <<obf, content, pc, field, got, result, ok, began, cut>>
      /\ ibf # None /\ ibf' = None /\ asked \in {"nothing", "address"}
  BY DEF Take, library
<1>2. CASE ibf = <<"cmd", Read>>
  <2>1. asked' = "address"
    BY <1>2 DEF Take
  <2>2. TypeOK'
    BY <1>1, <2>1 DEF IInv, TypeOK
  <2>3. ~cut' => InStep'
    BY <1>1, <1>2, <2>1 DEF IInv, InStep, CommandSent, CommandTaken, AddressSent,
                            AddressTaken, Answered
  <2> QED
    BY <1>1, <2>2, <2>3 DEF IInv, Fresh, Clear, GotOwn, ResultOwn, OwnByte, Covered
<1>3. CASE ibf # <<"cmd", Read>>
  <2>1. ibf \in {"data"} \X Register
    BY <1>1, <1>3 DEF IInv, TypeOK
  <2>2. ibf[1] = "data" /\ ibf[2] \in Register
    BY <2>1
  <2>3. asked' = IF asked = "address" THEN ibf[2] ELSE "nothing"
    BY <2>2 DEF Take
  <2>4. TypeOK'
    BY <1>1, <2>2, <2>3 DEF IInv, TypeOK
  <2>5. ~cut' => InStep'
    BY <1>1, <1>3, <2>2, <2>3 DEF IInv, InStep, CommandSent, CommandTaken, AddressSent,
                                  AddressTaken, Answered, Wanted
  <2> QED
    BY <1>1, <2>4, <2>5 DEF IInv, Fresh, Clear, GotOwn, ResultOwn, OwnByte, Covered
<1> QED
  BY <1>2, <1>3

LEMMA AnswerKeeps == IInv /\ Answer => IInv'
<1> SUFFICES ASSUME IInv, Answer  PROVE IInv'
  OBVIOUS
<1>1. /\ UNCHANGED <<ibf, content, pc, field, got, result, ok, began, cut>>
      /\ asked \in Register /\ asked' = "nothing" /\ obf' = <<asked, content>>
  BY DEF Answer, library
<1>2. asked # "nothing" /\ asked # "address"
  BY <1>1
<1>3. obf' \in Value /\ obf'[1] = asked /\ obf'[2] = content
  BY <1>1 DEF IInv, TypeOK, Value
<1>4. TypeOK'
  BY <1>1, <1>3 DEF IInv, TypeOK
<1>5. obf' # None /\ content >= began
  BY <1>1 DEF IInv, TypeOK, None
<1>6. ~cut' => InStep'
  BY <1>1, <1>2, <1>3, <1>5 DEF IInv, InStep, CommandSent, CommandTaken, AddressSent,
                                AddressTaken, Answered, Wanted
<1> QED
  BY <1>1, <1>4, <1>5, <1>6 DEF IInv, Fresh, Clear, GotOwn, ResultOwn, OwnByte, Covered

LEMMA ChangeKeeps == IInv /\ Change => IInv'
<1> SUFFICES ASSUME IInv, Change  PROVE IInv'
  OBVIOUS
<1>1. /\ UNCHANGED <<ibf, obf, asked, pc, field, got, result, ok, began, cut>>
      /\ content < MaxChanges /\ content' = content + 1
  BY DEF Change, library
<1>2. content' \in 0 .. MaxChanges /\ began' \in 0 .. content'
  BY <1>1 DEF IInv, TypeOK
<1>3. TypeOK'
  BY <1>1, <1>2 DEF IInv, TypeOK
<1>4. ~cut' => InStep'
  BY <1>1 DEF IInv, InStep, CommandSent, CommandTaken, AddressSent,
              AddressTaken, Answered, Wanted
<1> QED
  BY <1>1, <1>3, <1>4 DEF IInv, Fresh, Clear, GotOwn, ResultOwn, OwnByte, Covered

LEMMA BeginKeeps == IInv /\ Begin => IInv'
<1> SUFFICES ASSUME IInv, Begin  PROVE IInv'
  OBVIOUS
<1>1. /\ UNCHANGED <<ibf, obf, asked, content, field, got, cut>>
      /\ pc = "idle" /\ pc' = "probe" /\ ok' = "none" /\ began' = content
      /\ result' = [i \in 1 .. Len(Fields) |-> Blank]
  BY DEF Begin, Controller
<1>2. result' \in [1 .. Len(Fields) -> Outcome]
  BY <1>1, BlankTyped
<1>3. content \in Nat /\ began' \in 0 .. content'
  BY <1>1 DEF IInv, TypeOK
<1>4. TypeOK'
  BY <1>1, <1>2, <1>3 DEF IInv, TypeOK, Location
<1>5. field = 1 /\ got = << >> /\ Len(got) = 0
  BY <1>1, EmptySeq DEF IInv, Fresh, Between
<1>6. Fresh' /\ Clear' /\ GotOwn' /\ ResultOwn' /\ Covered'
  BY <1>1, <1>5, BlankTyped, EmptySeq DEF Fresh, Clear, GotOwn, ResultOwn, Covered
<1>7. ~cut' => InStep'
  BY <1>1 DEF IInv, InStep
<1> QED
  BY <1>4, <1>6, <1>7 DEF IInv

LEMMA ProbeKeeps == ASSUME NEW f \in BOOLEAN, IInv, Probe(f)  PROVE IInv'
<1>1. /\ UNCHANGED <<ibf, obf, asked, content, field, got, result, began, cut>>
      /\ pc = "probe"
      /\ \/ pc' = "idle" /\ ok' = "no"
         \/ pc' = "ibf_command" /\ ok' = ok
  BY DEF Probe, Controller, Go
<1>2. TypeOK'
  BY <1>1 DEF IInv, TypeOK, Location
<1>3. ok # "yes"
  BY <1>1 DEF IInv, Covered
<1>4. Fresh' /\ Clear' /\ Covered'
  BY <1>1, <1>3 DEF IInv, Fresh, Clear, Covered, Between
<1>5. ~cut' => InStep' /\ GotOwn' /\ ResultOwn'
  BY <1>1 DEF IInv, InStep, GotOwn, ResultOwn, OwnByte
<1> QED
  BY <1>2, <1>4, <1>5 DEF IInv

LEMMA WaitDoneKeeps == IInv /\ WaitDone => IInv'
<1> SUFFICES ASSUME IInv, WaitDone  PROVE IInv'
  OBVIOUS
<1>1. /\ UNCHANGED <<ibf, obf, asked, content, field, got, result, ok, began, cut>>
      /\ \/ pc = "ibf_command" /\ ibf = None /\ pc' = "command"
         \/ pc = "ibf_address" /\ ibf = None /\ pc' = "address"
         \/ pc = "obf" /\ obf # None /\ pc' = "data"
  BY DEF WaitDone, Controller, Go
<1>2. TypeOK'
  BY <1>1 DEF IInv, TypeOK, Location
<1>3. Fresh' /\ Clear' /\ Covered'
  BY <1>1 DEF IInv, Fresh, Clear, Covered, Between
<1>4. ~cut' => InStep'
  <2>1. CASE pc' = "command"
    BY <1>1, <2>1 DEF IInv, InStep
  <2>2. CASE pc' = "address"
    <3>1. <<"cmd", Read>> # None
      BY DEF None
    <3> QED
      BY <1>1, <2>2, <3>1 DEF IInv, InStep, CommandSent, CommandTaken
  <2>3. CASE pc' = "data"
    <3>1. pc = "obf" /\ obf # None
      BY <1>1, <2>3
    <3>2. ~cut => Answered
      BY <3>1 DEF IInv, InStep, AddressSent, AddressTaken
    <3>3. Answered => Answered'
      BY <1>1 DEF Answered, Wanted
    <3> QED
      BY <1>1, <2>3, <3>2, <3>3 DEF InStep
  <2> QED
    BY <1>1, <2>1, <2>2, <2>3
<1>5. ~cut' => GotOwn' /\ ResultOwn'
  BY <1>1 DEF IInv, GotOwn, ResultOwn, OwnByte
<1> QED
  BY <1>2, <1>3, <1>4, <1>5 DEF IInv

LEMMA WaitFailsKeeps == ASSUME NEW f \in BOOLEAN, IInv, WaitFails(f)  PROVE IInv'
BY GiveUpStep DEF WaitFails, Controller

LEMMA WriteByteKeeps == ASSUME NEW f \in BOOLEAN, IInv, WriteByte(f)  PROVE IInv'
<1>1. CASE GiveUp /\ UNCHANGED ibf
  BY <1>1, GiveUpStep DEF WriteByte
<1>2. CASE ~(GiveUp /\ UNCHANGED ibf)
  <2>1. /\ UNCHANGED <<obf, asked, content, field, got, result, ok, began, cut>>
        /\ pc \in {"command", "address"}
        /\ ibf' = IF pc = "command" THEN <<"cmd", Read>> ELSE <<"data", Wanted>>
        /\ pc' = IF pc = "command" THEN "ibf_address" ELSE "obf"
    BY <1>2 DEF WriteByte, Go, Wanted
  <2>2. TypeOK'
    <3>1. ibf' \in ({"cmd"} \X {Read}) \cup ({"data"} \X Register)
      BY <2>1, WantedTyped DEF IInv
    <3> QED
      BY <2>1, <3>1 DEF IInv, TypeOK, Location
  <2>3. Fresh' /\ Clear' /\ Covered'
    BY <2>1 DEF IInv, Fresh, Clear, Covered, Between
  <2>4. ~cut' => InStep'
    BY <2>1 DEF IInv, InStep, CommandSent, CommandTaken, AddressSent,
                AddressTaken, Answered, Wanted
  <2>5. ~cut' => GotOwn' /\ ResultOwn'
    BY <2>1 DEF IInv, GotOwn, ResultOwn, OwnByte
  <2> QED
    BY <2>2, <2>3, <2>4, <2>5 DEF IInv
<1> QED
  BY <1>1, <1>2

\* Another byte of the field: the one the library waited for.
LEMMA ReadDataKeeps == ASSUME NEW f \in BOOLEAN, IInv, ReadData(f)  PROVE IInv'
<1>1. pc = "data" /\ UNCHANGED <<ibf, asked, content>> /\ TypeOK /\ Covered
  BY DEF ReadData, IInv
<1>2. CASE GiveUp /\ UNCHANGED obf
  BY <1>1, <1>2, GiveUpStep
<1> DEFINE bytes == Append(got, obf)
<1>3. ASSUME ~(GiveUp /\ UNCHANGED obf), obf \in Value  PROVE IInv'
  <2>1. /\ obf' = None /\ cut' = cut
        /\ IF Len(bytes) < Len(Fields[field])
           THEN /\ pc' = "ibf_command" /\ got' = bytes
                /\ UNCHANGED <<field, result, ok, began>>
           ELSE FieldDone([state |-> "read", bytes |-> bytes])
    BY <1>3 DEF ReadData
  <2>2. /\ bytes \in Seq(Value) /\ Len(bytes) = Len(got) + 1 /\ Len(got) \in Nat
        /\ \A j \in 1 .. Len(got) : bytes[j] = got[j]
        /\ bytes[Len(got) + 1] = obf
    BY <1>1, <1>3, AppendProperties, LenProperties DEF TypeOK
  <2>3. ASSUME ~cut  PROVE \A j \in 1 .. Len(bytes) : OwnByte(bytes[j], field, j)
    <3> SUFFICES ASSUME NEW j \in 1 .. Len(bytes)  PROVE OwnByte(bytes[j], field, j)
      OBVIOUS
    <3>1. CASE j = Len(got) + 1
      <4>1. obf[1] = Wanted /\ obf[2] >= began
        BY <1>1, <2>3 DEF IInv, InStep, Answered
      <4> QED
        BY <2>2, <3>1, <4>1 DEF OwnByte, Wanted
    <3>2. CASE j # Len(got) + 1
      <4>1. j \in 1 .. Len(got)
        BY <2>2, <3>2
      <4> QED
        BY <2>2, <2>3, <4>1 DEF IInv, GotOwn
    <3> QED
      BY <3>1, <3>2
  <2> HIDE DEF bytes
  <2>4. CASE Len(bytes) < Len(Fields[field])
    <3>1. /\ pc' = "ibf_command" /\ got' = bytes
          /\ UNCHANGED <<field, result, ok, began>>
      BY <2>1, <2>4
    <3>2. TypeOK'
      BY <1>1, <2>1, <2>2, <2>4, <3>1 DEF TypeOK, Location
    <3>3. Fresh' /\ Clear' /\ Covered'
      BY <1>1, <3>1 DEF Fresh, Clear, Covered, Between
    <3>4. ~cut' => InStep'
      BY <1>1, <2>1, <3>1 DEF IInv, InStep, Answered
    <3>5. ~cut' => GotOwn' /\ ResultOwn'
      BY <2>1, <2>3, <3>1 DEF IInv, GotOwn, ResultOwn, OwnByte
    <3> QED
      BY <3>2, <3>3, <3>4, <3>5 DEF IInv
  <2>5. CASE ~(Len(bytes) < Len(Fields[field]))
    <3> DEFINE o == [state |-> "read", bytes |-> bytes]
    <3>1. o \in Outcome /\ o.state = "read" /\ o.bytes = bytes
      BY <2>2 DEF Outcome
    <3>2. FieldDone(o)
      BY <2>1, <2>5
    <3> HIDE DEF o
    <3>3. /\ field' \in 1 .. Len(Fields) /\ got' = << >>
          /\ result' \in [1 .. Len(Fields) -> Outcome]
          /\ result'[field] = o
          /\ \A i \in 1 .. Len(Fields) : i # field => result'[i] = result[i]
          /\ ok' \in {"none", "yes", "no"} /\ began' = began
          /\ pc' \in {"idle", "ibf_command"} /\ (pc' = "idle" => field' = 1)
          /\ Covered'
      BY <1>1, <3>1, <3>2, FieldDoneStep
    <3>4. got' \in Seq(Value) /\ Len(got') < Len(Fields[field'])
      BY <3>3, NoneGot
    <3>5. TypeOK'
      BY <1>1, <2>1, <3>3, <3>4 DEF TypeOK, Location
    <3>6. Fresh' /\ Clear' /\ GotOwn'
      BY <3>3, EmptySeq DEF Fresh, Clear, GotOwn, Between
    <3>7. ~cut' => InStep'
      BY <1>1, <2>1, <3>3 DEF IInv, InStep, Answered
    <3>8. ASSUME ~cut'  PROVE ResultOwn'
      <4>1. Len(bytes) = Len(Fields[field])
        BY <1>1, <2>2, <2>5, FieldsTyped DEF TypeOK
      <4>2. ASSUME NEW i \in 1 .. Len(Fields)
            PROVE  /\ result'[i].state = "read" => Len(result'[i].bytes) = Len(Fields[i])
                   /\ \A j \in 1 .. Len(result'[i].bytes) :
                        /\ result'[i].bytes[j][1] = Fields[i][j]
                        /\ result'[i].bytes[j][2] >= began
        <5>1. CASE i = field
          <6>1. result'[i].state = "read" /\ result'[i].bytes = bytes
            BY <3>1, <3>3, <5>1
          <6>2. ASSUME NEW j \in 1 .. Len(bytes)
                PROVE  result'[i].bytes[j][1] = Fields[i][j] /\ result'[i].bytes[j][2] >= began
            <7>1. OwnByte(bytes[j], field, j)
              BY <2>1, <2>3, <3>8
            <7> QED
              BY <3>3, <5>1, <6>1, <7>1 DEF OwnByte
          <6> QED
            BY <4>1, <5>1, <6>1, <6>2
        <5>2. CASE i # field
          <6>1. result'[i] = result[i]
            BY <3>3, <5>2
          <6>2. /\ result[i].state = "read" => Len(result[i].bytes) = Len(Fields[i])
                /\ \A j \in 1 .. Len(result[i].bytes) :
                     /\ result[i].bytes[j][1] = Fields[i][j]
                     /\ result[i].bytes[j][2] >= began
            BY <2>1, <3>8 DEF IInv, ResultOwn, OwnByte
          <6> QED
            BY <6>1, <6>2
        <5> QED
          BY <5>1, <5>2
      <4> QED
        BY <3>3, <4>2 DEF ResultOwn, OwnByte
    <3> QED
      BY <3>3, <3>5, <3>6, <3>7, <3>8 DEF IInv
  <2> QED
    BY <2>4, <2>5
<1>4. obf \in Value
  BY <1>1 DEF IInv, TypeOK, Clear
<1> QED
  BY <1>2, <1>3, <1>4

LEMMA DieKeeps == IInv /\ Die => IInv'
<1> SUFFICES ASSUME IInv, Die  PROVE IInv'
  OBVIOUS
<1>1. /\ UNCHANGED <<ibf, obf, asked, content, began>>
      /\ pc # "idle" /\ pc' = "idle" /\ field' = 1 /\ got' = << >> /\ ok' = "none"
      /\ result' = [i \in 1 .. Len(Fields) |-> Blank]
      /\ cut' = (cut \/ pc \in {"ibf_address", "address", "obf", "data"})
  BY DEF Die, Controller
<1>2. cut' \in BOOLEAN
  BY <1>1 DEF IInv, TypeOK
<1>3. field' \in 1 .. Len(Fields) /\ got' \in Seq(Value) /\ Len(got') < Len(Fields[field'])
  BY <1>1, FieldsTyped, NoneGot
<1>4. result' \in [1 .. Len(Fields) -> Outcome]
  BY <1>1, BlankTyped
<1>5. TypeOK'
  BY <1>1, <1>2, <1>3, <1>4 DEF IInv, TypeOK, Location
<1>6. Fresh' /\ Clear' /\ GotOwn' /\ ResultOwn' /\ Covered'
  BY <1>1, BlankTyped, EmptySeq DEF Fresh, Clear, GotOwn, ResultOwn, Covered
<1>7. ~cut' => ~cut /\ pc \in {"probe", "ibf_command", "command"}
  BY <1>1 DEF IInv, TypeOK, Location
<1>8. ~cut' => InStep'
  BY <1>1, <1>7 DEF IInv, InStep
<1> QED
  BY <1>5, <1>6, <1>8 DEF IInv

LEMMA StutterKeeps == IInv /\ UNCHANGED vars => IInv'
BY DEF vars, IInv, TypeOK, Fresh, Clear, InStep, CommandSent, CommandTaken, AddressSent,
       AddressTaken, Answered, Wanted, GotOwn, ResultOwn, OwnByte, Covered

LEMMA NextKeeps == IInv /\ [Next]_vars => IInv'
<1> SUFFICES ASSUME IInv, [Next]_vars  PROVE IInv'
  OBVIOUS
<1>1. CASE Work
  <2>1. CASE WaitDone
    BY <2>1, WaitDoneKeeps
  <2>2. ASSUME NEW f \in BOOLEAN, Probe(f) \/ WaitFails(f) \/ WriteByte(f) \/ ReadData(f)
        PROVE  IInv'
    BY <2>2, ProbeKeeps, WaitFailsKeeps, WriteByteKeeps, ReadDataKeeps
  <2> QED
    BY <1>1, <2>1, <2>2 DEF Work
<1> QED
  BY <1>1, TakeKeeps, AnswerKeeps, ChangeKeeps, BeginKeeps, DieKeeps, StutterKeeps DEF Next

-----------------------------------------------------------------------------
(* The theorems. *)

LEMMA Invariance == Spec => []IInv
BY InitIInv, NextKeeps, PTL DEF Spec

\* Every variable keeps its type, for every controller and list of fields.
THEOREM TypeCorrect == Spec => []TypeOK
<1>1. IInv => TypeOK
  BY DEF IInv
<1> QED
  BY <1>1, Invariance, PTL

\* Until a handshake is given up halfway, ec_read_all_sensors computes each
\* field from the field's own registers, with contents of the call's time.
THEOREM BytesOwn == Spec => []OwnUnlessCut
<1>1. IInv => OwnUnlessCut
  <2> SUFFICES ASSUME IInv, ~cut  PROVE ValueIsOwn /\ \A i \in 1 .. Len(Fields) :
                   \A j \in 1 .. Len(result[i].bytes) : result[i].bytes[j][2] >= began
    BY DEF OwnUnlessCut
  <2>1. ResultOwn
    BY DEF IInv
  <2>2. ASSUME NEW i \in 1 .. Len(Fields), result[i].state = "read"
        PROVE  [j \in 1 .. Len(result[i].bytes) |-> result[i].bytes[j][1]] = Fields[i]
    <3> DEFINE s == Fields[i]
    <3>1. s \in Seq(Register)
      BY FieldsTyped
    <3>2. Len(result[i].bytes) = Len(s)
      BY <2>1, <2>2 DEF ResultOwn
    <3>3. \A j \in 1 .. Len(s) : result[i].bytes[j][1] = s[j]
      BY <2>1, <3>2 DEF ResultOwn, OwnByte
    <3>4. s = [j \in 1 .. Len(s) |-> s[j]]
      <4>1. s \in [1 .. Len(s) -> Register]
        BY <3>1, LenProperties
      <4> HIDE DEF s
      <4> QED
        BY <4>1
    <3> HIDE DEF s
    <3>5. [j \in 1 .. Len(s) |-> result[i].bytes[j][1]] = [j \in 1 .. Len(s) |-> s[j]]
      BY <3>3
    <3> QED
      BY <3>2, <3>4, <3>5 DEF s
  <2> QED
    BY <2>1, <2>2 DEF ValueIsOwn, ResultOwn, OwnByte
<1> QED
  BY <1>1, Invariance, PTL

\* A result that is ok has been through every field.
THEOREM EveryFieldTried == Spec => []ResultComplete
<1>1. IInv => ResultComplete
  BY DEF IInv, Covered, ResultComplete
<1> QED
  BY <1>1, Invariance, PTL

\* No byte is written over one that the controller has not taken.
THEOREM BytesTaken == Spec => NeverOverruns
<1>1. IInv /\ [Next]_vars => [ibf # None => ibf' \in {ibf, None}]_vars
  <2> SUFFICES ASSUME IInv, Next  PROVE ibf # None => ibf' \in {ibf, None}
    OBVIOUS
  <2>1. ASSUME NEW f \in BOOLEAN, WriteByte(f)  PROVE ibf # None => ibf' \in {ibf, None}
    BY <2>1 DEF WriteByte, IInv, Clear
  <2> QED
    BY <2>1 DEF Next, Take, Answer, Change, Begin, Die, Work, WaitDone, Probe, WaitFails,
                ReadData, Controller
<1> QED
  BY <1>1, Invariance, PTL DEF Spec, NeverOverruns
=============================================================================
