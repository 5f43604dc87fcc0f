--------------------------- MODULE SuperIoDecode ----------------------------
(***************************************************************************)
(* Reading the monitor once its ports are known: hwsense_ite_decode, which *)
(* both systems share, hwsense_nct_decode of Linux and the nct679x_read_*  *)
(* functions of superio.c.  All three walk over a list of fields; they     *)
(* differ in how a register is reached and in what becomes of a failed     *)
(* read.                                                                   *)
(***************************************************************************)
EXTENDS SuperIoPort, FiniteSets

NctOnWindows == family = "nct" /\ os = "windows"
NctOnLinux == family = "nct" /\ os = "linux"

\* The accesses that read a register: <<bank, offset>>.
\* nct679x_read_reg: through the configuration ports.
WinNctRead(reg) == <<Put("cfg", "bank", reg[1]), Cell("cfg", reg[2])>>

\* nct_hw_read: the bank is written when it is not the last one selected.
LinuxNctRead(reg) ==
  (IF cache # reg[1] THEN <<Put("mon", "bank", reg[1])>> ELSE <<>>)
    \o <<Cell("mon", reg[2])>>

\* ite_win_read and ec_read: the bank has been selected before.
IteRead(reg) == <<Cell("mon", reg[2])>>

\* The source number in a selector register; of any other byte, all ones.
SourceOf(v) == IF v \in DOMAIN Source THEN Source[v] ELSE 31

Reported == {res[i].source : i \in 1 .. Len(res)} \ {0}

\* Mutant: a source is read from every register that shows it.
SkippedMissing(field) ==
  NctOnLinux /\ cells # <<>> /\ cells[Len(cells)] = Missing

\* nct_rd gives up at the first byte that is missing; a source that is 0 or
\* has been reported needs no reading.
Skipped(field) ==
  /\ NctOnLinux
  /\ cells # <<>>
  /\ \/ cells[Len(cells)] = Missing
     \/ field.sel /\ Len(cells) = 1 /\ SourceOf(cells[1]) \in Reported \cup {0}

Complete(field) == Len(cells) = Len(field.regs) \/ Skipped(field)

Undriven(v) == v[2] = "float"

\* superio.c takes a missing byte for 0: no temperature, no voltage, but a
\* fan that stands still.  A temperature of 255 degrees is refused.
WinNctUsable(field) ==
  \/ field.kind = "fan"
  \/ field.kind = "volt" /\ cells[1] # Missing
  \/ field.kind = "temp" /\ cells[1] # Missing /\ ~Undriven(cells[1])

\* Both decoders refuse values of inputs that are not connected, and a
\* tachometer count of all ones.
Usable(field) ==
  /\ ~Skipped(field)
  /\ \A i \in 1 .. Len(cells) : cells[i] \notin Dead \cup {Missing}
  /\ field.kind = "fan" => \E i \in 1 .. Len(cells) : ~Undriven(cells[i])

Reading(field) ==
  [kind |-> field.kind, regs |-> field.regs, cells |-> cells,
   source |-> IF field.sel THEN SourceOf(cells[1]) ELSE 0]

-----------------------------------------------------------------------------
\* The next register of the current field.
NextCell ==
  /\ Done("fields") /\ fields # <<>> /\ ~Complete(Head(fields))
  /\ LET reg == Head(fields).regs[Len(cells) + 1]
     IN  IF NctOnWindows THEN todo' = WinNctRead(reg) /\ UNCHANGED cache
         ELSE IF NctOnLinux THEN todo' = LinuxNctRead(reg) /\ cache' = reg[1]
         ELSE todo' = IteRead(reg) /\ UNCHANGED cache
  /\ UNCHANGED <<device, faults, pc, what, family, at, got, base, fields, cells, res, tried>>

\* Mutant: the bytes of a field are kept for the next one.
FieldDoneKeeps ==
  /\ Done("fields") /\ fields # <<>> /\ Complete(Head(fields))
  /\ fields' = Tail(fields)
  /\ UNCHANGED <<device, faults, pc, what, family, at, todo, got, base, cells,
                 cache, res, tried>>

\* The current field is reported or left out.
FieldDone ==
  /\ Done("fields") /\ fields # <<>> /\ Complete(Head(fields))
  /\ LET f == Head(fields)
         use == IF NctOnWindows THEN WinNctUsable(f) ELSE Usable(f)
     IN  res' = IF use THEN Append(res, Reading(f)) ELSE res
  /\ fields' = Tail(fields)
  /\ cells' = <<>>
  /\ UNCHANGED <<device, faults, pc, what, family, at, todo, got, base, cache, tried>>

\* Mutant: the registers are read in the bank that is selected.
IteBankAsFound ==
  /\ Done("bank") /\ family = "ite"
  /\ IF got.bank = "none" THEN pc' = "finish" /\ UNCHANGED <<fields, todo>>
     ELSE pc' = "fields" /\ fields' = IteFields /\ todo' = <<>>
  /\ UNCHANGED <<device, faults, what, family, at, got, base, cells, cache, res, tried>>

\* The bank that the registers are read in when b was selected: of bits 7:5,
\* only 6:5 are tested and cleared.
ReadBank(b) == IF b \in DOMAIN Cleared THEN Cleared[b] ELSE b

\* hwsense_ite_decode: the bank that is selected is read, and left for the
\* time of the reads if a bit of 0x60 is set.  Without it nothing is read.
IteBank ==
  /\ Done("bank") /\ family = "ite"
  /\ IF got.bank = "none" THEN pc' = "finish" /\ UNCHANGED <<fields, todo>>
     ELSE /\ pc' = "fields"
          /\ fields' = IteFields
          /\ todo' = IF got.bank \in DOMAIN Cleared
                     THEN <<Put("mon", "bank", ReadBank(got.bank))>> ELSE <<>>
  /\ UNCHANGED <<device, faults, what, family, at, got, base, cells, cache, res, tried>>

\* Mutant: only an ITE chip gets its bank back.
RestoreBankIte ==
  /\ Done("fields") /\ fields = <<>>
  /\ LET away == CASE family = "ite" -> got.bank \in DOMAIN Cleared
                   [] family = "nct" -> FALSE
     IN  todo' = IF away THEN <<Put("mon", "bank", got.bank)>> ELSE <<>>
  /\ pc' = "finish"
  /\ UNCHANGED <<device, faults, what, family, at, got, base, reading, res, tried>>

\* The bank the chip was found in is selected again.
RestoreBank ==
  /\ Done("fields") /\ fields = <<>>
  /\ LET away == CASE family = "ite" -> got.bank \in DOMAIN Cleared
                   [] NctOnLinux -> got.bank # "none" /\ cache # got.bank
                   [] NctOnWindows -> FALSE
     IN  todo' = IF away THEN <<Put("mon", "bank", got.bank)>> ELSE <<>>
  /\ pc' = "finish"
  /\ UNCHANGED <<device, faults, what, family, at, got, base, reading, res, tried>>

DecodeStep == NextCell \/ FieldDone \/ IteBank \/ RestoreBank
=============================================================================
