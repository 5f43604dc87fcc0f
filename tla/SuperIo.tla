------------------------------ MODULE SuperIo -------------------------------
(***************************************************************************)
(* The Super I/O readers on a board: any sequence of calls, on either      *)
(* system, with accesses that fail and a process that may die between any  *)
(* two of them and leave the chip as it is.                                *)
(***************************************************************************)
EXTENDS SuperIoWindows, SuperIoLinux

CONSTANTS
  Boards,     \* the boards: per pair of ports, the chip that listens there
  Wanted      \* the kinds of reading that are asked for

Procedure == {"idle", "returned", "ite", "ite find", "detect", "unlock",
              "probe", "open", "leave", "bank", "fields", "finish"}

ChipType ==
  [kind : Kind, on : BOOLEAN, mode : {"run", "config"}, key : 0 .. 3,
   index : Byte, ldn : {"other", "mon", "clear", "leave", "wiped"}, lock : Byte,
   bank : Byte, mon : Byte, hurt : SUBSET Byte]

\* On a board that starts, no chip is in configuration mode.
ASSUME BoardsAssumption ==
  \A b \in Boards :
    /\ b \in [Pair -> ChipType]
    /\ \A p \in Pair :
         /\ b[p].mode = "run" /\ b[p].key = 0 /\ b[p].index = "none"
         /\ b[p].lock \in Lock /\ b[p].bank # "none"

ASSUME WantedAssumption == Wanted \subseteq Wants

Init ==
  /\ os \in {"windows", "linux"}
  /\ chip \in Boards
  /\ pc = "idle" /\ what = "temp" /\ family = "ite" /\ at = 1
  /\ todo = <<>> /\ got = Nothing /\ base = "none" /\ cache = "none"
  /\ fields = <<>> /\ cells = <<>> /\ res = <<>>
  /\ was = chip /\ tried = {} /\ cut = FALSE /\ lost = {} /\ stray = FALSE
  /\ faults = 0

\* The process is gone, and what it knew.
Die ==
  /\ faults < MaxFaults /\ faults' = faults + 1
  /\ pc \notin {"idle", "returned"}
  /\ pc' = "idle" /\ todo' = <<>> /\ got' = Nothing /\ base' = "none"
  /\ fields' = <<>> /\ cells' = <<>> /\ cache' = "none" /\ res' = <<>>
  /\ at' = 1 /\ family' = "ite" /\ what' = "temp"
  /\ was' = chip /\ tried' = {} /\ cut' = FALSE /\ lost' = {} /\ stray' = FALSE
  /\ UNCHANGED <<os, chip>>

Step == Transfer \/ DecodeStep \/ WindowsStep \/ LinuxStep

Call == \E w \in Wanted : WinCall(w) \/ LinuxCall(w)

Next == Call \/ Step \/ Die

Spec == Init /\ [][Next]_vars

-----------------------------------------------------------------------------
(* Properties. *)

TypeOK ==
  /\ os \in {"windows", "linux"} /\ pc \in Procedure
  /\ family \in {"ite", "nct"} /\ at \in 1 .. Len(PortPairs)
  /\ DOMAIN got = Slot /\ base \in {"none", "mon", "far", "wrong"}
  /\ \A p \in DOMAIN chip :
       chip[p] \in ChipType /\ chip[p].key < Len(KeyOf(chip[p], p))
  /\ fields # <<>> => Len(cells) <= Len(Head(fields).regs)
  /\ cut \in BOOLEAN /\ stray \in BOOLEAN
  /\ lost \subseteq Slot \cup {"cell"}
  /\ tried \subseteq Pair \X {"ite", "nct"} /\ faults \in 0 .. MaxFaults

Returned == pc = "returned"

\* The chip shows no trace of a process that died while it spoke to it.
Quiet(c) == c.mode = "run" /\ c.key = 0

\* An earlier call overwrote the address or the enable bit of a monitor.
Damaged == \E p \in DOMAIN was : was[p].hurt \cap {"active", "base0", "base1"} # {}

\* Unless a write of it failed, a call leaves no chip in configuration mode,
\* whatever it could read, and where it tried the chip's own family it takes
\* the chip out of it even if an earlier process died inside.
LeavesConfigMode ==
  Returned /\ ~cut => \A p \in DOMAIN chip :
    /\ Quiet(was[p]) => chip[p].mode = "run"
    /\ \A f \in {"ite", "nct"} :
         <<p, f>> \in tried /\ chip[p].kind \in Speaks(f) => chip[p].mode = "run"

\* Unless a write of it failed, a call leaves every register as it was: the
\* monitor's bank is restored, the lock register loses its lock bit at most,
\* and nothing else is overwritten.  The exceptions are the code's own: on
\* Linux a bank that could not be read is not restored (nct_linux.c:300), on
\* Windows a lock register that could not be read is set to zero
\* (superio.c:494), and a chip that a dead process left in configuration mode
\* takes the other family's exit sequence for a write.
RegistersKept ==
  Returned /\ ~cut => \A p \in DOMAIN chip :
    /\ chip[p].bank # was[p].bank => os = "linux" /\ "bank" \in lost
    /\ chip[p].lock # was[p].lock =>
         \/ was[p].lock = "set" /\ chip[p].lock = "clear"
         \/ os = "windows" /\ "lock" \in lost
    /\ chip[p].hurt \ was[p].hurt \subseteq (IF Quiet(was[p]) THEN {} ELSE {"ctl"})

\* The bytes go to the configuration ports and to the monitor of the chip
\* that was found, and to no other device, unless a write failed or, on
\* Windows, the low byte of the monitor's address could not be read: then the
\* allow-list of sio_validate_write_port is opened at the wrong address.
StaysOnChip ==
  stray => cut \/ Damaged \/ (os = "windows" /\ "base1" \in lost)

\* An ITE chip was found in a bank that clearing 0x60 does not leave for bank 0:
\* bits 7:5 of the register are the bank (ite_decode.c:19), and bit 7 stays.
Stuck == family = "ite" /\ ReadBank(was[Here].bank) # "b0"

\* Each value that is reported was computed from the field's own registers,
\* in the field's own bank, also when some registers could not be read and
\* when an earlier call or another program left another bank selected.
\* Excepted are ITE chips found in a bank with bit 7 set, which are read there or
\* in bank 0x80 although the reads are meant to be in bank 0 (ite_decode.c:74),
\* and Nuvoton chips on Windows, see PhantomFree.
ReadingsOwn ==
  Returned /\ ~cut /\ ~Damaged /\ lost \subseteq {"cell"} /\ ~NctOnWindows /\ ~Stuck =>
    \A i \in 1 .. Len(res) : res[i].cells = res[i].regs

\* hwsense_nct_decode reports the temperature of each source once, although
\* several registers show the same source, and leaves out no source of which
\* some register has a valid temperature.
SourcesOnce ==
  Returned /\ ~cut /\ ~Damaged /\ lost = {} /\ NctOnLinux /\ what = "temp"
    /\ <<Here, family>> \in tried
    /\ chip[Here].on /\ chip[Here].kind \in Speaks("nct") =>
    \A s \in {Source[r] : r \in DOMAIN Source} \ {0} :
      Cardinality({i \in 1 .. Len(res) : res[i].source = s}) =
        IF \E i \in 1 .. Len(NctFields) :
             /\ NctFields[i].sel /\ Source[NctFields[i].regs[1]] = s
             /\ \A j \in 1 .. Len(NctFields[i].regs) :
                  NctFields[i].regs[j] \notin Dead
        THEN 1 ELSE 0

\* A reading of a chip comes from the chip.  It does not for Nuvoton chips on
\* Windows: nct679x_read_reg (superio.c:211) uses the configuration ports
\* after configuration mode has been left.
PhantomFree ==
  Returned => \A i \in 1 .. Len(res) : \A j \in 1 .. Len(res[i].cells) :
    ~Undriven(res[i].cells[j])
=============================================================================
