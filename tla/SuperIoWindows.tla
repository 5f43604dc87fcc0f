--------------------------- MODULE SuperIoWindows ---------------------------
(***************************************************************************)
(* The Windows reader (superio.c): hwsense_superio_temps, _fans and        *)
(* _voltages.  They try each pair of ports first for an ITE chip, then for *)
(* the chips that share the Nuvoton protocol, and return what the first    *)
(* chip found gives.                                                       *)
(***************************************************************************)
EXTENDS SuperIoDecode

\* ite_probe_and_read up to the chip's identity.
IteProbe(pair) == Keys(IteKey(pair)) \o ReadId

IteFind ==
  <<Put("cfg", "ldn", "mon"), Get("cfg", "active"),
    Get("cfg", "base0"), Get("cfg", "base1")>> \o IteExit

\* sio_detect_chip.
Detect == Keys(NctKey) \o ReadId \o NctExit

Unlock == Keys(NctKey) \o <<Get("cfg", "lock")>>

\* The value written back to register 0x28: a failed read counts as 0.
LockCleared ==
  CASE got.lock = "none" -> "wiped"
    [] got.lock = "set" -> "clear"
    [] OTHER -> got.lock

\* Mutant: any address is accepted.
WinBaseAny ==
  IF got.base0 = "base0" /\ got.base1 = "base1" THEN "mon" ELSE "wrong"

\* ite_base_ok: without its high byte the address is too low.
WinBase ==
  CASE got.base0 = "base0" /\ got.base1 = "base1" -> "mon"
    [] got.base0 = "none" -> "none"
    [] OTHER -> "wrong"

WinCall(w) ==
  /\ os = "windows"
  /\ NewCall(w)
  /\ family' = "ite" /\ at' = 1 /\ tried' = {<<"2E", "ite">>}
  /\ Begin("ite", IteProbe("2E"))
  /\ UNCHANGED faults

\* Mutant: a chip that is not an ITE chip is not left first.
WinProbedStays ==
  /\ os = "windows" /\ Done("ite")
  /\ \/ /\ IsKind(Speaks("ite"))
        /\ Begin("ite find", IteFind)
        /\ UNCHANGED <<family, at, tried>>
     \/ /\ ~IsKind(Speaks("ite"))
        /\ Begin("detect", Detect)
        /\ Try("nct", at)
  /\ UNCHANGED <<device, faults, what, base, reading, res>>

\* After the probe: an ITE chip is searched for its monitor; otherwise, after
\* ite_exit unless the key failed, the other families have their turn.
WinProbed ==
  /\ os = "windows" /\ Done("ite")
  /\ \/ /\ IsKind(Speaks("ite"))
        /\ Begin("ite find", IteFind)
        /\ UNCHANGED <<family, at, tried>>
     \/ /\ ~IsKind(Speaks("ite"))
        /\ Begin("detect", (IF got.key = "cut" THEN <<>> ELSE IteExit) \o Detect)
        /\ Try("nct", at)
  /\ UNCHANGED <<device, faults, what, base, reading, res>>

\* The ITE chip is found; a monitor that is off, or whose address is not
\* plausible, ends the call.
WinIteFound ==
  /\ os = "windows" /\ Done("ite find")
  /\ \/ /\ got.active \in {"none", "off"} \/ WinBase = "none"
        /\ Return(<<>>)
     \/ /\ got.active \notin {"none", "off"} /\ WinBase # "none"
        /\ base' = WinBase
        /\ Begin("bank", <<Get("mon", "bank")>>)
        /\ UNCHANGED <<device, faults, what, family, at, reading, res, tried>>

\* After sio_detect_chip.
WinDetected ==
  /\ os = "windows" /\ Done("detect")
  /\ \/ /\ IsKind(Speaks("nct"))
        /\ Begin("unlock", Unlock)
        /\ UNCHANGED <<device, faults, what, family, at, base, reading, res, tried>>
     \/ /\ ~IsKind(Speaks("nct")) /\ at < Len(PortPairs)
        /\ Try("ite", at + 1)
        /\ Begin("ite", IteProbe(PortPairs[at + 1]))
        /\ UNCHANGED <<device, faults, what, base, reading, res>>
     \/ /\ ~IsKind(Speaks("nct")) /\ at = Len(PortPairs)
        /\ Return(<<>>)

\* The lock of the monitor's ports is cleared, if the key went through, and
\* a Nuvoton chip is read.
WinUnlocked ==
  /\ os = "windows" /\ Done("unlock")
  /\ pc' = "fields"
  /\ todo' = IF got.key = "cut" THEN <<>>
             ELSE <<Put("cfg", "lock", LockCleared)>> \o NctExit
  /\ got' = Nothing
  /\ fields' = IF chip[Here].kind = "nct" THEN WinFields[what] ELSE <<>>
  /\ UNCHANGED <<device, faults, what, family, at, base, cells, cache, res, tried>>

WinFinish ==
  /\ os = "windows" /\ Done("finish")
  /\ Return(res)

WindowsStep ==
  WinProbed \/ WinIteFound \/ WinDetected \/ WinUnlocked \/ WinFinish
=============================================================================
