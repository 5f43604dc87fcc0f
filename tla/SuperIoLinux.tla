---------------------------- MODULE SuperIoLinux ----------------------------
(***************************************************************************)
(* The Linux readers: superio_scan (sensors_linux.c), when no hwmon driver *)
(* has a reading, calls hwsense_ite_read_linux and, if that gives nothing, *)
(* hwsense_nct_read_linux.                                                 *)
(***************************************************************************)
EXTENDS SuperIoDecode

\* ite_find and nct_find up to the chip's identity.
Probe(f, pair) == Keys(IF f = "ite" THEN IteKey(pair) ELSE NctKey) \o ReadId

LinuxFind ==
  <<Put("cfg", "ldn", "mon"), Get("cfg", "active"),
    Get("cfg", "base0"), Get("cfg", "base1")>>

\* What is written to the lock register: nothing unless the bit is set.  No
\* value that the library writes to a register has it; a byte that is not the
\* register's own may or may not.
LinuxUnlock ==
  CASE got.lock = "set" -> {<<Put("cfg", "lock", "clear")>>}
    [] got.lock \in {"none", "clear", "wiped", "mon", "leave"} -> {<<>>}
    [] OTHER -> {<<>>, <<Put("cfg", "lock", "wiped")>>}

\* With -1 for a byte, the address is beyond the port space.
LinuxBase ==
  CASE got.base0 = "base0" /\ got.base1 = "base1" -> "mon"
    [] "none" \in {got.base0, got.base1} -> "far"
    [] OTHER -> "wrong"

\* active & 1, which -1 passes.
LinuxActive == got.active # "off"

\* A reader opens /dev/port and looks at the first pair of ports.
Start(f, before) ==
  /\ family' = f /\ at' = 1
  /\ \/ /\ Begin("probe", Probe(f, "2E"))
        /\ tried' = before \cup {<<"2E", f>>}
        /\ UNCHANGED faults
     \/ /\ faults < MaxFaults /\ faults' = faults + 1
        /\ Begin("finish", <<>>)
        /\ tried' = before

LinuxCall(w) ==
  /\ os = "linux"
  /\ NewCall(w)
  /\ Start("ite", {})

\* The chip is one of the family, or is left again.
LinuxProbed ==
  /\ os = "linux" /\ Done("probe")
  /\ IF IsKind(Speaks(family))
     THEN CASE family = "ite" -> Begin("open", LinuxFind \o IteExit)
            [] chip[Here].kind = "nct" ->
                 Begin("unlock", LinuxFind \o <<Get("cfg", "lock")>>)
            [] OTHER -> Begin("unlock", LinuxFind)
     ELSE Begin("leave", IF family = "ite" THEN IteExit ELSE NctExit)
  /\ UNCHANGED <<device, faults, what, family, at, base, reading, res, tried>>

LinuxLeft ==
  /\ os = "linux" /\ Done("leave")
  /\ IF at < Len(PortPairs)
     THEN Try(family, at + 1) /\ Begin("probe", Probe(family, PortPairs[at + 1]))
     ELSE Begin("finish", <<>>) /\ UNCHANGED <<family, at, tried>>
  /\ UNCHANGED <<device, faults, what, base, reading, res>>

\* nct_find clears the lock and leaves configuration mode.
LinuxUnlocked ==
  /\ os = "linux" /\ Done("unlock")
  /\ \E ops \in LinuxUnlock : todo' = ops \o NctExit
  /\ pc' = "open"
  /\ UNCHANGED <<device, faults, what, family, at, got, base, reading, res, tried>>

\* A monitor that is off gives nothing; otherwise its bank is read.
LinuxOpened ==
  /\ os = "linux" /\ Done("open")
  /\ IF LinuxActive
     THEN base' = LinuxBase /\ Begin("bank", <<Get("mon", "bank")>>)
     ELSE UNCHANGED base /\ Begin("finish", <<>>)
  /\ UNCHANGED <<device, faults, what, family, at, reading, res, tried>>

\* hwsense_nct_read_linux takes the bank as it found it for the one selected.
LinuxNctBank ==
  /\ os = "linux" /\ Done("bank") /\ family = "nct"
  /\ pc' = "fields"
  /\ fields' = NctFields
  /\ cache' = got.bank
  /\ UNCHANGED <<device, faults, what, family, at, todo, got, base, cells, res, tried>>

\* superio_scan: the second reader has its turn when the first gave nothing.
LinuxFinish ==
  /\ os = "linux" /\ Done("finish")
  /\ IF family = "ite" /\ res = <<>>
     THEN /\ Start("nct", tried)
          /\ base' = "none"
          /\ UNCHANGED <<device, what, reading, res>>
     ELSE Return(res)

LinuxStep ==
  LinuxProbed \/ LinuxLeft \/ LinuxUnlocked \/ LinuxOpened \/ LinuxNctBank
    \/ LinuxFinish
=============================================================================
