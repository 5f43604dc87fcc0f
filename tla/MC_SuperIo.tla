----------------------------- MODULE MC_SuperIo -----------------------------
(* Small instances of SuperIo for TLC. *)
EXTENDS SuperIo, TLC

Chip(kind, on, lock, bank) ==
  [kind |-> kind, on |-> on, mode |-> "run", key |-> 0, index |-> "none",
   ldn |-> "other", lock |-> lock, bank |-> bank, mon |-> "none", hurt |-> {}]

None == Chip("none", FALSE, "clear", "b0")

Board(first, second) == ("2E" :> first) @@ ("4E" :> second) @@ ("162" :> None)

SomeBoards ==
  {Board(Chip("ite", TRUE, "clear", "b1"), None),
   Board(Chip("nct", TRUE, "clear", "b0"), Chip("ite", TRUE, "clear", "b0")),
   Board(None, Chip("ite", TRUE, "clear", "b5")),
   Board(Chip("ite", TRUE, "clear", "b4"), None),
   Board(Chip("unknown", TRUE, "set", "b0"), Chip("nct", TRUE, "set", "b0")),
   Board(Chip("ite", FALSE, "clear", "b1"), Chip("older", TRUE, "set", "b0"))}

\* 0x20 and 0xA0; another byte is 0xFF, of which 0x9F is left.
SomeCleared == ("b1" :> "b0") @@ ("b5" :> "b4") @@ ("junk" :> "b4")

AllKinds == Wants
TempAndVolt == {"temp", "volt"}

OneField(kind, sel, regs) == [kind |-> kind, sel |-> sel, regs |-> regs]

SomeOffsets ==
  {"29", "0d", "18", "21", "22", "23", "27", "50", "70", "80",
   "73", "74", "B0", "B1", "87"}

\* A temperature and a fan with its two bytes.
SomeIteFields ==
  <<OneField("temp", FALSE, <<<<"b0", "29">>>>),
    OneField("fan", FALSE, <<<<"b0", "0d">>, <<"b0", "18">>>>)>>

\* Three temperature registers of one source, the first not connected, and a voltage in another bank.
SomeNctFields ==
  <<OneField("temp", TRUE, <<<<"b6", "21">>, <<"b0", "27">>>>),
    OneField("temp", TRUE, <<<<"b6", "22">>, <<"b1", "50">>>>),
    OneField("temp", TRUE, <<<<"b6", "23">>, <<"b6", "70">>>>),
    OneField("volt", FALSE, <<<<"b4", "80">>>>)>>

SomeSource ==
  (<<"b6", "21">> :> 1) @@ (<<"b6", "22">> :> 1) @@ (<<"b6", "23">> :> 1)

SomeDead == {<<"b0", "27">>}

\* One field of each kind; 0x487 sends the first byte of the key.
SomeWinFields ==
  [temp |-> <<OneField("temp", FALSE, <<<<"b0", "73">>, <<"b0", "74">>>>)>>,
   fan  |-> <<OneField("fan", FALSE, <<<<"b4", "B0">>, <<"b4", "B1">>>>)>>,
   volt |-> <<OneField("volt", FALSE, <<<<"b4", "87">>>>)>>]
=============================================================================
