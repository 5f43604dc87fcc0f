------------------------------- MODULE Export -------------------------------
(***************************************************************************)
(* What the writers of src/core/export.c write, as the pieces that they    *)
(* append one by one: a snapshot as JSON, a snapshot as a row of CSV, and  *)
(* the header of such rows.                                                *)
(*                                                                         *)
(* A character is a short string.  The digits of a number are one          *)
(* character, named for the member of the snapshot they show, so that a    *)
(* number in the wrong place is visible; a name of the snapshot is a       *)
(* sequence of characters that may be any the formats treat specially.     *)
(***************************************************************************)
EXTENDS Appender, SequencesExt

CONSTANT ArrayLen  \* the length of the arrays of fans and drives (8)

Quote == "QUOTE"
Backslash == "BACKSLASH"

\* The control characters with an escape of their own, and one without.
ShortEscape ==
  [BS |-> "b", FF |-> "f", LF |-> "n", CR |-> "r", TAB |-> "t"]
HexEscape == [SOH |-> "0001"]

\* The members that are printed as integers and as decimal fractions.
Integral ==
  {"cpu_cores", "cpu_threads", "cpu_clock_mhz", "cpu_clock_max_mhz",
   "memory_percent", "uptime_days", "uptime_hours"}
Fractional ==
  {"cpu_temp", "cpu_temp_min", "cpu_temp_max", "cpu_temp_avg", "cpu_voltage",
   "soc_voltage", "cpu_power", "cpu_power_cores", "cpu_power_uncore",
   "cpu_load", "gpu_temp", "memory_used_gb", "memory_total_gb", "dram_power"}

\* The members of the elements of the two arrays.
Rpm == <<"rpm1", "rpm2", "rpm3">>
DriveTemp == <<"temp1", "temp2", "temp3">>
DriveSize == <<"size1", "size2", "size3">>
DriveUsed == <<"used1", "used2", "used3">>

Digits ==
  Integral \cup Fractional \cup Range(Rpm \o DriveTemp \o DriveSize \o DriveUsed)

\* %d, and %.2f with the decimal point of the C locale in force.
Printed(m, point) ==
  IF m \in Fractional THEN <<m, point, "decimals">> ELSE <<m>>

-----------------------------------------------------------------------------
(* JSON. *)

\* Mutant: the backslash is not escaped.
EscapedButBackslash(c) ==
  IF c = Quote THEN <<Backslash, c>>
  ELSE IF c \in DOMAIN ShortEscape THEN <<Backslash, ShortEscape[c]>>
  ELSE IF c \in DOMAIN HexEscape THEN <<Backslash, "u", HexEscape[c]>>
  ELSE <<c>>

Escaped(c) ==
  IF c \in {Quote, Backslash} THEN <<Backslash, c>>
  ELSE IF c \in DOMAIN ShortEscape THEN <<Backslash, ShortEscape[c]>>
  ELSE IF c \in DOMAIN HexEscape THEN <<Backslash, "u", HexEscape[c]>>
  ELSE <<c>>

JsonString(s) ==
  <<<<Quote>>>> \o [i \in 1 .. Len(s) |-> Escaped(s[i])] \o <<<<Quote>>>>

Key(k) == <<Quote, k, Quote, ":">>

\* A further member of an object, one piece each.
Further(keys, members, point) ==
  [i \in DOMAIN keys |-> <<",">> \o Key(keys[i]) \o Printed(members[i], point)]

\* for (i = 0; i < count && i < 8; i++)
Listed(count) == 1 .. Least(count, ArrayLen)

Separator(i) == IF i = 1 THEN <<>> ELSE <<",">>

JsonCpu(d, p) ==
  <<Key("cpu") \o <<"{">>, Key("vendor")>> \o JsonString(d.cpu_vendor)
  \o <<<<",">> \o Key("name")>> \o JsonString(d.cpu_name)
  \o Further(<<"cores", "threads", "temp_c", "temp_min_c", "temp_max_c",
               "temp_avg_c", "clock_mhz", "clock_max_mhz", "voltage_v",
               "soc_voltage_v", "power_w", "power_cores_w",
               "power_uncore_w", "load_percent">>,
             <<"cpu_cores", "cpu_threads", "cpu_temp", "cpu_temp_min",
               "cpu_temp_max", "cpu_temp_avg", "cpu_clock_mhz",
               "cpu_clock_max_mhz", "cpu_voltage", "soc_voltage",
               "cpu_power", "cpu_power_cores", "cpu_power_uncore",
               "cpu_load">>, p)
  \o <<<<"}">>>>

JsonGpuAndMemory(p) ==
  <<<<",">> \o Key("gpu") \o <<"{">> \o Key("temp_c")
       \o Printed("gpu_temp", p) \o <<"}">>,
    <<",">> \o Key("memory") \o <<"{">>,
    Key("used_gb") \o Printed("memory_used_gb", p)>>
  \o Further(<<"total_gb", "percent", "dram_power_w">>,
             <<"memory_total_gb", "memory_percent", "dram_power">>, p)
  \o <<<<"}">>>>

JsonFans(d) ==
  <<<<",">> \o Key("fans") \o <<"[">>>>
  \o [i \in Listed(d.fan_count) |-> Separator(i) \o <<Rpm[i]>>]
  \o <<<<"]">>>>

JsonDrives(d, p) ==
  <<<<",">> \o Key("drives") \o <<"[">>>>
  \o FlattenSeq([i \in Listed(Len(d.drives)) |->
       <<Separator(i) \o <<"{">> \o Key("name")>> \o JsonString(d.drives[i])
       \o Further(<<"temp_c", "size_gb", "used_gb">>,
                  <<DriveTemp[i], DriveSize[i], DriveUsed[i]>>, p)
       \o <<<<"}">>>>])
  \o <<<<"]">>>>

JsonUptime ==
  <<<<",">> \o Key("uptime") \o <<"{">> \o Key("days") \o <<"uptime_days", ",">>
      \o Key("hours") \o <<"uptime_hours", "}">>>>

\* hwsense_export_json: the pieces of the whole text.
Json(d, point) ==
  <<<<"{">>>> \o JsonCpu(d, point) \o JsonGpuAndMemory(point) \o JsonFans(d)
  \o JsonDrives(d, point) \o JsonUptime \o <<<<"}">>>>

-----------------------------------------------------------------------------
(* CSV. *)

CsvSpecial == {",", Quote, "LF", "CR"}

\* append_csv_field: quoted when it has to be, with the quotes in it doubled.
CsvField(s) ==
  IF Range(s) \cap CsvSpecial = {} THEN <<s>>
  ELSE <<<<Quote>>>>
       \o [i \in 1 .. Len(s) |-> IF s[i] = Quote THEN <<Quote, Quote>> ELSE <<s[i]>>]
       \o <<<<Quote>>>>

\* The columns of hwsense_export_csv_header, by the member each stands for.
Columns ==
  <<"cpu_vendor", "cpu_name", "cpu_cores", "cpu_threads",
    "cpu_temp", "cpu_temp_min", "cpu_temp_max", "cpu_temp_avg",
    "cpu_clock_mhz", "cpu_clock_max_mhz", "cpu_voltage", "soc_voltage",
    "cpu_power", "cpu_power_cores", "cpu_power_uncore", "cpu_load",
    "gpu_temp", "memory_used_gb", "memory_total_gb", "memory_percent",
    "dram_power", "uptime_days", "uptime_hours">>

\* The header is one literal, hence one piece.
CsvHeader ==
  <<FlattenSeq([i \in DOMAIN Columns |-> Separator(i) \o <<Columns[i]>>])>>

\* Numbers of a row that one format writes, each after its comma.
Numbers(members, p) ==
  FlattenSeq([i \in DOMAIN members |-> <<",">> \o Printed(members[i], p)])

\* hwsense_export_csv_row.
CsvRow(d, p) ==
  CsvField(d.cpu_vendor) \o <<<<",">>>> \o CsvField(d.cpu_name)
  \o <<Numbers(<<"cpu_cores", "cpu_threads">>, p),
       Numbers(<<"cpu_temp", "cpu_temp_min", "cpu_temp_max", "cpu_temp_avg">>, p),
       Numbers(<<"cpu_clock_mhz", "cpu_clock_max_mhz">>, p),
       Numbers(<<"cpu_voltage", "soc_voltage">>, p),
       Numbers(<<"cpu_power", "cpu_power_cores", "cpu_power_uncore">>, p),
       Numbers(<<"cpu_load">>, p),
       Numbers(<<"gpu_temp">>, p),
       Numbers(<<"memory_used_gb", "memory_total_gb", "memory_percent">>, p),
       Numbers(<<"dram_power">>, p),
       Numbers(<<"uptime_days", "uptime_hours">>, p)>>

\* The documents of a set of snapshots under a set of decimal points.
Documents(Data, Points) ==
  {[writer |-> "header", pieces |-> CsvHeader]}
  \cup {[writer |-> "json", data |-> d, point |-> p, pieces |-> Json(d, p)] :
          d \in Data, p \in Points}
  \cup {[writer |-> "row", data |-> d, point |-> p, pieces |-> CsvRow(d, p)] :
          d \in Data, p \in Points}
=============================================================================
