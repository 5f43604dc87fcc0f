---------------------------- MODULE ExportReader ----------------------------
(***************************************************************************)
(* Readers of the two formats, written from RFC 8259 and RFC 4180 and not  *)
(* from the writers, and the property that what Export writes is read back *)
(* as the snapshot it was given.                                           *)
(***************************************************************************)
EXTENDS Export

\* The string in the buffer: the characters before the terminator.
Contents ==
  LET end == CHOOSE i \in Address : mem[i] = NUL /\ \A j \in 0 .. i - 1 : mem[j] # NUL
  IN  [i \in 1 .. end |-> mem[i - 1]]

-----------------------------------------------------------------------------
(* JSON: a reader yields the leaves of a value, each with its path from the *)
(* root, and the position after the value, which is 0 if there is no value. *)

At(t, i) == IF i \in DOMAIN t THEN t[i] ELSE NUL

Unescape(c) == CHOOSE x \in DOMAIN ShortEscape : ShortEscape[x] = c

NoValue == [next |-> 0, chars |-> <<>>, leaves |-> {}]

\* The rest of a string, of which chars have been read.
RECURSIVE StringAt(_, _, _)
StringAt(t, i, chars) ==
  IF At(t, i) = Quote THEN [next |-> i + 1, chars |-> chars, leaves |-> {}]
  ELSE IF At(t, i) = Backslash THEN
         IF At(t, i + 1) \in {Quote, Backslash}
         THEN StringAt(t, i + 2, Append(chars, t[i + 1]))
         ELSE IF At(t, i + 1) \in Range(ShortEscape)
         THEN StringAt(t, i + 2, Append(chars, Unescape(t[i + 1])))
         ELSE IF At(t, i + 1) = "u" /\ At(t, i + 2) = HexEscape.SOH
         THEN StringAt(t, i + 3, Append(chars, "SOH"))
         ELSE NoValue
  ELSE IF At(t, i) \in {NUL} \cup DOMAIN ShortEscape \cup DOMAIN HexEscape THEN NoValue
  ELSE StringAt(t, i + 1, Append(chars, t[i]))

NumberAt(t, i, path) ==
  IF At(t, i) \notin Digits THEN NoValue
  ELSE IF At(t, i + 1) = "."
  THEN [NoValue EXCEPT !.next = i + 3, !.leaves = {<<path, SubSeq(t, i, i + 2)>>}]
  ELSE [NoValue EXCEPT !.next = i + 1, !.leaves = {<<path, <<t[i]>>>>}]

RECURSIVE ValueAt(_, _, _), MembersAt(_, _, _, _), ElementsAt(_, _, _, _, _)

ValueAt(t, i, path) ==
  CASE At(t, i) = Quote ->
         LET s == StringAt(t, i + 1, <<>>)
         IN  [s EXCEPT !.leaves = {<<path, s.chars>>}]
    [] At(t, i) = "{" -> MembersAt(t, i + 1, path, {})
    [] At(t, i) = "[" ->
         IF At(t, i + 1) = "]" THEN [NoValue EXCEPT !.next = i + 2]
         ELSE ElementsAt(t, i + 1, path, 1, {})
    [] OTHER -> NumberAt(t, i, path)

\* The members from position i on; leaves are those of the ones before.
MembersAt(t, i, path, leaves) ==
  LET name  == IF At(t, i) = Quote THEN StringAt(t, i + 1, <<>>) ELSE NoValue
      value == IF name.next # 0 /\ At(t, name.next) = ":"
               THEN ValueAt(t, name.next + 1, path \o name.chars) ELSE NoValue
      all   == leaves \cup value.leaves
  IN  IF value.next = 0 THEN NoValue
      ELSE IF At(t, value.next) = "," THEN MembersAt(t, value.next + 1, path, all)
      ELSE IF At(t, value.next) = "}"
      THEN [NoValue EXCEPT !.next = value.next + 1, !.leaves = all]
      ELSE NoValue

ElementsAt(t, i, path, k, leaves) ==
  LET value == ValueAt(t, i, path \o <<ToString(k)>>)
      all   == leaves \cup value.leaves
  IN  IF value.next = 0 THEN NoValue
      ELSE IF At(t, value.next) = "," THEN ElementsAt(t, value.next + 1, path, k + 1, all)
      ELSE IF At(t, value.next) = "]"
      THEN [NoValue EXCEPT !.next = value.next + 1, !.leaves = all]
      ELSE NoValue

\* What the whole text says, or nothing if it is no JSON text.
JsonLeaves(t) ==
  LET v == ValueAt(t, 1, <<>>) IN IF v.next = Len(t) + 1 THEN v.leaves ELSE {}

-----------------------------------------------------------------------------
(* CSV: a record as the sequence of its fields. *)

\* One character of a record, after the fields read so far.
CsvStep(r, c) ==
  CASE r.mode = "quoted" ->
         IF c = Quote THEN [r EXCEPT !.mode = "closed"]
         ELSE [r EXCEPT !.field = Append(@, c)]
    [] r.mode = "closed" /\ c = Quote ->
         [r EXCEPT !.mode = "quoted", !.field = Append(@, c)]
    [] r.mode # "quoted" /\ c = "," ->
         [fields |-> Append(r.fields, r.field), field |-> <<>>, mode |-> "start"]
    [] r.mode = "start" /\ c = Quote -> [r EXCEPT !.mode = "quoted"]
    [] r.mode \in {"start", "plain"} /\ c \notin {Quote, ",", "LF", "CR"} ->
         [r EXCEPT !.mode = "plain", !.field = Append(@, c)]
    [] OTHER -> [r EXCEPT !.mode = "malformed"]

CsvFields(t) ==
  LET r == FoldLeft(CsvStep, [fields |-> <<>>, field |-> <<>>, mode |-> "start"], t)
  IN  IF r.mode \in {"quoted", "malformed"} THEN <<>> ELSE Append(r.fields, r.field)

-----------------------------------------------------------------------------
(* The snapshot as a reader should see it. *)

NameMembers == {"cpu_vendor", "cpu_name"}

Shown(d, m) == IF m \in NameMembers THEN d[m] ELSE Printed(m, ".")

JsonPath ==
  [cpu_vendor |-> <<"cpu", "vendor">>, cpu_name |-> <<"cpu", "name">>,
   cpu_cores |-> <<"cpu", "cores">>, cpu_threads |-> <<"cpu", "threads">>,
   cpu_temp |-> <<"cpu", "temp_c">>, cpu_temp_min |-> <<"cpu", "temp_min_c">>,
   cpu_temp_max |-> <<"cpu", "temp_max_c">>, cpu_temp_avg |-> <<"cpu", "temp_avg_c">>,
   cpu_clock_mhz |-> <<"cpu", "clock_mhz">>, cpu_clock_max_mhz |-> <<"cpu", "clock_max_mhz">>,
   cpu_voltage |-> <<"cpu", "voltage_v">>, soc_voltage |-> <<"cpu", "soc_voltage_v">>,
   cpu_power |-> <<"cpu", "power_w">>, cpu_power_cores |-> <<"cpu", "power_cores_w">>,
   cpu_power_uncore |-> <<"cpu", "power_uncore_w">>, cpu_load |-> <<"cpu", "load_percent">>,
   gpu_temp |-> <<"gpu", "temp_c">>, memory_used_gb |-> <<"memory", "used_gb">>,
   memory_total_gb |-> <<"memory", "total_gb">>, memory_percent |-> <<"memory", "percent">>,
   dram_power |-> <<"memory", "dram_power_w">>, uptime_days |-> <<"uptime", "days">>,
   uptime_hours |-> <<"uptime", "hours">>]

DriveLeaves(d, i) ==
  LET path(k) == <<"drives", ToString(i), k>>
  IN  {<<path("name"), d.drives[i]>>, <<path("temp_c"), <<DriveTemp[i]>>>>,
       <<path("size_gb"), <<DriveSize[i]>>>>, <<path("used_gb"), <<DriveUsed[i]>>>>}

SnapshotLeaves(d) ==
  {<<JsonPath[m], Shown(d, m)>> : m \in DOMAIN JsonPath}
  \cup {<<<<"fans", ToString(i)>>, <<Rpm[i]>>>> : i \in 1 .. Least(d.fan_count, ArrayLen)}
  \cup UNION {DriveLeaves(d, i) : i \in 1 .. Least(Len(d.drives), ArrayLen)}

-----------------------------------------------------------------------------
(* Property. *)

\* In a buffer that is large enough, the JSON text says exactly what the
\* snapshot does, and a row of CSV has under each column of the header the
\* member that column names, whatever characters the names are made of.  This
\* is claimed of a program whose locale has a decimal point: with a decimal
\* comma, which setlocale can bring about, %.2f splits a number in two.
ReadsBack ==
  pc = "returned" /\ ret \in 0 .. size - 1 /\ doc.writer # "header" /\ doc.point = "." =>
    IF doc.writer = "json" THEN JsonLeaves(Contents) = SnapshotLeaves(doc.data)
    ELSE CsvFields(Contents) = [i \in DOMAIN Columns |-> Shown(doc.data, Columns[i])]
=============================================================================
