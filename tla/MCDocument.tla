----------------------------- MODULE MCDocument -----------------------------
(* Instances of Document: GELF messages with up to two keys for the time, and *)
(* dated ones with up to two keys of any other field, or an unknown one, each *)
(* with every kind of value; and syslog messages from before and after 1970.  *)
EXTENDS Document, TLC

Readings == {"", "2", "-3", "0.5", "NaN", "inf", "1f", "Jan  2 12:24:59", "1969-12-31", "2262-04-11", "2262-04-12"}
MCStrings == Readings \cup {"venus", "hello"}

Reading(s, table) == IF s \in DOMAIN table THEN table[s] ELSE None

(* NaN is no integer, and 0 as a u64, like any negative fraction; inf is the  *)
(* largest u64.                                                               *)
MCAsHalves(s) == Reading(s, [x \in {"2", "-3", "0.5", "NaN", "inf"} |->
  CASE x = "2" -> 4 [] x = "-3" -> -6 [] x = "0.5" -> 1 [] x = "NaN" -> -1 [] x = "inf" -> 10000])
MCAsHex(s) == Reading(s, [x \in {"2", "1f"} |-> IF x = "2" THEN 2 ELSE 31])
(* The last microsecond whose nanoseconds are an i64, with the cfg's numbers.*)
LastDay == (Word \div 2 - 1) \div NsPerUs

MCDates == [x \in {"1969-12-31", "Jan  2 12:24:59", "2262-04-11", "2262-04-12"} |->
  CASE x = "1969-12-31" -> -5
    [] x = "Jan  2 12:24:59" -> 7
    [] x = "2262-04-11" -> LastDay
    [] x = "2262-04-12" -> LastDay + 1]
MCAsUsec(s) == Reading(s, MCDates)

(* Quickwit's dates begin after 1970 and end after chrono's, but before the  *)
(* largest i64.                                                              *)
MCQuickwitDates == 2 .. 100

MCNumbers == {-2, 0, 1, 3, 6}

MCValues == {Junk} \cup {NumberOf(h) : h \in MCNumbers} \cup {StringOf(s) : s \in Readings}

(* host and short_message are strings in every GELFMessage. *)
Required(short) == ("host" :> StringOf("venus")) @@ ("short_message" :> StringOf(short))

Dated == "timestamp" :> StringOf("2")

UpTo2(keys) == kSubset(1, keys) \cup (IF Cardinality(keys) < 2 THEN {} ELSE kSubset(2, keys))

KeysOf(field) == {FromGelfAttr[field][i].key : i \in DOMAIN FromGelfAttr[field]}

(* host and short_message are there in any case. *)
OtherKeys == {KeysOf(f) \ {"host"} : f \in Fields \ {"source_timestamp", "message"}} \cup {{"_unknown"}}

(* What the numbers and strings of the other fields are read as. *)
OtherValues ==
  {Junk, NumberOf(0), NumberOf(1), NumberOf(-2)} \cup {StringOf(s) : s \in {"", "2", "-3", "1f"} \cup DOMAIN MCDates}

MCGELFMessages ==
  {Required(short) : short \in {"", "hello"}}
  \cup {Required(short) @@ times :
         short \in {"", "hello"},
         times \in UNION {[keys -> MCValues] : keys \in UpTo2(TimeKeys)}}
  \cup {Required("hello") @@ Dated @@ others :
         others \in UNION {[keys -> OtherValues] : keys \in UNION {UpTo2(K) : K \in OtherKeys}}}

MCSyslogMessages ==
  [source_timestamp : {-9, -1, 0, 1, 9, LastDay, LastDay + 1}, hostname : {None, "mars"}, message : {"", "hello"},
   priority : {6}, full_message : {"<14>hello"}, facility : {"user"},
   identifier : {None, "cron"}, pid : {None, 9}]
=============================================================================
