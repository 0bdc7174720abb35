------------------------------ MODULE Document ------------------------------
(***************************************************************************)
(* From a received record to the document that is posted: the conversions    *)
(* that the YaffleSchema macro derives for Document (yaffle-macros,          *)
(* schema.rs), the validity check and the reverse DNS lookup of ingest_loop. *)
(*                                                                          *)
(* The fields and their attributes are those of Schema.  Times are integers; *)
(* a GELF time counts half seconds, so that fractions occur.  UsPerSec,      *)
(* NsPerUs and Word scale down the 10^6 microseconds, the 10^3 nanoseconds   *)
(* and the 2^64 of the code.                                                 *)
(***************************************************************************)
EXTENDS Schema, Integers, Sequences, FiniteSetsExt

CONSTANTS
  Strings,      \* JSON strings
  AsHalves(_),  \* what a string is when parsed as a number, in halves
  AsHex(_),     \* ... as a hexadecimal number
  AsUsec(_),    \* ... as a date: RFC 3339, RFC 2822 or "Jan  2 12:24:59" of this year
  Numbers,      \* JSON numbers, in halves
  GELFMessages, \* functions from keys to JSON values
  SyslogMessages,
  HostNames,    \* what an address is resolved to or printed as
  UsPerSec, NsPerUs, Word,
  QuickwitDates, \* the times, in microseconds, that Quickwit reads as unix timestamps
  Failed

(* JSON: what no conversion accepts (null, booleans, lists, objects) is Junk.*)
Junk == [t |-> "junk"]
NumberOf(halves) == [t |-> "number", halves |-> halves]
StringOf(s) == [t |-> "string", s |-> s]
Values == {Junk} \cup {NumberOf(h) : h \in Numbers} \cup {StringOf(s) : s \in Strings}

U64 == 0 .. Word - 1
I64 == -(Word \div 2) .. Word \div 2 - 1

ASSUME DocumentAssumption ==
  /\ UsPerSec \in Nat \ {0} /\ NsPerUs \in Nat \ {0} /\ Word \in Nat \ {0}
  /\ UsPerSec % 2 = 0 /\ Word % 2 = 0
  /\ QuickwitDates \subseteq I64
  /\ Strings \subseteq STRING /\ HostNames \subseteq STRING /\ Numbers \subseteq Int
  /\ \A s \in Strings : /\ AsHalves(s) \in Int \cup {None}
                        /\ AsHex(s) \in U64 \cup {None}
                        /\ AsUsec(s) \in Int \cup {None}
  /\ None \notin STRING /\ None \notin Int
  /\ Failed # None /\ Failed \notin STRING /\ Failed \notin Int
  /\ Failed \notin [Fields -> {None} \cup STRING \cup Int]

(* The structs GELFMessage - its host and its text are strings, the rest is  *)
(* any JSON - and SyslogMessage, with its time in microseconds since 1970.   *)
ASSUME MessageAssumption ==
  /\ \A msg \in GELFMessages :
       /\ \A key \in DOMAIN msg : msg[key] \in Values
       /\ \A key \in {"host", "short_message"} : key \in DOMAIN msg /\ msg[key].t = "string"
  /\ SyslogMessages \subseteq
       [source_timestamp : Int, hostname : {None} \cup STRING, message : STRING,
        priority : U64, full_message : STRING, facility : STRING,
        identifier : {None} \cup STRING, pid : {None} \cup U64]

-----------------------------------------------------------------------------
(* Integer conversions. *)

(* `as u64' of a float saturates, of an integer wraps; i64 / truncates. *)
SaturateU64(x) == IF x < 0 THEN 0 ELSE IF x >= Word THEN Word - 1 ELSE x
WrapU64(x) == x % Word
WrapI64(x) == ((x + Word \div 2) % Word) - Word \div 2
Divide(x, n) == IF x < 0 THEN -((-x) \div n) ELSE x \div n

(* timestamp_nanos() as u64 / 1000; the i64 wraps in a release build. *)
convert_datetime_to_usec(us) == WrapU64(WrapI64(us * NsPerUs)) \div NsPerUs

(* Mutant: seconds are cast before they are multiplied. *)
float_sec_truncated(v) ==
  LET usec(halves) == SaturateU64(Divide(halves, 2)) * UsPerSec IN
    CASE v.t = "number" -> usec(v.halves)
      [] v.t = "string" /\ AsHalves(v.s) # None -> usec(AsHalves(v.s))
      [] OTHER -> Failed

(* Mutant: the cast of an integer, which wraps. *)
float_sec_wraps(v) ==
  LET usec(halves) == WrapU64(halves * (UsPerSec \div 2)) IN
    CASE v.t = "number" -> usec(v.halves)
      [] v.t = "string" /\ AsHalves(v.s) # None -> usec(AsHalves(v.s))
      [] OTHER -> Failed

convert_float_sec_to_usec(v) ==
  LET usec(halves) == SaturateU64(halves * (UsPerSec \div 2)) IN
    CASE v.t = "number" -> usec(v.halves)
      [] v.t = "string" /\ AsHalves(v.s) # None -> usec(AsHalves(v.s))
      [] OTHER -> Failed

Whole(halves, range) ==
  IF halves # None /\ halves % 2 = 0 /\ halves \div 2 \in range THEN halves \div 2 ELSE Failed

(* Mutant: as_i64 where as_u64 is meant. *)
hex_to_int(v) ==
  CASE v.t = "number" -> Whole(v.halves, I64)
    [] v.t = "string" /\ AsHex(v.s) # None -> AsHex(v.s)
    [] OTHER -> Failed

(* A string is hexadecimal, a number is taken as it is. *)
convert_hex_to_uint(v) ==
  CASE v.t = "number" -> Whole(v.halves, U64)
    [] v.t = "string" /\ AsHex(v.s) # None -> AsHex(v.s)
    [] OTHER -> Failed

convert_syslog_timestamp(v) ==
  IF v.t = "string" /\ AsUsec(v.s) # None
  THEN WrapU64(Divide(WrapI64(AsUsec(v.s) * NsPerUs), NsPerUs))
  ELSE Failed

(* No conversion: the JSON value has the field's type, or is a string that   *)
(* parses as that type.                                                      *)
Plain(type, v) ==
  LET number(range) ==
        CASE v.t = "number" -> Whole(v.halves, range)
          [] v.t = "string" -> Whole(AsHalves(v.s), range)
          [] OTHER -> Failed
  IN CASE type = "String" -> IF v.t = "string" THEN v.s ELSE Failed
       [] type = "u64" -> number(U64)
       [] type = "i64" -> number(I64)

-----------------------------------------------------------------------------
(* The fields of the document. *)

Convert(field, src, v) ==
  CASE src.conversion = "none" -> Plain(TypeOf(field), v)
    [] src.conversion = "float_sec_to_usec" -> convert_float_sec_to_usec(v)
    [] src.conversion = "hex_to_uint" -> convert_hex_to_uint(v)
    [] src.conversion = "syslog_timestamp" -> convert_syslog_timestamp(v)

(* The places, in the attribute of a field, of the keys that the message has.*)
Given(field, msg) ==
  {i \in DOMAIN FromGelfAttr[field] : FromGelfAttr[field][i].key \in DOMAIN msg}

(* What such a key makes of the field. *)
Alternative(field, i, msg) ==
  LET src == FromGelfAttr[field][i] IN Convert(field, src, msg[src.key])

(* Mutant: a field that no key gives is an error. *)
NoAlternativeFails(field, msg) ==
  LET given == Given(field, msg) IN
    IF given = {} \/ \E i \in given : Alternative(field, i, msg) = Failed THEN Failed
    ELSE Alternative(field, Min(given), msg)

(* a.or(b?).or(c?): every alternative is evaluated, and one that fails makes *)
(* from_gelf return, even if it would not have been used.                    *)
ConstructorExpr(field, msg) ==
  LET given == Given(field, msg) IN
    IF \E i \in given : Alternative(field, i, msg) = Failed THEN Failed
    ELSE IF given = {} THEN None ELSE Alternative(field, Min(given), msg)

from_gelf(msg) ==
  IF \E f \in Fields : ConstructorExpr(f, msg) = Failed THEN Failed
  ELSE [f \in Fields |-> ConstructorExpr(f, msg)]

(* A syslog message has no JSON: each field is its own, or absent. *)
from_syslog(msg) ==
  [f \in Fields |->
     CASE f = "source_timestamp" -> convert_datetime_to_usec(msg.source_timestamp)
       [] f \in DOMAIN FromSyslogAttr \ {"source_timestamp"} -> msg[FromSyslogAttr[f]]
       [] OTHER -> None]

(* Mutant: lets a document without a time through. *)
IsValidUndated(doc) == doc.source_timestamp # 0 /\ doc.message \notin {None, ""}

IsValid(doc) ==
  /\ doc.source_timestamp # None /\ doc.source_timestamp > 0
  /\ doc.message # None /\ doc.message # ""

-----------------------------------------------------------------------------
Incoming ==
  [kind : {"gelf"}, msg : GELFMessages] \cup [kind : {"syslog"}, msg : SyslogMessages]

VARIABLES
  pc,      \* "convert", "lookup", "written" or "skipped"
  record,  \* the record of the batch
  doc      \* its document

vars == <<pc, record, doc>>

Init ==
  /\ pc = "convert"
  /\ record \in Incoming
  /\ doc = None

Decoded ==
  IF record.kind = "gelf" THEN from_gelf(record.msg) ELSE from_syslog(record.msg)

(* A conversion error, or a document that is not valid, is only logged. *)
Skip ==
  /\ pc = "convert"
  /\ Decoded # Failed => ~IsValid(Decoded)
  /\ pc' = "skipped"
  /\ UNCHANGED <<record, doc>>

Accept ==
  /\ pc = "convert"
  /\ Decoded # Failed /\ IsValid(Decoded)
  /\ pc' = "lookup"
  /\ doc' = Decoded
  /\ UNCHANGED record

(* The JSON of a document; a field that is None is left out or null. *)
Posted(d) == [f \in {f \in Fields : d[f] # None \/ f \in AlwaysSerialised} |-> d[f]]

(* do_reverse_dns: the sender's name; its address when the lookup fails.     *)
(* The document is then appended to the body of the request.                 *)
Write ==
  /\ pc = "lookup"
  /\ IF doc.hostname = None
     THEN \E name \in HostNames : doc' = [doc EXCEPT !.hostname = name]
     ELSE UNCHANGED doc
  /\ pc' = "written"
  /\ UNCHANGED record

Next == Skip \/ Accept \/ Write

Spec == Init /\ [][Next]_vars

-----------------------------------------------------------------------------
TypeOK ==
  /\ pc \in {"convert", "lookup", "written", "skipped"}
  /\ record \in Incoming
  /\ pc \in {"convert", "skipped"} => doc = None
  /\ pc \in {"lookup", "written"} =>
       \A f \in Fields : doc[f] # None =>
         CASE TypeOf(f) = "u64" -> doc[f] \in U64
           [] TypeOf(f) = "i64" -> doc[f] \in I64
           [] OTHER -> doc[f] \in STRING

(* No field is posted as null: those that are serialised even when they are  *)
(* None - the time, the host and the message - are there in every document   *)
(* that is posted, for the check and the lookup see to it (schema.rs lines   *)
(* 80-90 and 395-414).                                                       *)
WrittenIsComplete ==
  pc = "written" => \A f \in DOMAIN Posted(doc) : Posted(doc)[f] # None

(* The time that the sender of a record gave a field: what a GELF message    *)
(* has under the first of the field's keys that are there, and the number it *)
(* is read as, in the unit of that key; in microseconds.                     *)
SentBy(field) == FromGelfAttr[field][Min(Given(field, record.msg))]
Sent(field) == record.msg[SentBy(field).key]
Halves(v) == IF v.t = "number" THEN v.halves ELSE AsHalves(v.s)

SentUsec(field) ==
  IF record.kind = "syslog" THEN record.msg.source_timestamp
  ELSE LET v == Sent(field) IN
    CASE SentBy(field).conversion = "none" -> Halves(v) \div 2
      [] SentBy(field).conversion = "float_sec_to_usec" -> Halves(v) * (UsPerSec \div 2)
      [] SentBy(field).conversion = "syslog_timestamp" -> AsUsec(v.s)

TimeFields == {f \in Fields : DocumentFields[f].storage_type \in {"timestamp", "fast_timestamp"}}

(* From 1970 to 2262: the times whose nanoseconds are positive in an i64.    *)
Datable == 0 .. (Word \div 2 - 1) \div NsPerUs

(* A time from 1970 to 2262 is posted as the very microsecond that its sender *)
(* gave, whichever key it came under and in whichever unit that key counts:  *)
(* none of the casts between floats, i64 and u64 wraps, saturates or cuts it *)
(* short.  Of other times the code keeps no such promise: one before 1970 in *)
(* a syslog message becomes one centuries ahead (schema.rs lines 28-68,      *)
(* yaffle-macros lib.rs lines 34-127).                                       *)
TimesKept ==
  pc = "written" =>
    \A f \in TimeFields \cap DOMAIN Posted(doc) :
      SentUsec(f) \in Datable => doc[f] = SentUsec(f)

(* External: the values that Quickwit reads into a field with this mapping.  *)
ReadableAs(mapping) ==
  CASE mapping.type = "text" -> STRING
    [] mapping.type = "u64" -> U64
    [] mapping.type = "i64" -> I64
    [] mapping.type = "datetime" ->
         IF "unix_timestamp" \in Range(mapping.input_formats) THEN QuickwitDates ELSE {}

(* The index that the server creates can read every value that it posts, but *)
(* for a time that its sender put before 1970, after 2262 or where Quickwit  *)
(* has no dates (`inf' is posted as the largest u64): whatever was converted *)
(* into a field is of the type that its mapping has once Quickwit's defaults *)
(* stand in for what the request leaves out; the documents are ordered by a  *)
(* fast date, and the words of the texts that a query looks at by default    *)
(* are indexed with their positions (schema.rs lines 71-392, yaffle-macros   *)
(* lib.rs lines 289-341, main.rs lines 86-103).                              *)
IndexReadsWritten ==
  pc = "written" =>
    /\ \A f \in DOMAIN Posted(doc) :
         /\ Index.field_mappings[f].stored
         /\ \/ Posted(doc)[f] \in ReadableAs(Index.field_mappings[f])
            \/ f \in TimeFields /\ SentUsec(f) \notin QuickwitDates \cap Datable
    /\ LET time == Index.field_mappings[Index.timestamp_field] IN
         time.type = "datetime" /\ time.fast /\ time.precision = "microseconds"
    /\ \A f \in Index.default_search_fields :
         LET text == Index.field_mappings[f] IN
           text.indexed /\ text.tokenizer = "default" /\ text.record = "position"

(* The time its sender gave a GELF record, in the sender's unit. *)
SenderTime == Halves(Sent("source_timestamp"))

(* No GELF record from before 1970, or with a time that is no number, is     *)
(* posted: it converts to 0 or not at all (schema.rs lines 32-41, 408).      *)
GelfDatedAfterEpoch ==
  pc = "written" /\ record.kind = "gelf" => SenderTime > 0

TimeKeys == LET attr == FromGelfAttr["source_timestamp"] IN {attr[i].key : i \in DOMAIN attr}

(* A record is skipped only for a cause of its own: some key holds what its   *)
(* field cannot be read from - even if another key would have given the      *)
(* field - or the record has no text or no time after 1970.  A field that no *)
(* key gives and a key that the schema does not know cost nothing            *)
(* (yaffle-macros lib.rs lines 73-89, main.rs lines 158-168).                *)
Unreadable(msg) ==
  \E f \in Fields : \E i \in DOMAIN FromGelfAttr[f] :
    LET src == FromGelfAttr[f][i] IN
      src.key \in DOMAIN msg /\ Convert(f, src, msg[src.key]) = Failed

SkippedForCause ==
  pc = "skipped" =>
    CASE record.kind = "syslog" ->
           record.msg.message = "" \/ convert_datetime_to_usec(record.msg.source_timestamp) = 0
      [] record.kind = "gelf" ->
           \/ Unreadable(record.msg)
           \/ record.msg["short_message"] = StringOf("")
           \/ TimeKeys \cap DOMAIN record.msg = {}
           \/ SenderTime <= 0
=============================================================================
