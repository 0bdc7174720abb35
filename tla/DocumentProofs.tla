--------------------------- MODULE DocumentProofs ---------------------------
(***************************************************************************)
(* From a record to the document that is posted, for every set of strings,   *)
(* numbers, messages and times, every reading of the strings and every       *)
(* width of the integers.                                                    *)
(***************************************************************************)
EXTENDS Document, DataInduction

-----------------------------------------------------------------------------
(* The schema: for each of its fields, the conversions of its keys make its  *)
(* Rust type, and its storage type is for values of that type.               *)

Kinds == {"none", "float_sec_to_usec", "hex_to_uint", "syslog_timestamp"}

StoredAs(type) ==
  CASE type = "String" -> {"string", "text"}
    [] type = "u64" -> {"u64", "timestamp", "fast_timestamp"}
    [] OTHER -> {"i64"}

Agrees(fld) ==
  /\ fld.type \in {"String", "u64", "i64"}
  /\ fld.storage_type \in StoredAs(fld.type)
  /\ DOMAIN fld.from_gelf \subseteq Nat \ {0}
  /\ \A i \in DOMAIN fld.from_gelf :
       /\ fld.from_gelf[i].conversion \in Kinds
       /\ fld.from_gelf[i].conversion # "none" => fld.type = "u64"
       /\ fld.from_gelf[i].conversion = "hex_to_uint" => fld.storage_type = "u64"

LEMMA PlainAgrees ==
  ASSUME NEW keys, DOMAIN keys \subseteq Nat \ {0}
  PROVE  Agrees(Str(keys)) /\ Agrees(Text(keys)) /\ Agrees(Uint(keys))
BY DEF Agrees, StoredAs, Kinds, Str, Text, Uint, Field, Plainly, Src

LEMMA OneTwoOrThreeKeys ==
  /\ \A a : DOMAIN <<a>> \subseteq Nat \ {0}
  /\ \A a, b : DOMAIN <<a, b>> \subseteq Nat \ {0}
  /\ \A a, b, c : DOMAIN <<a, b, c>> \subseteq Nat \ {0}
OBVIOUS

LEMMA ShortListsAgree ==
  /\ \A a : Agrees(Str(<<a>>)) /\ Agrees(Text(<<a>>)) /\ Agrees(Uint(<<a>>))
  /\ \A a, b : Agrees(Str(<<a, b>>)) /\ Agrees(Text(<<a, b>>)) /\ Agrees(Uint(<<a, b>>))
  /\ \A a, b, c : Agrees(Str(<<a, b, c>>))
BY PlainAgrees, OneTwoOrThreeKeys

LEMMA OthersAgree ==
  /\ Agrees(MessageFields.source_timestamp)
  /\ Agrees(MessageFields.errno)
  /\ Agrees(MessageFields.syslog_timestamp)
  /\ Agrees(ProcessFields.cap_effective)
  /\ Agrees(ObjectFields.recv_rt_timestamp)
BY DEF Agrees, StoredAs, Kinds, MessageFields, ProcessFields, ObjectFields, Field, Plainly,
       Src, SrcVia

LEMMA MessageFieldsAgree == \A f \in DOMAIN MessageFields : Agrees(MessageFields[f])
BY ShortListsAgree, OthersAgree DEF MessageFields

LEMMA ProcessFieldsAgree == \A f \in DOMAIN ProcessFields : Agrees(ProcessFields[f])
BY ShortListsAgree, OthersAgree DEF ProcessFields

LEMMA ObjectFieldsAgree == \A f \in DOMAIN ObjectFields : Agrees(ObjectFields[f])
BY ShortListsAgree, OthersAgree DEF ObjectFields

LEMMA SchemaAgrees == \A f \in Fields : Agrees(DocumentFields[f])
BY MessageFieldsAgree, ProcessFieldsAgree, ObjectFieldsAgree DEF DocumentFields, Over, Fields

-----------------------------------------------------------------------------
(* The conversions. *)

LEMMA Constants ==
  /\ UsPerSec \div 2 \in Nat \ {0} /\ NsPerUs \in Nat \ {0}
  /\ Word \in Nat /\ Word >= 2 /\ Word \div 2 \in Nat \ {0}
  /\ U64 \subseteq Int /\ I64 \subseteq Int /\ 0 \in U64
  /\ None \notin U64 /\ None \notin I64 /\ Failed \notin U64 /\ Failed \notin I64
  /\ None \notin STRING /\ Failed \notin STRING /\ Failed # None
  /\ None \notin Int /\ Failed \notin Int
BY DocumentAssumption DEF DocumentAssumption, U64, I64

LEMMA ProductSign ==
  ASSUME NEW x \in Int, NEW k \in Nat \ {0}
  PROVE  x * k \in Int /\ (x * k > 0 <=> x > 0)
OBVIOUS

LEMMA QuotientBelow ==
  ASSUME NEW x \in Nat, NEW n \in Nat \ {0}
  PROVE  x \div n \in 0 .. x
OBVIOUS

LEMMA SaturateFacts ==
  ASSUME NEW x \in Int
  PROVE  SaturateU64(x) \in U64 /\ (SaturateU64(x) > 0 <=> x > 0)
BY Constants DEF SaturateU64, U64

LEMMA WrapIn == \A x \in Int : WrapU64(x) \in U64
BY Constants DEF WrapU64, U64

LEMMA WrapI64In == \A x \in Int : WrapI64(x) \in Int
BY Constants DEF WrapI64

LEMMA DivideIn == ASSUME NEW x \in Int, NEW n \in Nat \ {0} PROVE Divide(x, n) \in Int
BY DEF Divide

LEMMA DatetimeTyped == \A us \in Int : convert_datetime_to_usec(us) \in U64
<1>. TAKE us \in Int
<1>1. us * NsPerUs \in Int
  BY Constants
<1>2. WrapU64(WrapI64(us * NsPerUs)) \in U64
  BY <1>1, WrapIn, WrapI64In
<1>3. WrapU64(WrapI64(us * NsPerUs)) \in Nat
  BY <1>2, Constants DEF U64
<1>4. WrapU64(WrapI64(us * NsPerUs)) \div NsPerUs \in 0 .. WrapU64(WrapI64(us * NsPerUs))
  BY <1>3, QuotientBelow, Constants
<1>. QED  BY <1>2, <1>4, Constants DEF convert_datetime_to_usec, U64

LEMMA FitsBack ==
  ASSUME NEW x \in Nat, NEW n \in Nat \ {0}, NEW m \in Nat, x <= m \div n
  PROVE  x * n \in 0 .. m
<1>1. (m \div n) * n <= m
  OBVIOUS
<1>2. x * n <= (m \div n) * n
  OBVIOUS
<1>3. x * n \in Int /\ x * n >= 0
  OBVIOUS
<1>. QED  BY <1>1, <1>2, <1>3

(* Nothing happens to a time from 1970 to 2262, nor to its nanoseconds.      *)
LEMMA DatableFacts ==
  ASSUME NEW us \in Datable
  PROVE  /\ us \in Nat /\ us < Word
         /\ us * NsPerUs \in Nat
         /\ WrapI64(us * NsPerUs) = us * NsPerUs /\ WrapU64(us * NsPerUs) = us * NsPerUs
         /\ (us * NsPerUs) \div NsPerUs = us
         /\ WrapU64(us) = us /\ SaturateU64(us) = us
<1>. DEFINE half == Word \div 2
<1>1. half \in Nat \ {0} /\ Word = 2 * half /\ NsPerUs \in Nat \ {0}
  BY DocumentAssumption DEF DocumentAssumption
<1>2. us \in Nat /\ us <= (half - 1) \div NsPerUs
  BY <1>1 DEF Datable
<1>3. us * NsPerUs \in 0 .. half - 1
  BY <1>1, <1>2, FitsBack
<1>4. (half - 1) \div NsPerUs \in 0 .. half - 1
  BY <1>1, QuotientBelow
<1>5. us < Word
  BY <1>1, <1>2, <1>4
<1>6. (us * NsPerUs) \div NsPerUs = us
  BY <1>1, <1>2
<1>. HIDE DEF half
<1>7. \A x \in 0 .. half - 1 : x % Word = x /\ (x + half) % Word = x + half
  BY <1>1
<1>8. \A x \in 0 .. half - 1 : WrapI64(x) = x /\ WrapU64(x) = x
  BY <1>1, <1>7 DEF WrapI64, WrapU64, half
<1>9. us % Word = us
  BY <1>1, <1>2, <1>5
<1>. QED  BY <1>1, <1>2, <1>3, <1>5, <1>6, <1>8, <1>9 DEF WrapU64, SaturateU64

LEMMA DatetimeExact == \A us \in Datable : convert_datetime_to_usec(us) = us
BY DatableFacts DEF convert_datetime_to_usec

LEMMA ValueFacts ==
  ASSUME NEW v \in Values
  PROVE  /\ v.t \in {"junk", "number", "string"}
         /\ v.t = "number" => v.halves \in Int
         /\ v.t = "string" => v.s \in Strings /\ v.s \in STRING /\ v = StringOf(v.s)
BY DocumentAssumption DEF DocumentAssumption, Values, Junk, NumberOf, StringOf

LEMMA ReadingFacts ==
  ASSUME NEW s \in Strings
  PROVE  /\ AsHalves(s) # None => AsHalves(s) \in Int
         /\ AsHex(s) # None => AsHex(s) \in U64
         /\ AsUsec(s) # None => AsUsec(s) \in Int
BY DocumentAssumption DEF DocumentAssumption

LEMMA WholeFacts ==
  ASSUME NEW halves \in Int \cup {None}, NEW range \in SUBSET Int
  PROVE  /\ Whole(halves, range) \in range \cup {Failed}
         /\ Whole(halves, range) # Failed => halves \in Int
         /\ Whole(halves, range) # Failed => (Whole(halves, range) > 0 <=> halves > 0)
BY Constants DEF Whole

LEMMA FloatFacts ==
  ASSUME NEW v \in Values, convert_float_sec_to_usec(v) # Failed
  PROVE  /\ convert_float_sec_to_usec(v) \in U64
         /\ Halves(v) \in Int
         /\ convert_float_sec_to_usec(v) > 0 <=> Halves(v) > 0
<1>1. \A h \in Int : /\ h * (UsPerSec \div 2) \in Int
                     /\ h * (UsPerSec \div 2) > 0 <=> h > 0
  BY ProductSign, Constants
<1>2. \A h \in Int : /\ SaturateU64(h * (UsPerSec \div 2)) \in U64
                     /\ SaturateU64(h * (UsPerSec \div 2)) > 0 <=> h > 0
  BY <1>1, SaturateFacts
<1>3. CASE v.t = "number"
  BY <1>2, <1>3, ValueFacts DEF convert_float_sec_to_usec, Halves
<1>4. CASE v.t = "string" /\ AsHalves(v.s) # None
  BY <1>2, <1>4, ValueFacts, ReadingFacts DEF convert_float_sec_to_usec, Halves
<1>. QED  BY <1>3, <1>4, ValueFacts DEF convert_float_sec_to_usec

LEMMA PlainU64Facts ==
  ASSUME NEW v \in Values, Plain("u64", v) # Failed
  PROVE  /\ Plain("u64", v) \in U64
         /\ Halves(v) \in Int
         /\ Plain("u64", v) > 0 <=> Halves(v) > 0
<1>1. CASE v.t = "number"
  BY <1>1, ValueFacts, WholeFacts, Constants DEF Plain, Halves
<1>2. CASE v.t = "string"
  BY <1>2, ValueFacts, ReadingFacts, WholeFacts, Constants DEF Plain, Halves
<1>. QED  BY <1>1, <1>2, ValueFacts DEF Plain

ValuesOf(type) == IF type = "u64" THEN U64 ELSE IF type = "i64" THEN I64 ELSE STRING

LEMMA ValuesOfFacts ==
  \A type : /\ None \notin ValuesOf(type) /\ Failed \notin ValuesOf(type)
            /\ ValuesOf(type) \subseteq STRING \cup Int
BY Constants DEF ValuesOf

LEMMA PlainTyped ==
  ASSUME NEW v \in Values, NEW type \in {"String", "u64", "i64"}
  PROVE  Plain(type, v) \in ValuesOf(type) \cup {Failed}
<1>1. CASE type = "String"
  BY <1>1, ValueFacts DEF Plain, ValuesOf
<1>2. CASE type = "u64"
  BY <1>2, PlainU64Facts DEF ValuesOf
<1>3. CASE type = "i64"
  <2>1. CASE v.t = "number"
    BY <1>3, <2>1, ValueFacts, WholeFacts, Constants DEF Plain, ValuesOf
  <2>2. CASE v.t = "string"
    BY <1>3, <2>2, ValueFacts, ReadingFacts, WholeFacts, Constants DEF Plain, ValuesOf
  <2>. QED  BY <1>3, <2>1, <2>2, ValueFacts DEF Plain
<1>. QED  BY <1>1, <1>2, <1>3

LEMMA HexTyped == \A v \in Values : convert_hex_to_uint(v) \in U64 \cup {Failed}
<1>. TAKE v \in Values
<1>1. CASE v.t = "number"
  BY <1>1, ValueFacts, WholeFacts, Constants DEF convert_hex_to_uint
<1>2. CASE v.t = "string"
  BY <1>2, ValueFacts, ReadingFacts DEF convert_hex_to_uint
<1>. QED  BY <1>1, <1>2, ValueFacts DEF convert_hex_to_uint

LEMMA SyslogTimestampTyped == \A v \in Values : convert_syslog_timestamp(v) \in U64 \cup {Failed}
<1>. TAKE v \in Values
<1>1. ASSUME v.t = "string", AsUsec(v.s) # None
      PROVE  WrapU64(Divide(WrapI64(AsUsec(v.s) * NsPerUs), NsPerUs)) \in U64
  <2>1. AsUsec(v.s) * NsPerUs \in Int
    BY <1>1, ValueFacts, ReadingFacts, Constants
  <2>. QED  BY <2>1, WrapI64In, DivideIn, WrapIn, Constants
<1>. QED  BY <1>1 DEF convert_syslog_timestamp

(* A conversion makes a value of the field's type, or fails.                 *)
LEMMA ConvertTyped ==
  ASSUME NEW f \in Fields, NEW i \in DOMAIN FromGelfAttr[f], NEW v \in Values
  PROVE  Convert(f, FromGelfAttr[f][i], v) \in ValuesOf(TypeOf(f)) \cup {Failed}
<1>1. /\ TypeOf(f) \in {"String", "u64", "i64"}
      /\ FromGelfAttr[f][i].conversion \in Kinds
      /\ FromGelfAttr[f][i].conversion # "none" => TypeOf(f) = "u64"
  BY SchemaAgrees DEF Agrees, FromGelfAttr, TypeOf
<1>2. ASSUME NEW src, src.conversion \in Kinds, src.conversion # "none" => TypeOf(f) = "u64"
      PROVE  Convert(f, src, v) \in ValuesOf(TypeOf(f)) \cup {Failed}
  <2>1. CASE src.conversion = "none"
    BY <1>1, <2>1, PlainTyped DEF Convert
  <2>2. CASE src.conversion = "float_sec_to_usec"
    BY <1>2, <2>2, FloatFacts DEF Convert, ValuesOf
  <2>3. CASE src.conversion = "hex_to_uint"
    BY <1>2, <2>3, HexTyped DEF Convert, ValuesOf
  <2>4. CASE src.conversion = "syslog_timestamp"
    BY <1>2, <2>4, SyslogTimestampTyped DEF Convert, ValuesOf
  <2>. QED  BY <1>2, <2>1, <2>2, <2>3, <2>4 DEF Kinds
<1>. QED  BY <1>1, <1>2

-----------------------------------------------------------------------------
(* The documents. *)

LEMMA FirstGiven ==
  ASSUME NEW f \in Fields, NEW msg, Given(f, msg) # {}
  PROVE  /\ Min(Given(f, msg)) \in Given(f, msg)
         /\ \A j \in Given(f, msg) : Min(Given(f, msg)) <= j
<1>1. Given(f, msg) \subseteq Nat
  BY SchemaAgrees DEF Agrees, FromGelfAttr, Given
<1>2. \E m \in Given(f, msg) : \A j \in Given(f, msg) : m <= j
  BY <1>1, Least
<1>. QED  BY <1>2 DEF Min

LEMMA AlternativeTyped ==
  ASSUME NEW f \in Fields, NEW msg \in GELFMessages, NEW i \in Given(f, msg)
  PROVE  Alternative(f, i, msg) \in ValuesOf(TypeOf(f)) \cup {Failed}
<1>1. i \in DOMAIN FromGelfAttr[f] /\ msg[FromGelfAttr[f][i].key] \in Values
  BY MessageAssumption DEF MessageAssumption, Given
<1>. QED  BY <1>1, ConvertTyped DEF Alternative

(* What a GELF message gives a field: an error if some key does, nothing if  *)
(* no key is there, or else what the first one gives.                        *)
LEMMA ConstructorFacts ==
  ASSUME NEW f \in Fields, NEW msg \in GELFMessages
  PROVE  LET c == ConstructorExpr(f, msg)
             first == Min(Given(f, msg))
         IN /\ c \in {None, Failed} \cup ValuesOf(TypeOf(f))
            /\ c = Failed <=> \E i \in Given(f, msg) : Alternative(f, i, msg) = Failed
            /\ c = None <=> Given(f, msg) = {}
            /\ c \notin {None, Failed} =>
                 /\ first \in Given(f, msg)
                 /\ \A j \in Given(f, msg) : first <= j
                 /\ c = Alternative(f, first, msg)
<1>1. \A i \in Given(f, msg) : Alternative(f, i, msg) \in ValuesOf(TypeOf(f)) \cup {Failed}
  BY AlternativeTyped
<1>2. None \notin ValuesOf(TypeOf(f)) /\ Failed \notin ValuesOf(TypeOf(f)) /\ Failed # None
  BY ValuesOfFacts, Constants
<1>3. CASE Given(f, msg) = {}
  BY <1>2, <1>3 DEF ConstructorExpr
<1>4. CASE Given(f, msg) # {}
  <2>1. /\ Min(Given(f, msg)) \in Given(f, msg)
        /\ \A j \in Given(f, msg) : Min(Given(f, msg)) <= j
    BY <1>4, FirstGiven
  <2>. QED  BY <1>1, <1>2, <1>4, <2>1 DEF ConstructorExpr
<1>. QED  BY <1>3, <1>4

LEMMA GelfDecoded ==
  ASSUME NEW msg \in GELFMessages
  PROVE  /\ from_gelf(msg) = Failed <=> \E f \in Fields : ConstructorExpr(f, msg) = Failed
         /\ from_gelf(msg) # Failed =>
              from_gelf(msg) = [f \in Fields |-> ConstructorExpr(f, msg)]
<1>1. CASE \E f \in Fields : ConstructorExpr(f, msg) = Failed
  BY <1>1 DEF from_gelf
<1>2. CASE ~ \E f \in Fields : ConstructorExpr(f, msg) = Failed
  <2>. DEFINE d == [f \in Fields |-> ConstructorExpr(f, msg)]
  <2>1. \A f \in Fields : ConstructorExpr(f, msg) \in {None} \cup STRING \cup Int
    BY <1>2, ConstructorFacts, ValuesOfFacts
  <2>2. d \in [Fields -> {None} \cup STRING \cup Int]
    BY <2>1
  <2>3. d # Failed
    BY <2>2, DocumentAssumption DEF DocumentAssumption
  <2>. QED  BY <1>2, <2>3 DEF from_gelf
<1>. QED  BY <1>1, <1>2

LEMMA FieldTypes ==
  /\ TypeOf("source_timestamp") = "u64" /\ TypeOf("priority") = "u64" /\ TypeOf("syslog_pid") = "u64"
  /\ \A f \in {"hostname", "message", "full_message", "facility", "syslog_identifier"} :
       TypeOf(f) = "String"
  /\ \A f \in DOMAIN FromSyslogAttr : f \in Fields
BY DEF TypeOf, DocumentFields, Over, Fields, MessageFields, Str, Text, Uint, Field, FromSyslogAttr

LEMMA SyslogDecoded ==
  ASSUME NEW msg \in SyslogMessages
  PROVE  /\ DOMAIN from_syslog(msg) = Fields
         /\ \A f \in Fields : from_syslog(msg)[f] \in {None} \cup ValuesOf(TypeOf(f))
         /\ from_syslog(msg).source_timestamp = convert_datetime_to_usec(msg.source_timestamp)
         /\ from_syslog(msg).message = msg.message
         /\ from_syslog(msg).source_timestamp \in U64
         /\ from_syslog(msg).message \in STRING
         /\ from_syslog(msg) # Failed
<1>. DEFINE d == from_syslog(msg)
<1>1. msg \in [source_timestamp : Int, hostname : {None} \cup STRING, message : STRING,
               priority : U64, full_message : STRING, facility : STRING,
               identifier : {None} \cup STRING, pid : {None} \cup U64]
  BY MessageAssumption DEF MessageAssumption
<1>2. DOMAIN d = Fields
  BY DEF from_syslog
<1>3. d.source_timestamp = convert_datetime_to_usec(msg.source_timestamp)
  BY FieldTypes DEF from_syslog, FromSyslogAttr
<1>4. /\ d.hostname = msg.hostname /\ d.message = msg.message /\ d.priority = msg.priority
      /\ d.full_message = msg.full_message /\ d.facility = msg.facility
      /\ d.syslog_identifier = msg.identifier /\ d.syslog_pid = msg.pid
  BY FieldTypes DEF from_syslog, FromSyslogAttr
<1>5. \A f \in Fields \ DOMAIN FromSyslogAttr : d[f] = None
  BY DEF from_syslog, FromSyslogAttr
<1>6. d.source_timestamp \in U64
  BY <1>1, <1>3, DatetimeTyped
<1>. HIDE DEF d
<1>7. \A f \in Fields : d[f] \in {None} \cup ValuesOf(TypeOf(f))
  <2>1. ASSUME NEW f \in DOMAIN FromSyslogAttr PROVE d[f] \in {None} \cup ValuesOf(TypeOf(f))
    BY <1>1, <1>4, <1>6, FieldTypes DEF ValuesOf, FromSyslogAttr
  <2>. QED  BY <1>5, <2>1
<1>8. d # Failed
  <2>1. d = [f \in Fields |-> d[f]]
    BY DEF d, from_syslog
  <2>2. \A f \in Fields : d[f] \in {None} \cup STRING \cup Int
    BY <1>7, ValuesOfFacts
  <2>3. d \in [Fields -> {None} \cup STRING \cup Int]
    BY <2>1, <2>2
  <2>. QED  BY <2>3, DocumentAssumption DEF DocumentAssumption
<1>. QED  BY <1>1, <1>2, <1>3, <1>4, <1>6, <1>7, <1>8 DEF d

(* Whatever the record: a decoded document has all of the fields, each       *)
(* absent or of its type.                                                    *)
LEMMA DecodedFacts ==
  ASSUME record \in Incoming, Decoded # Failed
  PROVE  /\ DOMAIN Decoded = Fields
         /\ \A f \in Fields : Decoded[f] \in {None} \cup ValuesOf(TypeOf(f))
<1>1. CASE record.kind = "gelf"
  <2>1. record.msg \in GELFMessages
    BY <1>1 DEF Incoming
  <2>2. Decoded = from_gelf(record.msg)
    BY <1>1 DEF Decoded
  <2>. QED  BY <2>1, <2>2, GelfDecoded, ConstructorFacts
<1>2. CASE record.kind = "syslog"
  <2>1. record.msg \in SyslogMessages
    BY <1>2 DEF Incoming
  <2>2. Decoded = from_syslog(record.msg)
    BY <1>2 DEF Decoded
  <2>. QED  BY <2>1, <2>2, SyslogDecoded
<1>. QED  BY <1>1, <1>2 DEF Incoming

-----------------------------------------------------------------------------
(* The inductive invariant: a document is what its record decodes to, but    *)
(* for the host that the lookup fills in; and what was skipped is not valid. *)

Looked(d) ==
  /\ DOMAIN d = Fields
  /\ \A f \in Fields :
       \/ d[f] = Decoded[f]
       \/ f = "hostname" /\ Decoded[f] = None /\ d[f] \in HostNames

IInv ==
  /\ pc \in {"convert", "lookup", "written", "skipped"}
  /\ record \in Incoming
  /\ pc \in {"convert", "skipped"} => doc = None
  /\ pc = "skipped" /\ Decoded # Failed => ~IsValid(Decoded)
  /\ pc \in {"lookup", "written"} => Decoded # Failed /\ IsValid(Decoded) /\ Looked(doc)
  /\ pc = "written" => doc.hostname # None

THEOREM Invariance == Spec => []IInv
<1>1. Init => IInv
  BY DEF Init, IInv
<1>2. IInv /\ [Next]_vars => IInv'
  <2>. SUFFICES ASSUME IInv, [Next]_vars PROVE IInv'
    OBVIOUS
  <2>. USE DEF IInv
  <2>1. CASE Skip
    BY <2>1 DEF Skip, Decoded
  <2>2. CASE Accept
    <3>1. Looked(Decoded)
      BY <2>2, DecodedFacts DEF Accept, Looked
    <3>. QED  BY <2>2, <3>1 DEF Accept, Decoded, Looked
  <2>3. CASE Write
    <3>1. /\ pc = "lookup" /\ pc' = "written" /\ record' = record /\ Decoded' = Decoded
          /\ "hostname" \in Fields
      BY <2>3, FieldTypes DEF Write, Decoded, FromSyslogAttr
    <3>2. CASE doc.hostname # None
      BY <2>3, <3>1, <3>2 DEF Write, Looked
    <3>3. CASE doc.hostname = None
      <4>1. PICK name \in HostNames : doc' = [doc EXCEPT !.hostname = name]
        BY <2>3, <3>3 DEF Write
      <4>2. DOMAIN doc = Fields /\ Decoded["hostname"] = None
        BY <3>1, <3>3, Constants DEF Looked
      <4>3. doc'.hostname = name /\ name # None
        <5>1. name \in STRING
          BY DocumentAssumption DEF DocumentAssumption
        <5>2. doc'["hostname"] = name
          BY <3>1, <4>1, <4>2
        <5>. QED  BY <5>1, <5>2, Constants
      <4>4. Looked(doc')
        BY <3>1, <4>1, <4>2 DEF Looked
      <4>. QED  BY <3>1, <4>3, <4>4 DEF Looked
    <3>. QED  BY <3>2, <3>3
  <2>4. CASE UNCHANGED vars
    BY <2>4 DEF vars, Decoded, Looked
  <2>. QED  BY <2>1, <2>2, <2>3, <2>4 DEF Next
<1>. QED  BY <1>1, <1>2, PTL DEF Spec

-----------------------------------------------------------------------------
(* What holds of every document that has been decoded. *)

LEMMA DocumentFacts ==
  ASSUME IInv, pc \in {"lookup", "written"}
  PROVE  /\ DOMAIN doc = Fields
         /\ \A f \in Fields : doc[f] \in {None} \cup ValuesOf(TypeOf(f))
         /\ doc.source_timestamp = Decoded.source_timestamp /\ doc.message = Decoded.message
         /\ doc.source_timestamp # None /\ doc.message # None
         /\ doc.source_timestamp > 0
         /\ {"source_timestamp", "message", "hostname"} \subseteq Fields
<1>1. {"source_timestamp", "message", "hostname"} \subseteq Fields
  BY FieldTypes DEF FromSyslogAttr
<1>2. doc.source_timestamp = Decoded.source_timestamp /\ doc.message = Decoded.message
  BY <1>1 DEF IInv, Looked
<1>3. ASSUME NEW f \in Fields PROVE doc[f] \in {None} \cup ValuesOf(TypeOf(f))
  <2>1. CASE doc[f] = Decoded[f]
    BY <2>1, DecodedFacts DEF IInv
  <2>2. CASE f = "hostname" /\ doc[f] \in HostNames
    <3>1. ValuesOf(TypeOf(f)) = STRING
      BY <2>2, FieldTypes DEF ValuesOf
    <3>. QED  BY <2>2, <3>1, DocumentAssumption DEF DocumentAssumption
  <2>. QED  BY <2>1, <2>2 DEF IInv, Looked
<1>. QED  BY <1>1, <1>2, <1>3 DEF IInv, IsValid, Looked

(* Every value of a document has the type of its field, for every width of   *)
(* the integers and everything that the strings of a message are read as.    *)
THEOREM TypeCorrect == Spec => []TypeOK
<1>1. ASSUME IInv PROVE TypeOK
  <2>1. ASSUME pc \in {"lookup", "written"}, NEW f \in Fields, doc[f] # None
        PROVE  CASE TypeOf(f) = "u64" -> doc[f] \in U64
                 [] TypeOf(f) = "i64" -> doc[f] \in I64
                 [] OTHER -> doc[f] \in STRING
    <3>1. doc[f] \in ValuesOf(TypeOf(f))
      BY <1>1, <2>1, DocumentFacts
    <3>. QED  BY <3>1 DEF ValuesOf
  <2>. QED  BY <1>1, <2>1 DEF IInv, TypeOK
<1>. QED  BY <1>1, Invariance, PTL

(* Every document that is posted has its time, its host and its message, and *)
(* no field of it is null, whatever the record and whatever a lookup finds   *)
(* (schema.rs lines 395-414).                                                *)
THEOREM PostedComplete == Spec => []WrittenIsComplete
<1>1. ASSUME IInv PROVE WrittenIsComplete
  <2>. SUFFICES ASSUME pc = "written", NEW f \in DOMAIN Posted(doc)
                PROVE Posted(doc)[f] # None
    BY DEF WrittenIsComplete
  <2>1. f \in Fields /\ (doc[f] # None \/ f \in AlwaysSerialised) /\ Posted(doc)[f] = doc[f]
    BY DEF Posted
  <2>2. doc.source_timestamp # None /\ doc.hostname # None /\ doc.message # None
    BY <1>1, DocumentFacts DEF IInv
  <2>. QED  BY <2>1, <2>2 DEF AlwaysSerialised
<1>. QED  BY <1>1, Invariance, PTL

-----------------------------------------------------------------------------
(* The time of a GELF record. *)

LEMMA TimeAttrIs ==
  /\ "source_timestamp" \in Fields /\ TypeOf("source_timestamp") = "u64"
  /\ \A i \in DOMAIN FromGelfAttr["source_timestamp"] :
       FromGelfAttr["source_timestamp"][i].conversion \in {"none", "float_sec_to_usec"}
BY FieldTypes DEF FromGelfAttr, DocumentFields, Over, Fields, MessageFields, Field,
   SrcVia, Src, FromSyslogAttr

(* A field that a GELF message gives is converted from what its sender has   *)
(* under the first of its keys.                                              *)
LEMMA SentFacts ==
  ASSUME record \in Incoming, record.kind = "gelf", Decoded # Failed,
         NEW f \in Fields, Decoded[f] # None
  PROVE  /\ Min(Given(f, record.msg)) \in DOMAIN FromGelfAttr[f]
         /\ Sent(f) \in Values
         /\ Decoded[f] = Convert(f, SentBy(f), Sent(f)) /\ Decoded[f] # Failed
<1>. DEFINE first == Min(Given(f, record.msg))
<1>1. record.msg \in GELFMessages /\ Decoded = from_gelf(record.msg)
  BY DEF Incoming, Decoded
<1>2. Decoded[f] = ConstructorExpr(f, record.msg) /\ Decoded[f] \notin {None, Failed}
  BY <1>1, GelfDecoded
<1>3. first \in Given(f, record.msg) /\ Decoded[f] = Alternative(f, first, record.msg)
  BY <1>1, <1>2, ConstructorFacts
<1>4. /\ first \in DOMAIN FromGelfAttr[f]
      /\ FromGelfAttr[f][first].key \in DOMAIN record.msg
      /\ record.msg[FromGelfAttr[f][first].key] \in Values
  BY <1>1, <1>3, MessageAssumption DEF MessageAssumption, Given
<1>. QED  BY <1>2, <1>3, <1>4 DEF Alternative, SentBy, Sent

(* Where it has one, it is after 1970 just when the document's is.           *)
LEMMA TimeFacts ==
  ASSUME record \in Incoming, record.kind = "gelf", Decoded # Failed,
         Decoded.source_timestamp # None
  PROVE  SenderTime \in Int /\ (Decoded.source_timestamp > 0 <=> SenderTime > 0)
<1>. DEFINE f == "source_timestamp"
<1>1. /\ Min(Given(f, record.msg)) \in DOMAIN FromGelfAttr[f]
      /\ Sent(f) \in Values
      /\ Decoded[f] = Convert(f, SentBy(f), Sent(f)) /\ Decoded[f] # Failed
  BY SentFacts, TimeAttrIs
<1>2. SentBy(f).conversion \in {"none", "float_sec_to_usec"}
  BY <1>1, TimeAttrIs DEF SentBy
<1>3. CASE SentBy(f).conversion = "none"
  <2>1. Decoded[f] = Plain("u64", Sent(f))
    BY <1>1, <1>3, TimeAttrIs DEF Convert
  <2>. QED  BY <1>1, <2>1, PlainU64Facts DEF SenderTime
<1>4. CASE SentBy(f).conversion = "float_sec_to_usec"
  <2>1. Decoded[f] = convert_float_sec_to_usec(Sent(f))
    BY <1>1, <1>4 DEF Convert
  <2>. QED  BY <1>1, <2>1, FloatFacts DEF SenderTime
<1>. QED  BY <1>2, <1>3, <1>4

(* The fields with a time, and what syslog gives of them.                    *)
LEMMA TimeFieldsAre ==
  ASSUME NEW f \in TimeFields
  PROVE  /\ f \in Fields /\ TypeOf(f) = "u64"
         /\ DocumentFields[f].storage_type \in {"timestamp", "fast_timestamp"}
         /\ \A i \in DOMAIN FromGelfAttr[f] :
              FromGelfAttr[f][i].conversion \in {"none", "float_sec_to_usec", "syslog_timestamp"}
         /\ f \in DOMAIN FromSyslogAttr => f = "source_timestamp"
<1>1. /\ f \in Fields /\ DocumentFields[f].storage_type \in {"timestamp", "fast_timestamp"}
  BY DEF TimeFields
<1>2. \A g \in DOMAIN FromSyslogAttr \ {"source_timestamp"} :
        DocumentFields[g].storage_type \in {"string", "text", "u64"}
  BY DEF FromSyslogAttr, DocumentFields, Over, Fields, MessageFields, Str, Text, Uint, Field
<1>. QED  BY <1>1, <1>2, SchemaAgrees DEF Agrees, StoredAs, Kinds, TypeOf, FromGelfAttr

LEMMA FloatExact ==
  ASSUME NEW v \in Values, convert_float_sec_to_usec(v) # Failed,
         Halves(v) * (UsPerSec \div 2) \in Datable
  PROVE  convert_float_sec_to_usec(v) = Halves(v) * (UsPerSec \div 2)
<1>1. SaturateU64(Halves(v) * (UsPerSec \div 2)) = Halves(v) * (UsPerSec \div 2)
  BY DatableFacts
<1>. QED  BY <1>1, ValueFacts DEF convert_float_sec_to_usec, Halves

LEMMA PlainExact ==
  ASSUME NEW v \in Values, Plain("u64", v) # Failed
  PROVE  Plain("u64", v) = Halves(v) \div 2
BY ValueFacts DEF Plain, Whole, Halves

LEMMA SyslogTimestampExact ==
  ASSUME NEW v \in Values, convert_syslog_timestamp(v) # Failed, AsUsec(v.s) \in Datable
  PROVE  convert_syslog_timestamp(v) = AsUsec(v.s)
<1>1. Divide(AsUsec(v.s) * NsPerUs, NsPerUs) = AsUsec(v.s)
  BY DatableFacts DEF Divide
<1>. QED  BY <1>1, DatableFacts DEF convert_syslog_timestamp

(* A time from 1970 to 2262 is posted as it was sent, for every width of the *)
(* integers and every unit (schema.rs lines 28-68, yaffle-macros lib.rs      *)
(* lines 34-127).                                                            *)
THEOREM TimesAreKept == Spec => []TimesKept
<1>1. ASSUME IInv, pc = "written", NEW f \in TimeFields, f \in DOMAIN Posted(doc),
             SentUsec(f) \in Datable
      PROVE  doc[f] = SentUsec(f)
  <2>1. record \in Incoming /\ Decoded # Failed
    BY <1>1 DEF IInv
  <2>2. f \in Fields /\ f # "hostname" /\ TypeOf(f) = "u64"
    BY TimeFieldsAre, FieldTypes
  <2>3. doc[f] = Decoded[f]
    BY <1>1, <2>2 DEF IInv, Looked
  <2>4. doc[f] # None
    BY <1>1, DocumentFacts DEF Posted, AlwaysSerialised, IInv
  <2>5. CASE record.kind = "syslog"
    <3>1. record.msg \in SyslogMessages /\ Decoded = from_syslog(record.msg)
      BY <2>1, <2>5 DEF Incoming, Decoded
    <3>2. f = "source_timestamp"
      BY <2>2, <2>3, <2>4, <3>1, TimeFieldsAre DEF from_syslog
    <3>3. Decoded[f] = convert_datetime_to_usec(record.msg.source_timestamp)
      BY <3>1, <3>2, SyslogDecoded
    <3>4. SentUsec(f) = record.msg.source_timestamp
      BY <2>5 DEF SentUsec
    <3>. QED  BY <1>1, <2>3, <3>3, <3>4, DatetimeExact
  <2>6. CASE record.kind = "gelf"
    <3>1. /\ Min(Given(f, record.msg)) \in DOMAIN FromGelfAttr[f]
          /\ Sent(f) \in Values
          /\ doc[f] = Convert(f, SentBy(f), Sent(f)) /\ doc[f] # Failed
      BY <2>1, <2>2, <2>3, <2>4, <2>6, SentFacts
    <3>2. SentBy(f).conversion \in {"none", "float_sec_to_usec", "syslog_timestamp"}
      BY <3>1, TimeFieldsAre DEF SentBy
    <3>3. CASE SentBy(f).conversion = "none"
      <4>1. SentUsec(f) = Halves(Sent(f)) \div 2
        BY <2>6, <3>3 DEF SentUsec
      <4>. QED  BY <2>2, <3>1, <3>3, <4>1, PlainExact DEF Convert
    <3>4. CASE SentBy(f).conversion = "float_sec_to_usec"
      <4>1. SentUsec(f) = Halves(Sent(f)) * (UsPerSec \div 2)
        BY <2>6, <3>4 DEF SentUsec
      <4>. QED  BY <1>1, <3>1, <3>4, <4>1, FloatExact DEF Convert
    <3>5. CASE SentBy(f).conversion = "syslog_timestamp"
      <4>1. SentUsec(f) = AsUsec(Sent(f).s)
        BY <2>6, <3>5 DEF SentUsec
      <4>. QED  BY <1>1, <3>1, <3>5, <4>1, SyslogTimestampExact DEF Convert
    <3>. QED  BY <3>2, <3>3, <3>4, <3>5
  <2>. QED  BY <2>1, <2>5, <2>6 DEF Incoming
<1>2. IInv => TimesKept
  BY <1>1 DEF TimesKept
<1>. QED  BY <1>2, Invariance, PTL

(* No GELF record from before 1970 is posted (schema.rs lines 32-41, 408).   *)
THEOREM DatedAfterEpoch == Spec => []GelfDatedAfterEpoch
<1>1. ASSUME IInv PROVE GelfDatedAfterEpoch
  BY <1>1, DocumentFacts, TimeFacts DEF GelfDatedAfterEpoch, IInv
<1>. QED  BY <1>1, Invariance, PTL

LEMMA TextFacts ==
  ASSUME record \in Incoming, record.kind = "gelf", Decoded # Failed
  PROVE  /\ Decoded.message \in STRING
         /\ Decoded.message = "" => record.msg["short_message"] = StringOf("")
<1>. DEFINE v == record.msg["short_message"]
<1>1. /\ record.msg \in GELFMessages /\ Decoded = from_gelf(record.msg)
      /\ "short_message" \in DOMAIN record.msg /\ v \in Values /\ v.t = "string"
  BY MessageAssumption DEF MessageAssumption, Incoming, Decoded
<1>2. /\ "message" \in Fields /\ TypeOf("message") = "String"
      /\ DOMAIN FromGelfAttr["message"] = {1}
      /\ FromGelfAttr["message"][1] = Src("short_message")
  BY FieldTypes DEF FromGelfAttr, DocumentFields, Over, Fields, MessageFields, Text, Field, Plainly,
     FromSyslogAttr
<1>3. Given("message", record.msg) = {1}
  BY <1>1, <1>2 DEF Given, Src
<1>4. Min({1}) = 1
  BY DEF Min
<1>5. Decoded.message = Alternative("message", 1, record.msg)
  <2>1. Decoded.message = ConstructorExpr("message", record.msg)
    BY <1>1, <1>2, GelfDecoded
  <2>2. ConstructorExpr("message", record.msg) # Failed
    BY <1>1, <1>2, GelfDecoded
  <2>. QED  BY <1>3, <1>4, <2>1, <2>2 DEF ConstructorExpr
<1>6. Decoded.message = v.s
  BY <1>1, <1>2, <1>5 DEF Alternative, Convert, Plain, Src
<1>. QED  BY <1>1, <1>6, ValueFacts

LEMMA NotValid ==
  ASSUME NEW d, ~IsValid(d), d.source_timestamp # None, d.message # None, d.message # ""
  PROVE  ~(d.source_timestamp > 0)
BY DEF IsValid

(* A record is skipped only for a cause of its own (yaffle-macros lib.rs     *)
(* lines 73-89, main.rs lines 158-168).                                      *)
THEOREM SkippedCause == Spec => []SkippedForCause
<1>1. ASSUME IInv, pc = "skipped", record.kind = "syslog"
      PROVE  \/ record.msg.message = ""
             \/ convert_datetime_to_usec(record.msg.source_timestamp) = 0
  <2>1. record.msg \in SyslogMessages /\ Decoded = from_syslog(record.msg)
    BY <1>1 DEF IInv, Incoming, Decoded
  <2>2. Decoded # Failed /\ ~IsValid(Decoded)
    BY <1>1, <2>1, SyslogDecoded DEF IInv
  <2>3. /\ Decoded.source_timestamp = convert_datetime_to_usec(record.msg.source_timestamp)
        /\ Decoded.message = record.msg.message
        /\ Decoded.source_timestamp \in Nat
        /\ Decoded.source_timestamp # None /\ Decoded.message # None
    BY <2>1, SyslogDecoded, Constants DEF U64
  <2>4. CASE Decoded.message = ""
    BY <2>3, <2>4
  <2>5. CASE Decoded.message # ""
    <3>1. ~(Decoded.source_timestamp > 0)
      BY <2>2, <2>3, <2>5, NotValid
    <3>2. Decoded.source_timestamp = 0
      BY <2>3, <3>1
    <3>. QED  BY <2>3, <3>2
  <2>. QED  BY <2>4, <2>5
<1>2. ASSUME IInv, pc = "skipped", record.kind = "gelf"
      PROVE  \/ Unreadable(record.msg)
             \/ record.msg["short_message"] = StringOf("")
             \/ TimeKeys \cap DOMAIN record.msg = {}
             \/ SenderTime <= 0
  <2>1. record.msg \in GELFMessages /\ Decoded = from_gelf(record.msg)
    BY <1>2 DEF IInv, Incoming, Decoded
  <2>2. CASE Decoded = Failed
    <3>1. PICK f \in Fields : ConstructorExpr(f, record.msg) = Failed
      BY <2>1, <2>2, GelfDecoded
    <3>2. PICK i \in Given(f, record.msg) : Alternative(f, i, record.msg) = Failed
      BY <2>1, <3>1, ConstructorFacts
    <3>. QED  BY <3>2 DEF Unreadable, Given, Alternative
  <2>3. CASE Decoded # Failed
    <3>1. ~IsValid(Decoded) /\ record \in Incoming
      BY <1>2, <2>3 DEF IInv
    <3>2. Decoded.message # None
      BY <1>2, <2>3, <3>1, TextFacts, Constants
    <3>3. CASE Decoded.message = ""
      BY <1>2, <2>3, <3>1, <3>3, TextFacts
    <3>4. CASE Decoded.source_timestamp = None
      <4>1. Given("source_timestamp", record.msg) = {}
        BY <2>1, <2>3, <3>4, TimeAttrIs, GelfDecoded, ConstructorFacts
      <4>2. TimeKeys \cap DOMAIN record.msg = {}
        BY <4>1 DEF Given, TimeKeys
      <4>. QED  BY <4>2
    <3>5. CASE Decoded.message # "" /\ Decoded.source_timestamp # None
      <4>1. ~(Decoded.source_timestamp > 0)
        BY <3>1, <3>2, <3>5, NotValid
      <4>2. SenderTime \in Int /\ ~(SenderTime > 0)
        BY <1>2, <2>3, <3>1, <3>5, <4>1, TimeFacts
      <4>3. SenderTime <= 0
        BY <4>2
      <4>. QED  BY <4>3
    <3>. QED  BY <3>3, <3>4, <3>5
  <2>. QED  BY <2>2, <2>3
<1>3. ASSUME IInv PROVE SkippedForCause
  BY <1>1, <1>2, <1>3 DEF SkippedForCause, IInv, Incoming
<1>. QED  BY <1>3, Invariance, PTL

-----------------------------------------------------------------------------
(* The index. *)

LEMMA EntryIs ==
  ASSUME NEW mapping, NEW e \in DOMAIN mapping
  PROVE  LET made == Over(Serialised(mapping), QuickwitDefault) IN
           /\ ~Skipped(e, mapping[e]) => made[e] = mapping[e]
           /\ Skipped(e, mapping[e]) /\ e \in DOMAIN QuickwitDefault => made[e] = QuickwitDefault[e]
BY DEF Over, Serialised

(* The mapping, as Quickwit understands it, for values of one kind.          *)
Mapping(storage_type) == Over(Serialised(FieldMapping(storage_type)), QuickwitDefault)

LEMMA DefaultEntries ==
  /\ DOMAIN DefaultMapping = {"type", "stored", "indexed", "tokenizer", "record", "fieldnorms",
                              "fast", "input_formats", "precision"}
  /\ DOMAIN QuickwitDefault = DOMAIN DefaultMapping \ {"type"}
  /\ DefaultMapping["stored"] = TRUE /\ DefaultMapping["indexed"] = TRUE
  /\ DefaultMapping["tokenizer"] = None
  /\ QuickwitDefault["stored"] = TRUE /\ QuickwitDefault["indexed"] = TRUE
  /\ QuickwitDefault["tokenizer"] = "default"
BY DEF DefaultMapping, QuickwitDefault

LEMMA StringMapping ==
  Mapping("string")["type"] = "text" /\ Mapping("string")["stored"] = TRUE
<1>. DEFINE m == FieldMapping("string")
<1>1. /\ DOMAIN m = DOMAIN DefaultMapping
      /\ m["type"] = "text" /\ m["stored"] = TRUE
  BY DefaultEntries DEF FieldMapping
<1>. HIDE DEF m
<1>2. ~Skipped("type", "text") /\ Skipped("stored", TRUE)
  BY DEF Skipped
<1>3. Over(Serialised(m), QuickwitDefault)["type"] = "text"
  BY <1>1, <1>2, EntryIs, DefaultEntries
<1>4. Over(Serialised(m), QuickwitDefault)["stored"] = TRUE
  BY <1>1, <1>2, EntryIs, DefaultEntries
<1>. QED  BY <1>3, <1>4 DEF Mapping, m

LEMMA TextMapping ==
  /\ Mapping("text")["type"] = "text" /\ Mapping("text")["stored"] = TRUE
  /\ Mapping("text")["indexed"] = TRUE /\ Mapping("text")["tokenizer"] = "default"
  /\ Mapping("text")["record"] = "position"
<1>. DEFINE m == FieldMapping("text")
<1>1. /\ DOMAIN m = DOMAIN DefaultMapping
      /\ m["type"] = "text" /\ m["stored"] = TRUE /\ m["indexed"] = TRUE
      /\ m["tokenizer"] = None /\ m["record"] = "position"
  BY DefaultEntries DEF FieldMapping
<1>. HIDE DEF m
<1>2. /\ ~Skipped("type", "text") /\ ~Skipped("record", "position")
      /\ Skipped("stored", TRUE) /\ Skipped("indexed", TRUE) /\ Skipped("tokenizer", None)
  BY SchemaAssumption DEF Skipped, SchemaAssumption
<1>3. \A e \in DOMAIN DefaultMapping :
        /\ ~Skipped(e, m[e]) => Over(Serialised(m), QuickwitDefault)[e] = m[e]
        /\ Skipped(e, m[e]) /\ e \in DOMAIN QuickwitDefault
             => Over(Serialised(m), QuickwitDefault)[e] = QuickwitDefault[e]
  BY <1>1, EntryIs
<1>4. {"type", "stored", "indexed", "tokenizer", "record"} \subseteq DOMAIN DefaultMapping
      /\ {"stored", "indexed", "tokenizer", "record"} \subseteq DOMAIN QuickwitDefault
  BY DefaultEntries
<1>. QED  BY <1>1, <1>2, <1>3, <1>4, DefaultEntries DEF Mapping, m

LEMMA IntegersMapping ==
  ASSUME NEW type \in {"u64", "i64"}
  PROVE  Mapping(type)["type"] = type /\ Mapping(type)["stored"] = TRUE
<1>. DEFINE m == FieldMapping(type)
<1>1. /\ DOMAIN m = DOMAIN DefaultMapping
      /\ m["type"] = type /\ m["stored"] = TRUE
  BY DefaultEntries DEF FieldMapping, IntegerMapping
<1>. HIDE DEF m
<1>2. ~Skipped("type", type) /\ Skipped("stored", TRUE)
  BY DEF Skipped
<1>3. Over(Serialised(m), QuickwitDefault)["type"] = type
  BY <1>1, <1>2, EntryIs, DefaultEntries
<1>4. Over(Serialised(m), QuickwitDefault)["stored"] = TRUE
  BY <1>1, <1>2, EntryIs, DefaultEntries
<1>. QED  BY <1>3, <1>4 DEF Mapping, m

LEMMA DatesMapping ==
  ASSUME NEW type \in {"timestamp", "fast_timestamp"}
  PROVE  /\ Mapping(type)["type"] = "datetime" /\ Mapping(type)["stored"] = TRUE
         /\ Mapping(type)["input_formats"] = <<"unix_timestamp">>
         /\ Mapping(type)["precision"] = "microseconds"
         /\ type = "fast_timestamp" => Mapping(type)["fast"] = TRUE
<1>. DEFINE m == FieldMapping(type)
<1>1. /\ DOMAIN m = DOMAIN DefaultMapping
      /\ m["type"] = "datetime" /\ m["stored"] = TRUE
      /\ m["input_formats"] = <<"unix_timestamp">> /\ m["precision"] = "microseconds"
      /\ type = "fast_timestamp" => m["fast"] = TRUE
  BY DefaultEntries DEF FieldMapping, DateMapping
<1>. HIDE DEF m
<1>2. /\ ~Skipped("type", "datetime") /\ Skipped("stored", TRUE)
      /\ ~Skipped("input_formats", <<"unix_timestamp">>)
      /\ ~Skipped("precision", "microseconds") /\ ~Skipped("fast", TRUE)
  BY SchemaAssumption DEF Skipped, SchemaAssumption
<1>3. \A e \in DOMAIN DefaultMapping :
        /\ ~Skipped(e, m[e]) => Over(Serialised(m), QuickwitDefault)[e] = m[e]
        /\ Skipped(e, m[e]) /\ e \in DOMAIN QuickwitDefault
             => Over(Serialised(m), QuickwitDefault)[e] = QuickwitDefault[e]
  BY <1>1, EntryIs
<1>4. {"type", "stored", "input_formats", "precision", "fast"} \subseteq DOMAIN DefaultMapping
      /\ "stored" \in DOMAIN QuickwitDefault
  BY DefaultEntries
<1>. QED  BY <1>1, <1>2, <1>3, <1>4, DefaultEntries DEF Mapping, m

(* What a field can hold, its mapping can be read as; a time, if it is one  *)
(* of Quickwit's.                                                            *)
LEMMA MappingReads ==
  ASSUME NEW type \in {"String", "u64", "i64"}, NEW storage_type \in StoredAs(type)
  PROVE  /\ Mapping(storage_type)["stored"] = TRUE
         /\ IF storage_type \in {"timestamp", "fast_timestamp"}
            THEN QuickwitDates \subseteq ReadableAs(Mapping(storage_type))
            ELSE ValuesOf(type) \subseteq ReadableAs(Mapping(storage_type))
<1>1. CASE storage_type \in {"string", "text"}
  <2>1. type = "String"
    BY <1>1 DEF StoredAs
  <2>. QED  BY <1>1, <2>1, StringMapping, TextMapping DEF ReadableAs, ValuesOf
<1>2. CASE storage_type \in {"u64", "i64"}
  <2>1. type = storage_type
    BY <1>2 DEF StoredAs
  <2>. QED  BY <1>2, <2>1, IntegersMapping DEF ReadableAs, ValuesOf
<1>3. CASE storage_type \in {"timestamp", "fast_timestamp"}
  <2>1. "unix_timestamp" \in Range(<<"unix_timestamp">>)
    BY DEF Range
  <2>. QED  BY <1>3, <2>1, DatesMapping DEF ReadableAs
<1>. QED  BY <1>1, <1>2, <1>3 DEF StoredAs

(* The index can read every value that is posted, but for a time outside of  *)
(* Quickwit's dates or of those with an i64 of nanoseconds, and has the date *)
(* and the texts that every query needs (schema.rs lines 71-392,             *)
(* yaffle-macros lib.rs lines 289-341, main.rs lines 86-103).                *)
THEOREM PostedIsRead == Spec => []IndexReadsWritten
<1>1. \A f \in Fields : Index.field_mappings[f] = Mapping(DocumentFields[f].storage_type)
  BY DEF Index, Mapping
<1>2. /\ Index.timestamp_field = "source_timestamp"
      /\ Index.default_search_fields = {"message", "full_message"}
  BY DEF Index
<1>3. /\ {"source_timestamp", "message", "full_message"} \subseteq Fields
      /\ DocumentFields["source_timestamp"].storage_type = "fast_timestamp"
      /\ DocumentFields["message"].storage_type = "text"
      /\ DocumentFields["full_message"].storage_type = "text"
  BY DEF DocumentFields, Over, Fields, MessageFields, Text, Field
<1>4. ASSUME IInv, TimesKept, pc = "written", NEW f \in DOMAIN Posted(doc)
      PROVE  /\ Index.field_mappings[f].stored
             /\ \/ Posted(doc)[f] \in ReadableAs(Index.field_mappings[f])
                \/ f \in TimeFields /\ SentUsec(f) \notin QuickwitDates \cap Datable
  <2>. DEFINE storage == DocumentFields[f].storage_type
  <2>1. f \in Fields /\ Posted(doc)[f] = doc[f] /\ (doc[f] # None \/ f \in AlwaysSerialised)
    BY DEF Posted
  <2>2. doc[f] \in ValuesOf(TypeOf(f))
    BY <1>4, <2>1, DocumentFacts DEF IInv, AlwaysSerialised
  <2>3. TypeOf(f) \in {"String", "u64", "i64"} /\ storage \in StoredAs(TypeOf(f))
    BY <2>1, SchemaAgrees DEF Agrees, TypeOf
  <2>4. Index.field_mappings[f] = Mapping(storage) /\ Mapping(storage)["stored"] = TRUE
    BY <1>1, <2>1, <2>3, MappingReads
  <2>5. CASE f \in TimeFields
    <3>1. QuickwitDates \subseteq ReadableAs(Mapping(storage))
      BY <2>3, <2>5, MappingReads, TimeFieldsAre
    <3>2. SentUsec(f) \in Datable => doc[f] = SentUsec(f)
      BY <1>4, <2>5 DEF TimesKept
    <3>. QED  BY <2>1, <2>4, <2>5, <3>1, <3>2
  <2>6. CASE f \notin TimeFields
    <3>1. ValuesOf(TypeOf(f)) \subseteq ReadableAs(Mapping(storage))
      BY <2>1, <2>3, <2>6, MappingReads DEF TimeFields
    <3>. QED  BY <2>1, <2>2, <2>4, <3>1
  <2>. QED  BY <2>5, <2>6
<1>5. ASSUME IInv, TimesKept PROVE IndexReadsWritten
  BY <1>1, <1>2, <1>3, <1>4, <1>5, TextMapping, DatesMapping DEF IndexReadsWritten
<1>. QED  BY <1>5, Invariance, TimesAreKept, PTL
=============================================================================
