-------------------------- MODULE SearchPageProofs --------------------------
(***************************************************************************)
(* What the page shows and which fields a tab opens with, for every set of   *)
(* fields, documents and tabs and any number of hits, searches and clicks.   *)
(***************************************************************************)
EXTENDS SearchPage, DataInduction, FiniteSetTheorems, FunctionTheorems

-----------------------------------------------------------------------------
(* The columns: every finite set of fields has one order that                *)
(* field_custom_sort accepts.                                                *)

AllFields == Range(FieldNames)

InOrder(s) == \A i, j \in DOMAIN s : i < j => s[i] # s[j] /\ FieldCustomSort(s[i], s[j])

LEMMA FieldNamesFinite == IsFiniteSet(AllFields)
<1>. DEFINE f == [i \in 1 .. Len(FieldNames) |-> FieldNames[i]]
<1>1. Len(FieldNames) \in Nat /\ DOMAIN FieldNames = 1 .. Len(FieldNames)
  BY SearchAssumption DEF SearchAssumption
<1>2. f \in Surjection(1 .. Len(FieldNames), AllFields)
  BY <1>1 DEF Surjection, AllFields, Range
<1>3. IsFiniteSet(1 .. Len(FieldNames))
  BY <1>1, FS_Interval
<1>. QED  BY <1>2, <1>3, FS_Surjection

LEMMA PositionFacts ==
  /\ \A a \in AllFields : Position(a) \in Nat
  /\ \A a, b \in AllFields : Position(a) = Position(b) => a = b
<1>1. Len(FieldNames) \in Nat /\ DOMAIN FieldNames = 1 .. Len(FieldNames)
  BY SearchAssumption DEF SearchAssumption
<1>2. ASSUME NEW a \in AllFields
      PROVE  Position(a) \in DOMAIN FieldNames /\ FieldNames[Position(a)] = a
  BY DEF AllFields, Range, Position
<1>. QED  BY <1>1, <1>2

LEMMA FirstField ==
  ASSUME NEW S \in SUBSET AllFields, S # {}
  PROVE  \E m \in S : \A x \in S : x # m => FieldCustomSort(m, x)
<1>1. CASE "source_timestamp" \in S
  BY <1>1 DEF FieldCustomSort
<1>2. CASE "source_timestamp" \notin S
  <2>. DEFINE places == {Position(x) : x \in S}
  <2>1. places \subseteq Nat /\ places # {}
    BY PositionFacts
  <2>2. \A x \in S : Position(x) \in places
    OBVIOUS
  <2>3. \A n \in places : \E x \in S : n = Position(x)
    OBVIOUS
  <2>. HIDE DEF places
  <2>4. PICK n \in places : \A m \in places : n <= m
    BY <2>1, Least
  <2>5. PICK m \in S : n = Position(m)
    BY <2>3
  <2>6. ASSUME NEW x \in S, x # m PROVE FieldCustomSort(m, x)
    <3>1. Position(m) <= Position(x) /\ Position(x) # Position(m)
      BY <2>2, <2>4, <2>5, <2>6, PositionFacts
    <3>2. Position(m) \in Nat /\ Position(x) \in Nat
      BY PositionFacts
    <3>. QED  BY <1>2, <3>1, <3>2 DEF FieldCustomSort
  <2>. QED  BY <2>6
<1>. QED  BY <1>1, <1>2

LEMMA SortExists ==
  ASSUME NEW n \in Nat
  PROVE  \A S \in SUBSET AllFields : Cardinality(S) = n => \E s \in [1 .. n -> S] : InOrder(s)
<1>. DEFINE P(k) == \A S \in SUBSET AllFields : Cardinality(S) = k => \E s \in [1 .. k -> S] : InOrder(s)
            G == {k \in Nat : P(k)}
<1>1. \A S \in SUBSET AllFields : IsFiniteSet(S)
  BY FieldNamesFinite, FS_Subset
<1>2. P(0)
  <2>. SUFFICES ASSUME NEW S \in SUBSET AllFields, Cardinality(S) = 0
                PROVE  \E s \in [1 .. 0 -> S] : InOrder(s)
    OBVIOUS
  <2>1. [i \in 1 .. 0 |-> i] \in [1 .. 0 -> S] /\ InOrder([i \in 1 .. 0 |-> i])
    BY DEF InOrder
  <2>. QED  BY <2>1
<1>3. ASSUME NEW k \in Nat, P(k) PROVE P(k + 1)
  <2>. SUFFICES ASSUME NEW S \in SUBSET AllFields, Cardinality(S) = k + 1
                PROVE  \E s \in [1 .. k + 1 -> S] : InOrder(s)
    OBVIOUS
  <2>1. S # {}
    <3>1. k + 1 # 0
      OBVIOUS
    <3>. QED  BY <3>1, FS_EmptySet
  <2>2. PICK m \in S : \A x \in S : x # m => FieldCustomSort(m, x)
    BY <2>1, FirstField
  <2>3. S \ {m} \in SUBSET AllFields /\ Cardinality(S \ {m}) = k
    <3>1. Cardinality(S \ {m}) = (k + 1) - 1
      BY <1>1, <2>2, FS_RemoveElement
    <3>. QED  BY <3>1
  <2>4. PICK s \in [1 .. k -> S \ {m}] : InOrder(s)
    BY <1>3, <2>3
  <2>. DEFINE t == [i \in 1 .. k + 1 |-> IF i = 1 THEN m ELSE s[i - 1]]
  <2>5. \A i \in 1 .. k + 1 : i # 1 => i - 1 \in 1 .. k
    OBVIOUS
  <2>6. t \in [1 .. k + 1 -> S]
    BY <2>4, <2>5
  <2>7. ASSUME NEW i \in 1 .. k + 1, NEW j \in 1 .. k + 1, i < j
        PROVE  t[i] # t[j] /\ FieldCustomSort(t[i], t[j])
    <3>1. j # 1 /\ t[j] = s[j - 1] /\ j - 1 \in 1 .. k /\ s[j - 1] \in S \ {m}
      BY <2>4, <2>5, <2>7
    <3>2. CASE i = 1
      BY <2>2, <3>1, <3>2
    <3>3. CASE i # 1
      <4>1. t[i] = s[i - 1] /\ i - 1 \in 1 .. k /\ i - 1 < j - 1
        BY <2>5, <2>7, <3>3
      <4>. QED  BY <2>4, <3>1, <4>1 DEF InOrder
    <3>. QED  BY <3>2, <3>3
  <2>. QED  BY <2>6, <2>7 DEF InOrder
<1>4. G \subseteq Nat /\ 0 \in G /\ \A k \in Nat : k \in G => k + 1 \in G
  BY <1>2, <1>3
<1>. HIDE DEF G
<1>5. n \in G
  BY <1>4, Induct
<1>. QED  BY <1>5 DEF G

(* A sorted sequence of fields, with every field once.                       *)
IsSorted(s, S) ==
  \E n \in Nat : s \in [1 .. n -> S] /\ (\A x \in S : \E i \in 1 .. n : s[i] = x) /\ InOrder(s)

LEMMA SortedIs ==
  ASSUME NEW S \in SUBSET AllFields
  PROVE  IsSorted(Sorted(S), S)
<1>. DEFINE n == Cardinality(S)
            s == Sorted(S)
<1>1. IsFiniteSet(S) /\ n \in Nat
  BY FieldNamesFinite, FS_Subset, FS_CardinalityType
<1>2. \E t \in [1 .. n -> S] : InOrder(t)
  BY <1>1, SortExists
<1>3. s \in [1 .. n -> S] /\ InOrder(s)
  BY <1>2 DEF Sorted, InOrder
<1>. HIDE DEF s, n
<1>4. \A i, j \in 1 .. n : s[i] = s[j] => i = j
  <2>. SUFFICES ASSUME NEW i \in 1 .. n, NEW j \in 1 .. n, i # j PROVE s[i] # s[j]
    OBVIOUS
  <2>1. i < j \/ j < i
    OBVIOUS
  <2>2. DOMAIN s = 1 .. n
    BY <1>3
  <2>. QED  BY <1>3, <2>1, <2>2 DEF InOrder
<1>5. s \in Injection(1 .. n, S)
  BY <1>3, <1>4, Fun_IsInj
<1>6. Cardinality(1 .. n) = Cardinality(S)
  <2>1. Cardinality(1 .. n) = IF 1 > n THEN 0 ELSE n - 1 + 1
    BY <1>1, FS_Interval
  <2>2. (IF 1 > n THEN 0 ELSE n - 1 + 1) = n
    BY <1>1
  <2>. QED  BY <2>1, <2>2 DEF n
<1>7. s \in Surjection(1 .. n, S)
  BY <1>1, <1>5, <1>6, FS_Injection
<1>8. \A x \in S : \E i \in 1 .. n : s[i] = x
  BY <1>7 DEF Surjection
<1>. QED  BY <1>1, <1>3, <1>8 DEF IsSorted, s

-----------------------------------------------------------------------------
(* The inductive invariant.                                                  *)

Types ==
  /\ pc \in {"page", "asked", "answered", "failed"}
  /\ option \in Options
  /\ cols \in [Tabs -> {None} \cup SUBSET Names]
  /\ cookie \in {None} \cup SUBSET Names

(* The cookie is what was chosen last, but for the empty name.               *)
CookieIsLast ==
  /\ cookie = None => last = DEFAULT_COLS_ENABLED
  /\ cookie # None => cookie \ {""} = last \ {""}

(* The columns are the fields of the documents, the rows what they have.     *)
Fields(docs) == UNION {DOMAIN docs[i] : i \in DOMAIN docs}

IsTable(docs, columns, lines) ==
  /\ \E n \in Nat : docs \in [1 .. n -> Hits]
  /\ IsSorted(columns, Fields(docs))
  /\ lines = [i \in DOMAIN docs |-> Row(docs[i], columns)]

Table == IsTable(hits, keys, rows)

IInv == Types /\ CookieIsLast /\ Table

LEMMA EmptyTable == IsTable(<<>>, <<>>, <<>>)
<1>1. <<>> \in [1 .. 0 -> Hits] /\ 0 \in Nat /\ DOMAIN <<>> = {}
  OBVIOUS
<1>2. Fields(<<>>) = {}
  BY <1>1 DEF Fields
<1>3. IsSorted(<<>>, {})
  <2>1. <<>> \in [1 .. 0 -> {}] /\ InOrder(<<>>)
    BY <1>1 DEF InOrder
  <2>. QED  BY <2>1 DEF IsSorted
<1>4. <<>> = [i \in DOMAIN <<>> |-> Row(<<>>[i], <<>>)]
  BY <1>1
<1>. QED  BY <1>1, <1>2, <1>3, <1>4 DEF IsTable

LEMMA AnsweredTable ==
  ASSUME NEW n \in Nat, NEW docs \in [1 .. n -> Hits]
  PROVE  IsTable(docs, Columns(docs), [i \in 1 .. n |-> Row(docs[i], Columns(docs))])
<1>1. DOMAIN docs = 1 .. n
  OBVIOUS
<1>2. Fields(docs) \in SUBSET AllFields
  <2>1. \A i \in 1 .. n : docs[i] \in Hits
    OBVIOUS
  <2>2. \A h \in Hits : DOMAIN h \subseteq AllFields
    BY SearchAssumption DEF SearchAssumption, AllFields
  <2>. QED  BY <1>1, <2>1, <2>2 DEF Fields
<1>3. IsSorted(Columns(docs), Fields(docs))
  BY <1>2, SortedIs DEF Columns, Fields
<1>. QED  BY <1>1, <1>3 DEF IsTable

LEMMA DefaultsAreNames == DEFAULT_COLS_ENABLED \in SUBSET Names
BY DEF DEFAULT_COLS_ENABLED, Names

LEMMA NoneIsNoSet == \A names \in SUBSET Names : names # None
BY PageAssumption DEF PageAssumption

(* What a tab opens with.                                                    *)
LEMMA ParsedFacts ==
  ASSUME Types, CookieIsLast
  PROVE  Parsed \in SUBSET Names /\ Parsed \ {""} = last \ {""}
<1>1. CASE cookie = None
  BY <1>1, DefaultsAreNames DEF CookieIsLast, Parsed
<1>2. CASE cookie # None
  BY <1>2 DEF Types, CookieIsLast, Parsed, Names
<1>. QED  BY <1>1, <1>2

LEMMA InitEstablishes == PageInit => IInv
<1>. SUFFICES ASSUME PageInit PROVE IInv
  OBVIOUS
<1>1. Types
  BY DEF PageInit, Init, Types
<1>2. CookieIsLast
  BY DEF PageInit, CookieIsLast
<1>3. Table
  BY EmptyTable DEF PageInit, Init, Table
<1>. QED  BY <1>1, <1>2, <1>3 DEF IInv

LEMMA StepPreserves == IInv /\ [PageNext]_allVars => IInv'
<1>. SUFFICES ASSUME IInv, [PageNext]_allVars PROVE IInv'
  OBVIOUS
<1>. USE DEF IInv
<1>1. ASSUME NEW t \in Tabs, Open(t) PROVE IInv'
  <2>1. Parsed \in SUBSET Names /\ Parsed # None /\ Parsed \ {""} = last \ {""}
    BY ParsedFacts, NoneIsNoSet
  <2>2. Types'
    BY <1>1, <2>1 DEF Open, Types, vars
  <2>3. CookieIsLast'
    BY <1>1, <2>1 DEF Open, CookieIsLast
  <2>4. Table'
    BY <1>1 DEF Open, Table, vars
  <2>. QED  BY <2>2, <2>3, <2>4
<1>2. ASSUME NEW t \in Tabs, Close(t) PROVE IInv'
  <2>1. CookieIsLast'
    BY <1>2 DEF Close, CookieIsLast
  <2>2. CASE t = Page
    <3>1. Types'
      BY <1>2, <2>2 DEF Close, Types
    <3>2. Table'
      BY <1>2, <2>2, EmptyTable DEF Close, Table
    <3>. QED  BY <2>1, <3>1, <3>2
  <2>3. CASE t # Page
    BY <1>2, <2>1, <2>3 DEF Close, Types, Table, vars
  <2>. QED  BY <2>2, <2>3
<1>3. ASSUME NEW t \in Tabs, NEW field \in Range(FieldNames), Toggle(t, field) PROVE IInv'
  <2>. DEFINE enabled == IF field \in cols[t] THEN cols[t] \ {field} ELSE cols[t] \cup {field}
  <2>1. enabled \in SUBSET Names /\ enabled # None
    <3>1. cols[t] \in SUBSET Names /\ field \in Names
      BY <1>3 DEF Toggle, Types, Names
    <3>2. enabled \in SUBSET Names
      BY <3>1
    <3>. QED  BY <3>2, NoneIsNoSet
  <2>2. cols' = [cols EXCEPT ![t] = enabled] /\ cookie' = enabled /\ last' = enabled
        /\ UNCHANGED vars
    BY <1>3 DEF Toggle
  <2>. HIDE DEF enabled
  <2>3. Types' /\ CookieIsLast'
    BY <2>1, <2>2 DEF Types, CookieIsLast, vars
  <2>4. Table'
    BY <2>2 DEF Table, vars
  <2>. QED  BY <2>3, <2>4
<1>4. CASE Ask
  BY <1>4 DEF Ask, PerformSearch, pageVars, Types, CookieIsLast, Table
<1>5. CASE Show
  <2>1. CookieIsLast'
    BY <1>5 DEF Show, pageVars, CookieIsLast
  <2>2. CASE Answered
    <3>1. Types'
      BY <1>5, <2>2 DEF Show, Answered, pageVars, Types
    <3>2. PICK n \in 0 .. MaxHits : \E docs \in [1 .. n -> Hits] :
                 /\ hits' = docs
                 /\ keys' = Columns(docs)
                 /\ rows' = [i \in 1 .. n |-> Row(docs[i], keys')]
      BY <2>2 DEF Answered
    <3>3. n \in Nat
      OBVIOUS
    <3>4. Table'
      BY <3>2, <3>3, AnsweredTable DEF Table
    <3>. QED  BY <2>1, <3>1, <3>4
  <2>3. CASE Failed
    <3>1. Types'
      BY <1>5, <2>3 DEF Show, Failed, pageVars, Types
    <3>2. Table'
      BY <2>3, EmptyTable DEF Failed, Table
    <3>. QED  BY <2>1, <3>1, <3>2
  <2>. QED  BY <1>5, <2>2, <2>3 DEF Show
<1>6. CASE Navigate
  BY <1>6 DEF Navigate, pageVars, Types, CookieIsLast, Table
<1>7. CASE UNCHANGED allVars
  BY <1>7 DEF allVars, pageVars, vars, Types, CookieIsLast, Table
<1>. QED  BY <1>1, <1>2, <1>3, <1>4, <1>5, <1>6, <1>7 DEF PageNext

THEOREM Invariance == PageSpec => []IInv
BY InitEstablishes, StepPreserves, PTL DEF PageSpec

-----------------------------------------------------------------------------
(* The columns of any answer are in the order of field_custom_sort, which is *)
(* never asked to compare a field with itself (main.rs 454-455, 472-480).    *)
THEOREM Ordered == PageSpec => []ColumnsInOrder
<1>1. ASSUME Table PROVE ColumnsInOrder
  <2>1. PICK n \in Nat : /\ keys \in [1 .. n -> Fields(hits)]
                         /\ \A x \in Fields(hits) : \E i \in 1 .. n : keys[i] = x
                         /\ InOrder(keys)
    BY <1>1 DEF Table, IsTable, IsSorted
  <2>2. DOMAIN keys = 1 .. n
    BY <2>1
  <2>3. ASSUME NEW i \in 1 .. n, NEW j \in 1 .. n, i < j
        PROVE  keys[i] # keys[j] /\ FieldCustomSort(keys[i], keys[j])
               /\ keys[j] # "source_timestamp"
    BY <2>1, <2>2, <2>3 DEF InOrder, FieldCustomSort
  <2>4. ASSUME NEW i \in 1 .. n, NEW j \in 1 .. n, i < j, i > 1
        PROVE  Position(keys[i]) < Position(keys[j])
    <3>1. 1 \in 1 .. n /\ 1 < i
      BY <2>4
    <3>2. keys[i] # "source_timestamp"
      BY <2>3, <3>1
    <3>. QED  BY <2>3, <2>4, <3>2 DEF FieldCustomSort
  <2>5. ASSUME NEW i \in DOMAIN hits, "source_timestamp" \in DOMAIN hits[i]
        PROVE  keys[1] = "source_timestamp"
    <3>1. PICK k \in 1 .. n : keys[k] = "source_timestamp"
      BY <2>1, <2>5 DEF Fields
    <3>2. ~ (1 < k) /\ 1 \in 1 .. n
      BY <2>3, <3>1
    <3>. QED  BY <3>1, <3>2
  <2>. QED  BY <2>2, <2>3, <2>4, <2>5 DEF ColumnsInOrder
<1>. QED  BY <1>1, Invariance, PTL DEF IInv

(* The page shows of every document what it holds, under the right heads,    *)
(* whatever is hidden (main.rs 444-466, app lib.rs 210-245).                 *)
THEOREM ShowsHits == PageSpec => []PageShowsHits
<1>1. ASSUME Types, Table PROVE PageShowsHits
  <2>. SUFFICES ASSUME NEW i \in DOMAIN hits, Loaded
                PROVE  /\ cols[Page] \cap DOMAIN hits[i] \subseteq Range(Heads) \cup NotColumns
                       /\ Cells(rows[i]) = [j \in Visible |-> ValueIn(hits[i], Heads[j])]
                       /\ MessageLine(rows[i]) = {ValueIn(hits[i], "message")} \ {None}
    BY <1>1 DEF PageShowsHits, Table, IsTable
  <2>1. PICK n \in Nat : /\ keys \in [1 .. n -> Fields(hits)]
                         /\ \A x \in Fields(hits) : \E j \in 1 .. n : keys[j] = x
    BY <1>1 DEF Table, IsTable, IsSorted
  <2>2. DOMAIN keys = 1 .. n /\ Visible \subseteq 1 .. n
    BY <2>1 DEF Visible
  <2>3. rows[i] = [j \in DOMAIN keys |-> ValueIn(hits[i], keys[j])]
    BY <1>1 DEF Table, IsTable, Row, ValueIn
  <2>4. \A x \in DOMAIN hits[i] : \E j \in DOMAIN keys : keys[j] = x
    BY <2>1, <2>2 DEF Fields
  <2>5. ASSUME NEW x \in cols[Page] \cap DOMAIN hits[i], x \notin NotColumns
        PROVE  x \in Range(Heads)
    <3>1. PICK j \in DOMAIN keys : keys[j] = x
      BY <2>4
    <3>2. j \in Visible
      BY <2>5, <3>1 DEF Visible
    <3>. QED  BY <3>1, <3>2 DEF Heads, Range
  <2>6. Cells(rows[i]) = [j \in Visible |-> ValueIn(hits[i], Heads[j])]
    BY <2>2, <2>3 DEF Cells, Heads
  <2>7. MessageLine(rows[i]) = {ValueIn(hits[i], "message")} \ {None}
    <3>. DEFINE J == {j \in DOMAIN keys : keys[j] = "message"}
    <3>1. \A j \in J : rows[i][j] = ValueIn(hits[i], "message")
      BY <2>3
    <3>2. CASE J = {}
      <4>1. ValueIn(hits[i], "message") = None
        BY <2>4, <3>2 DEF ValueIn
      <4>. QED  BY <3>2, <4>1 DEF MessageLine
    <3>3. CASE J # {}
      BY <3>1, <3>3 DEF MessageLine
    <3>. QED  BY <3>2, <3>3
  <2>. QED  BY <2>5, <2>6, <2>7
<1>. QED  BY <1>1, Invariance, PTL DEF IInv

(* A tab opens with the fields that were chosen last, in whatever tab and    *)
(* whatever other tabs still show (app lib.rs 34-46 and 121-135).            *)
THEOREM Opened == PageSpec => OpenedAsLeft
<1>. DEFINE Left == \A t \in Tabs : cols[t] = None /\ cols'[t] # None =>
                      /\ cols'[t] \ {""} = last \ {""}
                      /\ cookie' = cols'[t]
<1>1. ASSUME IInv, [PageNext]_allVars PROVE [Left]_allVars
  <2>. USE DEF IInv
  <2>1. ASSUME NEW t \in Tabs, Open(t) PROVE Left
    <3>1. cols' = [cols EXCEPT ![t] = Parsed] /\ cookie' = Parsed
          /\ Parsed \ {""} = last \ {""}
      BY <1>1, <2>1, ParsedFacts DEF Open
    <3>. QED  BY <1>1, <3>1 DEF Types
  <2>2. ASSUME NEW t \in Tabs, Close(t) PROVE Left
    BY <1>1, <2>2 DEF Close, Types
  <2>3. ASSUME NEW t \in Tabs, NEW field \in Range(FieldNames), Toggle(t, field) PROVE Left
    <3>1. cols[t] # None /\ \A u \in Tabs : u # t => cols'[u] = cols[u]
      BY <1>1, <2>3 DEF Toggle, Types
    <3>. QED  BY <3>1
  <2>4. CASE Ask \/ Show \/ Navigate
    BY <2>4 DEF Ask, Show, Navigate, pageVars
  <2>. QED  BY <1>1, <2>1, <2>2, <2>3, <2>4 DEF PageNext
<1>. QED  BY <1>1, Invariance, PTL DEF PageSpec, OpenedAsLeft
=============================================================================
