------------------------------- MODULE Search -------------------------------
(***************************************************************************)
(* A search, from the time range chosen on the page (app: RELTIMES,          *)
(* perform_search) to the table that is returned (yaffle-server:             *)
(* ServerAPIImpl::search).  A hit is a function from the fields it has to    *)
(* what is displayed for them.                                              *)
(***************************************************************************)
EXTENDS Integers, Sequences, FiniteSets, Functions

CONSTANTS
  FieldNames,  \* field names in alphabetical order, a sequence
  Hits,        \* what a document in an answer can be
  MaxHits,     \* bounds the hits of an answer
  Options,     \* the entries of RELTIMES that are chosen in a model
  Nows,        \* seconds since 1970
  Word,        \* what the u32 arithmetic on minutes wraps at
  None

(* (minutes, the minutes its label stands for) *)
RELTIMES ==
  << <<0, 0>>, <<1, 1>>, <<5, 5>>, <<15, 15>>, <<30, 30>>, <<60, 60>>,
     <<180, 120>>, <<720, 480>>, <<1440, 1440>>, <<2880, 2880>>, <<7200, 7200>>,
     <<10080, 10080>>, <<20160, 20160>>, <<43200, 43200>> >>

ASSUME SearchAssumption ==
  /\ Len(FieldNames) \in Nat /\ DOMAIN FieldNames = 1 .. Len(FieldNames)
  /\ \A h \in Hits : DOMAIN h \subseteq Range(FieldNames)
  /\ MaxHits \in Nat /\ Nows \subseteq Nat /\ Options \subseteq DOMAIN RELTIMES
  /\ \A i \in DOMAIN RELTIMES : RELTIMES[i][1] * 60 < Word

VARIABLES
  pc,      \* "page", "asked", "answered", "failed"
  option,  \* the chosen entry of RELTIMES
  now,     \* the server's clock
  start,   \* start_timestamp, or None
  hits,    \* the documents of the answer
  keys,    \* the columns of the table
  rows     \* its rows

vars == <<pc, option, now, start, hits, keys, rows>>

Init ==
  /\ pc = "page"
  /\ option \in Options
  /\ now \in Nows
  /\ start = None
  /\ hits = <<>> /\ keys = <<>> /\ rows = <<>>

PerformSearch ==
  /\ pc = "page"
  /\ pc' = "asked"
  /\ LET reltime == RELTIMES[option][1]
         secs == (reltime * 60) % Word
     IN start' = IF reltime > 0 /\ secs <= now THEN now - secs ELSE None
  /\ UNCHANGED <<option, now, hits, keys, rows>>

Position(field) == CHOOSE i \in DOMAIN FieldNames : FieldNames[i] = field

(* Mutant: sorts by name alone. *)
FieldNameSort(a, b) == Position(a) < Position(b)

FieldCustomSort(a, b) ==
  a = "source_timestamp" \/ (b # "source_timestamp" /\ Position(a) < Position(b))

Row(hit, columns) ==
  [j \in DOMAIN columns |-> IF columns[j] \in DOMAIN hit THEN hit[columns[j]] ELSE None]

(* keys.sort_by(field_custom_sort), of distinct names.                       *)
Sorted(names) ==
  CHOOSE s \in [1 .. Cardinality(names) -> names] :
    \A i, j \in DOMAIN s : i < j => s[i] # s[j] /\ FieldCustomSort(s[i], s[j])

Columns(docs) == Sorted(UNION {DOMAIN docs[i] : i \in DOMAIN docs})

(* Quickwit answers with documents, the newest first. *)
Answered ==
  /\ pc = "asked"
  /\ pc' = "answered"
  /\ \E n \in 0 .. MaxHits : \E docs \in [1 .. n -> Hits] :
       /\ hits' = docs
       /\ keys' = Columns(docs)
       /\ rows' = [i \in 1 .. n |-> Row(docs[i], keys')]
  /\ UNCHANGED <<option, now, start>>

(* No answer, a SearchError, or what is neither that nor SearchResults. *)
Failed ==
  /\ pc = "asked"
  /\ pc' = "failed"
  /\ hits' = <<>> /\ keys' = <<>> /\ rows' = <<>>
  /\ UNCHANGED <<option, now, start>>

Next == PerformSearch \/ Answered \/ Failed

Spec == Init /\ [][Next]_vars

-----------------------------------------------------------------------------
(* The time is the first column and the others follow by name, once each:    *)
(* field_custom_sort, which is no total order on equal arguments, is one on  *)
(* the distinct keys it gets (main.rs lines 454-455 and 472-480).            *)
ColumnsInOrder ==
  /\ \A i, j \in DOMAIN keys : i < j =>
       /\ keys[i] # keys[j]
       /\ keys[j] # "source_timestamp"
       /\ i > 1 => Position(keys[i]) < Position(keys[j])
  /\ pc = "answered" /\ (\E i \in DOMAIN hits : "source_timestamp" \in DOMAIN hits[i])
       => keys[1] = "source_timestamp"

(* "2h", "8h" (app lib.rs lines 22-23): a search goes back as far as the     *)
(* label of the chosen time range says.                                      *)
WindowIsLabel ==
  pc # "page" /\ start # None => now - start = RELTIMES[option][2] * 60
=============================================================================
