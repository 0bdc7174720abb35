----------------------------- MODULE SearchPage -----------------------------
(***************************************************************************)
(* The page in the browser (app: SearchPage, AppState): the searches of one  *)
(* tab and the table it renders, and the fields that are shown, which every  *)
(* tab reads from the cookie `cols' when it is opened and writes back when   *)
(* they change.                                                              *)
(*                                                                          *)
(* A set of names in the cookie is what it is read back as: names without a  *)
(* comma, joined with commas in any order, and split again.                  *)
(***************************************************************************)
EXTENDS Search

CONSTANTS
  Tabs,
  Page,       \* the tab whose searches are followed
  MaxToggles  \* bounds the clicks on checkboxes

DEFAULT_COLS_ENABLED == {"source_timestamp", "comm", "hostname", "priority"}
NotColumns == {"message", "full_message"}

(* The names that can be in the cookie. *)
Names == Range(FieldNames) \cup DEFAULT_COLS_ENABLED \cup {""}

ASSUME PageAssumption ==
  /\ Page \in Tabs /\ MaxToggles \in Nat
  /\ \A names \in SUBSET Names : names # None

VARIABLES
  cookie,    \* the names in the cookie, or None
  cols,      \* per tab: cols_enabled, or None while it is closed
  last,      \* history: the fields enabled by the last toggle in any tab
  toggles    \* counts them

pageVars == <<cookie, cols, last, toggles>>

PageInit ==
  /\ Init
  /\ cookie = None
  /\ cols = [t \in Tabs |-> None]
  /\ last = DEFAULT_COLS_ENABLED /\ toggles = 0

-----------------------------------------------------------------------------
(* The fields that are shown. *)

(* Mutant: an empty cookie is taken for none. *)
ParsedOrDefault == IF cookie \in {None, {}} THEN DEFAULT_COLS_ENABLED ELSE cookie

(* The empty list of names is split into one empty name. *)
Parsed ==
  IF cookie = None THEN DEFAULT_COLS_ENABLED
  ELSE IF cookie = {} THEN {""} ELSE cookie

(* The effect writes the cookie as soon as the signal is there. *)
Open(t) ==
  /\ cols[t] = None
  /\ cols' = [cols EXCEPT ![t] = Parsed]
  /\ cookie' = Parsed
  /\ UNCHANGED <<vars, last, toggles>>

(* The checkboxes are those of the answer on the page; of another tab's      *)
(* answers nothing is known.                                                 *)
Toggle(t, field) ==
  /\ toggles < MaxToggles
  /\ cols[t] # None
  /\ t = Page => field \in Range(keys)
  /\ field \notin NotColumns
  /\ LET enabled == IF field \in cols[t] THEN cols[t] \ {field} ELSE cols[t] \cup {field} IN
       /\ cols' = [cols EXCEPT ![t] = enabled]
       /\ cookie' = enabled
       /\ last' = enabled
  /\ toggles' = toggles + 1
  /\ UNCHANGED vars

Close(t) ==
  /\ cols[t] # None
  /\ cols' = [cols EXCEPT ![t] = None]
  /\ IF t = Page
     THEN /\ pc' = "page" /\ start' = None
          /\ hits' = <<>> /\ keys' = <<>> /\ rows' = <<>>
          /\ UNCHANGED <<option, now>>
     ELSE UNCHANGED vars
  /\ UNCHANGED <<cookie, last, toggles>>

-----------------------------------------------------------------------------
(* The searches of Page. *)

Loaded == cols[Page] # None

Ask == Loaded /\ PerformSearch /\ UNCHANGED pageVars

Show == (Answered \/ Failed) /\ UNCHANGED pageVars

(* The form is submitted, or the browser goes back: the parameters change,   *)
(* and what is on the page stays until there is an answer.  That the answer  *)
(* to a request under way is then dropped is the work of create_resource.    *)
Navigate ==
  /\ Loaded
  /\ pc # "page"
  /\ option' \in Options
  /\ pc' = "page" /\ start' = None
  /\ UNCHANGED <<now, hits, keys, rows, pageVars>>

-----------------------------------------------------------------------------
PageNext ==
  \/ \E t \in Tabs : Open(t) \/ Close(t)
  \/ \E t \in Tabs, field \in Range(FieldNames) : Toggle(t, field)
  \/ Ask \/ Show \/ Navigate

allVars == <<vars, pageVars>>
PageSpec == PageInit /\ [][PageNext]_allVars

-----------------------------------------------------------------------------
(* The table: the columns that are not hidden, the cells of a row under them,*)
(* and the line below it.  What is hidden keeps its place.                   *)
Visible == {i \in DOMAIN keys : keys[i] \notin NotColumns /\ keys[i] \in cols[Page]}

Heads == [i \in Visible |-> keys[i]]

(* Mutant: counts the columns once the hidden ones are left out. *)
CellsCounted(row) == [i \in Visible |-> row[Cardinality(Visible \cap 1 .. i)]]

Cells(row) == [i \in Visible |-> row[i]]

MessageLine(row) == {row[i] : i \in {j \in DOMAIN keys : keys[j] = "message"}} \ {None}

ValueIn(hit, field) == IF field \in DOMAIN hit THEN hit[field] ELSE None

(* What the page shows is what the documents hold, on the way through the    *)
(* server's columns and the page's hidden ones: of every document the fields *)
(* that are enabled, each under its head, and its message below, whatever    *)
(* was toggled while the table was there (main.rs 444-466, app 210-245).     *)
PageShowsHits ==
  Loaded => DOMAIN rows = DOMAIN hits /\ \A i \in DOMAIN hits :
    /\ cols[Page] \cap DOMAIN hits[i] \subseteq Range(Heads) \cup NotColumns
    /\ Cells(rows[i]) = [j \in Visible |-> ValueIn(hits[i], Heads[j])]
    /\ MessageLine(rows[i]) = {ValueIn(hits[i], "message")} \ {None}

(* A tab that is opened or loaded again shows the fields that were chosen    *)
(* last in any tab, also when that was none; what other tabs still show does *)
(* not matter, and opening a tab changes nothing for the next (app 34-46 and *)
(* 121-135).                                                                 *)
OpenedAsLeft ==
  [][\A t \in Tabs : cols[t] = None /\ cols'[t] # None =>
       /\ cols'[t] \ {""} = last \ {""}
       /\ cookie' = cols'[t]]_allVars
=============================================================================
