----------------------------- MODULE Lifecycle -----------------------------
(***************************************************************************)
(* From start to exit of yaffle-server processes that share a Quickwit and   *)
(* an index (main, run_server and get_or_create_index in main.rs).  A server *)
(* answers HTTP from the start; its receiver first has to find or create the *)
(* index, retrying without end, and only then receives and ingests.  When    *)
(* the receiver ends, for whatever reason, the HTTP server drains and the    *)
(* process exits.                                                           *)
(*                                                                          *)
(* The settings' mutex is shared by both halves: a search that panics while  *)
(* it holds it poisons it for the receiver.                                  *)
(***************************************************************************)
EXTENDS Integers, FiniteSets

CONSTANTS
  Servers,
  OtherStatus,  \* Quickwit may answer a request with a 5xx status
  MaxRequests,  \* bounds the searches in flight of a server
  MaxCrashes    \* bounds the crashes of all servers together

ASSUME LifecycleAssumption ==
  /\ OtherStatus \in BOOLEAN
  /\ MaxRequests \in Nat /\ MaxCrashes \in Nat

VARIABLES
  baseUrl,      \* per server: its configured URL has a scheme and can be a base
  up,           \* Quickwit can be reached
  index,        \* it has the index
  step,         \* per server, its receiver: "lock", "describe", "create",
                \* "backoff", "ready", "ended"
  connectWait,  \* seconds it will wait before the next attempt
  http,         \* per server: "serving", "draining", "exited"
  searches,     \* per server: HTTP searches waiting for Quickwit
  poisoned,     \* per server: the settings' mutex is poisoned
  crashes       \* the crashes so far

vars == <<baseUrl, up, index, step, connectWait, http, searches, poisoned, crashes>>

Init ==
  /\ baseUrl \in [Servers -> BOOLEAN]
  /\ up \in BOOLEAN
  /\ index \in BOOLEAN
  /\ step = [s \in Servers |-> "lock"]
  /\ connectWait = [s \in Servers |-> 1]
  /\ http = [s \in Servers |-> "serving"]
  /\ searches = [s \in Servers |-> 0]
  /\ poisoned = [s \in Servers |-> FALSE]
  /\ crashes = 0

Alive(s) == http[s] # "exited"

Receiver(s, from, to) ==
  /\ Alive(s)
  /\ step[s] = from
  /\ step' = [step EXCEPT ![s] = to]

-----------------------------------------------------------------------------
(* The receiver. *)

(* Copies the settings; the unwrap of a poisoned lock ends the task. *)
ReadSettings(s) ==
  /\ Receiver(s, "lock", IF poisoned[s] THEN "ended" ELSE "describe")
  /\ UNCHANGED <<baseUrl, up, index, connectWait, http, searches, poisoned, crashes>>

(* 404 is the one status that means the index has to be created. *)
DescribeMissing(s) ==
  /\ baseUrl[s] /\ up /\ ~index
  /\ Receiver(s, "describe", "create")
  /\ UNCHANGED <<baseUrl, up, index, connectWait, http, searches, poisoned, crashes>>

(* Every other status is taken for a description. *)
DescribeAnswered(s) ==
  /\ baseUrl[s] /\ up /\ (index \/ OtherStatus)
  /\ Receiver(s, "describe", "ready")
  /\ UNCHANGED <<baseUrl, up, index, connectWait, http, searches, poisoned, crashes>>

(* Mutant: gives up for good. *)
DescribeGivesUp(s) ==
  /\ ~baseUrl[s] \/ ~up
  /\ Receiver(s, "describe", "ended")
  /\ UNCHANGED <<baseUrl, up, index, connectWait, http, searches, poisoned, crashes>>

(* No answer, or a URL that does not parse with the path appended to it. *)
DescribeFails(s) ==
  /\ ~baseUrl[s] \/ ~up
  /\ Receiver(s, "describe", "backoff")
  /\ UNCHANGED <<baseUrl, up, index, connectWait, http, searches, poisoned, crashes>>

CreateOk(s) ==
  /\ up /\ ~index
  /\ Receiver(s, "create", "ready")
  /\ index' = TRUE
  /\ UNCHANGED <<baseUrl, up, connectWait, http, searches, poisoned, crashes>>

(* Mutants: ignores the answer's status; retries the creation alone. *)
CreateAnswered(s) ==
  /\ Receiver(s, "create", "ready")
  /\ index' \in {index, TRUE}
  /\ UNCHANGED <<baseUrl, up, connectWait, http, searches, poisoned, crashes>>

CreateRetries(s) ==
  /\ Receiver(s, "create", "create")
  /\ index' \in {index, index \/ up}
  /\ UNCHANGED <<baseUrl, up, connectWait, http, searches, poisoned, crashes>>

(* Refused, as when another server was faster; no answer; or an answer that  *)
(* is lost after Quickwit did create the index.                              *)
CreateFails(s) ==
  /\ Receiver(s, "create", "backoff")
  /\ \/ up /\ (index \/ OtherStatus) /\ UNCHANGED index
     \/ ~up /\ UNCHANGED index
     \/ up /\ ~index /\ index' = TRUE
  /\ UNCHANGED <<baseUrl, up, connectWait, http, searches, poisoned, crashes>>

(* Mutant: doubles without a limit. *)
SleepLonger(s) ==
  /\ Receiver(s, "backoff", "lock")
  /\ connectWait' = [connectWait EXCEPT ![s] = @ * 2]
  /\ UNCHANGED <<baseUrl, up, index, http, searches, poisoned, crashes>>

Sleep(s) ==
  /\ Receiver(s, "backoff", "lock")
  /\ connectWait' = [connectWait EXCEPT ![s] = IF @ * 2 < 10 THEN @ * 2 ELSE 10]
  /\ UNCHANGED <<baseUrl, up, index, http, searches, poisoned, crashes>>

(* ingest_loop returns or panics, and run_server with it. *)
IngestEnds(s) ==
  /\ Receiver(s, "ready", "ended")
  /\ UNCHANGED <<baseUrl, up, index, connectWait, http, searches, poisoned, crashes>>

-----------------------------------------------------------------------------
(* The HTTP server. *)

(* A search locks the settings to build its URL.  With a URL that cannot be  *)
(* a base it panics there, as every search does once the lock is poisoned.   *)
Search(s) ==
  /\ http[s] = "serving"
  /\ searches[s] < MaxRequests
  /\ IF baseUrl[s] /\ ~poisoned[s]
     THEN searches' = [searches EXCEPT ![s] = @ + 1] /\ UNCHANGED poisoned
     ELSE poisoned' = [poisoned EXCEPT ![s] = TRUE] /\ UNCHANGED searches
  /\ UNCHANGED <<baseUrl, up, index, step, connectWait, http, crashes>>

SearchDone(s) ==
  /\ Alive(s)
  /\ searches[s] > 0
  /\ searches' = [searches EXCEPT ![s] = @ - 1]
  /\ UNCHANGED <<baseUrl, up, index, step, connectWait, http, poisoned, crashes>>

(* Mutant: only an explicit send shuts the server down, so that a panic of   *)
(* the receiver leaves it serving.                                           *)
ShutdownOnSend(s) ==
  /\ http[s] = "serving" /\ step[s] = "ended" /\ ~poisoned[s]
  /\ http' = [http EXCEPT ![s] = "draining"]
  /\ UNCHANGED <<baseUrl, up, index, step, connectWait, searches, poisoned, crashes>>

(* The receiver's task sends on shutdown_tx, or a panic drops it: either     *)
(* resolves shutdown_rx, and no further request is accepted.                 *)
Shutdown(s) ==
  /\ http[s] = "serving"
  /\ step[s] = "ended"
  /\ http' = [http EXCEPT ![s] = "draining"]
  /\ UNCHANGED <<baseUrl, up, index, step, connectWait, searches, poisoned, crashes>>

(* Mutant: exits at once. *)
ExitAtOnce(s) ==
  /\ http[s] = "draining"
  /\ http' = [http EXCEPT ![s] = "exited"]
  /\ UNCHANGED <<baseUrl, up, index, step, connectWait, searches, poisoned, crashes>>

(* Graceful shutdown waits for the requests under way; then main returns. *)
Exit(s) ==
  /\ http[s] = "draining"
  /\ searches[s] = 0
  /\ http' = [http EXCEPT ![s] = "exited"]
  /\ UNCHANGED <<baseUrl, up, index, step, connectWait, searches, poisoned, crashes>>

-----------------------------------------------------------------------------
(* The environment. *)

QuickwitUp == ~up /\ up' = TRUE
QuickwitDown == up /\ up' = FALSE

Quickwit ==
  /\ QuickwitUp \/ QuickwitDown
  /\ UNCHANGED <<baseUrl, index, step, connectWait, http, searches, poisoned, crashes>>

(* A process dies anywhere and is started again. *)
Crash(s) ==
  /\ crashes < MaxCrashes
  /\ crashes' = crashes + 1
  /\ step' = [step EXCEPT ![s] = "lock"]
  /\ connectWait' = [connectWait EXCEPT ![s] = 1]
  /\ http' = [http EXCEPT ![s] = "serving"]
  /\ searches' = [searches EXCEPT ![s] = 0]
  /\ poisoned' = [poisoned EXCEPT ![s] = FALSE]
  /\ UNCHANGED <<baseUrl, up, index>>

-----------------------------------------------------------------------------
Describe(s) == DescribeMissing(s) \/ DescribeAnswered(s) \/ DescribeFails(s)
Create(s) == CreateOk(s) \/ CreateFails(s)

Next ==
  \/ \E s \in Servers :
       \/ ReadSettings(s) \/ Sleep(s) \/ IngestEnds(s)
       \/ DescribeMissing(s) \/ DescribeAnswered(s) \/ DescribeFails(s)
       \/ CreateOk(s) \/ CreateFails(s)
       \/ Search(s) \/ SearchDone(s) \/ Shutdown(s) \/ Exit(s)
       \/ Crash(s)
  \/ Quickwit

Spec == Init /\ [][Next]_vars

(* Tasks are scheduled, time passes, and requests to Quickwit are answered   *)
(* or fail; nothing is assumed of how, nor of when ingestion ends.           *)
Fairness ==
  \A s \in Servers :
    /\ WF_vars(ReadSettings(s)) /\ WF_vars(Describe(s)) /\ WF_vars(Create(s))
    /\ WF_vars(Sleep(s)) /\ WF_vars(SearchDone(s))
    /\ WF_vars(Shutdown(s)) /\ WF_vars(Exit(s))

FairSpec == Spec /\ Fairness

-----------------------------------------------------------------------------
TypeOK ==
  /\ baseUrl \in [Servers -> BOOLEAN]
  /\ up \in BOOLEAN /\ index \in BOOLEAN
  /\ step \in [Servers -> {"lock", "describe", "create", "backoff", "ready", "ended"}]
  /\ connectWait \in [Servers -> {1, 2, 4, 8, 10}]
  /\ http \in [Servers -> {"serving", "draining", "exited"}]
  /\ searches \in [Servers -> 0 .. MaxRequests]
  /\ poisoned \in [Servers -> BOOLEAN]
  /\ crashes \in 0 .. MaxCrashes

(* "Found existing index" (main.rs line 121): a receiver that goes on to     *)
(* receive has an index to ingest into - found, created, created by another  *)
(* server that was faster, or by itself before an answer was lost or the     *)
(* process died.                                                             *)
ReadyHasIndex == \A s \in Servers : step[s] = "ready" => index

(* A process that is going away holds no receiver that still ingests, and    *)
(* leaves no search unanswered (main.rs lines 371-382).                      *)
ExitIsClean ==
  \A s \in Servers :
    /\ http[s] # "serving" => step[s] = "ended"
    /\ http[s] = "exited" => searches[s] = 0

(* Attempts never end before the index is there: only a receiver that was    *)
(* ready ends, unless its URL is one that no attempt can succeed with, where *)
(* a search may poison the settings for it (main.rs lines 226-241, 389-393). *)
RetriesForever ==
  [][\A s \in Servers :
       baseUrl[s] /\ step'[s] = "ended" => step[s] \in {"ready", "ended"}]_vars

(* Once Quickwit stays up every server gets to receive, also those that lose *)
(* the race to create the index (main.rs lines 226-247).                     *)
EventuallyReady ==
  <>[]up => \A s \in Servers : baseUrl[s] => <>(step[s] \in {"ready", "ended"})

(* The end of ingestion takes the process down, searches under way           *)
(* notwithstanding, so that it can be restarted (main.rs lines 371-382).     *)
ExitFollows ==
  \A s \in Servers : step[s] = "ended" ~> http[s] = "exited" \/ step[s] # "ended"
=============================================================================
