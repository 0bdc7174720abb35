------------------------------- MODULE Yaffle -------------------------------
(***************************************************************************)
(* A yaffle-server process as run_server and main put it together: the two   *)
(* receive loops (each a Receiver, as both are shown to be), the ingest loop *)
(* they feed (Ingest) and the life of the process around them                *)
(* (Lifecycle, for one server that finds its index).  The process may die     *)
(* anywhere; what Quickwit stored is all that it finds again.                *)
(***************************************************************************)
EXTENDS Ingest

CONSTANTS
  Server,
  MaxRequests,  \* bounds the searches in flight
  MaxCrashes    \* bounds the restarts

VARIABLES
  holding,  \* per source: its loop has a record to send
  \* as in Lifecycle:
  baseUrl, up, index, step, connectWait, http, searches, poisoned, crashes

Life == INSTANCE Lifecycle WITH Servers <- {Server}, OtherStatus <- FALSE

process == <<baseUrl, up, index, step, connectWait, http, searches, poisoned, crashes>>
yaffleVars == <<vars, holding, process>>

YaffleInit ==
  /\ Init
  /\ holding = [k \in Kinds |-> FALSE]
  /\ Life!Init /\ baseUrl[Server] /\ up /\ index

-----------------------------------------------------------------------------
(* The receive loops run from when the index is there until the process      *)
(* exits, which is after the ingest loop has ended.                          *)

Spawned == Life!Alive(Server) /\ step[Server] \in {"ready", "ended"}

InHand(k) == IF holding[k] THEN 1 ELSE 0

(* A datagram that gives a record. *)
Receive(k) ==
  /\ Spawned
  /\ ~closed[k] /\ ~holding[k]
  /\ sent[k] < MaxSent /\ sent[k] + sent[Other(k)] + InHand(Other(k)) < MaxTotal
  /\ holding' = [holding EXCEPT ![k] = TRUE]
  /\ UNCHANGED <<vars, process>>

SendOn(k) ==
  /\ Spawned
  /\ holding[k]
  /\ \E valid \in BOOLEAN : Accept(k, valid)
  /\ holding' = [holding EXCEPT ![k] = FALSE]
  /\ UNCHANGED process

(* Nobody receives: the loop returns, and its sender goes with it. *)
SendFails(k) ==
  /\ Spawned
  /\ holding[k]
  /\ pc = "ended"
  /\ SenderGone(k)
  /\ holding' = [holding EXCEPT ![k] = FALSE]
  /\ UNCHANGED process

-----------------------------------------------------------------------------
(* The ingest loop, and the task it runs in. *)

Ingesting(A) == step[Server] = "ready" /\ A /\ UNCHANGED <<holding, process>>

(* Mutant: joins the receive loops first. *)
ReceiverEndsJoined ==
  /\ pc = "ended" /\ \A k \in Kinds : closed[k]
  /\ Life!IngestEnds(Server)
  /\ UNCHANGED <<vars, holding>>

(* ingest_loop has returned, and run_server with it. *)
ReceiverEnds ==
  /\ pc = "ended"
  /\ Life!IngestEnds(Server)
  /\ UNCHANGED <<vars, holding>>

Around(A) == A /\ UNCHANGED <<vars, holding>>

Start == Around(Life!ReadSettings(Server) \/ Life!DescribeAnswered(Server))
Search == Around(Life!Search(Server))
SearchDone == Around(Life!SearchDone(Server))
Shutdown == Around(Life!Shutdown(Server))

(* main returns, and what the receive loops hold is gone with the process. *)
Exit ==
  /\ Life!Exit(Server)
  /\ holding' = [k \in Kinds |-> FALSE]
  /\ UNCHANGED vars

(* The process dies, or has exited, and is started again.  A request that it *)
(* had sent may still be stored.                                             *)
Restart ==
  /\ Life!Crash(Server)
  /\ stored' \in {stored} \cup (IF pc = "post" THEN {stored \o buffer} ELSE {})
  /\ pc' = "first" /\ turn' = "gelf" /\ deadline' = "off" /\ next' = 1
  /\ items' = <<>> /\ chunk' = <<>> /\ buffer' = <<>> /\ armedFor' = <<>>
  /\ chan' = [k \in Kinds |-> <<>>]
  /\ closed' = [k \in Kinds |-> FALSE]
  /\ passed' = [k \in Kinds |-> 0]
  /\ holding' = [k \in Kinds |-> FALSE]
  /\ UNCHANGED sent

-----------------------------------------------------------------------------
YaffleNext ==
  \/ \E k \in Kinds : Receive(k) \/ SendOn(k) \/ SendFails(k)
  \/ Ingesting(TakeFirst \/ FirstEmpty \/ TakeSecond \/ SecondEmpty \/ Wake \/ Elapse)
  \/ Ingesting(Convert \/ Post \/ Stored \/ Refused \/ Failed \/ RefusedUnread)
  \/ ReceiverEnds
  \/ Start \/ Search \/ SearchDone \/ Shutdown \/ Exit
  \/ Restart

(* The tasks are scheduled, time passes and searches are answered or fail.   *)
(* Nothing is assumed of the senders, nor that a POST is ever answered.      *)
YaffleFairness ==
  /\ \A k \in Kinds : WF_yaffleVars(SendOn(k)) /\ WF_yaffleVars(SendFails(k))
  /\ WF_yaffleVars(Ingesting(Polls)) /\ WF_yaffleVars(Ingesting(Elapse))
  /\ WF_yaffleVars(Ingesting(Convert)) /\ WF_yaffleVars(Ingesting(Post))
  /\ WF_yaffleVars(ReceiverEnds) /\ WF_yaffleVars(Start)
  /\ WF_yaffleVars(SearchDone) /\ WF_yaffleVars(Shutdown) /\ WF_yaffleVars(Exit)

YaffleSpec == YaffleInit /\ [][YaffleNext]_yaffleVars
FairYaffleSpec == YaffleSpec /\ YaffleFairness

-----------------------------------------------------------------------------
(* No record is stored twice, whatever answers are lost and wherever the     *)
(* process dies: a batch is posted once and never again (main.rs 190-211).   *)
StoredOnce ==
  \A i, j \in DOMAIN stored :
    i # j => stored[i].kind # stored[j].kind \/ stored[i].n # stored[j].n

(* What a crash can lose of the accepted records: the two channels and one   *)
(* batch, however long Quickwit keeps it waiting, and a full batch only       *)
(* while it is converted and posted (main.rs lines 126-148 and 243-244).     *)
LossBound ==
  Len(chan["gelf"]) + Len(chan["syslog"]) + Len(items) + Len(chunk)
    <= 2 * ChanCap + (IF pc \in {"convert", "post"} THEN BatchSize ELSE BatchSize - 1)

(* A receive loop that waits for room in its channel gets it, although both  *)
(* sources fill theirs, the batches are posted in between and the ingest     *)
(* loop may end - as long as no POST is left without an answer for ever      *)
(* (main.rs lines 142-149 and 190-198).                                      *)
HeldIsSent ==
  []<>(pc # "post") => \A k \in Kinds : holding[k] ~> ~holding[k]

(* The end of the ingest loop takes the process down, although the receive   *)
(* loops may sit in recv_from with no datagram to come, and searches are     *)
(* under way (main.rs lines 214, 246-248 and 371-382).                       *)
EndReachesExit == pc = "ended" ~> http[Server] = "exited" \/ pc # "ended"
=============================================================================
