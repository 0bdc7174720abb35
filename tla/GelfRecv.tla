------------------------------ MODULE GelfRecv ------------------------------
(***************************************************************************)
(* The GELF receive task of yaffle-server (gelf::run_recv_loop): one task   *)
(* reads UDP datagrams, reassembles chunked messages in the map `partials'  *)
(* and pushes decoded messages into a bounded channel.  Every new map entry *)
(* spawns a task that sleeps for 5 s and then asks the loop, through a      *)
(* second bounded channel, to expire that message id.                       *)
(*                                                                          *)
(* The socket is the environment: any datagram may arrive at any time, any  *)
(* number of times and in any order, which is loss, duplication and         *)
(* reordering.  A payload is abstracted to what parse_packet makes of it.   *)
(***************************************************************************)
EXTENDS Integers, Sequences

CONSTANTS
  Srcs,       \* source addresses of the senders
  Ids,        \* ids of chunked messages
  Msgs,       \* decoded GELF messages
  Pieces,     \* contents of chunks
  MaxCount,   \* the largest count of chunks a header can claim: 255, it is a u8
  Datagrams,  \* the payloads that can arrive on the socket
  Join(_),    \* the payload a complete entry's pieces concatenate to
  None,       \* an empty slot, an absent entry, an idle hand
  Tasks,      \* expiry tasks; bounds how many are alive at once
  ExpiryCap,  \* capacity of the expiry channel
  PipeCap     \* capacity of the channel to the ingest loop

(* What parse_packet can find in a buffer: a message that decodes (after     *)
(* decompression, where it is compressed), a chunk, or anything it rejects.  *)
Payloads ==
  [type : {"Message"}, msg : Msgs]
    \cup [type : {"Chunk"}, id : Ids, seqno : 0 .. MaxCount,
           count : 0 .. MaxCount, content : Pieces]
    \cup [type : {"Error"}]

SlotsOf(n) == [0 .. n - 1 -> Pieces \cup {None}]
Slots == UNION {SlotsOf(n) : n \in 0 .. MaxCount}

ASSUME ConstantAssumption ==
  /\ None \notin Pieces /\ None \notin Ids /\ None \notin Tasks
  /\ MaxCount \in Nat
  /\ None \notin Slots
  /\ None \notin [src : Srcs, body : Payloads \cup Msgs]
  /\ Datagrams \subseteq Payloads
  /\ ExpiryCap \in Nat \ {0} /\ PipeCap \in Nat \ {0}

ASSUME JoinAssumption ==
  \A n \in 0 .. MaxCount : \A f \in [0 .. n - 1 -> Pieces] : Join(f) \in Payloads

VARIABLES
  pc,        \* where the loop is: "select", "parse", "send", "exited", "panicked"
  hand,      \* the datagram being parsed or the message being sent
  partials,  \* per id: the slots received so far, or None
  owner,     \* history: the task spawned for the entry of an id
  stage,     \* per task: "free", "sleeping", "sending", "queued", "panicked"
  tid,       \* per task: the id it will ask to expire
  expiry,    \* the expiry channel, as the tasks whose ids are in it
  pipe,      \* the channel to the ingest loop
  open       \* the receiving end of that channel still exists

vars == <<pc, hand, partials, owner, stage, tid, expiry, pipe, open>>

Init ==
  /\ pc = "select"
  /\ hand = None
  /\ partials = [id \in Ids |-> None]
  /\ owner = [id \in Ids |-> None]
  /\ stage = [t \in Tasks |-> "free"]
  /\ tid = [t \in Tasks |-> None]
  /\ expiry = <<>>
  /\ pipe = <<>>
  /\ open = TRUE

-----------------------------------------------------------------------------
(* The loop. *)

(* The socket branch of the select takes a datagram.  A receive error is     *)
(* only logged, so it is a stuttering step.  The free task bounds the model: *)
(* one datagram creates at most one entry.                                   *)
RecvFrom(src, d) ==
  /\ pc = "select"
  /\ \E t \in Tasks : stage[t] = "free"
  /\ pc' = "parse"
  /\ hand' = [src |-> src, body |-> d]
  /\ UNCHANGED <<partials, owner, stage, tid, expiry, pipe, open>>

Chunk == hand.body

(* `entry' of assemble_chunked before and after its slot is replaced. *)
Entry ==
  IF partials[Chunk.id] = None
  THEN [i \in 0 .. Chunk.count - 1 |-> None]
  ELSE partials[Chunk.id]

Filled ==
  IF Chunk.seqno \in DOMAIN Entry
  THEN [Entry EXCEPT ![Chunk.seqno] = Chunk.content]
  ELSE Entry

Complete(slots) == \A i \in DOMAIN slots : slots[i] # None

(* When the loop ends, its map and both ends of the expiry channel are       *)
(* dropped, with the requests that channel holds.                            *)
DropLoopState ==
  /\ hand' = None
  /\ partials' = [id \in Ids |-> None]
  /\ owner' = [id \in Ids |-> None]
  /\ stage' = [t \in Tasks |-> IF stage[t] = "queued" THEN "free" ELSE stage[t]]
  /\ expiry' = <<>>

(* A malformed payload, or a chunk of fewer than two, is logged and dropped. *)
Reject ==
  /\ pc = "parse"
  /\ \/ Chunk.type = "Error"
     \/ Chunk.type = "Chunk" /\ Chunk.count < 2
  /\ pc' = "select"
  /\ hand' = None
  /\ UNCHANGED <<partials, owner, stage, tid, expiry, pipe, open>>

Decode ==
  /\ pc = "parse"
  /\ Chunk.type = "Message"
  /\ pc' = "send"
  /\ hand' = [src |-> hand.src, body |-> Chunk.msg]
  /\ UNCHANGED <<partials, owner, stage, tid, expiry, pipe, open>>

(* Mutant: forgets that a chunked message has at least two chunks. *)
AcceptsAnyCount == Chunk.type = "Chunk"

AcceptsChunk == Chunk.type = "Chunk" /\ Chunk.count >= 2

(* A chunk that leaves its entry incomplete; t is the task or_insert_with    *)
(* spawns when the entry is new.                                             *)
StoreChunk(t) ==
  /\ pc = "parse"
  /\ AcceptsChunk
  /\ ~Complete(Filled)
  /\ partials' = [partials EXCEPT ![Chunk.id] = Filled]
  /\ IF partials[Chunk.id] = None
     THEN /\ stage[t] = "free"
          /\ stage' = [stage EXCEPT ![t] = "sleeping"]
          /\ tid' = [tid EXCEPT ![t] = Chunk.id]
          /\ owner' = [owner EXCEPT ![Chunk.id] = t]
     ELSE UNCHANGED <<stage, tid, owner>>
  /\ pc' = "select"
  /\ hand' = None
  /\ UNCHANGED <<expiry, pipe, open>>

(* Mutant: reads the pieces out of the entry and leaves it in the map. *)
CompleteChunkInPlace ==
  /\ pc = "parse" /\ AcceptsChunk /\ Complete(Filled)
  /\ hand' = [src |-> hand.src, body |-> Join(Filled)]
  /\ partials' = [partials EXCEPT ![Chunk.id] = Filled]
  /\ UNCHANGED <<pc, owner, stage, tid, expiry, pipe, open>>

(* The chunk that completes its entry: the entry leaves the map, its task is *)
(* not cancelled, and parse_packet recurs on the concatenation.  Joining     *)
(* takes two pieces unconditionally, so fewer than two panic the loop's task.*)
CompleteChunk ==
  /\ pc = "parse"
  /\ AcceptsChunk
  /\ Complete(Filled)
  /\ IF 1 \in DOMAIN Filled
     THEN /\ pc' = "parse"
          /\ hand' = [src |-> hand.src, body |-> Join(Filled)]
          /\ partials' = [partials EXCEPT ![Chunk.id] = None]
          /\ owner' = [owner EXCEPT ![Chunk.id] = None]
          /\ UNCHANGED <<stage, expiry>>
     ELSE pc' = "panicked" /\ DropLoopState
  /\ UNCHANGED <<tid, pipe, open>>

(* Mutants: an unbounded channel; try_send, which drops what does not fit. *)
SendPipeUnbounded ==
  /\ pc = "send" /\ open
  /\ pipe' = Append(pipe, hand)
  /\ pc' = "select" /\ hand' = None
  /\ UNCHANGED <<partials, owner, stage, tid, expiry, open>>

TrySendPipe ==
  /\ pc = "send" /\ open
  /\ pipe' = IF Len(pipe) < PipeCap THEN Append(pipe, hand) ELSE pipe
  /\ pc' = "select" /\ hand' = None
  /\ UNCHANGED <<partials, owner, stage, tid, expiry, open>>

(* gelf_pipe.send().await: the loop waits here, away from the select, while  *)
(* the channel is full.                                                      *)
SendPipe ==
  /\ pc = "send"
  /\ open
  /\ Len(pipe) < PipeCap
  /\ pipe' = Append(pipe, hand)
  /\ pc' = "select"
  /\ hand' = None
  /\ UNCHANGED <<partials, owner, stage, tid, expiry, open>>

(* Mutants: a closed channel is tried again and again; a full channel ends   *)
(* the loop as a closed one does.                                            *)
SendFailsRetries ==
  /\ pc = "send" /\ ~open
  /\ UNCHANGED vars

SendFailsFull ==
  /\ pc = "send"
  /\ ~open \/ Len(pipe) >= PipeCap
  /\ pc' = "exited"
  /\ DropLoopState
  /\ UNCHANGED <<tid, pipe, open>>

(* The receiver is gone: `?' returns and the task ends. *)
SendFails ==
  /\ pc = "send"
  /\ ~open
  /\ pc' = "exited"
  /\ DropLoopState
  /\ UNCHANGED <<tid, pipe, open>>

(* The expiry branch of the select removes whatever entry the id now has. *)
Expire ==
  /\ pc = "select"
  /\ expiry # <<>>
  /\ LET t == Head(expiry) IN
       /\ partials' = [partials EXCEPT ![tid[t]] = None]
       /\ owner' = [owner EXCEPT ![tid[t]] = None]
       /\ stage' = [stage EXCEPT ![t] = "free"]
       /\ tid' = [tid EXCEPT ![t] = None]
  /\ expiry' = Tail(expiry)
  /\ UNCHANGED <<pc, hand, pipe, open>>

-----------------------------------------------------------------------------
(* The expiry tasks. *)

Elapse(t) ==
  /\ stage[t] = "sleeping"
  /\ stage' = [stage EXCEPT ![t] = "sending"]
  /\ UNCHANGED <<pc, hand, partials, owner, tid, expiry, pipe, open>>

Running == pc \notin {"exited", "panicked"}

(* Mutant: try_send, which gives up on a full channel. *)
TrySendExpiry(t) ==
  /\ stage[t] = "sending" /\ Running
  /\ IF Len(expiry) < ExpiryCap
     THEN expiry' = Append(expiry, t) /\ stage' = [stage EXCEPT ![t] = "queued"]
     ELSE UNCHANGED expiry /\ stage' = [stage EXCEPT ![t] = "free"]
  /\ UNCHANGED <<pc, hand, partials, owner, tid, pipe, open>>

SendExpiry(t) ==
  /\ stage[t] = "sending"
  /\ Running
  /\ Len(expiry) < ExpiryCap
  /\ expiry' = Append(expiry, t)
  /\ stage' = [stage EXCEPT ![t] = "queued"]
  /\ UNCHANGED <<pc, hand, partials, owner, tid, pipe, open>>

(* The loop has ended and its receiver is gone: the task's unwrap panics. *)
SendExpiryFails(t) ==
  /\ stage[t] = "sending"
  /\ ~Running
  /\ stage' = [stage EXCEPT ![t] = "panicked"]
  /\ UNCHANGED <<pc, hand, partials, owner, tid, expiry, pipe, open>>

-----------------------------------------------------------------------------
(* The ingest loop, as far as this task sees it. *)

Drain ==
  /\ open
  /\ pipe # <<>>
  /\ pipe' = Tail(pipe)
  /\ UNCHANGED <<pc, hand, partials, owner, stage, tid, expiry, open>>

DropReceiver ==
  /\ open
  /\ open' = FALSE
  /\ pipe' = <<>>
  /\ UNCHANGED <<pc, hand, partials, owner, stage, tid, expiry>>

-----------------------------------------------------------------------------
Parse == Reject \/ Decode \/ (\E t \in Tasks : StoreChunk(t)) \/ CompleteChunk

Next ==
  \/ \E src \in Srcs, d \in Datagrams : RecvFrom(src, d)
  \/ Parse
  \/ SendPipe
  \/ SendFails
  \/ Expire
  \/ \E t \in Tasks : Elapse(t) \/ SendExpiry(t) \/ SendExpiryFails(t)
  \/ Drain
  \/ DropReceiver

Spec == Init /\ [][Next]_vars

(* The loop and the tasks are scheduled by tokio.  select! polls its ready   *)
(* branches in random order, so a branch ready again and again is taken: SF  *)
(* on Expire.  Waiting senders queue fairly for channel capacity: SF on      *)
(* SendExpiry and SendPipe.  Drain is the assumption that the ingest loop    *)
(* keeps reading; nothing is assumed of the socket or of DropReceiver.       *)
Fairness ==
  /\ WF_vars(Parse) /\ WF_vars(SendFails)
  /\ SF_vars(SendPipe) /\ SF_vars(Expire)
  /\ \A t \in Tasks : WF_vars(Elapse(t)) /\ SF_vars(SendExpiry(t))
  /\ WF_vars(Drain)

FairSpec == Spec /\ Fairness

-----------------------------------------------------------------------------
TypeOK ==
  /\ pc \in {"select", "parse", "send", "exited", "panicked"}
  /\ pc = "parse" => hand \in [src : Srcs, body : Payloads]
  /\ pc = "send" => hand \in [src : Srcs, body : Msgs]
  /\ pc \notin {"parse", "send"} => hand = None
  /\ partials \in [Ids -> {None} \cup Slots]
  /\ owner \in [Ids -> Tasks \cup {None}]
  /\ stage \in [Tasks -> {"free", "sleeping", "sending", "queued", "panicked"}]
  /\ tid \in [Tasks -> Ids \cup {None}]
  /\ expiry \in Seq(Tasks) /\ Len(expiry) <= ExpiryCap
  /\ pipe \in Seq([src : Srcs, body : Msgs]) /\ Len(pipe) <= PipeCap
  /\ open \in BOOLEAN

(* The unwraps that join a complete entry never fail, whatever counts and    *)
(* sequence numbers the chunks of an id claim, in any order and number       *)
(* (gelf.rs lines 132 and 139).                                              *)
LoopNeverPanics == pc # "panicked"

(* A complete entry is never left in the map, where the next duplicate chunk *)
(* would deliver the message again from the old pieces; and what is in the   *)
(* map has at least two slots (gelf.rs lines 84-115).                        *)
OnlyIncompleteKept ==
  \A id \in Ids : partials[id] # None =>
    /\ ~Complete(partials[id])
    /\ 1 \in DOMAIN partials[id]

(* No entry leaks: as long as it is in the map, the loop runs and the very   *)
(* task spawned with it still has to be handled - it sleeps, waits for room  *)
(* in the expiry channel, or its request is in that channel (gelf.rs lines   *)
(* 84-92, 201).                                                              *)
EntryHasPendingExpiry ==
  \A id \in Ids : partials[id] # None =>
    /\ Running
    /\ owner[id] \in Tasks
    /\ tid[owner[id]] = id
    /\ \/ stage[owner[id]] \in {"sleeping", "sending"}
       \/ \E k \in 1 .. Len(expiry) : expiry[k] = owner[id]

(* Every incomplete entry is given up eventually, even under an endless flow *)
(* of datagrams and with both channels full again and again.                 *)
EntriesReclaimed == \A id \in Ids : partials[id] # None ~> partials[id] = None

(* Every datagram is dealt with and the loop comes back to its select, or it *)
(* ends because nobody receives from it: no payload has it parse for ever,   *)
(* joined pieces being chunks in their turn, and it does not wait for ever   *)
(* on a channel that is full - the requests to expire, which only the select *)
(* takes out, filling the other one meanwhile - or that closes while it      *)
(* waits (gelf.rs lines 94-115, 193, 201).                                   *)
LoopComesBack == pc \in {"parse", "send"} ~> pc \in {"select", "exited"}

(* "In 5s, send a message via the channel to expire this entry" (gelf.rs     *)
(* line 87): an entry the expiry branch removes is the one the task was      *)
(* spawned for, not a later entry that has the same id.                      *)
ExpiresThisEntry ==
  [][Expire => LET id == tid[Head(expiry)] IN
       partials[id] # None => owner[id] = Head(expiry)]_vars

(* Refinement: what the map's filled slots are to GelfService. *)
Fragments ==
  {f \in [id : Ids, seqno : 0 .. MaxCount, content : Pieces] :
     /\ partials[f.id] # None
     /\ f.seqno \in DOMAIN partials[f.id]
     /\ partials[f.id][f.seqno] = f.content}

Service == INSTANCE GelfService WITH
  fragments <- Fragments,
  parsing <- IF pc = "parse" THEN hand ELSE None,
  sending <- IF pc = "send" THEN hand ELSE None

(* The loop delivers only what GelfService allows: messages whose pieces are *)
(* fragments of one id in their positions, each used for one message, and no *)
(* decoded message lost while the ingest loop receives (gelf.rs 76-208).     *)
ImplementsService == Service!Spec

Phase == IF pc = "send" THEN "sending" ELSE IF Running THEN "receiving" ELSE "gone"
Loop == INSTANCE Receiver WITH phase <- Phase

(* The loop, which nobody watches, ends only because nobody receives from    *)
(* it: no datagram and no expiry, in no order and at no fill of the channels,*)
(* makes it return or panic (gelf.rs 132, 139, 193; main.rs 246).            *)
ImplementsReceiver == Loop!Spec
=============================================================================
