------------------------------- MODULE Ingest -------------------------------
(***************************************************************************)
(* The ingest loop of yaffle-server (ingest_loop in main.rs): the channels   *)
(* of the two receive loops are merged, cut into batches by size or by age,  *)
(* and each batch is converted and posted to Quickwit.                       *)
(*                                                                          *)
(* Merge::poll_next and ChunksTimeout::poll_next are tokio-stream's; they    *)
(* are modelled poll by poll, because the receive loops fill the channels    *)
(* while they run.  Quickwit is the environment: any POST may be stored,     *)
(* refused, lost, or stored with its answer lost.                            *)
(***************************************************************************)
EXTENDS Integers, Sequences, Subsequences

CONSTANTS
  BatchSize,  \* BATCH_SIZE
  ChanCap,    \* capacity of each of the two channels
  MaxSent,    \* bounds the records a receive loop sends in a model
  MaxTotal    \* bounds the records that both send together

ASSUME IngestAssumption ==
  /\ BatchSize \in Nat \ {0}
  /\ ChanCap \in Nat \ {0}
  /\ MaxSent \in Nat /\ MaxTotal \in Nat

Kinds == {"gelf", "syslog"}
Other(k) == IF k = "gelf" THEN "syslog" ELSE "gelf"

(* The n-th record of a source; valid is what converting it will show:       *)
(* a document that is_valid, or one that is not or a conversion error.       *)
Records == [kind : Kinds, n : 1 .. MaxSent, valid : BOOLEAN]

VARIABLES
  pc,        \* "first", "second": polling; "wait"; "convert"; "post"; "ended"
  chan,      \* per source: its channel
  closed,    \* per source: its receive loop is gone, and its sender with it
  turn,      \* the source that the merge polls first
  items,     \* the batch being gathered
  deadline,  \* its timer: "off", "running" or "elapsed"
  chunk,     \* the batch being converted and posted
  next,      \* the position in chunk of the record to convert next
  buffer,    \* the documents serialised so far
  stored,    \* what Quickwit has stored
  sent,      \* history, per source: the number of records accepted
  armedFor,  \* history: the record whose arrival set the timer, or <<>>
  passed     \* history, per source: records of the other source taken while
             \* one of its own waited

vars == <<pc, chan, closed, turn, items, deadline, chunk, next, buffer, stored,
          sent, armedFor, passed>>

Init ==
  /\ pc = "first"
  /\ chan = [k \in Kinds |-> <<>>]
  /\ closed = [k \in Kinds |-> FALSE]
  /\ turn = "gelf"
  /\ items = <<>>
  /\ deadline = "off"
  /\ chunk = <<>> /\ next = 1 /\ buffer = <<>>
  /\ stored = <<>>
  /\ sent = [k \in Kinds |-> 0]
  /\ armedFor = <<>>
  /\ passed = [k \in Kinds |-> 0]

-----------------------------------------------------------------------------
(* The receive loops. *)

MaySend(k) == sent[k] < MaxSent /\ sent[k] + sent[Other(k)] < MaxTotal

(* Mutant: an unbounded channel. *)
AcceptUnbounded(k, valid) ==
  /\ pc # "ended" /\ ~closed[k] /\ MaySend(k)
  /\ sent' = [sent EXCEPT ![k] = @ + 1]
  /\ chan' = [chan EXCEPT ![k] = Append(@, [kind |-> k, n |-> sent'[k], valid |-> valid])]
  /\ UNCHANGED <<pc, closed, turn, items, deadline, chunk, next, buffer, stored,
                 armedFor, passed>>

(* send().await returns once the channel has room. *)
Accept(k, valid) ==
  /\ pc # "ended"
  /\ ~closed[k]
  /\ MaySend(k)
  /\ Len(chan[k]) < ChanCap
  /\ sent' = [sent EXCEPT ![k] = @ + 1]
  /\ chan' = [chan EXCEPT ![k] = Append(@, [kind |-> k, n |-> sent'[k], valid |-> valid])]
  /\ UNCHANGED <<pc, closed, turn, items, deadline, chunk, next, buffer, stored,
                 armedFor, passed>>

(* A receive loop's task ends; nobody watches its JoinHandle. *)
SenderGone(k) ==
  /\ ~closed[k]
  /\ closed' = [closed EXCEPT ![k] = TRUE]
  /\ UNCHANGED <<pc, chan, turn, items, deadline, chunk, next, buffer, stored,
                 sent, armedFor, passed>>

-----------------------------------------------------------------------------
(* Gathering a batch: chunks.next().await. *)

StartBatch(batch) ==
  /\ pc' = "convert"
  /\ chunk' = batch
  /\ next' = 1
  /\ buffer' = <<>>
  /\ items' = <<>>

(* Mutants: a batch is full one record late; the timer is set only when none *)
(* is running, so that it may be left over from the batch before; the merge  *)
(* goes on polling the same channel first.                                   *)
TakeWith(k, full, arm, nextTurn) ==
  /\ chan[k] # <<>>
  /\ LET batch == Append(items, Head(chan[k])) IN
       IF Len(batch) >= full
       THEN StartBatch(batch)
       ELSE pc' = "first" /\ items' = batch /\ UNCHANGED <<chunk, next, buffer>>
  /\ chan' = [chan EXCEPT ![k] = Tail(@)]
  /\ IF arm
     THEN deadline' = "running" /\ armedFor' = Head(chan[k])
     ELSE UNCHANGED <<deadline, armedFor>>
  /\ turn' = nextTurn
  /\ passed' = [passed EXCEPT ![k] = 0,
                              ![Other(k)] = IF chan[Other(k)] = <<>> THEN 0 ELSE @ + 1]
  /\ UNCHANGED <<closed, stored, sent>>

TakeOverfull(k) == TakeWith(k, BatchSize + 1, items = <<>>, Other(turn))
TakeKeepsTimer(k) == TakeWith(k, BatchSize, deadline = "off", Other(turn))
TakeBiased(k) == TakeWith(k, BatchSize, items = <<>>, turn)

(* The merge yields the head of k's channel.  The first item sets the timer; *)
(* a full batch is returned at once and leaves the timer as it is.           *)
Take(k) ==
  /\ chan[k] # <<>>
  /\ LET batch == Append(items, Head(chan[k])) IN
       IF Len(batch) >= BatchSize
       THEN StartBatch(batch)
       ELSE pc' = "first" /\ items' = batch /\ UNCHANGED <<chunk, next, buffer>>
  /\ chan' = [chan EXCEPT ![k] = Tail(@)]
  /\ IF items = <<>>
     THEN deadline' = "running" /\ armedFor' = Head(chan[k])
     ELSE UNCHANGED <<deadline, armedFor>>
  /\ turn' = Other(turn)
  /\ passed' = [passed EXCEPT ![k] = 0,
                              ![Other(k)] = IF chan[Other(k)] = <<>> THEN 0 ELSE @ + 1]
  /\ UNCHANGED <<closed, stored, sent>>

TakeFirst == pc = "first" /\ Take(turn)

FirstEmpty ==
  /\ pc = "first"
  /\ chan[turn] = <<>>
  /\ pc' = IF closed[turn] THEN "second, first done" ELSE "second"
  /\ UNCHANGED <<chan, closed, turn, items, deadline, chunk, next, buffer, stored,
                 sent, armedFor, passed>>

PollsSecond == pc \in {"second", "second, first done"}

TakeSecond == PollsSecond /\ Take(Other(turn))

End ==
  /\ pc' = "ended"
  /\ chan' = [k \in Kinds |-> <<>>]
  /\ chunk' = <<>> /\ items' = <<>> /\ buffer' = <<>>
  /\ UNCHANGED next

(* Mutant: waits for the senders' records even when there are no senders. *)
SecondEmptyWaits ==
  /\ PollsSecond
  /\ chan[Other(turn)] = <<>>
  /\ turn' = Other(turn)
  /\ IF items # <<>> /\ deadline = "elapsed"
     THEN StartBatch(items)
     ELSE pc' = "wait" /\ UNCHANGED <<items, chunk, next, buffer>>
  /\ UNCHANGED <<chan, closed, deadline, stored, sent, armedFor, passed>>

(* Neither channel had a record.  With both senders gone the stream is over: *)
(* what was gathered is the last batch, or the loop returns.  Otherwise a    *)
(* batch that is old enough is returned, and else the task waits.            *)
SecondEmpty ==
  /\ PollsSecond
  /\ chan[Other(turn)] = <<>>
  /\ turn' = Other(turn)
  /\ LET over == pc = "second, first done" /\ closed[Other(turn)] IN
       \/ /\ items # <<>>
          /\ over \/ deadline = "elapsed"
          /\ StartBatch(items)
          /\ UNCHANGED chan
       \/ /\ over /\ items = <<>>
          /\ End
       \/ /\ ~over /\ (items = <<>> \/ deadline # "elapsed")
          /\ pc' = "wait"
          /\ UNCHANGED <<chan, items, chunk, next, buffer>>
  /\ UNCHANGED <<closed, deadline, stored, sent, armedFor, passed>>

(* Mutant: batches by size alone. *)
WakeWithoutTimer ==
  /\ pc = "wait"
  /\ \E k \in Kinds : chan[k] # <<>> \/ closed[k]
  /\ pc' = "first"
  /\ UNCHANGED <<chan, closed, turn, items, deadline, chunk, next, buffer, stored,
                 sent, armedFor, passed>>

(* Mutant: only the stream that is polled first wakes the task. *)
WakeOnFirst ==
  /\ pc = "wait"
  /\ \/ chan[turn] # <<>> \/ closed[turn]
     \/ items # <<>> /\ deadline = "elapsed"
  /\ pc' = "first"
  /\ UNCHANGED <<chan, closed, turn, items, deadline, chunk, next, buffer, stored,
                 sent, armedFor, passed>>

(* A record, the end of a sender or the timer wakes the task. *)
Wake ==
  /\ pc = "wait"
  /\ \/ \E k \in Kinds : chan[k] # <<>> \/ closed[k]
     \/ items # <<>> /\ deadline = "elapsed"
  /\ pc' = "first"
  /\ UNCHANGED <<chan, closed, turn, items, deadline, chunk, next, buffer, stored,
                 sent, armedFor, passed>>

(* COMMIT_EVERY_SECS after it was set, wherever the loop is by then. *)
Elapse ==
  /\ deadline = "running"
  /\ deadline' = "elapsed"
  /\ UNCHANGED <<pc, chan, closed, turn, items, chunk, next, buffer, stored,
                 sent, armedFor, passed>>

-----------------------------------------------------------------------------
(* One batch. *)

(* Converts a record and looks its sender up in the DNS if it has no host    *)
(* name, which may take a while; an invalid record is logged and skipped.    *)
Convert ==
  /\ pc = "convert"
  /\ next <= Len(chunk)
  /\ buffer' = IF chunk[next].valid THEN Append(buffer, chunk[next]) ELSE buffer
  /\ next' = next + 1
  /\ UNCHANGED <<pc, chan, closed, turn, items, deadline, chunk, stored,
                 sent, armedFor, passed>>

(* The average size is logged, a division by the length of the chunk; then   *)
(* the request goes out, also when nothing in the batch was valid.           *)
Post ==
  /\ pc = "convert"
  /\ next > Len(chunk)
  /\ pc' = "post"
  /\ UNCHANGED <<chan, closed, turn, items, deadline, chunk, next, buffer, stored,
                 sent, armedFor, passed>>

(* The batch is over, whether it was stored or its failure only logged. *)
NextBatch ==
  /\ pc' = "first"
  /\ chunk' = <<>> /\ buffer' = <<>>
  /\ UNCHANGED <<chan, closed, turn, items, deadline, next, sent, armedFor, passed>>

Stored ==
  /\ pc = "post"
  /\ stored' = stored \o buffer
  /\ NextBatch

(* Quickwit refuses the batch and says why. *)
Refused ==
  /\ pc = "post"
  /\ UNCHANGED stored
  /\ NextBatch

(* Mutant: posts the batch again when no answer came. *)
FailedRetries ==
  /\ pc = "post"
  /\ stored' \in {stored, stored \o buffer}
  /\ UNCHANGED <<pc, chan, closed, turn, items, deadline, chunk, next, buffer, sent,
                 armedFor, passed>>

(* The request fails; Quickwit may have stored it before the answer got lost.*)
Failed ==
  /\ pc = "post"
  /\ stored' \in {stored, stored \o buffer}
  /\ NextBatch

(* Quickwit refuses the batch and the connection breaks while the reason is  *)
(* read: `?' ends the loop.                                                  *)
RefusedUnread ==
  /\ pc = "post"
  /\ End
  /\ UNCHANGED <<closed, turn, deadline, stored, sent, armedFor, passed>>

Answered == Stored \/ Refused \/ Failed \/ RefusedUnread
Polls == TakeFirst \/ FirstEmpty \/ TakeSecond \/ SecondEmpty \/ Wake

Next ==
  \/ \E k \in Kinds, valid \in BOOLEAN : Accept(k, valid)
  \/ \E k \in Kinds : SenderGone(k)
  \/ TakeFirst \/ FirstEmpty \/ TakeSecond \/ SecondEmpty \/ Wake
  \/ Elapse
  \/ Convert \/ Post
  \/ Stored \/ Refused \/ Failed \/ RefusedUnread

Spec == Init /\ [][Next]_vars

(* The task is scheduled, time passes, and every request is answered or      *)
(* fails.  The client sets no timeout, so the last is an assumption about    *)
(* Quickwit and the network; which answer it is, is not assumed.             *)
Fairness ==
  /\ WF_vars(Polls) /\ WF_vars(Elapse)
  /\ WF_vars(Convert) /\ WF_vars(Post) /\ WF_vars(Answered)

FairSpec == Spec /\ Fairness

-----------------------------------------------------------------------------
TypeOK ==
  /\ pc \in {"first", "second", "second, first done", "wait", "convert", "post", "ended"}
  /\ chan \in [Kinds -> Seq(Records)] /\ \A k \in Kinds : Len(chan[k]) <= ChanCap
  /\ closed \in [Kinds -> BOOLEAN]
  /\ turn \in Kinds
  /\ items \in Seq(Records) /\ chunk \in Seq(Records) /\ buffer \in Seq(Records)
  /\ deadline \in {"off", "running", "elapsed"}
  /\ next \in 1 .. BatchSize + 1
  /\ stored \in Seq(Records)
  /\ sent \in [Kinds -> 0 .. MaxSent]
  /\ armedFor \in Records \cup {<<>>}
  /\ passed \in [Kinds -> Nat]

(* The loop never handles an empty batch, whose length it divides by, nor a  *)
(* batch of more than BATCH_SIZE, however size, age and the end of the       *)
(* senders race (main.rs lines 148-149 and 178).                             *)
BatchBound ==
  /\ pc \in {"convert", "post"} => Len(chunk) \in 1 .. BatchSize
  /\ Len(items) < BatchSize

(* The timer that will flush the batch being gathered was set by its oldest  *)
(* record: never missing, never left over from an earlier batch that was     *)
(* returned by size while its timer ran (main.rs lines 126 and 148).         *)
TimerCoversBatch ==
  items # <<>> => deadline # "off" /\ armedFor = Head(items)

(* Neither source starves the other: while a record waits in a channel, at   *)
(* most two of the other source are taken, one of them by a poll that found  *)
(* the channel empty just before the record came (main.rs line 144).         *)
MergeIsFair == \A k \in Kinds : passed[k] <= 2

OfKind(k, s) == Among(s, {r \in Records : r.kind = k})

Pending == [k \in Kinds |-> OfKind(k, chunk) \o OfKind(k, items) \o chan[k]]

Promise == INSTANCE Relay WITH
  pending <- Pending,
  up <- pc # "ended",
  Capacity <- ChanCap + BatchSize

(* Every accepted record is settled once, in its source's order, in batches  *)
(* stored whole or not at all, without the documents that were not valid;    *)
(* and only so many wait that the senders are held back (main.rs 135-215).   *)
ImplementsRelay == Promise!Spec

InFlight(k, n) ==
  \E s \in {chan[k], items, chunk} : \E i \in DOMAIN s : s[i].kind = k /\ s[i].n = n

(* No accepted record stays in the loop: it is posted or skipped, although   *)
(* it may be alone in its batch and no further record ever comes (main.rs    *)
(* lines 126 and 148).                                                       *)
EveryRecordSettled ==
  \A k \in Kinds, n \in 1 .. MaxSent : InFlight(k, n) ~> ~InFlight(k, n)

(* When both receive loops are gone the ingest loop ends, which is what      *)
(* shuts the server down (main.rs lines 149, 214 and 371-375).               *)
EndsWithSenders == (\A k \in Kinds : closed[k]) ~> pc = "ended"
=============================================================================
